------------------------------ MODULE Umalloc ------------------------------
(***************************************************************************)
(* The allocator of the user programs (user/umalloc.c).  Addresses count   *)
(* headers (16 bytes): base is at address 0, in the program's data, and    *)
(* the heap starts above it.  hdr holds the headers of the blocks there    *)
(* are: the header of a block that is merged into another is forgotten, and *)
(* so is the link of a block in use, since the code never reads them.      *)
(* live is what the callers hold, by the address of its header.  A caller  *)
(* frees what it holds, once.                                              *)
(***************************************************************************)
EXTENDS Integers, FiniteSets

CONSTANTS HEAP,     \* the first address of the heap
          LIMIT,    \* sbrk() refuses to pass it
          CHUNK,    \* the 4096 of morecore()
          HEADER,   \* sizeof(Header)
          SIZES     \* the sizes the callers ask for, in bytes

ASSUME UmallocAssumption ==
  /\ HEAP \in Nat \ {0, 1} /\ LIMIT \in Nat /\ HEAP <= LIMIT
  /\ CHUNK \in Nat \ {0} /\ HEADER \in Nat \ {0} /\ SIZES \subseteq Nat

VARIABLES hdr, freep, brk, live
uvars == <<hdr, freep, brk, live>>

base == 0
Null == -1
H == [hdr |-> hdr, freep |-> freep, brk |-> brk]

UInit ==
  /\ hdr = [a \in {base} |-> [ptr |-> Null, size |-> 0]]
  /\ freep = Null /\ brk = HEAP /\ live = [a \in {} |-> 0]

Ptr(h, p) == h.hdr[p].ptr
Size(h, p) == h.hdr[p].size
Put(h, p, q, n) == [h EXCEPT !.hdr = [a \in DOMAIN h.hdr \cup {p} |->
                       IF a = p THEN [ptr |-> q, size |-> n] ELSE h.hdr[a]]]
Forget(h, p) == [h EXCEPT !.hdr = [a \in DOMAIN h.hdr \ {p} |-> h.hdr[a]]]

\* the loop at the head of free(): the element after which bp belongs
RECURSIVE Place(_, _, _)
Place(h, bp, p) ==
  LET q == Ptr(h, p) IN
  IF (bp > p /\ bp < q) \/ (p >= q /\ (bp > p \/ bp < q)) THEN p
  ELSE Place(h, bp, q)

\* bp between p and what follows it, merged with the block above, and below
JoinUp(h, bp, q) ==
  IF bp + Size(h, bp) = q THEN Forget(Put(h, bp, Ptr(h, q), Size(h, bp) + Size(h, q)), q)
  ELSE Put(h, bp, q, Size(h, bp))
JoinDown(h, p, bp) ==
  IF p + Size(h, p) = bp THEN Forget(Put(h, p, Ptr(h, bp), Size(h, p) + Size(h, bp)), bp)
  ELSE Put(h, p, bp, Size(h, p))

freeApart(h, bp) ==          \* the block below is never merged
  LET after(p) == [Put(JoinUp(h, bp, Ptr(h, p)), p, bp, Size(h, p)) EXCEPT !.freep = p]
  IN after(Place(h, bp, h.freep))

free(h, bp) ==
  LET after(p) == [JoinDown(JoinUp(h, bp, Ptr(h, p)), p, bp) EXCEPT !.freep = p]
  IN after(Place(h, bp, h.freep))

morecore(h, nu) ==
  LET n == IF nu < CHUNK THEN CHUNK ELSE nu
  IN free([Put(h, h.brk, Null, n) EXCEPT !.brk = @ + n], h.brk)

CanGrow(h, nu) == h.brk + (IF nu < CHUNK THEN CHUNK ELSE nu) <= LIMIT

nunits(nbytes) == (nbytes + HEADER - 1) \div HEADER + 1

\* the rest of malloc() once p, behind prevp, is large enough: the tail of
\* the block is handed out, or all of it
Take(h, prevp, p, nu) ==
  LET rest == Size(h, p) - nu
      h1 == IF rest = 0
            THEN Put(Put(h, prevp, Ptr(h, p), Size(h, prevp)), p, Null, nu)
            ELSE Put(Put(h, p, Ptr(h, p), rest), p + rest, Null, nu)
  IN [heap |-> [h1 EXCEPT !.freep = prevp], got |-> p + rest]

\* the loop of malloc(): got is the header of the block, Null when sbrk() fails
RECURSIVE Search(_, _, _, _)
Search(h, prevp, p, nu) ==
  LET again(h1) == Search(h1, h1.freep, Ptr(h1, h1.freep), nu)
  IN IF Size(h, p) >= nu THEN Take(h, prevp, p, nu)
     ELSE IF p # h.freep THEN Search(h, p, Ptr(h, p), nu)
     ELSE IF ~CanGrow(h, nu) THEN [heap |-> h, got |-> Null]
     ELSE again(morecore(h, nu))

malloc(h, nbytes) ==
  LET from(h1) == Search(h1, h1.freep, Ptr(h1, h1.freep), nunits(nbytes))
  IN from(IF h.freep = Null THEN [Put(h, base, base, 0) EXCEPT !.freep = base] ELSE h)

Becomes(h) == hdr' = h.hdr /\ freep' = h.freep /\ brk' = h.brk

Malloc(nbytes) ==
  LET returns(r) ==
        /\ Becomes(r.heap)
        /\ live' = IF r.got = Null THEN live
                   ELSE [a \in DOMAIN live \cup {r.got} |-> IF a = r.got THEN nbytes ELSE live[a]]
  IN returns(malloc(H, nbytes))

Free(bp) ==
  /\ bp \in DOMAIN live
  /\ Becomes(free(H, bp))
  /\ live' = [a \in DOMAIN live \ {bp} |-> live[a]]

UNext == (\E n \in SIZES : Malloc(n)) \/ (\E bp \in DOMAIN live : Free(bp))

-----------------------------------------------------------------------------
\* The elements of the free list, base left out.
RECURSIVE Upto(_, _)
Upto(p, seen) == IF p \in seen \/ p \notin DOMAIN hdr THEN seen
                 ELSE Upto(hdr[p].ptr, seen \cup {p})
OnFreeList == IF freep = Null THEN {} ELSE Upto(base, {}) \ {base}
Units(b) == b .. (b + hdr[b].size - 1)

\* Every block that malloc() handed out has room for what was asked, next to
\* its header.
RoomForAll == \A b \in DOMAIN live : (hdr[b].size - 1) * HEADER >= live[b]

\* malloc(), free() and morecore() share out the heap: the blocks in use and
\* the blocks on the free list never overlap, and together they are all the
\* memory sbrk() ever gave, so nothing is handed out twice and nothing is lost.
HeapShared ==
  LET blocks == DOMAIN live \cup OnFreeList IN
  /\ DOMAIN live \cap OnFreeList = {}
  /\ UNION {Units(b) : b \in blocks} = HEAP .. (brk - 1)
  /\ \A b, c \in blocks : b # c => Units(b) \cap Units(c) = {}

\* free() keeps the list circular and in address order, through base and
\* whatever freep points to, and merges neighbours: no free block ends where
\* another starts.
FreeListOrdered ==
  freep # Null =>
    /\ freep \in OnFreeList \cup {base}
    /\ \A p \in OnFreeList \cup {base} :
         LET higher == {q \in OnFreeList : q > p} IN
         /\ hdr[p].ptr = (IF higher = {} THEN base
                          ELSE CHOOSE q \in higher : \A r \in higher : q <= r)
         /\ hdr[p].size > 0 => p + hdr[p].size \notin OnFreeList
=============================================================================
