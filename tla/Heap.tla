-------------------------------- MODULE Heap --------------------------------
(***************************************************************************)
(* The memory manager of mm/ (malloc, free, realloc, memalign), the        *)
(* semaphore that serialises it (mm_sem.c), and the deallocations the OS   *)
(* delays because it cannot wait for that semaphore (sched_free.c,         *)
(* sched_garbage.c).                                                       *)
(*                                                                         *)
(* Memory is counted in units of SIZEOF_MM_ALLOCNODE = 8 bytes, the large  *)
(* memory model with 32-bit pointers.  A unit holds the header of a chunk, *)
(* the links of a free chunk, a unit of a block's data, or nothing that is *)
(* ever read.  The free lists are sequences instead of doubly linked lists *)
(* with heads of size zero.                                                *)
(*                                                                         *)
(* A function of the allocator is one step between its mm_takesemaphore    *)
(* and its mm_givesemaphore; memalign and realloc have several.            *)
(***************************************************************************)
EXTENDS Integers, Sequences, FiniteSets, SequencesExt

CONSTANTS
    Thread,     \* the threads that allocate and free, and that collect garbage
    NoThread,   \* g_holder is -1
    Handle,     \* names of the blocks the threads own
    NoBlock,    \* a name that is not in use
    Busy,       \* a name whose block a thread in the allocator has
    Lengths,    \* sizes asked of malloc and realloc
    Aligned,    \* sizes asked of memalign
    Alignments, \* the alignments asked of memalign
    HeapBase,   \* g_heapstart, aligned to the granule
    HeapSize,   \* g_heapsize
    MaxShift,   \* MM_MAX_SHIFT, counted in units: MM_MAX_CHUNK = 2^MaxShift
    DelayBound  \* a bound on the length of g_delayeddeallocations

ALLOCNODE == 1
FREENODE == 2
MIN_CHUNK == 2

ASSUME HeapAssumption ==
    /\ HeapBase \in Nat /\ HeapBase % MIN_CHUNK = 0 /\ HeapSize % MIN_CHUNK = 0
    /\ HeapSize >= 2 * ALLOCNODE + FREENODE
    /\ MaxShift \in Nat \ {0}
    /\ \A align \in Alignments : \E k \in 0..8 : align = 2^k
    /\ \A n \in Lengths \cup Aligned : n > 0

VARIABLES
    mem,        \* what every unit of the heap holds
    nodelist,   \* g_nodelist: the free chunks, by size class, in order
    holder,     \* g_holder; g_mm_semaphore is 1 when there is none
    counts,     \* g_counts_held
    blocks,     \* the blocks the threads own, by name
    delayed,    \* g_delayeddeallocations
    pc,         \* where every thread is, with its arguments
    broken      \* a free chunk too small for its links has been made

vars == <<mem, nodelist, holder, counts, blocks, delayed, pc, broken>>

-----------------------------------------------------------------------------
\* What a unit of memory holds

Header(size, preceding, alloc) ==
    [is |-> "head", size |-> size, preceding |-> preceding, alloc |-> alloc]
Links == [is |-> "link"]
Junk == [is |-> "junk"]
Data(h, i) == [is |-> "data", h |-> h, i |-> i]

Wipe(m, S) == [u \in DOMAIN m |-> IF u \in S THEN Junk ELSE m[u]]
NextChunk(m, a) == a + m[a].size
PrevChunk(m, a) == a - m[a].preceding

AlignUp(n) == ((n + MIN_CHUNK - 1) \div MIN_CHUNK) * MIN_CHUNK

\* The size class of a chunk: the logarithm of its size in granules, bounded.
size2ndx(size) ==
    IF size >= 2^MaxShift
    THEN MaxShift - 1
    ELSE Cardinality({k \in 1..MaxShift : 2^k <= size \div MIN_CHUNK})

-----------------------------------------------------------------------------
\* Operations on the heap proper, [m |-> memory, l |-> free lists]

Unlink(hp, a) ==
    [hp EXCEPT !.l = [k \in DOMAIN hp.l |-> SelectSeq(hp.l[k], LAMBDA b : b # a)]]

\* The chunk goes before the first chunk of its class that is not smaller.
Place(l, m, a) ==
    LET i == SelectInSeq(l, LAMBDA b : m[b].size >= m[a].size)
    IN IF i = 0 THEN Len(l) + 1 ELSE i

mm_addfreechunk(hp, a) ==
    LET k == size2ndx(hp.m[a].size) IN
    [m |-> [hp.m EXCEPT ![a + ALLOCNODE] = Links],
     l |-> [hp.l EXCEPT ![k] = InsertAt(@, Place(@, hp.m, a), a)]]

\* Makes the free chunk at b of size n, whose preceding chunk has size p.
NewFree(hp, b, n, p) ==
    mm_addfreechunk([hp EXCEPT !.m[b] = Header(n, p, FALSE),
                               !.m[b + n].preceding = n], b)

\* The first chunk that is large enough, from the list of the size's class on.
Fits(hp, size) ==
    LET first == size2ndx(size)
        walk == FlattenSeq([k \in 1..(MaxShift - first) |-> hp.l[first + k - 1]])
    IN SelectSeq(walk, LAMBDA a : hp.m[a].size >= size)

\* What malloc does to the chunk it has found.
Allocate(hp, a, size) ==
    LET out == Unlink(hp, a)
        n == hp.m[a].size
        bare == [out EXCEPT !.m[a + ALLOCNODE] = Junk]
        split == NewFree([bare EXCEPT !.m[a].size = size], a + size, n - size, size)
    IN IF n - size >= FREENODE
       THEN [split EXCEPT !.m[a].alloc = TRUE]
       ELSE [bare EXCEPT !.m[a].alloc = TRUE]

\* A mutant of Absorb: the chunk after the joined ones keeps the old size.
Absorb_Stale(hp, a, b) ==
    LET n == hp.m[a].size + hp.m[b].size
        out == Unlink(hp, b)
    IN [out EXCEPT !.m = [Wipe(@, {b, b + ALLOCNODE}) EXCEPT ![a].size = n]]

\* The free chunk at b, after the chunk at a, becomes part of it.
Absorb(hp, a, b) ==
    LET n == hp.m[a].size + hp.m[b].size
        out == Unlink(hp, b)
    IN [out EXCEPT !.m = [Wipe(@, {b, b + ALLOCNODE}) EXCEPT
                            ![a].size = n, ![a + n].preceding = n]]

\* free: the chunk joins the free chunks around it.
Release(hp, a) ==
    LET body == (a + ALLOCNODE)..(a + hp.m[a].size - 1)
        dead == [hp EXCEPT !.m = [Wipe(@, body) EXCEPT ![a].alloc = FALSE]]
        next == NextChunk(hp.m, a)
        one == IF hp.m[next].alloc THEN dead ELSE Absorb(dead, a, next)
        prev == PrevChunk(hp.m, a)
        joined == Unlink(one, prev)
        n == one.m[prev].size + one.m[a].size
        two == [joined EXCEPT !.m = [Wipe(@, {a}) EXCEPT
                                       ![prev].size = n, ![prev + n].preceding = n]]
    IN IF hp.m[prev].alloc
       THEN mm_addfreechunk(one, a)
       ELSE mm_addfreechunk(two, prev)

mm_shrinkchunk(hp, a, size) ==
    LET n == hp.m[a].size
        next == NextChunk(hp.m, a)
        cut == [hp EXCEPT !.m = [Wipe(@, (a + size)..(a + n - 1)) EXCEPT ![a].size = size]]
        more == Unlink(cut, next)
        bare == [more EXCEPT !.m = Wipe(@, {next, next + ALLOCNODE})]
    IN IF ~hp.m[next].alloc
       THEN NewFree(bare, a + size, hp.m[next].size + n - size, size)
       ELSE IF n >= size + FREENODE THEN NewFree(cut, a + size, n - size, size) ELSE hp

\* How much realloc takes of the free chunks before and after the block: from the
\* smaller of the two first.
Takes(needed, prevsize, nextsize) ==
    IF prevsize > 0 /\ (nextsize >= prevsize \/ nextsize <= 0)
    THEN IF needed > prevsize
         THEN [prev |-> prevsize, next |-> needed - prevsize]
         ELSE [prev |-> needed, next |-> 0]
    ELSE IF needed > nextsize
         THEN [prev |-> needed - nextsize, next |-> nextsize]
         ELSE [prev |-> 0, next |-> needed]

\* The size of a neighbour, when it is free.
FreeSize(m, b) == IF m[b].alloc THEN 0 ELSE m[b].size

\* A mutant of GrowDown: the data stay where they were.
GrowDown_NotCopied(hp, a, take) ==
    LET prev == PrevChunk(hp.m, a)
        next == NextChunk(hp.m, a)
        left == hp.m[prev].size - take
        new == a - take
        n == hp.m[a].size + take
        out == [Unlink(hp, prev) EXCEPT !.m = [Wipe(@, {new + 1, a}) EXCEPT ![next].preceding = n]]
    IN IF take < hp.m[prev].size
       THEN mm_addfreechunk([out EXCEPT !.m = [@ EXCEPT ![prev].size = left,
                                                      ![new] = Header(n, left, TRUE)]], prev)
       ELSE [out EXCEPT !.m[prev] = Header(n, hp.m[prev].preceding, TRUE)]

\* The block at a moves down into the free chunk before it.  memcpy copies
\* forward, so the overlap does no harm; what it reads past the old block is junk.
GrowDown(hp, a, take) ==
    LET prev == PrevChunk(hp.m, a)
        next == NextChunk(hp.m, a)
        left == hp.m[prev].size - take
        new == a - take
        n == hp.m[a].size + take
        moved == [u \in DOMAIN hp.m |->
                    IF u \in (new + 1)..(next - 1)
                    THEN IF u + take < next THEN hp.m[u + take] ELSE Junk
                    ELSE hp.m[u]]
        out == [Unlink(hp, prev) EXCEPT !.m = [moved EXCEPT ![next].preceding = n]]
    IN IF take < hp.m[prev].size
       THEN mm_addfreechunk([out EXCEPT !.m = [@ EXCEPT ![prev].size = left,
                                                      ![new] = Header(n, left, TRUE)]], prev)
       ELSE [out EXCEPT !.m[prev] = Header(n, hp.m[prev].preceding, TRUE)]

\* The block at a takes the start of the free chunk after it.
GrowUp(hp, a, take) ==
    LET next == NextChunk(hp.m, a)
        left == hp.m[next].size - take
        size == hp.m[a].size + take
        out == Unlink(hp, next)
        bare == [out EXCEPT !.m = [Wipe(@, {next, next + ALLOCNODE}) EXCEPT ![a].size = size]]
    IN IF take < hp.m[next].size
       THEN NewFree(bare, a + size, left, size)
       ELSE [bare EXCEPT !.m[a + size].preceding = size]

\* memalign: the chunk that holds the aligned block, and the chunk before it freed.
AlignedChunk(raw, align) ==
    LET up == ((raw + align - 1) \div align) * align
    IN IF up # raw /\ up - raw < FREENODE THEN up + align ELSE up

CutBefore(hp, a, new) ==
    LET n == NextChunk(hp.m, a) - new
        cut == [hp.m EXCEPT ![new] = Header(n, new - a, TRUE),
                            ![a] = Header(new - a, hp.m[a].preceding, FALSE),
                            ![NextChunk(hp.m, a)].preceding = n]
    IN mm_addfreechunk([hp EXCEPT !.m = cut], a)

-----------------------------------------------------------------------------
\* mm_initialize, which calls mm_addregion once: a free chunk between two guards
HeapEnd == HeapBase + HeapSize - ALLOCNODE
FirstFree == HeapBase + ALLOCNODE
AllFree == HeapSize - 2 * ALLOCNODE

Init ==
    /\ mem = [u \in HeapBase..HeapEnd |->
                CASE u = HeapBase -> Header(ALLOCNODE, 0, TRUE)
                  [] u = FirstFree -> Header(AllFree, ALLOCNODE, FALSE)
                  [] u = FirstFree + ALLOCNODE -> Links
                  [] u = HeapEnd -> Header(ALLOCNODE, AllFree, TRUE)
                  [] OTHER -> Junk]
    /\ nodelist = [k \in 0..(MaxShift - 1) |->
                     IF k = size2ndx(AllFree) THEN <<FirstFree>> ELSE <<>>]
    /\ holder = NoThread /\ counts = 0
    /\ blocks = [h \in Handle |-> NoBlock]
    /\ delayed = <<>>
    /\ pc = [t \in Thread |-> [at |-> "user"]]
    /\ broken = FALSE

-----------------------------------------------------------------------------
\* The semaphore.  Its waiters retry when a signal interrupts them, so that only
\* its value matters here.

Section == {"malloc", "free", "realloc", "align"}

mm_takesemaphore(t) ==
    /\ ~broken /\ pc[t].at \in Section /\ ~pc[t].in
    /\ \/ holder = t /\ counts' = counts + 1
       \/ holder = NoThread /\ counts' = 1
    /\ holder' = t
    /\ pc' = [pc EXCEPT ![t].in = TRUE]
    /\ UNCHANGED <<mem, nodelist, blocks, delayed, broken>>

mm_givesemaphore(t) ==
    IF counts > 1
    THEN counts' = counts - 1 /\ holder' = holder
    ELSE counts' = 0 /\ holder' = NoThread

Inside(t, section) == ~broken /\ pc[t].at = section /\ pc[t].in
Heap == [m |-> mem, l |-> nodelist]
Becomes(hp) == mem' = hp.m /\ nodelist' = hp.l
Goto(t, place) == pc' = [pc EXCEPT ![t] = place]
User == [at |-> "user"]

-----------------------------------------------------------------------------
\* What the threads do with a block they own: they fill it.

Settle(m, h, ptr, old, new) ==
    [u \in DOMAIN m |->
        CASE u - ptr \in old..(new - 1) -> Data(h, u - ptr)
          [] u - ptr \in new..(old - 1) /\ m[u].is = "data" -> Junk
          [] OTHER -> m[u]]

Block(ptr, len, align) == [ptr |-> ptr, len |-> len, align |-> align]
Owns(h) == blocks[h] \notin {NoBlock, Busy}
Calls(t) == ~broken /\ pc[t].at = "user"

\* A call, up to the first mm_takesemaphore: a thread does nothing else that others
\* see before it has the semaphore.
Enter(t, place) == holder = NoThread /\ holder' = t /\ counts' = 1 /\ Goto(t, place)

\* The section of malloc, which is asked for `arg'; for the block h, of length n and
\* aligned to `align'.
Mallocs(caller, h, n, align, arg) ==
    [at |-> "malloc", in |-> TRUE, for |-> caller, h |-> h, len |-> n, align |-> align,
     arg |-> arg]

NewBlock(t, h, place) ==
    /\ Calls(t) /\ blocks[h] = NoBlock
    /\ Enter(t, place)
    /\ blocks' = [blocks EXCEPT ![h] = Busy]
    /\ UNCHANGED <<mem, nodelist, delayed, broken>>

malloc(t, h, n) == NewBlock(t, h, Mallocs("malloc", h, n, 1, n))

\* An alignment up to the granule is left to malloc.
memalign(t, h, n, align) ==
    NewBlock(t, h, IF align <= MIN_CHUNK
                   THEN Mallocs("malloc", h, n, align, n)
                   ELSE Mallocs("memalign", h, n, align, AlignUp(n) + 2 * align))

realloc(t, h, n) ==
    /\ Calls(t) /\ Owns(h)
    /\ Enter(t, [at |-> "realloc", in |-> TRUE, h |-> h, len |-> n, old |-> blocks[h]])
    /\ blocks' = [blocks EXCEPT ![h] = Busy]
    /\ UNCHANGED <<mem, nodelist, delayed, broken>>

Freeing(ptr, then) == [at |-> "free", in |-> FALSE, ptr |-> ptr, then |-> then]

free(t, h) ==
    /\ Calls(t) /\ Owns(h)
    /\ Enter(t, [Freeing(blocks[h].ptr, User) EXCEPT !.in = TRUE])
    /\ blocks' = [blocks EXCEPT ![h] = NoBlock]
    /\ UNCHANGED <<mem, nodelist, delayed, broken>>

-----------------------------------------------------------------------------
\* The sections

Found(t) == Fits(Heap, AlignUp(pc[t].arg + ALLOCNODE))
Allocated(t, a) == Allocate(Heap, a, AlignUp(pc[t].arg + ALLOCNODE))

\* malloc returns its block.
MallocReturns(t) ==
    /\ Inside(t, "malloc") /\ pc[t].for = "malloc" /\ Found(t) # <<>>
    /\ LET a == Head(Found(t))
           ptr == a + ALLOCNODE
           hp == Allocated(t, a)
       IN /\ Becomes([hp EXCEPT !.m = Settle(@, pc[t].h, ptr, 0, pc[t].len)])
          /\ blocks' = [blocks EXCEPT ![pc[t].h] = Block(ptr, pc[t].len, pc[t].align)]
    /\ mm_givesemaphore(t) /\ Goto(t, User)
    /\ UNCHANGED <<delayed, broken>>

\* malloc returns the raw chunk to memalign, which has yet to take the semaphore.
MallocAligns(t) ==
    /\ Inside(t, "malloc") /\ pc[t].for = "memalign" /\ Found(t) # <<>>
    /\ Becomes(Allocated(t, Head(Found(t))))
    /\ mm_givesemaphore(t)
    /\ Goto(t, [at |-> "align", in |-> FALSE, h |-> pc[t].h, len |-> pc[t].len,
                align |-> pc[t].align, ptr |-> Head(Found(t)) + ALLOCNODE])
    /\ UNCHANGED <<blocks, delayed, broken>>

\* malloc returns a new block to realloc, which copies the old one to it, and has
\* yet to free the old one.  The copy is as long as the old chunk: its last unit is
\* what follows the chunk, and junk to the new block, which is larger.
MallocMoves(t) ==
    /\ Inside(t, "malloc") /\ pc[t].for = "realloc" /\ Found(t) # <<>>
    /\ LET a == Head(Found(t))
           ptr == a + ALLOCNODE
           hp == Allocated(t, a)
           old == pc[t].old
           body == pc[t].size - ALLOCNODE
           copy == [u \in DOMAIN mem |->
                      CASE u - ptr \in 0..(body - 1) -> hp.m[old.ptr + u - ptr]
                        [] u - ptr \in body..(pc[t].size - 1) -> Junk
                        [] OTHER -> hp.m[u]]
       IN /\ Becomes([hp EXCEPT !.m = copy])
          /\ Goto(t, Freeing(old.ptr, [at |-> "moved", h |-> pc[t].h, len |-> pc[t].len,
                                       old |-> old.len, ptr |-> ptr]))
    /\ mm_givesemaphore(t)
    /\ UNCHANGED <<blocks, delayed, broken>>

\* There is no chunk: malloc, memalign or realloc returns NULL, and realloc's
\* caller still has the old block.
MallocFails(t) ==
    /\ Inside(t, "malloc") /\ Found(t) = <<>>
    /\ blocks' = [blocks EXCEPT ![pc[t].h] = IF pc[t].for = "realloc" THEN pc[t].old ELSE NoBlock]
    /\ mm_givesemaphore(t) /\ Goto(t, User)
    /\ UNCHANGED <<mem, nodelist, delayed, broken>>

\* The sections of free: for free itself, realloc, sched_free and the collector.
FreeReleases(t) ==
    /\ Inside(t, "free")
    /\ Becomes(Release(Heap, pc[t].ptr - ALLOCNODE))
    /\ mm_givesemaphore(t) /\ Goto(t, pc[t].then)
    /\ UNCHANGED <<blocks, delayed, broken>>

Owned(h, hp, ptr, old, len) ==
    /\ Becomes([hp EXCEPT !.m = Settle(@, h, ptr, old, len)])
    /\ blocks' = [blocks EXCEPT ![h] = Block(ptr, len, 1)]

ReallocMoved(t) ==
    /\ ~broken /\ pc[t].at = "moved"
    /\ Owned(pc[t].h, Heap, pc[t].ptr, pc[t].old, pc[t].len)
    /\ Goto(t, User)
    /\ UNCHANGED <<holder, counts, delayed, broken>>

\* The chunk of the block realloc was given, and the size it is to have.
OldNode(t) == pc[t].old.ptr - ALLOCNODE
NewSize(t) == AlignUp(pc[t].len + ALLOCNODE)
PrevSize(t) == FreeSize(mem, PrevChunk(mem, OldNode(t)))
NextSize(t) == FreeSize(mem, NextChunk(mem, OldNode(t)))
Room(t) == PrevSize(t) + NextSize(t) + mem[OldNode(t)].size
Take(t) == Takes(NewSize(t) - mem[OldNode(t)].size, PrevSize(t), NextSize(t))

\* What realloc leaves of a free chunk does not hold the links of a free chunk.
Splinter(t) ==
    \/ Take(t).prev > 0 /\ PrevSize(t) - Take(t).prev \in 1..(FREENODE - 1)
    \/ Take(t).next > 0 /\ NextSize(t) - Take(t).next \in 1..(FREENODE - 1)

ReallocShrinks(t) ==
    /\ Inside(t, "realloc") /\ NewSize(t) <= mem[OldNode(t)].size
    /\ LET hp == IF NewSize(t) < mem[OldNode(t)].size
                 THEN mm_shrinkchunk(Heap, OldNode(t), NewSize(t))
                 ELSE Heap
       IN Owned(pc[t].h, hp, pc[t].old.ptr, pc[t].old.len, pc[t].len)
    /\ mm_givesemaphore(t) /\ Goto(t, User)
    /\ UNCHANGED <<delayed, broken>>

ReallocGrows(t) ==
    /\ Inside(t, "realloc") /\ NewSize(t) > mem[OldNode(t)].size /\ Room(t) >= NewSize(t)
    /\ ~Splinter(t)
    /\ LET take == Take(t)
           down == IF take.prev > 0 THEN GrowDown(Heap, OldNode(t), take.prev) ELSE Heap
           a == OldNode(t) - take.prev
           hp == IF take.next > 0 THEN GrowUp(down, a, take.next) ELSE down
       IN Owned(pc[t].h, hp, a + ALLOCNODE, pc[t].old.len, pc[t].len)
    /\ mm_givesemaphore(t) /\ Goto(t, User)
    /\ UNCHANGED <<delayed, broken>>

\* The links of the splinter overwrite the header after it, and realloc goes on with
\* what it reads there: behaviours end here, before the damage.
ReallocBreaks(t) ==
    /\ Inside(t, "realloc") /\ NewSize(t) > mem[OldNode(t)].size /\ Room(t) >= NewSize(t)
    /\ Splinter(t)
    /\ broken' = TRUE
    /\ UNCHANGED <<mem, nodelist, holder, counts, blocks, delayed, pc>>

\* The block cannot grow in place.  The size given to malloc is a chunk's size.
ReallocMoves(t) ==
    /\ Inside(t, "realloc") /\ Room(t) < NewSize(t)
    /\ mm_givesemaphore(t)
    /\ Goto(t, [at |-> "malloc", in |-> FALSE, for |-> "realloc", h |-> pc[t].h,
                len |-> pc[t].len, arg |-> NewSize(t), old |-> pc[t].old,
                size |-> mem[OldNode(t)].size])
    /\ UNCHANGED <<mem, nodelist, blocks, delayed, broken>>

\* The second section of memalign: it frees what is before the aligned block, and
\* what is after it.
MemalignCuts(t) ==
    /\ Inside(t, "align")
    /\ LET raw == pc[t].ptr
           align == pc[t].align
           up == AlignedChunk(raw, align)
           cut == IF up # raw THEN CutBefore(Heap, raw - ALLOCNODE, up - ALLOCNODE) ELSE Heap
           size == AlignUp(pc[t].len)
           allocsize == IF up # raw THEN cut.m[up - ALLOCNODE].size - ALLOCNODE
                                    ELSE size + 2 * align
           hp == IF allocsize > size
                 THEN mm_shrinkchunk(cut, up - ALLOCNODE, size + ALLOCNODE) ELSE cut
       IN /\ Becomes([hp EXCEPT !.m = Settle(@, pc[t].h, up, 0, pc[t].len)])
          /\ blocks' = [blocks EXCEPT ![pc[t].h] = Block(up, pc[t].len, align)]
    /\ mm_givesemaphore(t) /\ Goto(t, User)
    /\ UNCHANGED <<delayed, broken>>

-----------------------------------------------------------------------------
\* Deallocations by the OS

\* sq_addlast links the block into the queue through its own first unit.
Delay(h) ==
    LET ptr == blocks[h].ptr IN
    /\ Len(delayed) < DelayBound
    /\ delayed' = Append(delayed, ptr)
    /\ mem' = [Wipe(mem, ptr..(ptr + blocks[h].len - 1)) EXCEPT ![ptr] = Links]
    /\ blocks' = [blocks EXCEPT ![h] = NoBlock]
    /\ UNCHANGED <<nodelist, holder, counts, pc, broken>>

\* sched_free from an interrupt handler, or when another thread has the semaphore.
InterruptFree(h) == ~broken /\ Owns(h) /\ Delay(h)
sched_free(t, h) == Calls(t) /\ Owns(h) /\ holder # NoThread /\ Delay(h)

\* sched_free gets the semaphore, frees (which takes it again) and gives it back.
SchedFreeTakes(t, h) ==
    /\ Calls(t) /\ Owns(h) /\ holder = NoThread
    /\ holder' = t /\ counts' = 1
    /\ Goto(t, Freeing(blocks[h].ptr, [at |-> "give"]))
    /\ blocks' = [blocks EXCEPT ![h] = NoBlock]
    /\ UNCHANGED <<mem, nodelist, delayed, broken>>

SchedFreeGives(t) ==
    /\ ~broken /\ pc[t].at = "give"
    /\ mm_givesemaphore(t) /\ Goto(t, User)
    /\ UNCHANGED <<mem, nodelist, blocks, delayed, broken>>

\* A mutant of Collects: the block stays at the head of the queue while it is freed.
Collects_Peeks(t) ==
    /\ ~broken /\ pc[t].at = "collect"
    /\ IF delayed = <<>>
       THEN Goto(t, User)
       ELSE Goto(t, Freeing(Head(delayed), [at |-> "collect"]))
    /\ UNCHANGED <<mem, nodelist, holder, counts, blocks, delayed, broken>>

\* The loop of sched_garbagecollection.  Another collector may empty the queue.
sched_garbagecollection(t) ==
    /\ Calls(t) /\ delayed # <<>>
    /\ Goto(t, [at |-> "collect"])
    /\ UNCHANGED <<mem, nodelist, holder, counts, blocks, delayed, broken>>

Collects(t) ==
    /\ ~broken /\ pc[t].at = "collect"
    /\ IF delayed = <<>>
       THEN Goto(t, User) /\ UNCHANGED delayed
       ELSE /\ delayed' = Tail(delayed)
            /\ Goto(t, Freeing(Head(delayed), [at |-> "collect"]))
    /\ UNCHANGED <<mem, nodelist, holder, counts, blocks, broken>>

-----------------------------------------------------------------------------
Next ==
    \/ \E h \in Handle : InterruptFree(h)
    \/ \E t \in Thread :
        \/ mm_takesemaphore(t)
        \/ MallocReturns(t) \/ MallocAligns(t) \/ MallocMoves(t) \/ MallocFails(t)
        \/ FreeReleases(t) \/ MemalignCuts(t)
        \/ ReallocShrinks(t) \/ ReallocGrows(t) \/ ReallocBreaks(t)
        \/ ReallocMoves(t) \/ ReallocMoved(t)
        \/ SchedFreeGives(t) \/ sched_garbagecollection(t) \/ Collects(t)
        \/ \E h \in Handle :
            \/ free(t, h) \/ sched_free(t, h) \/ SchedFreeTakes(t, h)
            \/ \E n \in Lengths : malloc(t, h, n) \/ realloc(t, h, n)
            \/ \E n \in Aligned, align \in Alignments : memalign(t, h, n, align)

Spec == Init /\ [][Next]_vars

-----------------------------------------------------------------------------
IsChunk(u) == mem[u].is = "head"
Chunks == {u \in DOMAIN mem : IsChunk(u)}

\* The headers divide the heap from its first to its last chunk: every chunk ends
\* where the next begins and knows the size of the one before, and the free lists
\* hold every free chunk once, in the list of its size class and by size.
HeapTiled ==
    /\ HeapBase \in Chunks /\ HeapEnd \in Chunks
    /\ \A a \in Chunks \ {HeapEnd} :
        LET b == a + mem[a].size IN
        /\ b \in Chunks /\ mem[b].preceding = mem[a].size
        /\ Chunks \cap (a + 1)..(b - 1) = {}
        /\ mem[a].alloc \/ mem[a + ALLOCNODE] = Links
    /\ \A k \in DOMAIN nodelist :
        /\ \A i \in 2..Len(nodelist[k]) :
            mem[nodelist[k][i - 1]].size <= mem[nodelist[k][i]].size
        /\ {nodelist[k][i] : i \in 1..Len(nodelist[k])} =
              {a \in Chunks : ~mem[a].alloc /\ size2ndx(mem[a].size) = k}
        /\ IsInjective(nodelist[k])

\* A block keeps what its owner wrote to it, whatever the others allocate and free
\* and wherever realloc moves it; and a block for which memalign was asked for more
\* than the granule has that alignment.
ContentsKept ==
    \A h \in Handle : Owns(h) =>
        /\ \A i \in 0..(blocks[h].len - 1) : mem[blocks[h].ptr + i] = Data(h, i)
        /\ blocks[h].align > MIN_CHUNK => blocks[h].ptr % blocks[h].align = 0

\* A block has the alignment that memalign was asked for, whatever it is: up to
\* MM_MIN_CHUNK, malloc is taken to have it by itself ("less than or equal to the
\* natural alignment of malloc", mm_memalign.c).
MemalignAligns ==
    \A h \in Handle : Owns(h) => blocks[h].ptr % blocks[h].align = 0

\* Every free chunk holds the links of a free chunk: the smallest chunk of the
\* allocator "must be at least a large as sizeof(struct mm_freenode_s)"
\* (mm_internal.h).
FreeChunksHoldLinks == ~broken

\* The blocks that somebody is to free: an owner, a thread in the allocator, or the
\* garbage collector.
Held ==
    {blocks[h].ptr : h \in {g \in Handle : Owns(g)}}
    \cup {delayed[i] : i \in 1..Len(delayed)}
    \cup {pc[t].ptr : t \in {s \in Thread : "ptr" \in DOMAIN pc[s]}}
    \cup {pc[t].then.ptr : t \in {s \in Thread : pc[s].at = "free" /\ "ptr" \in DOMAIN pc[s].then}}
    \cup {pc[t].old.ptr : t \in {s \in Thread :
              pc[s].at \in {"realloc", "malloc"} /\ "old" \in DOMAIN pc[s]}}

\* Every allocated chunk has somebody to free it, and nobody holds a chunk that is
\* free: no block is lost or freed twice on the way through the delayed
\* deallocations and the failures of realloc.
EveryChunkHeld ==
    {a + ALLOCNODE : a \in {b \in Chunks \ {HeapBase, HeapEnd} : mem[b].alloc}} = Held
====
