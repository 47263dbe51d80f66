--------------------------------- MODULE Heap ---------------------------------
(***************************************************************************)
(* heap_alloc, heap_free and expand_heap of mm/vmm.c.  The same code runs  *)
(* as the kernel heap, which starts with nothing and grows by a page at a  *)
(* time, and, in the copy of the image every process gets, as the heap of  *)
(* a process, which has a fixed range of addresses whose pages come and go *)
(* with page faults and with heap_free.                                    *)
(*                                                                         *)
(* Sizes and addresses are counted in 8-byte words from the base of the    *)
(* heap.  A block is a header word, which holds size and flags, and size   *)
(* words behind it.  heap is the sequence of blocks in the order of the    *)
(* walk; addr is where the header was written, which the walk finds again  *)
(* only as the sum of the sizes before it.                                 *)
(***************************************************************************)
EXTENDS Integers, Sequences, SequencesExt

CONSTANTS
  PageWords,    \* words of a 4K page: 0x1000 >> 3
  Requests,     \* allocSize of the callers, rounded up to words, at least 1
  MaxPages,     \* pages the kernel heap can get before memory runs out
  UserPages     \* pages of the range user_main reserves

ASSUME HeapAssumption ==
  /\ PageWords \in Nat /\ PageWords >= 2
  /\ Requests \subseteq Nat \ {0}
  /\ MaxPages \in Nat \ {0} /\ UserPages \in Nat \ {0}

VARIABLES
  userMode,     \* __getcs() & 3: which of the two heaps it is
  heap,         \* the blocks
  pages,        \* length of the heap in pages, 0 before it exists
  live,         \* what callers own: payload address and words asked for
  resident,     \* pages of the range that have a physical page behind them
  heapStatus    \* "running", or how the code came to a standstill

heapVars == <<userMode, heap, pages, live, resident, heapStatus>>

-----------------------------------------------------------------------------
Header(addr, size, using, last) ==
  [addr |-> addr, size |-> size, using |-> using, last |-> last]

(* The next header of the walk: heap + 1 plus the size in words. *)
After(b) == b.addr + 1 + b.size

(* HEAPK[0] = 0xFF8 | HEAP_FLAG_LAST, and the same for a process. *)
NewHeap(n) == <<Header(0, n * PageWords - 1, FALSE, TRUE)>>

FreeAndSufficient(h, n) == {i \in 1 .. Len(h) : ~h[i].using /\ h[i].size >= n}

(* expand_heap, k times, on block i. *)
Expand(h, i, k) == [h EXCEPT ![i].size = @ + k * PageWords]

(* Use n words of block i, and split off what is left. *)
Use(h, i, n) ==
  LET b == h[i]
  IN  IF b.size > n
      THEN InsertAt([h EXCEPT ![i] = Header(b.addr, n, TRUE, FALSE)], i + 1,
                    Header(b.addr + 1 + n, b.size - n - 1, FALSE, b.last))
      ELSE [h EXCEPT ![i].using = TRUE]

(* One more page, when the last block is exactly as large as the request. *)
Spare(b, n) == IF b.last /\ b.size = n THEN 1 ELSE 0

(* The pages the loop behind "No free block" adds to the last block. *)
PagesMissing(b, n) == IF b.size >= n THEN 0 ELSE (n - b.size + PageWords - 1) \div PageWords

(* Pages with a word of a .. b - 1 in them, and those with no other words. *)
Touched(a, b) == {p \in a \div PageWords .. b \div PageWords : p * PageWords < b}
Inside(a, b) == {p \in a \div PageWords .. b \div PageWords :
                   a <= p * PageWords /\ (p + 1) * PageWords <= b}

-----------------------------------------------------------------------------
HeapInit ==
  /\ userMode \in BOOLEAN
  /\ heap = IF userMode THEN NewHeap(UserPages) ELSE <<>>
  /\ pages = IF userMode THEN UserPages ELSE 0
  /\ live = {}
  /\ resident = IF userMode THEN {0} ELSE {}
  /\ heapStatus = "running"

Stop(why) == heapStatus' = why /\ UNCHANGED <<userMode, heap, pages, live, resident>>

(* Block i serves the request: the caller gets the word behind its header. *)
(* A process writes headers and payload, and page faults supply the pages. *)
Serve(h, length, i, n) ==
  LET addr == h[i].addr + 1
  IN  /\ heap' = Use(h, i, n)
      /\ pages' = length
      /\ live' = live \cup {[addr |-> addr, size |-> n]}
      /\ resident' = IF userMode
                     THEN resident \cup Touched(h[i].addr, addr + n +
                                         (IF h[i].size > n THEN 1 ELSE 0))
                     ELSE 0 .. length - 1
      /\ UNCHANGED <<userMode, heapStatus>>

(* heap_alloc.  The kernel heap is created by its first request; the last  *)
(* block is never used up, a page is added to it first.                    *)
Alloc(n) ==
  /\ heapStatus = "running"
  /\ LET h      == IF pages = 0 THEN NewHeap(1) ELSE heap
         length == IF pages = 0 THEN 1 ELSE pages
         fits   == FreeAndSufficient(h, n)
         i      == Min(fits)
     IN  /\ fits # {}
         /\ LET extra == Spare(h[i], n)
            IN  IF extra = 0 THEN Serve(h, length, i, n)
                ELSE IF userMode THEN Stop("expanded")
                ELSE IF length + extra > MaxPages THEN Stop("panic")
                ELSE Serve(Expand(h, i, extra), length + extra, i, n)

(* ... no block is large enough: the kernel heap grows at its end, where   *)
(* the walk now starts again; were that block in use it would not end.     *)
AllocGrows(n) ==
  /\ heapStatus = "running"
  /\ ~userMode
  /\ LET h      == IF pages = 0 THEN NewHeap(1) ELSE heap
         length == IF pages = 0 THEN 1 ELSE pages
         i      == Len(h)
         more   == PagesMissing(h[i], n)
         grown  == Expand(h, i, more)
         extra  == Spare(grown[i], n)
     IN  /\ FreeAndSufficient(h, n) = {}
         /\ IF length + more + extra > MaxPages THEN Stop("panic")
            ELSE IF h[i].using THEN Stop("endless")
            ELSE Serve(Expand(grown, i, extra), length + more + extra, i, n)

(* ... while the heap of a process does not grow: it answers 0. *)
AllocFails(n) ==
  /\ heapStatus = "running"
  /\ userMode
  /\ FreeAndSufficient(heap, n) = {}
  /\ UNCHANGED heapVars

(* Clear USING, and join the block with the free block before it ... *)
ClearUsing(h, i) ==
  LET c == [h EXCEPT ![i].using = FALSE]
  IN  IF i > 1 /\ ~h[i - 1].using
      THEN RemoveAt([c EXCEPT ![i - 1].size = @ + 1 + h[i].size], i)
      ELSE c

(* ... and with a free block behind it. *)
JoinNext(h, j) ==
  IF ~h[j].last /\ ~h[j + 1].using
  THEN RemoveAt([h EXCEPT ![j].size = @ + 1 + h[j + 1].size, ![j].last = h[j + 1].last],
                j + 1)
  ELSE h

(* Rounds the start of the free space down, to a page with a header in it.  *)
UncommittedFromHeader(b, joined) ==
  joined.addr \div PageWords .. After(joined) \div PageWords - 1

(* The pages a process gives back: whole pages of the joined block, no     *)
(* further than one page beyond the block that was freed.                  *)
Uncommitted(b, joined) ==
  LET RoundUp(a)   == (a + PageWords - 1) \div PageWords
      RoundDown(a) == a \div PageWords
      addr0 == RoundUp(b.addr + 1)
      addr1 == RoundDown(After(b))
      addr2 == RoundUp(joined.addr + 1)
      addr3 == RoundDown(After(joined))
      from  == IF addr2 < addr0 - 1 THEN addr0 - 1 ELSE addr2
      to    == IF addr3 > addr1 + 1 THEN addr1 + 1 ELSE addr3
  IN  from .. to - 1

(* heap_free(b.addr): the walk finds the header before it. *)
Free(b) ==
  /\ heapStatus = "running"
  /\ \E i \in 1 .. Len(heap) :
       /\ heap[i].addr + 1 = b.addr
       /\ LET j      == IF i > 1 /\ ~heap[i - 1].using THEN i - 1 ELSE i
              joined == JoinNext(ClearUsing(heap, i), j)
          IN  /\ heap' = joined
              /\ resident' = IF userMode THEN resident \ Uncommitted(heap[i], joined[j])
                             ELSE resident
  /\ live' = live \ {b}
  /\ UNCHANGED <<userMode, pages, heapStatus>>

HeapNext ==
  \/ \E n \in Requests : Alloc(n) \/ AllocGrows(n) \/ AllocFails(n)
  \/ \E b \in live : Free(b)

HeapSpec == HeapInit /\ [][HeapNext]_heapVars

-----------------------------------------------------------------------------
HeapTypeOK ==
  /\ userMode \in BOOLEAN
  /\ heap \in Seq([addr : Nat, size : Nat, using : BOOLEAN, last : BOOLEAN])
  /\ pages \in Nat
  /\ live \subseteq [addr : Nat, size : Nat]
  /\ resident \subseteq Nat
  /\ heapStatus \in {"running", "panic", "endless", "expanded"}

(* The walk by sizes finds every header where it was written, meets LAST   *)
(* at the block that ends where the mapped pages end, and at no other.     *)
HeapTiled ==
  /\ pages = 0 <=> heap = <<>>
  /\ heap # <<>> => heap[1].addr = 0
  /\ \A i \in 1 .. Len(heap) :
       /\ After(heap[i]) = IF i < Len(heap) THEN heap[i + 1].addr ELSE pages * PageWords
       /\ heap[i].last <=> i = Len(heap)

(* The last block is free at every moment, so that expand_heap may enlarge *)
(* it and the search of heap_alloc ends at it, and no two free blocks are   *)
(* neighbours: every sequence of allocations and frees leaves the free      *)
(* space in as few pieces as it can.                                        *)
FreeSpaceJoined ==
  /\ heap # <<>> => ~heap[Len(heap)].using
  /\ heapStatus # "endless"
  /\ \A i \in 1 .. Len(heap) :
       ~heap[i].using => i = 1 \/ heap[i - 1].using

(* A caller's words are inside one used block that is nobody else's, and   *)
(* every used block is somebody's: nothing overlaps and nothing leaks.     *)
LiveAreUsed ==
  /\ \A b \in live : \E i \in 1 .. Len(heap) :
       heap[i].using /\ heap[i].addr + 1 = b.addr /\ heap[i].size >= b.size
  /\ \A i \in 1 .. Len(heap) : heap[i].using =>
       \E b \in live : b.addr = heap[i].addr + 1
  /\ \A b, c \in live : b # c => b.addr + b.size < c.addr \/ c.addr + c.size < b.addr

(* A process never loses a header or a word of a live block to the         *)
(* uncommit in heap_free, and keeps no page that is all free space:        *)
(* looking one page to each side of the freed block is enough, whatever    *)
(* was freed before.                                                       *)
ResidentAsNeeded ==
  /\ \A i \in 1 .. Len(heap) : heap[i].addr \div PageWords \in resident
  /\ \A b \in live : Touched(b.addr, b.addr + b.size) \subseteq resident
  /\ userMode => \A i \in 1 .. Len(heap) :
       ~heap[i].using => Inside(heap[i].addr + 1, After(heap[i])) \cap resident = {}

(* The walk of the heap by sizes finds every header where it was written,   *)
(* what callers own does not overlap and nothing else is in use, and the    *)
(* free space is in as few pieces as it can be, the last one free; headers  *)
(* and live blocks stay in memory, pages of free space do not.              *)
HeapSound == HeapTypeOK /\ HeapTiled /\ LiveAreUsed /\ FreeSpaceJoined /\ ResidentAsNeeded
=============================================================================
