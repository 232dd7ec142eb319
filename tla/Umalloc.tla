------------------------------- MODULE Umalloc -------------------------------
(* The K&R allocator of src/lib/umalloc.c, one step per turn of its loops.   *)
(* Memory is counted in units of sizeof(Header); a block is named by the     *)
(* address of its header.  ptr and size are the two fields of the headers.   *)
(* ring and live are history: the headers on the free ring and the blocks    *)
(* the program holds; no action's guard reads them except Free's, since a    *)
(* program frees only what it holds.                                         *)
EXTENDS Integers

CONSTANTS HeaderSize,   \* sizeof(Header)
          MinGrow,      \* units morecore() asks for at least (4096)
          Requests,     \* arguments of malloc()
          Chunks,       \* units other callers of sbrk() take at once
          HeapStart,    \* unit address of the first sbrk() memory
          Limit         \* bound: highest unit address sbrk() may hand out

NULL == 0
Base == 1               \* the static header `base' lies below the heap

ASSUME UmallocAssumption ==
    /\ HeaderSize \in Nat \ {0}
    /\ MinGrow \in Nat \ {0}
    /\ Requests \subseteq Nat
    /\ Chunks \subseteq Nat \ {0}
    /\ HeapStart \in Nat /\ HeapStart > Base
    /\ Limit \in Nat /\ Limit >= HeapStart

Addr == Base .. Limit

VARIABLES ptr, size,            \* the headers
          freep,                \* start of the search
          brk,                  \* program break
          foreign,              \* units sbrk() gave to other callers
          pc, caller,           \* "idle", "scan" (malloc) or "free"; free's caller
          nbytes, nunits,       \* malloc's argument and size in units
          p, prevp,             \* malloc's locals
          bp, fp,               \* free's bp and p
          live, ring            \* history

mallocLocals == <<nbytes, nunits, p, prevp>>
freeLocals   == <<caller, bp, fp>>
vars == <<ptr, size, freep, brk, foreign, pc, caller, nbytes, nunits,
          p, prevp, bp, fp, live, ring>>

Init ==
    /\ ptr = [a \in Addr |-> NULL] /\ size = [a \in Addr |-> 0]
    /\ freep = NULL /\ brk = HeapStart /\ foreign = {}
    /\ pc = "idle" /\ caller = "user"
    /\ nbytes = 0 /\ nunits = 0 /\ p = NULL /\ prevp = NULL
    /\ bp = NULL /\ fp = NULL
    /\ live = {} /\ ring = {}

-----------------------------------------------------------------------------
(* malloc *)

(* Mutant: no unit for the header. *)
NUnitsNoHeader(n) == (n + HeaderSize - 1) \div HeaderSize

NUnits(n) == (n + HeaderSize - 1) \div HeaderSize + 1

MallocFirst(n) ==
    /\ pc = "idle" /\ freep = NULL
    /\ nbytes' = n /\ nunits' = NUnits(n)
    /\ ptr' = [ptr EXCEPT ![Base] = Base] /\ size' = [size EXCEPT ![Base] = 0]
    /\ freep' = Base /\ prevp' = Base /\ p' = Base
    /\ ring' = {Base}
    /\ pc' = "scan"
    /\ UNCHANGED <<brk, foreign, freeLocals, live>>

Malloc(n) ==
    /\ pc = "idle" /\ freep # NULL
    /\ nbytes' = n /\ nunits' = NUnits(n)
    /\ prevp' = freep /\ p' = ptr[freep]
    /\ pc' = "scan"
    /\ UNCHANGED <<ptr, size, freep, brk, foreign, freeLocals, live, ring>>

(* Mutant: an exact fit is passed over. *)
FitsLarger(b) == size[b] > nunits

Fits(b) == size[b] >= nunits

MallocReturns ==
    /\ pc' = "idle"
    /\ nbytes' = 0 /\ nunits' = 0 /\ p' = NULL /\ prevp' = NULL

(* An exact fit leaves the ring ... *)
TakeWhole ==
    /\ pc = "scan" /\ size[p] = nunits
    /\ ptr' = [ptr EXCEPT ![prevp] = ptr[p]]
    /\ ring' = ring \ {p} /\ live' = live \cup {p}
    /\ freep' = prevp
    /\ MallocReturns
    /\ UNCHANGED <<size, brk, foreign, freeLocals>>

(* ... a larger block stays and gives away its tail. *)
(* Mutant: the block after the first nunits, not the last. *)
TailAtFront(b) == b + nunits

TailOf(b) == b + (size[b] - nunits)

TakeTail ==
    /\ pc = "scan" /\ size[p] > nunits
    /\ size' = [size EXCEPT ![p] = size[p] - nunits, ![TailOf(p)] = nunits]
    /\ live' = live \cup {TailOf(p)}
    /\ freep' = prevp
    /\ MallocReturns
    /\ UNCHANGED <<ptr, brk, foreign, freeLocals, ring>>

ScanNext ==
    /\ pc = "scan" /\ ~Fits(p) /\ p # freep
    /\ prevp' = p /\ p' = ptr[p]
    /\ UNCHANGED <<ptr, size, freep, brk, foreign, pc, freeLocals, nbytes,
                   nunits, live, ring>>

(* Back at the start of the search: morecore() takes a new block from sbrk() *)
(* and frees it; sbrk() may fail for reasons of its own.                     *)
GrowUnits == IF nunits < MinGrow THEN MinGrow ELSE nunits

Grow ==
    /\ pc = "scan" /\ ~Fits(p) /\ p = freep
    /\ brk + GrowUnits <= Limit
    /\ size' = [size EXCEPT ![brk] = GrowUnits]
    /\ brk' = brk + GrowUnits
    /\ pc' = "free" /\ caller' = "morecore" /\ bp' = brk /\ fp' = freep
    /\ UNCHANGED <<ptr, freep, foreign, mallocLocals, live, ring>>

GrowFails ==
    /\ pc = "scan" /\ ~Fits(p) /\ p = freep
    /\ MallocReturns
    /\ UNCHANGED <<ptr, size, freep, brk, foreign, freeLocals, live, ring>>

-----------------------------------------------------------------------------
(* free *)

Free(b) ==
    /\ pc = "idle" /\ b \in live
    /\ live' = live \ {b}
    /\ pc' = "free" /\ caller' = "user" /\ bp' = b /\ fp' = freep
    /\ UNCHANGED <<ptr, size, freep, brk, foreign, mallocLocals, ring>>

(* The block b belongs between q and its successor on the ring. *)
(* Mutant: only the upper neighbour is compared. *)
BetweenUpper(q, b) == b < ptr[q]

Between(q, b) == q < b /\ b < ptr[q]
(* Mutant: a ring of one block has no ends. *)
AtTheEndsStrict(q, b) == q > ptr[q] /\ (b > q \/ b < ptr[q])

AtTheEnds(q, b) == q >= ptr[q] /\ (b > q \/ b < ptr[q])
Belongs(q, b) == Between(q, b) \/ AtTheEnds(q, b)

FreeNext ==
    /\ pc = "free" /\ ~Belongs(fp, bp)
    /\ fp' = ptr[fp]
    /\ UNCHANGED <<ptr, size, freep, brk, foreign, pc, caller, mallocLocals,
                   bp, live, ring>>

(* Mutant: never merged with the upper neighbour. *)
MeetsNoNext(q, b) == FALSE

MeetsNext(q, b) == b + size[b] = ptr[q]
MeetsPrev(q, b) == q + size[q] = b

(* Mutant: merged, but the size stays. *)
LinkSizeAlone == size[bp]

LinkSize == IF MeetsNext(fp, bp) THEN size[bp] + size[ptr[fp]] ELSE size[bp]

(* Mutant: the block's old link. *)
LinkPtrStale == ptr[bp]

LinkPtr  == IF MeetsNext(fp, bp) THEN ptr[ptr[fp]] ELSE ptr[fp]

(* Where free() returns to: its caller, or morecore() and from there malloc, *)
(* which goes on with the block after freep.                                 *)
FreeReturns ==
    /\ bp' = NULL /\ fp' = NULL /\ caller' = "user"
    /\ \/ /\ caller = "user" /\ pc' = "idle" /\ UNCHANGED mallocLocals
       \/ /\ caller = "morecore" /\ pc' = "scan"
          /\ prevp' = fp /\ p' = ptr'[fp]
          /\ UNCHANGED <<nbytes, nunits>>

FreeLink ==
    /\ pc = "free" /\ Belongs(fp, bp)
    /\ IF MeetsPrev(fp, bp)
       THEN /\ size' = [size EXCEPT ![bp] = LinkSize, ![fp] = size[fp] + LinkSize]
            /\ ptr'  = [ptr EXCEPT ![bp] = LinkPtr, ![fp] = LinkPtr]
       ELSE /\ size' = [size EXCEPT ![bp] = LinkSize]
            /\ ptr'  = [ptr EXCEPT ![bp] = LinkPtr, ![fp] = bp]
    /\ ring' = (ring \ (IF MeetsNext(fp, bp) THEN {ptr[fp]} ELSE {}))
               \cup (IF MeetsPrev(fp, bp) THEN {} ELSE {bp})
    /\ freep' = fp
    /\ FreeReturns
    /\ UNCHANGED <<brk, foreign, live>>

(* Programs also call sbrk() themselves, so the heap has gaps. *)
OtherSbrk(k) ==
    /\ pc = "idle" /\ brk + k <= Limit
    /\ foreign' = foreign \cup (brk .. (brk + k - 1))
    /\ brk' = brk + k
    /\ UNCHANGED <<ptr, size, freep, pc, mallocLocals, freeLocals, live, ring>>

-----------------------------------------------------------------------------

Scan == TakeWhole \/ TakeTail \/ ScanNext \/ Grow \/ GrowFails
Release == FreeNext \/ FreeLink

Next ==
    \/ \E n \in Requests : MallocFirst(n) \/ Malloc(n)
    \/ Scan
    \/ \E b \in live : Free(b)
    \/ Release
    \/ \E k \in Chunks : OtherSbrk(k)

Spec == Init /\ [][Next]_vars

(* The loops run on; nothing obliges the program to call. *)
FairSpec == Spec /\ WF_vars(Scan) /\ WF_vars(Release)
=============================================================================
