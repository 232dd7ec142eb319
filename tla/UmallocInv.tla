------------------------------ MODULE UmallocInv ------------------------------
(* What the allocator must keep true of its free ring and of the heap, and   *)
(* the refinement of HeapSpec.                                               *)
EXTENDS Umalloc

(* The headers hold unit addresses and lengths, the locals what their C      *)
(* types and the control point allow (umalloc.c:11-22, 59-64).               *)
TypeOK ==
    /\ ptr \in [Addr -> Addr \cup {NULL}]
    /\ size \in [Addr -> Nat]
    /\ freep \in Addr \cup {NULL}
    /\ brk \in HeapStart .. Limit
    /\ foreign \subseteq Addr
    /\ pc \in {"idle", "scan", "free"} /\ caller \in {"user", "morecore"}
    /\ nbytes \in Nat /\ nunits \in Nat
    /\ {p, prevp, bp, fp} \subseteq Addr \cup {NULL}
    /\ pc = "scan" => {p, prevp} \subseteq Addr
    /\ pc = "free" => {bp, fp} \subseteq Addr
    /\ live \subseteq Addr /\ ring \subseteq Addr

(* The block free() is linking is on neither side. *)
InTransit == IF pc = "free" THEN {bp} ELSE {}

Blocks == (ring \ {Base}) \cup live \cup InTransit

UnitsOf(b) == b .. (b + size[b] - 1)

(* Every block, free, held or in transit, lies in sbrk() memory that is the  *)
(* allocator's own, and no two share a unit (umalloc.c:31-40, 69-76).        *)
NoOverlap ==
    /\ live \cap ring = {} /\ InTransit \cap (ring \cup live) = {}
    /\ \A b \in Blocks : /\ size[b] >= 1
                         /\ HeapStart <= b /\ b + size[b] <= brk
                         /\ UnitsOf(b) \cap foreign = {}
    /\ \A a, b \in Blocks : a < b => a + size[a] <= b

(* No unit is lost: what sbrk() gave malloc is in some block, whatever was   *)
(* split, merged and reused since (umalloc.c:31-40, 70-76).                  *)
NoLeak == \A u \in HeapStart .. (brk - 1) :
             u \in foreign \/ \E b \in Blocks : u \in UnitsOf(b)

(* free() merges with both neighbours, so no two free blocks ever touch      *)
(* (umalloc.c:31-40) although the ring is entered anywhere.                  *)
Coalesced == \A a, b \in ring : a < b => a + size[a] < b

SortedRing(R, f) ==
    \A b \in R :
        /\ f[b] \in R
        /\ \/ b < f[b] /\ \A c \in R : c <= b \/ f[b] <= c
           \/ f[b] = Base /\ \A c \in R : c <= b

(* The ring goes up in address order and from its top back to base, which    *)
(* the stopping test of free() takes for granted (umalloc.c:28-30).          *)
RingSorted == SortedRing(ring, ptr)

(* malloc() turns to sbrk() only after it has seen every free block, though  *)
(* it starts where the last call stopped (umalloc.c:68-80).                  *)
SearchIsThorough ==
    pc = "scan" /\ p = freep /\ ~Fits(p) => \A b \in ring : size[b] < nunits

(* Both loops end (umalloc.c:28, 68): malloc() and free() return.            *)
CallsReturn == pc # "idle" ~> pc = "idle"

Pending == pc = "scan" \/ (pc = "free" /\ caller = "morecore")

(* An inductive invariant: the two properties above need that the ring is    *)
(* anchored at base, that the loops walk on ring members, and that memory    *)
(* sbrk() gave away lies below the break.                                    *)
Anchored ==
    /\ freep = NULL => pc = "idle" /\ ring = {} /\ live = {}
    /\ freep # NULL => {freep, Base} \subseteq ring /\ size[Base] = 0

Walking ==
    /\ pc # "idle" => freep # NULL
    /\ pc = "scan" => prevp \in ring /\ p = ptr[prevp]
    /\ pc = "free" => fp \in ring /\ bp # NULL
    /\ Pending => nunits = NUnits(nbytes)

BelowBreak == foreign \subseteq HeapStart .. (brk - 1)

IInv == TypeOK /\ NoOverlap /\ RingSorted /\ Anchored /\ Walking /\ BelowBreak

-----------------------------------------------------------------------------
(* Refinement: the blocks held are what the live headers say, and the call   *)
(* under way is a malloc() when it is Pending.          *)

heldBar  == {[addr |-> b, len |-> size[b]] : b \in live}
arenaBar == (HeapStart .. (brk - 1)) \ foreign
reqBar   == IF Pending THEN nbytes ELSE -1

Heap == INSTANCE HeapSpec WITH held <- heldBar, arena <- arenaBar, req <- reqBar

(* malloc() returns fresh memory large enough for the bytes asked for, and   *)
(* neither a split, a merge nor morecore() touches a block the program holds *)
(* (umalloc.c:24-84).                                                        *)
ImplementsHeapSpec == Heap!HSpec
=============================================================================
