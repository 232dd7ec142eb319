---------------------------- MODULE UmallocProofs ----------------------------
(* Proofs that the allocator's blocks stay disjoint and its ring sorted, that *)
(* no memory is lost, free blocks are merged and the search sees them all,   *)
(* and that malloc() and free() do what HeapSpec says, for every header      *)
(* size, minimum growth, request and heap.                                   *)
EXTENDS UmallocInv, TLAPS

-----------------------------------------------------------------------------
(* The three ways a sorted ring changes.                                     *)

(* Links of headers that are not on the ring do not matter.                  *)
LEMMA SortedFrame ==
    ASSUME NEW R, NEW f, NEW g, SortedRing(R, f), \A c \in R : g[c] = f[c]
    PROVE  SortedRing(R, g)
  BY DEF SortedRing

(* Unlinking the successor n of q leaves a sorted ring (umalloc.c:33, 71).   *)
LEMMA SortedRemove ==
    ASSUME NEW R, R \subseteq Nat, NEW f, SortedRing(R, f), Base \in R,
           NEW q \in R, f[q] # Base, NEW g,
           g[q] = f[f[q]], \A c \in R \ {q} : g[c] = f[c]
    PROVE  /\ f[q] # q
           /\ SortedRing(R \ {f[q]}, g)
  <1> USE DEF Base
  <1> DEFINE n == f[q]
  <1>0. ASSUME NEW x \in R
        PROVE  /\ f[x] \in R /\ x \in Nat /\ f[x] \in Nat
               /\ \/ x < f[x] /\ \A c \in R : c <= x \/ f[x] <= c
                  \/ f[x] = Base /\ \A c \in R : c <= x
    BY DEF SortedRing
  <1>1. n \in R /\ n \in Nat /\ q < n /\ \A c \in R : c <= q \/ n <= c
    BY <1>0
  <1> HIDE DEF n
  <1>2. ASSUME NEW x \in R \ {n}
        PROVE  /\ g[x] \in R \ {n}
               /\ \/ x < g[x] /\ \A c \in R \ {n} : c <= x \/ g[x] <= c
                  \/ g[x] = Base /\ \A c \in R \ {n} : c <= x
    <2>1. CASE x = q
      <3>1. g[x] = f[n] BY <2>1 DEF n
      <3>2. f[n] \in R /\ f[n] # n /\ f[n] \in Nat
        BY <1>0, <1>1 DEF n
      <3>3. CASE n < f[n] /\ \A c \in R : c <= n \/ f[n] <= c
        BY <1>1, <2>1, <3>1, <3>2, <3>3
      <3>4. CASE f[n] = Base /\ \A c \in R : c <= n
        BY <1>1, <2>1, <3>1, <3>2, <3>4
      <3>5. QED BY <1>0, <1>1, <3>3, <3>4
    <2>2. CASE x # q
      <3>1. g[x] = f[x] /\ f[x] \in R /\ f[x] \in Nat BY <1>0, <2>2
      <3>2. f[x] # n
        <4>1. CASE x < f[x] /\ \A c \in R : c <= x \/ f[x] <= c
          BY <1>1, <2>2, <4>1
        <4>2. CASE f[x] = Base /\ \A c \in R : c <= x
          BY <4>2 DEF n
        <4>3. QED BY <1>0, <4>1, <4>2
      <3>3. QED BY <1>0, <3>1, <3>2
    <2>3. QED BY <2>1, <2>2
  <1>3. SortedRing(R \ {n}, g) BY <1>2 DEF SortedRing
  <1>4. QED BY <1>1, <1>3 DEF n

(* b fits between q and its successor, or above the top of the ring.         *)
Slot(R, f, q, b) ==
    \/ q < b /\ b < f[q] /\ \A c \in R : c <= q \/ f[q] <= c
    \/ q < b /\ f[q] = Base /\ \A c \in R : c <= q

(* Linking b in after q leaves a sorted ring (umalloc.c:35, 40).             *)
LEMMA SortedInsert ==
    ASSUME NEW R, R \subseteq Nat, NEW f, SortedRing(R, f), Base \in R,
           NEW q \in R, NEW b \in Nat, b \notin R, Slot(R, f, q, b), NEW g,
           g[b] = f[q], g[q] = b, \A c \in R \ {q} : g[c] = f[c],
           NEW S, S = R \cup {b}
    PROVE  SortedRing(S, g)
  <1> USE DEF Base
  <1>0. ASSUME NEW x \in R
        PROVE  /\ f[x] \in R /\ x \in Nat /\ f[x] \in Nat
               /\ \/ x < f[x] /\ \A c \in R : c <= x \/ f[x] <= c
                  \/ f[x] = Base /\ \A c \in R : c <= x
    BY DEF SortedRing
  <1>1. ASSUME NEW x \in R \cup {b}
        PROVE  /\ g[x] \in R \cup {b}
               /\ \/ x < g[x] /\ \A c \in R \cup {b} : c <= x \/ g[x] <= c
                  \/ g[x] = Base /\ \A c \in R \cup {b} : c <= x
    <2>1. CASE x = b
      <3>1. g[x] = f[q] /\ f[q] \in R BY <1>0, <2>1
      <3>2. QED BY <1>0, <2>1, <3>1 DEF Slot
    <2>2. CASE x = q
      BY <1>0, <2>2 DEF Slot
    <2>3. CASE x \in R \ {q}
      <3>1. g[x] = f[x] /\ f[x] \in R /\ f[x] \in Nat BY <1>0, <2>3
      <3>2. CASE x < f[x] /\ \A c \in R : c <= x \/ f[x] <= c
        <4>1. b <= x \/ f[x] <= b
          BY <1>0, <2>3, <3>2 DEF Slot
        <4>2. QED BY <3>1, <3>2, <4>1
      <3>3. CASE f[x] = Base /\ \A c \in R : c <= x
        <4>1. b <= x
          BY <1>0, <2>3, <3>3 DEF Slot
        <4>2. QED BY <3>1, <3>3, <4>1
      <3>4. QED BY <1>0, <2>3, <3>2, <3>3
    <2>4. QED BY <2>1, <2>2, <2>3
  <1>2. QED BY <1>1 DEF SortedRing

-----------------------------------------------------------------------------
(* A block has at least its header, whatever is asked for (umalloc.c:63).    *)
LEMMA NUnitsPositive ==
    ASSUME NEW n \in Nat
    PROVE  NUnits(n) \in Nat /\ NUnits(n) >= 1
  BY UmallocAssumption DEF NUnits

LEMMA InitIInv == Init => IInv
  <1> SUFFICES ASSUME Init PROVE IInv OBVIOUS
  <1> USE UmallocAssumption DEF Init, Addr, Base, NULL
  <1>1. TypeOK BY DEF TypeOK
  <1>2. NoOverlap BY DEF NoOverlap, Blocks, InTransit
  <1>3. RingSorted BY DEF RingSorted, SortedRing
  <1>4. Anchored /\ Walking /\ BelowBreak
    BY DEF Anchored, Walking, Pending, BelowBreak
  <1>5. QED BY <1>1, <1>2, <1>3, <1>4 DEF IInv

LEMMA MallocFirstIInv ==
    ASSUME IInv, NEW n \in Requests, MallocFirst(n)
    PROVE  IInv'
  <1> USE UmallocAssumption, NUnitsPositive DEF MallocFirst, Addr, Base, NULL, IInv, freeLocals
  <1>0. Base \in Addr /\ n \in Nat OBVIOUS
  <1>1. TypeOK'
    <2>1. ptr' \in [Addr -> Addr \cup {NULL}] /\ size' \in [Addr -> Nat]
      BY <1>0 DEF TypeOK
    <2>2. nbytes' \in Nat /\ nunits' \in Nat BY <1>0
    <2>3. /\ freep' \in Addr /\ {p', prevp', bp', fp'} \subseteq Addr \cup {NULL}
          /\ {p', prevp'} \subseteq Addr /\ ring' \subseteq Addr
      BY <1>0 DEF TypeOK
    <2>4. QED BY <2>1, <2>2, <2>3 DEF TypeOK
  <1>2. NoOverlap' BY DEF NoOverlap, Blocks, InTransit, Anchored
  <1>3. RingSorted' BY DEF RingSorted, SortedRing, TypeOK
  <1>4. Anchored' /\ Walking' /\ BelowBreak'
    BY DEF TypeOK, Anchored, Walking, Pending, BelowBreak
  <1>5. QED BY <1>1, <1>2, <1>3, <1>4 DEF IInv

LEMMA MallocIInv ==
    ASSUME IInv, NEW n \in Requests, Malloc(n)
    PROVE  IInv'
  <1> USE UmallocAssumption, NUnitsPositive DEF Malloc, Addr, Base, NULL, IInv, freeLocals
  <1>1. TypeOK' BY ZenonT(40) DEF TypeOK, Anchored, RingSorted, SortedRing
  <1>2. NoOverlap' BY DEF NoOverlap, Blocks, InTransit, UnitsOf
  <1>3. RingSorted' BY DEF RingSorted
  <1>4. Anchored' /\ Walking' /\ BelowBreak'
    BY DEF TypeOK, Anchored, Walking, Pending, BelowBreak
  <1>5. QED BY <1>1, <1>2, <1>3, <1>4 DEF IInv

LEMMA ScanNextIInv ==
    ASSUME IInv, ScanNext
    PROVE  IInv'
  <1> USE UmallocAssumption DEF ScanNext, Addr, Base, NULL, IInv, freeLocals
  <1>1. TypeOK' BY SMTT(20) DEF TypeOK, Anchored, Walking, RingSorted, SortedRing
  <1>2. NoOverlap' BY DEF NoOverlap, Blocks, InTransit, UnitsOf
  <1>3. RingSorted' BY DEF RingSorted
  <1>4. Anchored' /\ Walking' /\ BelowBreak'
    BY DEF TypeOK, Anchored, Walking, Pending, BelowBreak, RingSorted, SortedRing
  <1>5. QED BY <1>1, <1>2, <1>3, <1>4 DEF IInv

LEMMA GrowFailsIInv ==
    ASSUME IInv, GrowFails
    PROVE  IInv'
  <1> USE UmallocAssumption DEF GrowFails, MallocReturns, Addr, Base, NULL, IInv, freeLocals
  <1>1. TypeOK' BY DEF TypeOK
  <1>2. NoOverlap' BY DEF NoOverlap, Blocks, InTransit, UnitsOf
  <1>3. RingSorted' BY DEF RingSorted
  <1>4. Anchored' /\ Walking' /\ BelowBreak'
    BY DEF TypeOK, Anchored, Walking, Pending, BelowBreak
  <1>5. QED BY <1>1, <1>2, <1>3, <1>4 DEF IInv

LEMMA OtherSbrkIInv ==
    ASSUME IInv, NEW k \in Chunks, OtherSbrk(k)
    PROVE  IInv'
  <1> USE UmallocAssumption DEF OtherSbrk, Addr, Base, NULL, IInv, mallocLocals, freeLocals
  <1>1. TypeOK' BY SMTT(20) DEF TypeOK
  <1>2. NoOverlap' BY DEF NoOverlap, Blocks, InTransit, UnitsOf, TypeOK
  <1>3. RingSorted' BY DEF RingSorted
  <1>4. Anchored' /\ Walking' /\ BelowBreak'
    BY DEF TypeOK, Anchored, Walking, Pending, BelowBreak
  <1>5. QED BY <1>1, <1>2, <1>3, <1>4 DEF IInv

LEMMA FreeNextIInv ==
    ASSUME IInv, FreeNext
    PROVE  IInv'
  <1> USE UmallocAssumption DEF FreeNext, Addr, Base, NULL, IInv, mallocLocals
  <1>1. TypeOK' BY DEF TypeOK, Walking, RingSorted, SortedRing
  <1>2. NoOverlap' BY DEF NoOverlap, Blocks, InTransit, UnitsOf
  <1>3. RingSorted' BY DEF RingSorted
  <1>4. Anchored' /\ Walking' /\ BelowBreak'
    BY DEF TypeOK, Anchored, Walking, Pending, BelowBreak, RingSorted, SortedRing
  <1>5. QED BY <1>1, <1>2, <1>3, <1>4 DEF IInv

-----------------------------------------------------------------------------
(* The blocks of the ring and the room they have.                            *)
LEMMA RingMember ==
    ASSUME IInv, freep # NULL, NEW b \in ring, b # Base
    PROVE  /\ b \in Blocks /\ b \in Addr /\ ptr[b] \in ring /\ b > Base
           /\ size[b] \in Nat /\ size[b] >= 1 /\ b + size[b] <= brk
  BY UmallocAssumption
     DEF IInv, TypeOK, NoOverlap, Blocks, RingSorted, SortedRing, Addr, Base, NULL

LEMMA TakeWholeIInv ==
    ASSUME IInv, TakeWhole
    PROVE  IInv'
  <1> USE UmallocAssumption DEF TakeWhole, MallocReturns, Addr, Base, NULL, IInv, freeLocals
  <1>0. /\ freep # NULL /\ prevp \in ring /\ p = ptr[prevp] /\ p \in ring
        /\ nunits \in Nat /\ nunits >= 1 /\ p # Base
    BY NUnitsPositive
    DEF TypeOK, Walking, Pending, Anchored, RingSorted, SortedRing
  <1>1. prevp # p /\ RingSorted'
    <2>1. ring \subseteq Nat /\ Base \in ring /\ SortedRing(ring, ptr)
      BY <1>0 DEF TypeOK, Anchored, RingSorted
    <2>2. ptr'[prevp] = ptr[ptr[prevp]] /\ \A c \in ring \ {prevp} : ptr'[c] = ptr[c]
      BY <1>0 DEF TypeOK
    <2>3. QED BY <1>0, <2>1, <2>2, SortedRemove, ZenonT(40) DEF RingSorted
  <1>2. TypeOK' BY <1>0 DEF TypeOK, RingSorted, SortedRing
  <1>3. NoOverlap'
    <2>1. p \in Blocks BY <1>0, RingMember
    <2>2. Blocks' = Blocks /\ InTransit' = {} /\ InTransit = {}
      BY <1>0, <2>1 DEF Blocks, InTransit
    <2>3. QED BY <2>2 DEF NoOverlap, UnitsOf
  <1>4. Anchored' /\ Walking' /\ BelowBreak'
    BY <1>0, <1>1 DEF TypeOK, Anchored, Walking, Pending, BelowBreak
  <1>5. QED BY <1>1, <1>2, <1>3, <1>4 DEF IInv

LEMMA TakeTailIInv ==
    ASSUME IInv, TakeTail
    PROVE  IInv'
  <1> USE UmallocAssumption DEF TakeTail, MallocReturns, Addr, Base, NULL, IInv, freeLocals
  <1> DEFINE t == TailOf(p)
  <1>0. /\ freep # NULL /\ prevp \in ring /\ p \in ring
        /\ nunits \in Nat /\ nunits >= 1 /\ p # Base
    BY NUnitsPositive
    DEF TypeOK, Walking, Pending, Anchored, RingSorted, SortedRing
  <1>1. /\ p \in Blocks /\ p \in Addr /\ size[p] \in Nat
        /\ p < t /\ t + nunits = p + size[p] /\ t \in Addr
    <2>1. /\ p \in Blocks /\ p \in Addr /\ size[p] \in Nat /\ p + size[p] <= brk
      BY <1>0, RingMember
    <2>2. brk \in Nat /\ brk <= Limit BY DEF TypeOK
    <2>3. QED BY <1>0, <2>1, <2>2 DEF TailOf
  <1>2. t \notin Blocks
    BY <1>0, <1>1 DEF NoOverlap
  <1>3. t \notin ring BY <1>0, <1>1, <1>2 DEF Blocks
  <1> HIDE DEF t
  <1>4. size' = [size EXCEPT ![p] = size[p] - nunits, ![t] = nunits]
        /\ live' = live \cup {t}
    BY DEF t
  <1>5. /\ size'[p] = size[p] - nunits /\ size'[t] = nunits
        /\ \A b \in Addr \ {p, t} : size'[b] = size[b]
    BY <1>1, <1>4 DEF TypeOK
  <1>6. TypeOK'
    <2>0. size[p] - nunits \in Nat BY <1>0, <1>1
    <2>1. size' \in [Addr -> Nat] /\ live' \subseteq Addr
      <3> HIDE DEF Addr
      <3>1. QED BY <1>0, <1>1, <1>4, <2>0 DEF TypeOK
    <2>2. freep' \in Addr BY <1>0 DEF TypeOK
    <2>3. QED BY <2>1, <2>2 DEF TypeOK
  <1>7. NoOverlap'
    <2>1. Blocks' = Blocks \cup {t} /\ InTransit' = {} /\ InTransit = {}
      BY <1>4 DEF Blocks, InTransit
    <2>2. Blocks \subseteq Addr /\ \A b \in Blocks : size[b] \in Nat
      BY DEF Blocks, InTransit, TypeOK
    <2> brk \in Nat BY DEF TypeOK
    <2>3. ASSUME NEW b \in Blocks'
          PROVE  /\ size'[b] >= 1 /\ HeapStart <= b /\ b + size'[b] <= brk
                 /\ UnitsOf(b)' \cap foreign = {}
      <3>1. CASE b = p
        <4>1. size'[b] >= 1 /\ HeapStart <= b /\ b + size'[b] <= brk
          BY <1>0, <1>1, <1>5, <3>1 DEF NoOverlap
        <4>2. UnitsOf(b)' \subseteq UnitsOf(p)
          BY <1>0, <1>1, <1>5, <3>1 DEF UnitsOf
        <4>3. UnitsOf(p) \cap foreign = {} BY <1>1 DEF NoOverlap
        <4>4. QED BY <4>1, <4>2, <4>3
      <3>2. CASE b = t
        <4>1. size'[b] >= 1 /\ HeapStart <= b /\ b + size'[b] <= brk
          BY <1>0, <1>1, <1>5, <3>2 DEF NoOverlap
        <4>2. UnitsOf(b)' \subseteq UnitsOf(p)
          BY <1>0, <1>1, <1>5, <3>2 DEF UnitsOf
        <4>3. UnitsOf(p) \cap foreign = {} BY <1>1 DEF NoOverlap
        <4>4. QED BY <4>1, <4>2, <4>3
      <3>3. CASE b # p /\ b # t
        BY <1>5, <2>1, <2>2, <3>3 DEF NoOverlap, UnitsOf
      <3>4. QED BY <3>1, <3>2, <3>3
    <2>4. ASSUME NEW a \in Blocks', NEW b \in Blocks', a < b
          PROVE  a + size'[a] <= b
      <3>1. CASE a = t
        BY <1>0, <1>1, <1>2, <1>5, <2>1, <2>2, <2>4, <3>1 DEF NoOverlap
      <3>2. CASE b = t
        <4>1. CASE a = p BY <1>0, <1>1, <1>5, <3>2, <4>1
        <4>2. CASE a # p
          <5>1. a \in Blocks /\ a # t BY <2>1, <2>4, <2>2, <3>2
          <5>2. size'[a] = size[a] /\ size[a] >= 1
            BY <1>5, <2>2, <4>2, <5>1 DEF NoOverlap
          <5>3. a + size[a] <= p \/ p + size[p] <= a
            BY <1>1, <2>2, <4>2, <5>1 DEF NoOverlap
          <5>4. QED BY <1>0, <1>1, <2>2, <2>4, <3>2, <5>1, <5>2, <5>3
        <4>3. QED BY <4>1, <4>2
      <3>3. CASE a # t /\ b # t
        <4>1. a \in Blocks /\ b \in Blocks BY <2>1, <3>3
        <4>2. a + size[a] <= b BY <2>4, <4>1 DEF NoOverlap
        <4>3. size'[a] <= size[a] /\ size'[a] \in Nat
          <5>1. CASE a = p BY <1>0, <1>1, <1>5, <5>1
          <5>2. CASE a # p
            <6>1. a \in Addr \ {p, t} /\ size[a] \in Nat
              BY <2>2, <3>3, <4>1, <5>2
            <6>2. size'[a] = size[a]
              <7> HIDE DEF Addr, TakeTail
              <7>1. QED BY <1>5, <6>1
            <6>3. QED BY <6>1, <6>2
          <5>3. QED BY <5>1, <5>2
        <4>4. QED BY <2>2, <4>1, <4>2, <4>3
      <3>4. QED BY <3>1, <3>2, <3>3
    <2>5. live' \cap ring' = {} BY <1>3, <1>4 DEF NoOverlap
    <2>6. QED BY <2>1, <2>3, <2>4, <2>5 DEF NoOverlap
  <1>8. RingSorted' BY DEF RingSorted
  <1>9. Anchored' /\ Walking' /\ BelowBreak'
    <2>1. Base \in Addr /\ Base # t /\ size'[Base] = 0
      <3>1. Base \in Addr OBVIOUS
      <3>2. Base # t BY <1>1
      <3>3. size'[Base] = size[Base] BY <1>0, <1>5, <3>1, <3>2
      <3>4. QED BY <1>0, <3>1, <3>2, <3>3 DEF Anchored
    <2>2. QED BY <1>0, <2>1 DEF TypeOK, Anchored, Walking, Pending, BelowBreak
  <1>10. QED BY <1>6, <1>7, <1>8, <1>9 DEF IInv

(* morecore(): the new block lies above everything, sbrk() gave it to        *)
(* nobody else (umalloc.c:44-54).                                            *)
LEMMA GrowIInv ==
    ASSUME IInv, Grow
    PROVE  IInv'
  <1> USE UmallocAssumption DEF Grow, Addr, Base, NULL, IInv, mallocLocals
  <1>0. /\ freep \in ring /\ nunits \in Nat /\ GrowUnits \in Nat /\ GrowUnits >= 1
        /\ brk \in Addr /\ brk >= HeapStart /\ brk + GrowUnits \in HeapStart .. Limit
        /\ ring \subseteq Addr /\ freep \in Addr /\ size[Base] = 0 /\ Base \in ring
    BY DEF TypeOK, Walking, Anchored, GrowUnits
  <1>1. brk \notin ring /\ brk \notin live /\ InTransit = {} /\ InTransit' = {brk}
    <2>1. brk \notin Blocks
      <3>1. size[brk] \in Nat BY <1>0 DEF TypeOK
      <3>2. brk \in Blocks => size[brk] >= 1 /\ brk + size[brk] <= brk
        BY DEF NoOverlap
      <3>3. QED BY <1>0, <3>1, <3>2
    <2>2. QED BY <1>0, <2>1 DEF Blocks, InTransit
  <1>2. /\ size'[brk] = GrowUnits
        /\ \A b \in Addr \ {brk} : size'[b] = size[b]
    BY <1>0 DEF TypeOK
  <1>3. TypeOK'
    <2>1. size' \in [Addr -> Nat] BY <1>0 DEF TypeOK
    <2>2. QED BY <1>0, <2>1 DEF TypeOK
  <1>4. NoOverlap'
    <2>1. Blocks' = Blocks \cup {brk}
      BY <1>0, <1>1 DEF Blocks
    <2>2. /\ Blocks \subseteq Addr \ {brk}
          /\ \A b \in Blocks : size[b] \in Nat /\ size'[b] = size[b]
      <3>1. Blocks \subseteq Addr \ {brk} BY <1>1 DEF Blocks, TypeOK
      <3>2. QED BY <1>2, <3>1 DEF TypeOK
    <2>3. ASSUME NEW b \in Blocks'
          PROVE  /\ size'[b] >= 1 /\ HeapStart <= b /\ b + size'[b] <= brk'
                 /\ UnitsOf(b)' \cap foreign' = {}
      <3>1. CASE b = brk
        BY <1>0, <1>2, <3>1 DEF BelowBreak, UnitsOf
      <3>2. CASE b \in Blocks
        <4>1. size'[b] >= 1 /\ HeapStart <= b /\ b + size'[b] <= brk'
          BY <1>0, <2>2, <3>2 DEF NoOverlap
        <4>2. UnitsOf(b)' = UnitsOf(b) BY <2>2, <3>2 DEF UnitsOf
        <4>3. QED BY <3>2, <4>1, <4>2 DEF NoOverlap
      <3>3. QED BY <2>1, <3>1, <3>2
    <2>4. ASSUME NEW a \in Blocks', NEW b \in Blocks', a < b
          PROVE  a + size'[a] <= b
      <3>1. CASE a = brk
        <4>1. b < brk
          BY <1>0, <2>1, <2>2, <2>4, <3>1 DEF NoOverlap
        <4>2. QED BY <1>0, <2>1, <2>2, <2>4, <3>1, <4>1
      <3>2. CASE a \in Blocks /\ b = brk
        BY <2>2, <3>2 DEF NoOverlap
      <3>3. CASE a \in Blocks /\ b \in Blocks
        BY <2>2, <2>4, <3>3 DEF NoOverlap
      <3>4. QED BY <2>1, <3>1, <3>2, <3>3
    <2>5. QED BY <1>1, <2>3, <2>4 DEF NoOverlap
  <1>5. RingSorted' BY DEF RingSorted
  <1>6. Anchored' /\ Walking' /\ BelowBreak'
    <2>1. size'[Base] = 0 BY <1>0, <1>1, <1>2
    <2>2. BelowBreak' BY <1>0 DEF BelowBreak
    <2>3. QED BY <1>0, <2>1, <2>2 DEF Anchored, Walking, Pending
  <1>7. QED BY <1>3, <1>4, <1>5, <1>6 DEF IInv

(* The program gives back a block: it is now in transit (umalloc.c:27).      *)
LEMMA FreeIInv ==
    ASSUME IInv, NEW b \in live, Free(b)
    PROVE  IInv'
  <1> USE UmallocAssumption DEF Free, Addr, Base, NULL, IInv, mallocLocals
  <1>1. TypeOK' BY DEF TypeOK, Anchored
  <1>2. NoOverlap'
    <2>1. Blocks' = Blocks BY DEF Blocks, InTransit
    <2>2. QED BY <2>1 DEF NoOverlap, InTransit, UnitsOf
  <1>3. RingSorted' BY DEF RingSorted
  <1>4. Anchored' /\ Walking' /\ BelowBreak'
    BY DEF TypeOK, Anchored, Walking, Pending, BelowBreak
  <1>5. QED BY <1>1, <1>2, <1>3, <1>4 DEF IInv

-----------------------------------------------------------------------------
(* free() links the block in: the four ways it may meet its neighbours.      *)

(* What holds where the search stops: q and its successor enclose the block, *)
(* or the block lies above the ring; only in the first case can it meet the  *)
(* successor (umalloc.c:28-31).                                              *)
LEMMA SearchStops ==
    ASSUME IInv, pc = "free", Belongs(fp, bp)
    PROVE  /\ Slot(ring, ptr, fp, bp)
           /\ fp \in ring /\ ptr[fp] \in ring /\ bp \in Blocks
           /\ fp \in Addr /\ ptr[fp] \in Addr /\ bp \in Addr
           /\ bp \notin ring /\ bp # Base /\ bp \notin live
           /\ MeetsNext(fp, bp) => bp < ptr[fp] /\ ptr[fp] # Base
  <1> USE UmallocAssumption DEF IInv, Addr, Base, NULL
  <1>1. /\ fp \in ring /\ ptr[fp] \in ring /\ bp \in Blocks
        /\ fp \in Addr /\ ptr[fp] \in Addr /\ bp \in Addr
        /\ bp \notin ring /\ bp # Base /\ bp \notin live
    <2>1. fp \in ring /\ ptr[fp] \in ring /\ Base \in ring
      BY DEF Walking, RingSorted, SortedRing, Anchored
    <2>2. bp \in InTransit /\ bp \in Blocks BY DEF InTransit, Blocks
    <2>3. QED BY <2>1, <2>2 DEF TypeOK, NoOverlap
  <1>2. Slot(ring, ptr, fp, bp)
    <2>1. CASE fp < ptr[fp] /\ \A c \in ring : c <= fp \/ ptr[fp] <= c
      BY <1>1, <2>1 DEF Slot, Belongs, Between, AtTheEnds
    <2>2. CASE ptr[fp] = Base /\ \A c \in ring : c <= fp
      BY <1>1, <2>2 DEF Slot, Belongs, Between, AtTheEnds
    <2>3. QED BY <1>1, <2>1, <2>2 DEF RingSorted, SortedRing
  <1>3. MeetsNext(fp, bp) => bp < ptr[fp] /\ ptr[fp] # Base
    <2>1. size[bp] \in Nat /\ size[bp] >= 1
      BY <1>1 DEF TypeOK, NoOverlap
    <2>2. QED BY <1>1, <2>1 DEF MeetsNext
  <1>4. QED BY <1>1, <1>2, <1>3

LEMMA FreeLinkRing ==
    ASSUME IInv, FreeLink
    PROVE  RingSorted' /\ fp \in ring' /\ Base \in ring' /\ ring' \subseteq Addr
  <1> USE UmallocAssumption
  <1> DEFINE n == ptr[fp]
  <1>1. /\ Slot(ring, ptr, fp, bp)
        /\ fp \in ring /\ n \in ring /\ fp \in Addr /\ n \in Addr /\ bp \in Addr
        /\ bp \notin ring /\ bp # Base
        /\ MeetsNext(fp, bp) => bp < n /\ n # Base
    BY SearchStops DEF FreeLink
  <1>2. /\ SortedRing(ring, ptr) /\ Base \in ring /\ ring \subseteq Addr
        /\ ring \subseteq Nat
        /\ ptr \in [Addr -> Addr \cup {NULL}]
    BY <1>1 DEF IInv, RingSorted, Anchored, Walking, FreeLink, TypeOK, Addr, Base
  <1>3. CASE MeetsNext(fp, bp) /\ MeetsPrev(fp, bp)
    <2>1. ring' = ring \ {n} /\ ptr' = [ptr EXCEPT ![bp] = ptr[n], ![fp] = ptr[n]]
      BY <1>3 DEF FreeLink, LinkPtr
    <2>2. fp # n /\ SortedRing(ring \ {n}, ptr')
      <3>1. ptr'[fp] = ptr[ptr[fp]] /\ \A c \in ring \ {fp} : ptr'[c] = ptr[c]
        BY <1>1, <1>2, <2>1
      <3>2. ptr[fp] # Base BY <1>1, <1>3
      <3>3. QED BY <1>1, <1>2, <3>1, <3>2, SortedRemove DEF SortedRing
    <2>3. QED BY <1>1, <1>2, <1>3, <2>1, <2>2 DEF RingSorted
  <1>4. CASE ~MeetsNext(fp, bp) /\ MeetsPrev(fp, bp)
    <2>1. ring' = ring /\ ptr' = [ptr EXCEPT ![bp] = n, ![fp] = n]
      BY <1>4 DEF FreeLink, LinkPtr
    <2>2. \A c \in ring : ptr'[c] = ptr[c] BY <1>1, <1>2, <2>1
    <2>3. SortedRing(ring, ptr') BY <1>2, <2>2 DEF SortedRing
    <2>4. QED BY <1>1, <1>2, <2>1, <2>3 DEF RingSorted
  <1>5. CASE ~MeetsNext(fp, bp) /\ ~MeetsPrev(fp, bp)
    <2>1. ring' = ring \cup {bp} /\ ptr' = [ptr EXCEPT ![bp] = n, ![fp] = bp]
      BY <1>5 DEF FreeLink, LinkPtr
    <2>2. /\ ptr'[bp] = ptr[fp] /\ ptr'[fp] = bp
          /\ \A c \in ring \ {fp} : ptr'[c] = ptr[c]
      BY <1>1, <1>2, <2>1
    <2>3. SortedRing(ring \cup {bp}, ptr')
      <3>1. bp \in Nat BY <1>1 DEF Addr, Base
      <3>2. PICK R0, S0, f0, g0, q0, b0 :
              R0 = ring /\ S0 = ring \cup {bp} /\ f0 = ptr /\ g0 = ptr' /\ q0 = fp /\ b0 = bp
        OBVIOUS
      <3>3. SortedRing(R0, f0) /\ Slot(R0, f0, q0, b0)
        BY <1>1, <1>2, <3>2 DEF SortedRing, Slot
      <3>4. SortedRing(S0, g0)
        <4>1. /\ S0 = R0 \cup {b0} /\ R0 \subseteq Nat /\ Base \in R0 /\ q0 \in R0
              /\ b0 \in Nat /\ b0 \notin R0
              /\ g0[b0] = f0[q0] /\ g0[q0] = b0
              /\ \A c \in R0 \ {q0} : g0[c] = f0[c]
          BY <1>1, <1>2, <2>2, <3>1, <3>2
        <4>2. QED BY <3>3, <4>1, SortedInsert
      <3>5. QED BY <3>2, <3>4 DEF SortedRing
    <2>4. QED BY <1>1, <1>2, <2>1, <2>3 DEF RingSorted
  <1>6. CASE MeetsNext(fp, bp) /\ ~MeetsPrev(fp, bp)
    <2>1. /\ ring' = (ring \ {n}) \cup {bp}
          /\ ptr' = [ptr EXCEPT ![bp] = ptr[n], ![fp] = bp]
      BY <1>6 DEF FreeLink, LinkPtr
    <2> DEFINE g == [ptr EXCEPT ![fp] = ptr[n]]
               R == ring \ {n}
    <2>2. fp # n /\ SortedRing(R, g)
      <3>1. g[fp] = ptr[ptr[fp]] /\ \A c \in ring \ {fp} : g[c] = ptr[c]
        BY <1>1, <1>2
      <3>2. ptr[fp] # Base BY <1>1, <1>6
      <3> HIDE DEF g
      <3>3. QED BY <1>1, <1>2, <3>1, <3>2, SortedRemove DEF SortedRing, R
    <2>3. Slot(R, g, fp, bp)
      <3>1. g[fp] = ptr[n] /\ ptr[n] \in ring BY <1>1, <1>2 DEF SortedRing
      <3>2. fp < bp /\ bp < n /\ \A c \in ring : c <= fp \/ n <= c
        BY <1>1, <1>6 DEF Slot
      <3>3. CASE n < ptr[n] /\ \A c \in ring : c <= n \/ ptr[n] <= c
        <4>1. fp \in Nat /\ bp \in Nat /\ n \in Nat /\ ptr[n] \in Nat
          <5>1. bp \in Nat BY <1>1 DEF Addr, Base
          <5>2. QED BY <1>1, <1>2, <3>1, <5>1
        <4>2. bp < ptr[n] BY <3>2, <3>3, <4>1
        <4>3. ASSUME NEW c \in R PROVE c <= fp \/ ptr[n] <= c
          BY <1>2, <3>2, <3>3, <4>1, <4>3
        <4>4. QED BY <3>1, <3>2, <4>2, <4>3 DEF Slot
      <3>4. CASE ptr[n] = Base /\ \A c \in ring : c <= n
        <4>1. {fp, bp, n} \subseteq Nat BY <1>1, <1>2 DEF Addr, Base
        <4>2. ASSUME NEW c \in R PROVE c <= fp
          BY <1>2, <3>2, <3>4, <4>1, <4>2
        <4>3. QED BY <3>1, <3>2, <3>4, <4>2 DEF Slot
      <3>5. QED BY <1>1, <1>2, <3>3, <3>4 DEF SortedRing
    <2>4. /\ ptr'[bp] = g[fp] /\ ptr'[fp] = bp
          /\ \A c \in R \ {fp} : ptr'[c] = g[c]
      BY <1>1, <1>2, <2>1
    <2>5. /\ R \subseteq Nat /\ Base \in R /\ fp \in R /\ bp \in Nat /\ bp \notin R
      <3>1. bp \in Nat BY <1>1 DEF Addr, Base
      <3>2. QED BY <1>1, <1>2, <1>6, <2>2, <3>1
    <2> HIDE DEF g, R
    <2>6. SortedRing(R \cup {bp}, ptr')
      <3>1. PICK R0, S0, f0, g0, q0, b0 :
              R0 = R /\ S0 = R \cup {bp} /\ f0 = g /\ g0 = ptr' /\ q0 = fp /\ b0 = bp
        OBVIOUS
      <3>2. SortedRing(R0, f0) /\ Slot(R0, f0, q0, b0)
        BY <2>2, <2>3, <3>1 DEF SortedRing, Slot
      <3>3. SortedRing(S0, g0)
        <4>1. /\ S0 = R0 \cup {b0} /\ R0 \subseteq Nat /\ Base \in R0 /\ q0 \in R0
              /\ b0 \in Nat /\ b0 \notin R0
              /\ g0[b0] = f0[q0] /\ g0[q0] = b0
              /\ \A c \in R0 \ {q0} : g0[c] = f0[c]
          BY <2>4, <2>5, <3>1
        <4>2. QED BY <3>2, <4>1, SortedInsert
      <3>4. QED BY <3>1, <3>3 DEF SortedRing
    <2>7. ring' = R \cup {bp} BY <2>1 DEF R
    <2>8. QED BY <1>1, <1>2, <2>5, <2>6, <2>7 DEF RingSorted, R
  <1>7. QED BY <1>3, <1>4, <1>5, <1>6

(* Linking may merge three blocks into one but moves no boundary of another  *)
(* (umalloc.c:31-40).                                                        *)
LEMMA FreeLinkBlocks ==
    ASSUME IInv, FreeLink
    PROVE  NoOverlap' /\ size' \in [Addr -> Nat] /\ size'[Base] = 0
  <1> USE UmallocAssumption
  <1> DEFINE n == ptr[fp]
             e == IF MeetsPrev(fp, bp) THEN fp ELSE bp
             last == IF MeetsNext(fp, bp) THEN n ELSE bp
             len == (last + size[last]) - e
  <1>1. /\ Slot(ring, ptr, fp, bp) /\ bp \in Blocks
        /\ fp \in ring /\ n \in ring /\ fp \in Addr /\ n \in Addr /\ bp \in Addr
        /\ bp \notin ring /\ bp # Base /\ bp \notin live
        /\ MeetsNext(fp, bp) => bp < n /\ n # Base
    BY SearchStops DEF FreeLink
  <1>2. /\ size \in [Addr -> Nat] /\ size[Base] = 0 /\ Base \in Addr
        /\ HeapStart > Base /\ ring \cap live = {} /\ freep # NULL
    BY DEF IInv, TypeOK, Anchored, Walking, FreeLink, Addr, Base, NoOverlap
  <1>3. MeetsNext(fp, bp) => n \in Blocks
    BY <1>1 DEF Blocks
  <1>4. MeetsPrev(fp, bp) => fp \in Blocks /\ fp # Base
    <2>1. bp >= HeapStart BY <1>1 DEF IInv, NoOverlap
    <2>2. MeetsPrev(fp, bp) => fp # Base
      BY <1>2, <2>1 DEF MeetsPrev, Base, Addr
    <2>3. QED BY <1>1, <2>2 DEF Blocks
  <1>5. \A b \in Blocks : b \in Addr /\ b \in Nat /\ size[b] \in Nat
    <2>1. Blocks \subseteq Addr BY DEF Blocks, InTransit, IInv, TypeOK
    <2>2. Addr \subseteq Nat BY DEF Addr, Base
    <2>3. QED BY <1>2, <2>1, <2>2
  <1>6. e \in Blocks /\ last \in Blocks /\ e <= bp /\ bp <= last
    BY <1>1, <1>3, <1>4, <1>5 DEF Slot
  <1>7. last + size[last] >= bp + size[bp] /\ size[bp] >= 1
    BY <1>1, <1>3, <1>5 DEF IInv, NoOverlap, MeetsNext
  <1> HIDE DEF e, last
  <1>8. len \in Nat /\ len >= 1
    BY <1>1, <1>5, <1>6, <1>7
  <1> HIDE DEF len
  <1>9. size'[e] = len /\ size' \in [Addr -> Nat]
        /\ \A c \in Addr \ {e, bp} : size'[c] = size[c]
    <2>1. LinkSize \in Nat /\ bp + LinkSize = last + size[last]
      BY <1>1, <1>3, <1>5 DEF LinkSize, MeetsNext, last
    <2>2. CASE MeetsPrev(fp, bp)
      <3>1. size' = [size EXCEPT ![bp] = LinkSize, ![fp] = size[fp] + LinkSize]
        BY <2>2 DEF FreeLink
      <3>2. e = fp /\ fp # bp /\ fp + size[fp] = bp /\ fp \in Nat /\ size[fp] \in Nat
        BY <1>1, <1>4, <1>5, <2>2 DEF e, MeetsPrev
      <3>3. size[fp] + LinkSize = len /\ size[fp] + LinkSize \in Nat
        BY <1>5, <1>6, <2>1, <3>2 DEF len
      <3>4. QED BY <1>1, <1>2, <2>1, <3>1, <3>2, <3>3
    <2>3. CASE ~MeetsPrev(fp, bp)
      <3>1. size' = [size EXCEPT ![bp] = LinkSize] /\ e = bp
        BY <2>3 DEF FreeLink, e
      <3>2. LinkSize = len
        BY <1>5, <1>6, <2>1, <3>1 DEF len
      <3>3. QED BY <1>1, <1>2, <2>1, <3>1, <3>2
    <2>4. QED BY <2>2, <2>3
  <1>10. size'[Base] = 0
    <2>1. Base # e /\ Base # bp BY <1>1, <1>4 DEF e
    <2>2. QED BY <1>2, <1>9, <2>1
  <1>11. /\ Blocks' \subseteq Blocks /\ InTransit' = {} /\ live' = live
         /\ \A c \in Blocks' \ {e} :
               /\ c # bp
               /\ MeetsNext(fp, bp) => c # n
               /\ MeetsPrev(fp, bp) => c # fp
         /\ live' \cap ring' = {}
    <2>1. /\ InTransit' = {} /\ live' = live
      BY DEF InTransit, FreeLink, FreeReturns
    <2>2. ring' = (ring \ (IF MeetsNext(fp, bp) THEN {n} ELSE {}))
               \cup (IF MeetsPrev(fp, bp) THEN {} ELSE {bp})
      BY DEF FreeLink
    <2>3. Blocks' \subseteq Blocks
      BY <1>1, <2>1, <2>2 DEF Blocks
    <2>4. ASSUME NEW c \in Blocks' \ {e}
          PROVE  /\ c # bp
                 /\ MeetsNext(fp, bp) => c # n
                 /\ MeetsPrev(fp, bp) => c # fp
      <3>1. c \in ring' \/ c \in live BY <2>1 DEF Blocks
      <3>2. MeetsPrev(fp, bp) => e = fp BY DEF e
      <3>3. ~MeetsPrev(fp, bp) => e = bp BY DEF e
      <3>4. QED BY <1>1, <1>2, <2>2, <2>4, <3>1, <3>2, <3>3
    <2>5. live' \cap ring' = {} BY <1>1, <1>2, <2>1, <2>2
    <2>6. QED BY <2>1, <2>3, <2>4, <2>5
  <1>12. ASSUME NEW c \in Blocks' \ {e}
         PROVE  size'[c] = size[c] /\ c \in Blocks
    <2>1. c # bp /\ c # e /\ c \in Blocks BY <1>11, <1>12, Zenon
    <2>2. c \in Addr \ {e, bp} BY <1>5, <2>1
    <2>3. QED BY <1>9, <2>1, <2>2
  <1>13. ASSUME NEW b \in Blocks'
         PROVE  /\ size'[b] >= 1 /\ HeapStart <= b /\ b + size'[b] <= brk'
                /\ UnitsOf(b)' \cap foreign' = {}
    <2>0. brk' = brk /\ foreign' = foreign BY DEF FreeLink
    <2>1. CASE b = e
      <3>1. HeapStart <= b /\ b + len <= brk
        <4>1. HeapStart <= e /\ last + size[last] <= brk
          BY <1>6 DEF IInv, NoOverlap
        <4>2. e + len = last + size[last] BY <1>5, <1>6 DEF len
        <4>3. QED BY <2>1, <4>1, <4>2
      <3>2. ASSUME NEW u \in UnitsOf(b)' PROVE u \notin foreign
        <4>1. u \in Int /\ e <= u /\ u < last + size[last]
          BY <1>5, <1>6, <1>9, <2>1, <3>2 DEF UnitsOf, len
        <4>2. \A c \in Blocks : c <= u /\ u < c + size[c] => u \notin foreign
          BY <1>5, <4>1 DEF IInv, NoOverlap, UnitsOf
        <4>3. CASE u < bp
          BY <1>4, <1>5, <1>6, <4>1, <4>2, <4>3 DEF e, MeetsPrev
        <4>4. CASE bp <= u /\ u < bp + size[bp]
          BY <1>1, <4>2, <4>4
        <4>5. CASE bp + size[bp] <= u
          BY <1>3, <1>5, <1>1, <4>1, <4>2, <4>5 DEF last, MeetsNext
        <4>6. QED BY <1>1, <1>5, <4>1, <4>3, <4>4, <4>5
      <3>3. QED BY <1>8, <1>9, <2>0, <2>1, <3>1, <3>2
    <2>2. CASE b # e
      <3>1. size'[b] = size[b] /\ b \in Blocks BY <1>12, <2>2
      <3>2. UnitsOf(b)' = UnitsOf(b) BY <3>1 DEF UnitsOf
      <3>3. QED BY <2>0, <3>1, <3>2 DEF IInv, NoOverlap
    <2>3. QED BY <2>1, <2>2
  <1>14. ASSUME NEW a \in Blocks', NEW b \in Blocks', a < b
         PROVE  a + size'[a] <= b
    <2>0. \A x, y \in Blocks : x < y => x + size[x] <= y BY DEF IInv, NoOverlap
    <2>1. CASE a = e
      <3>1. b \in Blocks \ {bp} /\ b \in Nat /\ b # last /\ e < b
        <4>1. b \in Blocks /\ b \in Nat /\ e \in Nat /\ e < b
          BY <1>5, <1>6, <1>11, <1>14, <2>1
        <4>2. b \in Blocks' \ {e} BY <4>1, <1>14
        <4>3. b # bp /\ (MeetsNext(fp, bp) => b # n) BY <1>11, <4>2, Zenon
        <4>4. QED BY <4>1, <4>3 DEF last
      <3>2. bp < b
        BY <1>1, <1>4, <1>5, <2>0, <3>1 DEF e, MeetsPrev
      <3>3. last < b
        BY <1>1, <1>3, <1>5, <2>0, <3>1, <3>2 DEF last, MeetsNext
      <3>4. last + size[last] <= b BY <1>6, <2>0, <3>1, <3>3
      <3>5. QED BY <1>5, <1>6, <1>9, <2>1, <3>4 DEF len
    <2>2. CASE a # e
      <3>1. size'[a] = size[a] /\ a \in Blocks /\ b \in Blocks
        BY <1>11, <1>12, <2>2
      <3>2. QED BY <1>14, <2>0, <3>1
    <2>3. QED BY <2>1, <2>2
  <1>15. NoOverlap'
    BY <1>11, <1>13, <1>14 DEF NoOverlap
  <1>16. QED BY <1>9, <1>10, <1>15

LEMMA FreeLinkIInv ==
    ASSUME IInv, FreeLink
    PROVE  IInv'
  <1> USE UmallocAssumption
  <1>1. /\ fp \in ring /\ ptr[fp] \in ring /\ fp \in Addr /\ ptr[fp] \in Addr
        /\ bp \in Addr
    BY SearchStops DEF FreeLink
  <1>2. RingSorted' /\ fp \in ring' /\ Base \in ring' /\ ring' \subseteq Addr
    BY FreeLinkRing
  <1>3. NoOverlap' /\ size' \in [Addr -> Nat] /\ size'[Base] = 0
    BY FreeLinkBlocks
  <1>4. TypeOK'
    <2>1. LinkPtr \in Addr \cup {NULL}
      BY <1>1 DEF LinkPtr, IInv, TypeOK
    <2>2. ptr' \in [Addr -> Addr \cup {NULL}]
      <3>1. ptr \in [Addr -> Addr \cup {NULL}] BY DEF IInv, TypeOK
      <3>2. ptr' = [ptr EXCEPT ![bp] = LinkPtr, ![fp] = LinkPtr] \/
            ptr' = [ptr EXCEPT ![bp] = LinkPtr, ![fp] = bp]
        BY DEF FreeLink
      <3>3. bp \in Addr \cup {NULL} /\ fp \in Addr BY <1>1
      <3>4. CASE ptr' = [ptr EXCEPT ![bp] = LinkPtr, ![fp] = LinkPtr]
        BY <2>1, <3>1, <3>4
      <3>5. CASE ptr' = [ptr EXCEPT ![bp] = LinkPtr, ![fp] = bp]
        BY <2>1, <3>1, <3>3, <3>5
      <3>6. QED BY <3>2, <3>4, <3>5
    <2>3. ptr'[fp] \in ring' BY <1>2 DEF RingSorted, SortedRing
    <2>4. /\ freep' = fp /\ brk' = brk /\ foreign' = foreign /\ live' = live
          /\ bp' = NULL /\ fp' = NULL /\ caller' = "user" /\ nbytes' = nbytes
          /\ nunits' = nunits
          /\ \/ pc' = "idle" /\ p' = p /\ prevp' = prevp
             \/ pc' = "scan" /\ prevp' = fp /\ p' = ptr'[fp]
      BY DEF FreeLink, FreeReturns, mallocLocals
    <2>5. QED BY <1>1, <1>2, <1>3, <2>2, <2>3, <2>4 DEF IInv, TypeOK
  <1>5. Anchored' /\ Walking' /\ BelowBreak'
    <2>1. fp # NULL BY <1>1 DEF Addr, Base, NULL
    <2>2. /\ freep' = fp /\ brk' = brk /\ foreign' = foreign
          /\ nbytes' = nbytes /\ nunits' = nunits /\ caller' = "user"
          /\ \/ pc' = "idle"
             \/ caller = "morecore" /\ pc' = "scan" /\ prevp' = fp /\ p' = ptr'[fp]
          /\ pc = "free"
      BY DEF FreeLink, FreeReturns, mallocLocals
    <2>3. Anchored' BY <1>2, <1>3, <2>1, <2>2 DEF Anchored
    <2>4. Pending' => Pending BY <2>2 DEF Pending
    <2>5. Walking'
      BY <1>2, <2>1, <2>2, <2>4 DEF Walking, IInv, NUnits
    <2>6. BelowBreak' BY <2>2 DEF BelowBreak, IInv
    <2>7. QED BY <2>3, <2>5, <2>6
  <1>6. QED BY <1>2, <1>3, <1>4, <1>5 DEF IInv

-----------------------------------------------------------------------------
LEMMA StutterIInv == IInv /\ UNCHANGED vars => IInv'
  BY DEF vars, IInv, TypeOK, NoOverlap, RingSorted, SortedRing, Anchored,
         Walking, BelowBreak, Blocks, InTransit, UnitsOf, Pending

(* Every call, loop turn and sbrk() keeps the invariant (umalloc.c:24-84).   *)
LEMMA StepIInv ==
    ASSUME IInv, [Next]_vars
    PROVE  IInv'
  <1>1. ASSUME NEW n \in Requests, MallocFirst(n) PROVE IInv'
    BY <1>1, MallocFirstIInv
  <1>2. ASSUME NEW n \in Requests, Malloc(n) PROVE IInv'
    BY <1>2, MallocIInv
  <1>3. CASE TakeWhole BY <1>3, TakeWholeIInv
  <1>4. CASE TakeTail BY <1>4, TakeTailIInv
  <1>5. CASE ScanNext BY <1>5, ScanNextIInv
  <1>6. CASE Grow BY <1>6, GrowIInv
  <1>7. CASE GrowFails BY <1>7, GrowFailsIInv
  <1>8. ASSUME NEW b \in live, Free(b) PROVE IInv'
    BY <1>8, FreeIInv
  <1>9. CASE FreeNext BY <1>9, FreeNextIInv
  <1>10. CASE FreeLink BY <1>10, FreeLinkIInv
  <1>11. ASSUME NEW k \in Chunks, OtherSbrk(k) PROVE IInv'
    BY <1>11, OtherSbrkIInv
  <1>12. CASE UNCHANGED vars BY <1>12, StutterIInv
  <1>13. QED
    BY <1>1, <1>2, <1>3, <1>4, <1>5, <1>6, <1>7, <1>8, <1>9, <1>10, <1>11, <1>12
    DEF Next, Scan, Release

(* So it is inductive.                                                       *)
THEOREM Inductive == Spec => []IInv
  <1>1. IInv /\ [Next]_vars => IInv' BY StepIInv
  <1>2. QED BY <1>1, InitIInv, PTL DEF Spec

(* The state always has its types (umalloc.c:11-22).                         *)
THEOREM TypeCorrect == Spec => []TypeOK
  <1>1. IInv => TypeOK BY DEF IInv
  <1>2. QED BY <1>1, Inductive, PTL

(* malloc() and free() never let two blocks share memory, nor a block share  *)
(* it with what other callers got from sbrk() (umalloc.c:24-84).             *)
THEOREM BlocksDisjoint == Spec => []NoOverlap
  <1>1. IInv => NoOverlap BY DEF IInv
  <1>2. QED BY <1>1, Inductive, PTL

(* The free ring always climbs from base and comes back to it, so the search *)
(* in free() has one place to stop (umalloc.c:28-30).                        *)
THEOREM RingStaysSorted == Spec => []RingSorted
  <1>1. IInv => RingSorted BY DEF IInv
  <1>2. QED BY <1>1, Inductive, PTL

-----------------------------------------------------------------------------
(* What the allocator does for its caller.                                   *)

(* What free() finds where its search stops (umalloc.c:28-31).               *)
LEMMA LinkFacts ==
    ASSUME IInv, FreeLink
    PROVE  /\ Slot(ring, ptr, fp, bp) /\ bp \in Blocks
           /\ fp \in ring /\ ptr[fp] \in ring /\ bp \notin ring /\ bp \notin live
           /\ MeetsNext(fp, bp) => bp < ptr[fp] /\ ptr[fp] \in Blocks
           /\ MeetsPrev(fp, bp) => fp \in Blocks
           /\ size[Base] = 0 /\ Base \in ring /\ ring \cap live = {}
           /\ \A b \in ring \cup live \cup {bp} :
                 b \in Addr /\ b \in Nat /\ size[b] \in Nat
           /\ size[bp] >= 1
  <1>1. /\ Slot(ring, ptr, fp, bp) /\ bp \in Blocks
        /\ fp \in ring /\ ptr[fp] \in ring /\ bp \in Addr
        /\ bp \notin ring /\ bp \notin live
        /\ MeetsNext(fp, bp) => bp < ptr[fp] /\ ptr[fp] # Base
    BY SearchStops DEF FreeLink
  <1>2. size[Base] = 0 /\ Base \in ring /\ ring \cap live = {}
    BY DEF IInv, Anchored, Walking, FreeLink, NoOverlap
  <1>3. \A b \in ring \cup live \cup {bp} : b \in Addr /\ b \in Nat /\ size[b] \in Nat
    BY <1>1 DEF IInv, TypeOK, Addr, Base
  <1>4. MeetsNext(fp, bp) => ptr[fp] \in Blocks BY <1>1 DEF Blocks
  <1>5. MeetsPrev(fp, bp) => fp \in Blocks
    <2>1. bp >= HeapStart /\ HeapStart > Base
      BY <1>1, UmallocAssumption DEF IInv, NoOverlap
    <2>2. MeetsPrev(fp, bp) => fp # Base
      BY <1>2, <2>1, UmallocAssumption DEF MeetsPrev, Base
    <2>3. QED BY <1>1, <2>2 DEF Blocks
  <1>6. size[bp] >= 1 BY <1>1 DEF IInv, NoOverlap
  <1>7. QED BY <1>1, <1>2, <1>3, <1>4, <1>5, <1>6

(* Linking makes one block of bp and the neighbours it meets, and leaves the *)
(* size of every other header alone (umalloc.c:31-40).                       *)
First == IF MeetsPrev(fp, bp) THEN fp ELSE bp
Final == IF MeetsNext(fp, bp) THEN ptr[fp] ELSE bp

LEMMA LinkSizes ==
    ASSUME IInv, FreeLink
    PROVE  /\ First + size'[First] = Final + size[Final]
           /\ size'[First] \in Nat /\ First \in ring'
           /\ \A c \in Addr \ {First, bp} : size'[c] = size[c]
           /\ First \in ring \cup {bp} /\ Final \in ring \cup {bp}
           /\ ring' = ((ring \cup {bp}) \ (IF MeetsNext(fp, bp) THEN {ptr[fp]} ELSE {}))
                      \ (IF MeetsPrev(fp, bp) THEN {bp} ELSE {})
           /\ live' = live /\ InTransit' = {} /\ brk' = brk /\ foreign' = foreign
  <1>1. /\ fp \in ring /\ ptr[fp] \in ring /\ bp \notin ring
        /\ MeetsNext(fp, bp) => bp < ptr[fp]
        /\ \A b \in ring \cup live \cup {bp} : b \in Addr /\ b \in Nat /\ size[b] \in Nat
    BY LinkFacts
  <1>2. size \in [Addr -> Nat] BY DEF IInv, TypeOK
  <1>3. /\ live' = live /\ InTransit' = {} /\ brk' = brk /\ foreign' = foreign
    BY DEF FreeLink, FreeReturns, InTransit
  <1>4. First \in ring \cup {bp} /\ Final \in ring \cup {bp}
    BY <1>1 DEF First, Final
  <1>5. LinkSize \in Nat /\ bp + LinkSize = Final + size[Final]
    BY <1>1 DEF LinkSize, Final, MeetsNext
  <1>6. ring' = ((ring \cup {bp}) \ (IF MeetsNext(fp, bp) THEN {ptr[fp]} ELSE {}))
                \ (IF MeetsPrev(fp, bp) THEN {bp} ELSE {})
    BY <1>1 DEF FreeLink
  <1>7. CASE MeetsPrev(fp, bp)
    <2>1. /\ size' = [size EXCEPT ![bp] = LinkSize, ![fp] = size[fp] + LinkSize]
          /\ First = fp /\ fp # bp
      BY <1>1, <1>7 DEF FreeLink, First
    <2>2. fp + size[fp] = bp /\ fp \in Nat /\ size[fp] \in Nat
      BY <1>1, <1>7 DEF MeetsPrev
    <2>3. size'[fp] = size[fp] + LinkSize BY <1>1, <1>2, <2>1
    <2>4. \A c \in Addr \ {fp, bp} : size'[c] = size[c] BY <1>1, <1>2, <2>1
    <2>5. fp # ptr[fp] \/ ~MeetsNext(fp, bp)
      <3>1. size[bp] \in Nat /\ bp \in Nat BY <1>1
      <3>2. QED BY <1>1, <2>2, <3>1
    <2>6. fp + size'[fp] = Final + size[Final] /\ size'[fp] \in Nat
      BY <1>1, <1>5, <2>2, <2>3
    <2>7. fp \in ring' BY <1>1, <1>6, <2>1, <2>5
    <2>8. QED BY <1>3, <1>4, <1>6, <2>1, <2>4, <2>6, <2>7
  <1>8. CASE ~MeetsPrev(fp, bp)
    <2>1. size' = [size EXCEPT ![bp] = LinkSize] /\ First = bp
      BY <1>8 DEF FreeLink, First
    <2>2. size'[bp] = LinkSize /\ \A c \in Addr \ {bp} : size'[c] = size[c]
      BY <1>1, <1>2, <2>1
    <2>3. bp \in ring' BY <1>1, <1>6, <1>8
    <2>4. QED BY <1>3, <1>4, <1>5, <1>6, <2>1, <2>2, <2>3
  <1>9. QED BY <1>7, <1>8

-----------------------------------------------------------------------------
(* No unit is lost.                                                          *)

LEMMA TakeTailFacts ==
    ASSUME IInv, TakeTail
    PROVE  /\ p \in ring /\ p \in Blocks /\ p # Base /\ p \in Nat /\ size[p] \in Nat
           /\ nunits \in Nat /\ nunits >= 1
           /\ TailOf(p) \in Addr /\ TailOf(p) \in Nat /\ TailOf(p) \notin Blocks
           /\ p < TailOf(p) /\ TailOf(p) + nunits = p + size[p]
           /\ size'[p] = size[p] - nunits /\ size'[TailOf(p)] = nunits
           /\ \A b \in Addr \ {p, TailOf(p)} : size'[b] = size[b]
           /\ InTransit = {} /\ InTransit' = {}
  <1> USE UmallocAssumption DEF TakeTail, MallocReturns, Addr, Base, NULL, IInv
  <1>0. /\ freep # NULL /\ p \in ring
        /\ nunits \in Nat /\ nunits >= 1 /\ p # Base
    BY NUnitsPositive
    DEF TypeOK, Walking, Pending, Anchored, RingSorted, SortedRing
  <1>1. /\ p \in Blocks /\ p \in Addr /\ size[p] \in Nat /\ p + size[p] <= brk
    BY <1>0, RingMember
  <1>2. brk \in Nat /\ brk <= Limit BY DEF TypeOK
  <1>3. /\ TailOf(p) \in Addr /\ p < TailOf(p) /\ TailOf(p) + nunits = p + size[p]
    BY <1>0, <1>1, <1>2 DEF TailOf
  <1>4. TailOf(p) \notin Blocks BY <1>0, <1>1, <1>3 DEF NoOverlap
  <1>5. /\ size'[p] = size[p] - nunits /\ size'[TailOf(p)] = nunits
        /\ \A b \in Addr \ {p, TailOf(p)} : size'[b] = size[b]
    BY <1>1, <1>3 DEF TypeOK
  <1>6. InTransit = {} /\ InTransit' = {} BY DEF InTransit
  <1>7. p \in Nat /\ TailOf(p) \in Nat BY <1>1, <1>3
  <1> HIDE DEF TakeTail, MallocReturns, Addr, Base, NULL, IInv
  <1>8. QED BY <1>0, <1>1, <1>3, <1>4, <1>5, <1>6, <1>7

LEMMA TakeTailNoLeak ==
    ASSUME IInv, NoLeak, TakeTail
    PROVE  NoLeak'
  <1> DEFINE t == TailOf(p)
  <1>1. Blocks' = Blocks \cup {t}
    BY TakeTailFacts DEF Blocks, TakeTail
  <1>2. ASSUME NEW u \in HeapStart .. (brk - 1), u \notin foreign
        PROVE  \E b \in Blocks' : u \in UnitsOf(b)'
    <2>1. PICK b \in Blocks : u \in UnitsOf(b) BY <1>2 DEF NoLeak
    <2>2. CASE b = p
      <3>1. u \in p .. (p + size'[p] - 1) \/ u \in t .. (t + size'[t] - 1)
        BY <2>1, <2>2, TakeTailFacts DEF UnitsOf
      <3>2. QED BY <1>1, <3>1, TakeTailFacts DEF UnitsOf
    <2>3. CASE b # p
      <3>1. b \in Addr \ {p, t}
        BY <2>1, <2>3, TakeTailFacts DEF IInv, TypeOK, Blocks
      <3>2. size'[b] = size[b] BY <3>1, TakeTailFacts
      <3>3. QED BY <1>1, <2>1, <3>2 DEF UnitsOf
    <2>4. QED BY <2>2, <2>3
  <1>3. brk' = brk /\ foreign' = foreign BY DEF TakeTail
  <1>4. QED BY <1>2, <1>3 DEF NoLeak

LEMMA GrowNoLeak ==
    ASSUME IInv, NoLeak, Grow
    PROVE  NoLeak'
  <1>1. /\ brk \in Nat /\ GrowUnits \in Nat /\ brk \in Addr
    BY UmallocAssumption DEF IInv, TypeOK, Grow, GrowUnits, Addr, Base
  <1>2. /\ size'[brk] = GrowUnits /\ \A b \in Addr \ {brk} : size'[b] = size[b]
        /\ brk' = brk + GrowUnits /\ foreign' = foreign
    BY <1>1 DEF IInv, TypeOK, Grow
  <1>3. Blocks' = Blocks \cup {brk}
    BY DEF Blocks, InTransit, Grow
  <1>4. Blocks \subseteq Addr /\ brk \notin Blocks
    <2>1. Blocks \subseteq Addr BY DEF Blocks, InTransit, IInv, TypeOK
    <2>2. size[brk] \in Nat BY <1>1 DEF IInv, TypeOK
    <2>3. brk \in Blocks => size[brk] >= 1 /\ brk + size[brk] <= brk
      BY DEF IInv, NoOverlap
    <2>4. QED BY <1>1, <2>1, <2>2, <2>3
  <1>5. ASSUME NEW u \in HeapStart .. (brk + GrowUnits - 1), u \notin foreign
        PROVE  \E b \in Blocks' : u \in UnitsOf(b)'
    <2>1. CASE u < brk
      <3>1. PICK b \in Blocks : u \in UnitsOf(b)
        BY <1>1, <1>5, <2>1, UmallocAssumption DEF NoLeak
      <3>2. size'[b] = size[b] BY <1>2, <1>4
      <3>3. QED BY <1>3, <3>1, <3>2 DEF UnitsOf
    <2>2. CASE u >= brk
      <3>1. PICK b \in Blocks' : b = brk BY <1>3
      <3>2. u \in b .. (b + size'[b] - 1)
        BY <1>1, <1>2, <1>5, <2>2, <3>1, UmallocAssumption
      <3>3. QED BY <3>1, <3>2 DEF UnitsOf
    <2>3. u \in Int BY <1>5, <1>1, UmallocAssumption
    <2>4. QED BY <1>1, <2>1, <2>2, <2>3
  <1>6. QED BY <1>1, <1>2, <1>5 DEF NoLeak

LEMMA FreeLinkNoLeak ==
    ASSUME IInv, NoLeak, FreeLink
    PROVE  NoLeak'
  <1>1. First \in Blocks' /\ First \in Nat /\ Final \in Nat
        /\ size[Final] \in Nat /\ size'[First] \in Nat
    <2>1. First \in Blocks BY LinkFacts DEF First
    <2>2. First >= HeapStart /\ HeapStart > Base
      BY <2>1, UmallocAssumption DEF IInv, NoOverlap
    <2>3. First \in ring' /\ First \in ring \cup {bp} /\ Final \in ring \cup {bp}
          /\ size'[First] \in Nat
      BY LinkSizes
    <2>4. First \in Nat /\ Final \in Nat /\ size[Final] \in Nat
      BY <2>3, LinkFacts
    <2>5. First # Base BY <2>2, <2>4, UmallocAssumption DEF Base
    <2>6. QED BY <2>3, <2>4, <2>5 DEF Blocks
  <1>2. ASSUME NEW u \in HeapStart .. (brk - 1), u \notin foreign
        PROVE  \E b \in Blocks' : u \in UnitsOf(b)'
    <2>1. PICK b \in Blocks : u \in UnitsOf(b) BY <1>2 DEF NoLeak
    <2>2. b \in ring \cup live \cup {bp} /\ b \in Addr /\ b \in Nat /\ size[b] \in Nat
      <3>1. b \in ring \cup live \cup {bp} BY <2>1 DEF Blocks, InTransit, FreeLink
      <3>2. QED BY <3>1, LinkFacts
    <2>3. u \in Nat /\ b <= u /\ u < b + size[b]
      BY <1>2, <2>1, <2>2, UmallocAssumption DEF UnitsOf
    <2>4. CASE b = bp \/ (MeetsPrev(fp, bp) /\ b = fp) \/ (MeetsNext(fp, bp) /\ b = ptr[fp])
      <3>1. First <= b /\ b + size[b] <= Final + size[Final]
        <4>1. /\ bp \in Nat /\ size[bp] \in Nat /\ fp \in Nat /\ size[fp] \in Nat
              /\ ptr[fp] \in Nat /\ size[ptr[fp]] \in Nat
          BY LinkFacts
        <4>2. First <= bp /\ bp + size[bp] <= Final + size[Final]
          BY <4>1 DEF First, Final, MeetsPrev, MeetsNext
        <4>3. CASE b = bp BY <4>2, <4>3
        <4>4. CASE MeetsPrev(fp, bp) /\ b = fp
          <5>1. First = fp /\ fp + size[fp] = bp BY <4>4 DEF First, MeetsPrev
          <5>2. bp <= Final + size[Final]
            BY <4>1, <4>2 DEF Final
          <5>3. QED BY <4>1, <4>4, <5>1, <5>2
        <4>5. CASE MeetsNext(fp, bp) /\ b = ptr[fp]
          <5>1. Final = b /\ bp < b BY <4>5, LinkFacts DEF Final
          <5>2. First <= b BY <4>1, <5>1, <2>2 DEF First, MeetsPrev
          <5>3. QED BY <2>2, <5>1, <5>2
        <4>6. QED BY <2>4, <4>3, <4>4, <4>5
      <3>2. First <= u /\ u < First + size'[First]
        BY <1>1, <2>2, <2>3, <3>1, LinkSizes
      <3>3. QED BY <1>1, <2>3, <3>2 DEF UnitsOf
    <2>5. CASE b # bp /\ (MeetsPrev(fp, bp) => b # fp) /\ (MeetsNext(fp, bp) => b # ptr[fp])
      <3>1. size'[b] = size[b] BY <2>2, <2>5, LinkSizes DEF First
      <3>2. b \in Blocks'
        <4>1. b \in live \/ (b \in ring /\ b # Base)
          BY <2>1, <2>5 DEF Blocks, InTransit
        <4>2. QED BY <2>5, <4>1, LinkSizes DEF Blocks
      <3>3. QED BY <2>1, <3>1, <3>2 DEF UnitsOf
    <2>6. QED BY <2>4, <2>5
  <1>3. QED BY <1>2, LinkSizes DEF NoLeak

-----------------------------------------------------------------------------
(* Free blocks do not touch.                                                 *)

LEMMA TakeTailCoalesced ==
    ASSUME IInv, Coalesced, TakeTail
    PROVE  Coalesced'
  <1>1. \A b \in ring : b \in Addr /\ b \in Nat /\ size[b] \in Nat
    <2>1. ring \subseteq Addr /\ size \in [Addr -> Nat] BY DEF IInv, TypeOK
    <2>2. QED BY <2>1 DEF Addr, Base
  <1>2. TailOf(p) \notin ring
    <2>1. TailOf(p) # Base
      BY TakeTailFacts DEF IInv, TypeOK, Addr, Base
    <2>2. QED BY <2>1, TakeTailFacts DEF Blocks
  <1>3. ASSUME NEW b \in ring
        PROVE  size'[b] \in Nat /\ size'[b] <= size[b]
    <2>1. CASE b = p
      <3>1. size'[b] = size[b] - nunits BY <2>1, TakeTailFacts
      <3>2. size[b] \in Nat /\ nunits \in Nat BY <2>1, TakeTailFacts
      <3>3. size[b] > nunits BY <2>1 DEF TakeTail
      <3>4. QED BY <3>1, <3>2, <3>3
    <2>2. CASE b # p
      <3>1. b \in Addr \ {p, TailOf(p)} BY <1>1, <1>2, <2>2
      <3>2. QED BY <1>1, <3>1, TakeTailFacts
    <2>3. QED BY <2>1, <2>2
  <1>4. ASSUME NEW a \in ring, NEW b \in ring, a < b
        PROVE  a + size'[a] < b
    <2>1. a + size[a] < b BY <1>4 DEF Coalesced
    <2>2. QED BY <1>1, <1>3, <2>1
  <1>5. ring' = ring BY DEF TakeTail
  <1>6. QED BY <1>4, <1>5 DEF Coalesced

LEMMA GrowCoalesced ==
    ASSUME IInv, Coalesced, Grow
    PROVE  Coalesced'
  <1>1. ring \subseteq Addr /\ size \in [Addr -> Nat] /\ brk \in Nat /\ brk > Base
    BY UmallocAssumption DEF IInv, TypeOK, Base
  <1>2. brk \notin ring
    <2>1. brk \in ring => brk \in Blocks /\ size[brk] \in Nat
      BY <1>1 DEF Blocks, Base
    <2>2. brk \in Blocks => size[brk] >= 1 /\ brk + size[brk] <= brk
      BY DEF IInv, NoOverlap
    <2>3. QED BY <1>1, <2>1, <2>2
  <1>3. \A b \in ring : size'[b] = size[b] BY <1>1, <1>2 DEF Grow
  <1>4. ring' = ring BY DEF Grow
  <1>5. QED BY <1>3, <1>4 DEF Coalesced

(* The merged block ends before the next free one and begins after the one   *)
(* before it (umalloc.c:31-40).                                              *)
LEMMA FreeLinkCoalesced ==
    ASSUME IInv, Coalesced, FreeLink
    PROVE  Coalesced'
  <1> DEFINE n == ptr[fp]
  <1>1. /\ fp \in Nat /\ size[fp] \in Nat /\ bp \in Nat /\ size[bp] \in Nat
        /\ n \in Nat /\ size[n] \in Nat /\ fp \in ring /\ n \in ring
        /\ fp < bp /\ size[bp] >= 1
        /\ MeetsNext(fp, bp) => bp < n
    BY LinkFacts DEF Slot
  <1>2. ASSUME NEW c \in ring, c > fp
        PROVE  bp < n /\ n <= c /\ n # Base
    <2>1. c \in Nat BY LinkFacts
    <2>2. bp < n /\ n <= c BY <1>1, <1>2, <2>1, LinkFacts DEF Slot
    <2>3. fp >= 1 BY <1>1 DEF IInv, TypeOK, Addr, Base
    <2>4. QED BY <1>1, <2>2, <2>3 DEF Base
  <1>3. ASSUME NEW c \in ring', c # First
        PROVE  /\ c \in ring /\ c # bp /\ c \in Nat /\ size'[c] = size[c]
               /\ MeetsNext(fp, bp) => c # n
    <2>1. c \in ring /\ c # bp /\ (MeetsNext(fp, bp) => c # n)
      BY <1>3, LinkSizes DEF First
    <2>2. c \in Addr \ {First, bp} /\ c \in Nat BY <1>3, <2>1, LinkFacts
    <2>3. size'[c] = size[c] BY <2>2, LinkSizes
    <2>4. QED BY <2>1, <2>2, <2>3
  <1>4. First \in Nat /\ Final \in Nat /\ size[Final] \in Nat /\ size'[First] \in Nat
        /\ First + size'[First] = Final + size[Final]
    BY LinkSizes, LinkFacts
  <1>5. ASSUME NEW b \in ring', First < b
        PROVE  First + size'[First] < b
    <2>1. b \in ring /\ b # bp /\ b \in Nat /\ (MeetsNext(fp, bp) => b # n)
      BY <1>3, <1>4, <1>5
    <2>2. b > fp BY <1>1, <1>5, <2>1 DEF First
    <2>3. bp < n /\ n <= b /\ n # Base BY <1>2, <2>1, <2>2
    <2>4. CASE MeetsNext(fp, bp)
      <3>1. Final = n /\ n < b BY <1>1, <2>1, <2>3, <2>4 DEF Final
      <3>2. n + size[n] < b BY <1>1, <2>1, <3>1 DEF Coalesced
      <3>3. QED BY <1>4, <3>1, <3>2
    <2>5. CASE ~MeetsNext(fp, bp)
      <3>1. Final = bp BY <2>5 DEF Final
      <3>2. n \in Blocks /\ bp \in Blocks BY <1>1, <2>3, LinkFacts DEF Blocks
      <3>3. bp + size[bp] <= n BY <2>3, <3>2 DEF IInv, NoOverlap
      <3>4. bp + size[bp] # n BY <2>5 DEF MeetsNext
      <3>5. QED BY <1>1, <1>4, <2>1, <2>3, <3>1, <3>3, <3>4
    <2>6. QED BY <2>4, <2>5
  <1>6. ASSUME NEW a \in ring', a < First
        PROVE  a + size'[a] < First
    <2>1. a \in ring /\ a # bp /\ a \in Nat /\ size'[a] = size[a] /\ size[a] \in Nat
      <3>1. a # First BY <1>4, <1>6
      <3>2. QED BY <1>3, <3>1, LinkFacts
    <2>2. CASE MeetsPrev(fp, bp)
      <3>1. First = fp BY <2>2 DEF First
      <3>2. QED BY <1>1, <1>6, <2>1, <3>1 DEF Coalesced
    <2>3. CASE ~MeetsPrev(fp, bp)
      <3>1. First = bp /\ fp + size[fp] # bp BY <2>3 DEF First, MeetsPrev
      <3>2. a <= fp
        <4>1. SUFFICES ASSUME a > fp PROVE FALSE BY <1>1, <2>1
        <4>2. QED BY <1>1, <1>2, <1>6, <2>1, <3>1, <4>1
      <3>3. CASE a = fp
        <4>1. fp + size[fp] <= bp
          <5>1. CASE fp = Base BY <1>1, <5>1, LinkFacts
          <5>2. CASE fp # Base
            <6>1. fp \in Blocks /\ bp \in Blocks BY <1>1, <5>2, LinkFacts DEF Blocks
            <6>2. QED BY <1>1, <6>1 DEF IInv, NoOverlap
          <5>3. QED BY <5>1, <5>2
        <4>2. QED BY <1>1, <2>1, <3>1, <3>3, <4>1
      <3>4. CASE a < fp
        <4>1. a + size[a] < fp BY <1>1, <2>1, <3>4 DEF Coalesced
        <4>2. QED BY <1>1, <2>1, <3>1, <4>1
      <3>5. QED BY <1>1, <2>1, <3>2, <3>3, <3>4
    <2>4. QED BY <2>2, <2>3
  <1>7. ASSUME NEW a \in ring', NEW b \in ring', a < b
        PROVE  a + size'[a] < b
    <2>1. CASE a = First BY <1>5, <1>7, <2>1
    <2>2. CASE b = First BY <1>6, <1>7, <2>2
    <2>3. CASE a # First /\ b # First
      <3>1. a \in ring /\ b \in ring /\ size'[a] = size[a] BY <1>3, <2>3
      <3>2. QED BY <1>7, <3>1 DEF Coalesced
    <2>4. QED BY <2>1, <2>2, <2>3
  <1>8. QED BY <1>7 DEF Coalesced

-----------------------------------------------------------------------------
(* The search sees every free block: those between freep and prevp, in the   *)
(* order of the ring, have been found too small (umalloc.c:68-80).           *)

Passed(c) == IF freep < prevp THEN freep < c /\ c <= prevp
             ELSE freep < c \/ c <= prevp
Searched == pc = "scan" /\ prevp # freep => \A c \in ring : Passed(c) => size[c] < nunits

LEMMA ScanFacts ==
    ASSUME IInv, pc = "scan"
    PROVE  /\ freep \in ring /\ prevp \in ring /\ p \in ring /\ p = ptr[prevp]
           /\ \A c \in ring : c \in Nat /\ c >= Base /\ size[c] \in Nat
           /\ nunits \in Nat
           /\ \/ prevp < p /\ \A c \in ring : c <= prevp \/ p <= c
              \/ p = Base /\ \A c \in ring : c <= prevp
  <1>1. freep \in ring /\ prevp \in ring /\ p = ptr[prevp]
    BY DEF IInv, Anchored, Walking
  <1>2. \A c \in ring : c \in Nat /\ c >= Base /\ size[c] \in Nat
    <2>1. ring \subseteq Addr /\ size \in [Addr -> Nat] BY DEF IInv, TypeOK
    <2>2. QED BY <2>1 DEF Addr, Base
  <1>3. /\ p \in ring
        /\ \/ prevp < p /\ \A c \in ring : c <= prevp \/ p <= c
           \/ p = Base /\ \A c \in ring : c <= prevp
    BY <1>1 DEF IInv, RingSorted, SortedRing
  <1>4. nunits \in Nat BY DEF IInv, TypeOK
  <1>5. QED BY <1>1, <1>2, <1>3, <1>4

LEMMA ScanNextSearched ==
    ASSUME IInv, Searched, ScanNext
    PROVE  Searched'
  <1>1. /\ freep \in ring /\ prevp \in ring /\ p \in ring
        /\ \A c \in ring : c \in Nat /\ c >= Base /\ size[c] \in Nat
        /\ nunits \in Nat
        /\ \/ prevp < p /\ \A c \in ring : c <= prevp \/ p <= c
           \/ p = Base /\ \A c \in ring : c <= prevp
    BY ScanFacts DEF ScanNext
  <1>2. /\ prevp' = p /\ freep' = freep /\ ring' = ring /\ size' = size
        /\ nunits' = nunits /\ p # freep /\ size[p] < nunits /\ pc = "scan"
    BY <1>1 DEF ScanNext, Fits
  <1>3. ASSUME NEW c \in ring,
               IF freep < p THEN freep < c /\ c <= p ELSE freep < c \/ c <= p
        PROVE  size[c] < nunits
    <2>1. CASE c = p BY <1>2, <2>1
    <2>2. CASE c # p /\ prevp = freep
      BY <1>1, <1>2, <1>3, <2>2
    <2>3. CASE c # p /\ prevp # freep
      <3>1. Passed(c) BY <1>1, <1>2, <1>3, <2>3 DEF Passed
      <3>2. QED BY <1>2, <2>3, <3>1 DEF Searched
    <2>4. QED BY <2>1, <2>2, <2>3
  <1>4. QED BY <1>2, <1>3 DEF Searched, Passed

LEMMA SearchedThorough ==
    ASSUME IInv, Searched
    PROVE  SearchIsThorough
  <1>1. SUFFICES ASSUME pc = "scan", p = freep, ~Fits(p), NEW b \in ring
                 PROVE  size[b] < nunits
    BY DEF SearchIsThorough
  <1>2. /\ freep \in ring /\ prevp \in ring /\ p \in ring
        /\ \A c \in ring : c \in Nat /\ c >= Base /\ size[c] \in Nat
        /\ nunits \in Nat
        /\ \/ prevp < p /\ \A c \in ring : c <= prevp \/ p <= c
           \/ p = Base /\ \A c \in ring : c <= prevp
    BY <1>1, ScanFacts
  <1>3. CASE b = p BY <1>1, <1>2, <1>3 DEF Fits
  <1>4. CASE b # p
    <2>1. prevp # freep BY <1>1, <1>2, <1>4
    <2>2. Passed(b) BY <1>1, <1>2, <1>4, <2>1 DEF Passed
    <2>3. QED BY <1>1, <2>1, <2>2 DEF Searched
  <1>5. QED BY <1>3, <1>4

-----------------------------------------------------------------------------
(* The three together are inductive with IInv.                               *)

Service == IInv /\ NoLeak /\ Coalesced /\ Searched

LEMMA InitService == Init => Service
  <1> SUFFICES ASSUME Init PROVE Service OBVIOUS
  <1>1. IInv BY InitIInv
  <1>2. NoLeak BY UmallocAssumption DEF Init, NoLeak
  <1>3. Coalesced /\ Searched BY DEF Init, Coalesced, Searched
  <1>4. QED BY <1>1, <1>2, <1>3 DEF Service

(* A step that leaves sizes, blocks and the break alone and adds nothing to  *)
(* the ring loses no unit and lets no free blocks touch.                     *)
LEMMA SameBlocks ==
    ASSUME NoLeak, Coalesced, Blocks' = Blocks, size' = size, brk' = brk,
           foreign' = foreign, ring' \subseteq ring
    PROVE  NoLeak' /\ Coalesced'
  <1>1. NoLeak' BY DEF NoLeak, UnitsOf
  <1>2. Coalesced' BY DEF Coalesced
  <1>3. QED BY <1>1, <1>2

LEMMA MallocFirstService ==
    ASSUME Service, NEW n \in Requests, MallocFirst(n)
    PROVE  NoLeak' /\ Coalesced' /\ Searched'
  <1>1. ring = {} /\ live = {} /\ ring' = {Base} /\ live' = {} /\ pc = "idle" /\ pc' = "scan"
    BY DEF MallocFirst, Service, IInv, Anchored, NULL
  <1>2. Blocks = {} /\ Blocks' = {}
    BY <1>1 DEF Blocks, InTransit
  <1>3. NoLeak' BY <1>2 DEF NoLeak, Service, MallocFirst
  <1>4. Coalesced' BY <1>1 DEF Coalesced, Base
  <1>5. Searched' BY DEF Searched, MallocFirst
  <1>6. QED BY <1>3, <1>4, <1>5

LEMMA TakeWholeService ==
    ASSUME Service, TakeWhole
    PROVE  NoLeak' /\ Coalesced' /\ Searched'
  <1>1. p \in ring /\ p # Base
    <2>1. size[Base] = 0 /\ p \in ring
      BY ScanFacts DEF TakeWhole, Service, IInv, Anchored, Walking
    <2>2. nunits >= 1 /\ nunits \in Nat
      BY NUnitsPositive, UmallocAssumption
      DEF TakeWhole, Service, IInv, Walking, Pending, TypeOK
    <2>3. QED BY <2>1, <2>2 DEF TakeWhole
  <1>2. Blocks' = Blocks
    BY <1>1 DEF Blocks, InTransit, TakeWhole, MallocReturns
  <1>3. Searched' BY DEF Searched, TakeWhole, MallocReturns
  <1>4. /\ size' = size /\ brk' = brk /\ foreign' = foreign /\ ring' \subseteq ring
    BY DEF TakeWhole
  <1>5. QED BY <1>2, <1>3, <1>4, SameBlocks DEF Service

LEMMA OtherSbrkService ==
    ASSUME Service, NEW k \in Chunks, OtherSbrk(k)
    PROVE  NoLeak' /\ Coalesced' /\ Searched'
  <1>1. /\ brk' = brk + k /\ foreign' = foreign \cup (brk .. (brk + k - 1))
        /\ size' = size /\ ring' = ring /\ live' = live /\ pc' = pc /\ pc = "idle"
        /\ brk \in Nat /\ k \in Nat
    BY UmallocAssumption DEF OtherSbrk, Service, IInv, TypeOK
  <1>2. Blocks' = Blocks BY <1>1 DEF Blocks, InTransit
  <1>3. ASSUME NEW u \in HeapStart .. (brk + k - 1), u \notin foreign'
        PROVE  \E b \in Blocks : u \in UnitsOf(b)
    <2>1. u \in HeapStart .. (brk - 1)
      <3>1. u \in Int /\ u >= HeapStart BY <1>1, <1>3, UmallocAssumption
      <3>2. u < brk BY <1>1, <1>3, <3>1, UmallocAssumption
      <3>3. QED BY <1>1, <3>1, <3>2, UmallocAssumption
    <2>2. QED BY <1>1, <1>3, <2>1 DEF NoLeak, Service
  <1>4. NoLeak' BY <1>1, <1>2, <1>3 DEF NoLeak, UnitsOf
  <1>5. Coalesced' /\ Searched' BY <1>1 DEF Coalesced, Searched, Service
  <1>6. QED BY <1>4, <1>5

LEMMA ServiceStep ==
    ASSUME Service, [Next]_vars
    PROVE  Service'
  <1>0. IInv /\ NoLeak /\ Coalesced /\ Searched BY DEF Service
  <1>1. IInv' BY <1>0, StepIInv
  <1>2. NoLeak' /\ Coalesced' /\ Searched'
    <2>1. ASSUME NEW n \in Requests, MallocFirst(n) PROVE NoLeak' /\ Coalesced' /\ Searched'
      BY <2>1, MallocFirstService
    <2>2. ASSUME NEW n \in Requests, Malloc(n) PROVE NoLeak' /\ Coalesced' /\ Searched'
      <3>1. Blocks' = Blocks /\ size' = size /\ brk' = brk /\ foreign' = foreign /\ ring' = ring
        BY <2>2 DEF Malloc, Blocks, InTransit
      <3>2. Searched' BY <2>2 DEF Malloc, Searched
      <3>3. QED BY <1>0, <3>1, <3>2, SameBlocks
    <2>3. CASE TakeWhole BY <2>3, TakeWholeService
    <2>4. CASE TakeTail
      <3>1. Searched' BY <2>4 DEF TakeTail, MallocReturns, Searched
      <3>2. QED BY <1>0, <2>4, <3>1, TakeTailNoLeak, TakeTailCoalesced
    <2>5. CASE ScanNext
      <3>1. Blocks' = Blocks /\ size' = size /\ brk' = brk /\ foreign' = foreign /\ ring' = ring
        BY <2>5 DEF ScanNext, Blocks, InTransit, freeLocals
      <3>2. QED BY <1>0, <2>5, <3>1, SameBlocks, ScanNextSearched
    <2>6. CASE Grow
      <3>1. Searched' BY <2>6 DEF Grow, Searched
      <3>2. QED BY <1>0, <2>6, <3>1, GrowNoLeak, GrowCoalesced
    <2>7. CASE GrowFails
      <3>1. Blocks' = Blocks /\ size' = size /\ brk' = brk /\ foreign' = foreign /\ ring' = ring
        BY <2>7 DEF GrowFails, MallocReturns, Blocks, InTransit
      <3>2. Searched' BY <2>7 DEF GrowFails, MallocReturns, Searched
      <3>3. QED BY <1>0, <3>1, <3>2, SameBlocks
    <2>8. ASSUME NEW b \in live, Free(b) PROVE NoLeak' /\ Coalesced' /\ Searched'
      <3>1. Blocks' = Blocks /\ size' = size /\ brk' = brk /\ foreign' = foreign /\ ring' = ring
        BY <2>8 DEF Free, Blocks, InTransit
      <3>2. Searched' BY <2>8 DEF Free, Searched
      <3>3. QED BY <1>0, <3>1, <3>2, SameBlocks
    <2>9. CASE FreeNext
      <3>1. Blocks' = Blocks /\ size' = size /\ brk' = brk /\ foreign' = foreign /\ ring' = ring
        BY <2>9 DEF FreeNext, Blocks, InTransit
      <3>2. Searched' BY <2>9 DEF FreeNext, Searched
      <3>3. QED BY <1>0, <3>1, <3>2, SameBlocks
    <2>10. CASE FreeLink
      <3>1. Searched' BY <2>10 DEF FreeLink, FreeReturns, Searched
      <3>2. QED BY <1>0, <2>10, <3>1, FreeLinkNoLeak, FreeLinkCoalesced
    <2>11. ASSUME NEW k \in Chunks, OtherSbrk(k) PROVE NoLeak' /\ Coalesced' /\ Searched'
      BY <2>11, OtherSbrkService
    <2>12. CASE UNCHANGED vars
      <3>1. Blocks' = Blocks /\ size' = size /\ brk' = brk /\ foreign' = foreign /\ ring' = ring
        BY <2>12 DEF vars, Blocks, InTransit
      <3>2. Searched' BY <1>0, <2>12 DEF vars, Searched, Passed
      <3>3. QED BY <1>0, <3>1, <3>2, SameBlocks
    <2>13. QED
      BY <2>1, <2>2, <2>3, <2>4, <2>5, <2>6, <2>7, <2>8, <2>9, <2>10, <2>11, <2>12
      DEF Next, Scan, Release
  <1>3. QED BY <1>1, <1>2 DEF Service

LEMMA ServiceInvariant == Spec => []Service
  <1>1. Service /\ [Next]_vars => Service' BY ServiceStep
  <1>2. QED BY <1>1, InitService, PTL DEF Spec

(* What malloc() ever got from sbrk() is in a block, free or held, whatever  *)
(* has been split and merged since (umalloc.c:31-40, 70-76).                 *)
THEOREM NothingLeaks == Spec => []NoLeak
  <1>1. Service => NoLeak BY DEF Service
  <1>2. QED BY <1>1, ServiceInvariant, PTL

(* free() leaves no two free blocks side by side, wherever the search began  *)
(* (umalloc.c:31-40).                                                        *)
THEOREM NeighboursMerge == Spec => []Coalesced
  <1>1. Service => Coalesced BY DEF Service
  <1>2. QED BY <1>1, ServiceInvariant, PTL

(* malloc() asks sbrk() only when no free block is large enough, although it *)
(* starts from wherever free() or the last call left freep (umalloc.c:68-80).*)
THEOREM SearchSeesAll == Spec => []SearchIsThorough
  <1>1. Service => SearchIsThorough BY SearchedThorough DEF Service
  <1>2. QED BY <1>1, ServiceInvariant, PTL

-----------------------------------------------------------------------------
(* The allocator implements HeapSpec: the splits, merges and searches are    *)
(* steps the caller does not see, and what it is given is its own.           *)

(* Rounding up to units leaves room for the bytes (umalloc.c:63).            *)
LEMMA RoundsUp ==
    ASSUME NEW n \in Nat, NEW h \in Nat \ {0}
    PROVE  ((n + h - 1) \div h) * h >= n
  <1> DEFINE a == n + h - 1
  <1>1. a \in Nat OBVIOUS
  <1>2. a = h * (a \div h) + (a % h) /\ a % h < h /\ a \div h \in Int BY <1>1, SMT
  <1>3. QED BY <1>1, <1>2, SMT

LEMMA RoomEnough ==
    ASSUME NEW n \in Nat
    PROVE  (NUnits(n) - 1) * HeaderSize >= n
  <1>1. HeaderSize \in Nat \ {0} BY UmallocAssumption
  <1>2. ((n + HeaderSize - 1) \div HeaderSize) * HeaderSize >= n BY <1>1, RoundsUp
  <1>3. (n + HeaderSize - 1) \div HeaderSize \in Int BY <1>1
  <1>4. NUnits(n) - 1 = (n + HeaderSize - 1) \div HeaderSize BY <1>1, <1>3 DEF NUnits
  <1>5. QED BY <1>2, <1>4

(* A step that leaves the blocks held as they are leaves held as it is.      *)
LEMMA SameHeld ==
    ASSUME live' = live, \A b \in live : size'[b] = size[b]
    PROVE  heldBar' = heldBar
  BY DEF heldBar

LEMMA InitRefines == Init => Heap!HInit
  BY UmallocAssumption DEF Init, Heap!HInit, Heap!None, heldBar, arenaBar, reqBar, Pending

(* What malloc() returns: the block t, new to the program, of nunits units.  *)
LEMMA ServeRefines ==
    ASSUME IInv, IInv', pc = "scan", pc' = "idle",
           NEW t \in Addr, t \notin live, live' = live \cup {t}, size'[t] = nunits,
           \A b \in live : size'[b] = size[b],
           brk' = brk, foreign' = foreign
    PROVE  Heap!Serve
  <1> DEFINE new == [addr |-> t, len |-> nunits]
  <1>1. heldBar' = heldBar \cup {new} BY DEF heldBar
  <1>2. /\ nbytes \in Nat /\ nunits = NUnits(nbytes) /\ nunits \in Nat /\ nunits >= 1
        /\ reqBar = nbytes /\ reqBar' = -1 /\ t \in Nat
        /\ brk \in Nat
    BY NUnitsPositive, UmallocAssumption
    DEF IInv, TypeOK, Walking, Pending, reqBar, Addr, Base
  <1>3. (new.len - 1) * HeaderSize >= reqBar BY <1>2, RoomEnough
  <1>4. t \in Blocks' BY DEF Blocks, IInv, Anchored, Walking
  <1>5. /\ HeapStart <= t /\ t + nunits <= brk /\ \A u \in t .. (t + nunits - 1) : u \notin foreign
    BY <1>4 DEF IInv, NoOverlap, UnitsOf
  <1>6. Heap!Units(new) \subseteq arenaBar
    BY <1>2, <1>5, UmallocAssumption DEF Heap!Units, arenaBar
  <1>7. ASSUME NEW c \in live
        PROVE  Heap!Units([addr |-> c, len |-> size[c]]) \cap Heap!Units(new) = {}
    <2>1. c \in Blocks' /\ c # t BY DEF Blocks
    <2>2. c \in Nat /\ size[c] \in Nat
      <3>1. live \subseteq Addr /\ size \in [Addr -> Nat] BY DEF IInv, TypeOK
      <3>2. QED BY <3>1 DEF Addr, Base
    <2>3. c < t => c + size[c] <= t BY <1>4, <2>1 DEF IInv, NoOverlap
    <2>4. t < c => t + nunits <= c BY <1>4, <2>1 DEF IInv, NoOverlap
    <2>5. QED BY <1>2, <2>1, <2>2, <2>3, <2>4 DEF Heap!Units
  <1>8. \A h \in heldBar : Heap!Units(h) \cap Heap!Units(new) = {}
    BY <1>7 DEF heldBar
  <1>9. arenaBar' = arenaBar BY DEF arenaBar
  <1>10. reqBar # Heap!None /\ reqBar' = Heap!None BY <1>2 DEF Heap!None
  <1>11. new \in heldBar' BY <1>1
  <1> HIDE DEF new
  <1>12. QED BY <1>1, <1>3, <1>6, <1>8, <1>9, <1>10, <1>11 DEF Heap!Serve

(* A step of the search, of free() or of sbrk() that the caller does not see.*)
LEMMA UnseenRefines ==
    ASSUME live' = live, \A b \in live : size'[b] = size[b], arenaBar' = arenaBar,
           Pending' <=> Pending, Pending => nbytes' = nbytes
    PROVE  UNCHANGED Heap!hvars
  <1>1. heldBar' = heldBar BY SameHeld
  <1>2. reqBar' = reqBar BY DEF reqBar
  <1>3. QED BY <1>1, <1>2 DEF Heap!hvars

LEMMA AskRefines ==
    ASSUME IInv, NEW n \in Requests, MallocFirst(n) \/ Malloc(n)
    PROVE  Heap!Ask(n)
  <1>1. /\ pc = "idle" /\ pc' = "scan" /\ nbytes' = n /\ live' = live
        /\ brk' = brk /\ foreign' = foreign
    BY DEF MallocFirst, Malloc
  <1>2. \A b \in live : size'[b] = size[b]
    <2>1. CASE MallocFirst(n) BY <2>1 DEF MallocFirst, IInv, Anchored
    <2>2. CASE Malloc(n) BY <2>2 DEF Malloc
    <2>3. QED BY <2>1, <2>2
  <1>3. heldBar' = heldBar BY <1>1, <1>2, SameHeld
  <1>4. arenaBar' = arenaBar BY <1>1 DEF arenaBar
  <1>5. reqBar = Heap!None /\ reqBar' = n BY <1>1 DEF reqBar, Pending, Heap!None
  <1>6. QED BY <1>3, <1>4, <1>5 DEF Heap!Ask

LEMMA TakeWholeRefines ==
    ASSUME IInv, IInv', TakeWhole
    PROVE  Heap!Serve
  <1>1. p \in Addr /\ p \notin live
    BY DEF TakeWhole, IInv, TypeOK, Walking, RingSorted, SortedRing, NoOverlap
  <1>2. /\ pc = "scan" /\ pc' = "idle" /\ live' = live \cup {p} /\ size' = size
        /\ size[p] = nunits /\ brk' = brk /\ foreign' = foreign
    BY DEF TakeWhole, MallocReturns
  <1>3. QED BY <1>1, <1>2, ServeRefines

LEMMA TakeTailRefines ==
    ASSUME IInv, IInv', TakeTail
    PROVE  Heap!Serve
  <1>1. /\ TailOf(p) \in Addr /\ TailOf(p) \notin live /\ size'[TailOf(p)] = nunits
    BY TakeTailFacts DEF Blocks
  <1>2. /\ pc = "scan" /\ pc' = "idle" /\ live' = live \cup {TailOf(p)}
        /\ brk' = brk /\ foreign' = foreign
    BY DEF TakeTail, MallocReturns
  <1>3. \A b \in live : size'[b] = size[b]
    <2>1. p \notin live BY TakeTailFacts DEF IInv, NoOverlap
    <2>2. live \subseteq Addr BY DEF IInv, TypeOK
    <2>3. QED BY <1>1, <2>1, <2>2, TakeTailFacts
  <1>4. QED BY <1>1, <1>2, <1>3, ServeRefines

LEMMA GrowRefines ==
    ASSUME IInv, Grow
    PROVE  Heap!Extend
  <1>1. /\ size' = [size EXCEPT ![brk] = GrowUnits] /\ brk' = brk + GrowUnits
        /\ live' = live /\ foreign' = foreign /\ nbytes' = nbytes
        /\ pc = "scan" /\ pc' = "free" /\ caller' = "morecore"
    BY DEF Grow, mallocLocals
  <1>2. brk \in Nat /\ GrowUnits \in Nat /\ size \in [Addr -> Nat] /\ live \subseteq Addr
    BY UmallocAssumption DEF IInv, TypeOK, GrowUnits
  <1>3. \A b \in live : size'[b] = size[b]
    <2>1. ASSUME NEW b \in live PROVE b # brk
      <3>1. b \in Blocks BY DEF Blocks
      <3>2. size[b] >= 1 /\ b + size[b] <= brk BY <3>1 DEF IInv, NoOverlap
      <3>3. b \in Nat /\ size[b] \in Nat BY <1>2 DEF Addr, Base
      <3>4. QED BY <1>2, <3>2, <3>3
    <2>2. QED BY <1>1, <1>2, <2>1
  <1>4. heldBar' = heldBar BY <1>1, <1>3, SameHeld
  <1>5. arenaBar \subseteq arenaBar' BY <1>1, <1>2, UmallocAssumption DEF arenaBar
  <1>6. reqBar' = reqBar BY <1>1 DEF reqBar, Pending
  <1>7. QED BY <1>4, <1>5, <1>6 DEF Heap!Extend

LEMMA FreeRefines ==
    ASSUME IInv, NEW b \in live, Free(b)
    PROVE  \E h \in heldBar : Heap!Return(h)
  <1> DEFINE gone == [addr |-> b, len |-> size[b]]
  <1>1. /\ live' = live \ {b} /\ size' = size /\ brk' = brk /\ foreign' = foreign
        /\ pc = "idle" /\ pc' = "free" /\ caller' = "user"
    BY DEF Free
  <1>2. gone \in heldBar BY DEF heldBar
  <1>3. heldBar' = heldBar \ {gone} BY <1>1 DEF heldBar
  <1>4. arenaBar' = arenaBar BY <1>1 DEF arenaBar
  <1>5. reqBar = Heap!None /\ reqBar' = Heap!None BY <1>1 DEF reqBar, Pending, Heap!None
  <1> HIDE DEF gone
  <1>6. QED BY <1>2, <1>3, <1>4, <1>5 DEF Heap!Return

LEMMA FreeLinkRefines ==
    ASSUME IInv, FreeLink
    PROVE  UNCHANGED Heap!hvars
  <1>1. live' = live /\ brk' = brk /\ foreign' = foreign BY LinkSizes
  <1>2. \A b \in live : size'[b] = size[b]
    <2>1. live \subseteq Addr /\ First \notin live /\ bp \notin live
      BY LinkFacts DEF First, IInv, TypeOK
    <2>2. QED BY <2>1, LinkSizes
  <1>3. Pending' <=> Pending
    BY DEF FreeLink, FreeReturns, Pending
  <1>4. Pending => nbytes' = nbytes
    BY DEF FreeLink, FreeReturns, Pending, mallocLocals
  <1>5. arenaBar' = arenaBar BY <1>1 DEF arenaBar
  <1>6. QED BY <1>1, <1>2, <1>3, <1>4, <1>5, UnseenRefines

LEMMA OtherSbrkRefines ==
    ASSUME IInv, NEW k \in Chunks, OtherSbrk(k)
    PROVE  UNCHANGED Heap!hvars
  <1>1. /\ foreign' = foreign \cup (brk .. (brk + k - 1)) /\ brk' = brk + k
        /\ live' = live /\ size' = size /\ pc' = pc /\ caller' = caller /\ nbytes' = nbytes
    BY DEF OtherSbrk, mallocLocals, freeLocals
  <1>2. brk \in Nat /\ k \in Nat /\ HeapStart \in Nat
    BY UmallocAssumption DEF IInv, TypeOK
  <1>3. arenaBar' = arenaBar
    <2>1. ASSUME NEW u PROVE u \in arenaBar' <=> u \in arenaBar
      BY <1>1, <1>2, SMT DEF arenaBar
    <2>2. QED BY <2>1
  <1>4. Pending' <=> Pending BY <1>1 DEF Pending
  <1>5. QED BY <1>1, <1>3, <1>4, UnseenRefines

(* Each step of the allocator is one step of HeapSpec or none.               *)
LEMMA StepRefines ==
    ASSUME IInv, IInv', [Next]_vars
    PROVE  [Heap!HNext]_(Heap!hvars)
  <1>1. ASSUME NEW n \in Requests, MallocFirst(n) \/ Malloc(n) PROVE Heap!HNext
    BY <1>1, AskRefines DEF Heap!HNext
  <1>2. CASE TakeWhole BY <1>2, TakeWholeRefines DEF Heap!HNext
  <1>3. CASE TakeTail BY <1>3, TakeTailRefines DEF Heap!HNext
  <1>4. CASE ScanNext
    <2>1. /\ live' = live /\ size' = size /\ brk' = brk /\ foreign' = foreign
          /\ pc' = pc /\ caller' = caller /\ nbytes' = nbytes
      BY <1>4 DEF ScanNext, freeLocals
    <2>2. QED BY <2>1, UnseenRefines DEF arenaBar, Pending
  <1>5. CASE Grow BY <1>5, GrowRefines DEF Heap!HNext
  <1>6. CASE GrowFails
    <2>1. /\ live' = live /\ size' = size /\ brk' = brk /\ foreign' = foreign
          /\ pc = "scan" /\ pc' = "idle" /\ nbytes \in Nat
      BY <1>6 DEF GrowFails, MallocReturns, IInv, TypeOK
    <2>2. heldBar' = heldBar /\ arenaBar' = arenaBar BY <2>1, SameHeld DEF arenaBar
    <2>3. reqBar # Heap!None /\ reqBar' = Heap!None
      BY <2>1 DEF reqBar, Pending, Heap!None
    <2>4. QED BY <2>2, <2>3 DEF Heap!Refuse, Heap!HNext
  <1>7. ASSUME NEW b \in live, Free(b) PROVE Heap!HNext
    BY <1>7, FreeRefines DEF Heap!HNext
  <1>8. CASE FreeNext
    <2>1. /\ live' = live /\ size' = size /\ brk' = brk /\ foreign' = foreign
          /\ pc' = pc /\ caller' = caller /\ nbytes' = nbytes
      BY <1>8 DEF FreeNext, mallocLocals
    <2>2. QED BY <2>1, UnseenRefines DEF arenaBar, Pending
  <1>9. CASE FreeLink BY <1>9, FreeLinkRefines
  <1>10. ASSUME NEW k \in Chunks, OtherSbrk(k) PROVE UNCHANGED Heap!hvars
    BY <1>10, OtherSbrkRefines
  <1>11. CASE UNCHANGED vars
    <2>1. /\ live' = live /\ size' = size /\ brk' = brk /\ foreign' = foreign
          /\ pc' = pc /\ caller' = caller /\ nbytes' = nbytes
      BY <1>11 DEF vars
    <2>2. QED BY <2>1, UnseenRefines DEF arenaBar, Pending
  <1>12. QED
    BY <1>1, <1>2, <1>3, <1>4, <1>5, <1>6, <1>7, <1>8, <1>9, <1>10, <1>11
    DEF Next, Scan, Release

(* malloc() and free() as their callers know them: fresh memory with room    *)
(* for the bytes asked for, or NULL; no split, merge, search or morecore()   *)
(* ever changes a block the program holds (umalloc.c:24-84).                 *)
THEOREM Implements == Spec => ImplementsHeapSpec
  <1>1. IInv /\ IInv' /\ [Next]_vars => [Heap!HNext]_(Heap!hvars) BY StepRefines
  <1>2. QED BY <1>1, InitRefines, Inductive, PTL DEF Spec, ImplementsHeapSpec, Heap!HSpec
=============================================================================
