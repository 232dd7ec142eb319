---------------------------- MODULE FsUtilProofs ----------------------------
(***************************************************************************)
(* That cp, mv and rm leave a tree behind at every step, recurse no deeper *)
(* than a path is long, change nothing but what they were told to, that cp *)
(* leaves its sources as they are, that mv never loses a file, and that    *)
(* success means that all was copied, moved or removed, proved.            *)
(*                                                                         *)
(* IInv says that each call in progress has paths that fit at its depth,   *)
(* and that what the call on top is about to change is still what it was   *)
(* found to be.  PInv adds where each call works, when the command was     *)
(* given names that lead where they say (PlainJob), SInv that nothing      *)
(* still to be written can reach a source through a link (Apart), CInv how *)
(* far each copy has come and that an operand is as it was or all of it is *)
(* where it was to be put (Clear), RInv what a removal has left.           *)
(***************************************************************************)
EXTENDS FsUtil, SequenceTheorems, WellFoundedInduction, TLAPS

Node == Name \cup Dots

-----------------------------------------------------------------------------
(* Walking a path *)

LEMMA Induction ==
    ASSUME NEW S \in SUBSET Nat, 0 \in S, \A n \in S : n + 1 \in S
    PROVE  S = Nat
<1> DEFINE less == OpToRel(<, Nat)
           left == Nat \ S
<1>1. SUFFICES ASSUME S # Nat PROVE FALSE
    OBVIOUS
<1>2. IsWellFoundedOn(less, Nat)  BY NatLessThanWellFounded
<1>3. left \subseteq Nat /\ left # {}  BY <1>1
<1>4. \A x, y \in Nat : <<y, x>> \in less <=> y < x  BY DEF OpToRel
<1> HIDE DEF less, left
<1>5. PICK x \in left : \A y \in left : ~(<<y, x>> \in less)  BY <1>2, <1>3, WFMin
<1>6. x \in Nat /\ x # 0  BY <1>3 DEF left
<1>7. x - 1 \in Nat /\ x - 1 < x /\ (x - 1) + 1 = x  BY <1>6
<1>8. <<x - 1, x>> \in less  BY <1>4, <1>6, <1>7
<1>9. x - 1 \in S  BY <1>5, <1>7, <1>8 DEF left
<1> QED  BY <1>6, <1>7, <1>9 DEF left

\* f is the function of Walk, for the first n names of p.
Leads(f, t, p, n) == f = [i \in 0 .. n |-> IF i = 0 THEN <<>> ELSE Enter(t, f[i - 1], p[i])]

LEMMA LeadsExists ==
    ASSUME NEW t, NEW p, NEW n \in Nat
    PROVE  \E f : Leads(f, t, p, n)
<1> DEFINE Way(f, k) == f = [i \in 0 .. k |-> IF i = 0 THEN <<>> ELSE Enter(t, f[i - 1], p[i])]
           S == {k \in Nat : \E f : Way(f, k)}
<1>1. 0 \in S
    <2> DEFINE f == [i \in 0 .. 0 |-> <<>>]
    <2>1. Way(f, 0)  OBVIOUS
    <2> QED  BY <2>1
<1>2. ASSUME NEW k \in S PROVE k + 1 \in S
    <2>1. k \in Nat /\ k + 1 \in Nat  OBVIOUS
    <2>2. PICK f : Way(f, k)  OBVIOUS
    <2>3. \A i \in 0 .. k : f[i] = IF i = 0 THEN <<>> ELSE Enter(t, f[i - 1], p[i])
        BY <2>2
    <2> DEFINE g == [i \in 0 .. (k + 1) |-> IF i = k + 1 THEN Enter(t, f[k], p[k + 1]) ELSE f[i]]
    <2>4. ASSUME NEW i \in 0 .. (k + 1)
          PROVE  g[i] = IF i = 0 THEN <<>> ELSE Enter(t, g[i - 1], p[i])
        <3>1. CASE i = k + 1
            <4>1. i # 0 /\ i - 1 \in 0 .. (k + 1) /\ i - 1 = k /\ i - 1 # k + 1
                BY <2>1, <3>1
            <4>2. g[i - 1] = f[k]  BY <4>1
            <4>3. g[i] = Enter(t, f[k], p[k + 1])  BY <3>1
            <4> QED  BY <3>1, <4>1, <4>2, <4>3
        <3>2. CASE i # k + 1
            <4>1. i \in 0 .. k /\ g[i] = f[i]  BY <2>1, <3>2
            <4>2. CASE i = 0  BY <2>3, <4>1, <4>2
            <4>3. CASE i # 0
                <5>1. i - 1 \in 0 .. (k + 1) /\ i - 1 # k + 1  BY <2>1, <4>1, <4>3
                <5>2. g[i - 1] = f[i - 1]  BY <5>1
                <5> QED  BY <2>3, <4>1, <4>3, <5>2
            <4> QED  BY <4>2, <4>3
        <3> QED  BY <3>1, <3>2
    <2>5. g = [i \in 0 .. (k + 1) |-> g[i]]  OBVIOUS
    <2> HIDE DEF g
    <2>6. Way(g, k + 1)  BY <2>4, <2>5
    <2> QED  BY <2>1, <2>6
<1> HIDE DEF S
<1>3. S = Nat
    <2>1. S \in SUBSET Nat  BY DEF S
    <2> QED  BY <1>1, <1>2, <2>1, Induction
<1> QED  BY <1>3 DEF S, Leads

\* f[i] is where the first i names of p lead, for i up to n.
Way(f, t, p, n) == f[0] = <<>> /\ \A i \in 1 .. n : f[i] = Enter(t, f[i - 1], p[i])

LEMMA WalkIs ==
    ASSUME NEW t, NEW p, Len(p) \in Nat
    PROVE  \E f : Walk(t, p) = f[Len(p)] /\ Way(f, t, p, Len(p))
<1> DEFINE f == CHOOSE f : Leads(f, t, p, Len(p))
<1>1. Walk(t, p) = f[Len(p)]  BY DEF Walk, Leads
<1>2. Leads(f, t, p, Len(p))
    <2>1. \E g : Leads(g, t, p, Len(p))  BY LeadsExists
    <2> QED  BY <2>1
<1> HIDE DEF f
<1>3. \A i \in 0 .. Len(p) : f[i] = IF i = 0 THEN <<>> ELSE Enter(t, f[i - 1], p[i])
    BY <1>2 DEF Leads
<1>4. f[0] = <<>>  BY <1>3
<1>5. \A i \in 1 .. Len(p) : f[i] = Enter(t, f[i - 1], p[i])  BY <1>3
<1> QED  BY <1>1, <1>4, <1>5 DEF Way

\* Two paths that begin alike lead to the same place.
LEMMA SameWay ==
    ASSUME NEW t, NEW n \in Nat, NEW p, NEW q, \A i \in 1 .. n : p[i] = q[i],
           NEW f, Way(f, t, p, n), NEW g, Way(g, t, q, n)
    PROVE  f[n] = g[n]
<1> DEFINE S == {i \in Nat : i <= n => f[i] = g[i]}
<1>1. 0 \in S  BY DEF Way
<1>2. ASSUME NEW i \in S PROVE i + 1 \in S
    <2>1. ASSUME i + 1 <= n PROVE f[i + 1] = g[i + 1]
        <3>1. i \in Nat /\ i <= n /\ i + 1 \in 1 .. n /\ (i + 1) - 1 = i  BY <2>1
        <3>2. f[i] = g[i]  BY <3>1
        <3> QED  BY <3>1, <3>2 DEF Way
    <2> QED  BY <2>1
<1> HIDE DEF S
<1>3. S = Nat
    <2>1. S \in SUBSET Nat  BY DEF S
    <2> QED  BY <1>1, <1>2, <2>1, Induction
<1> QED  BY <1>3 DEF S

LEMMA WalkNothing ==
    ASSUME NEW t
    PROVE  Walk(t, <<>>) = <<>>
<1>1. Len(<<>>) = 0  BY EmptySeq
<1> QED  BY <1>1, WalkIs DEF Way

LEMMA WalkOn ==
    ASSUME NEW t, NEW p \in Seq(Node), NEW n \in Node
    PROVE  Walk(t, Append(p, n)) = Enter(t, Walk(t, p), n)
<1> DEFINE q == Append(p, n)
           k == Len(p)
<1>1. k \in Nat  BY LenProperties
<1>2. q \in Seq(Node) /\ Len(q) = k + 1 /\ q[k + 1] = n /\ \A i \in 1 .. k : p[i] = q[i]
    BY AppendProperties
<1> HIDE DEF q
<1>3. PICK f : Walk(t, p) = f[k] /\ Way(f, t, p, k)  BY <1>1, WalkIs
<1>4. k + 1 \in Nat  BY <1>1
<1>5. PICK g : Walk(t, q) = g[k + 1] /\ Way(g, t, q, k + 1)  BY <1>2, <1>4, WalkIs
<1> HIDE DEF k
<1>6. Way(g, t, q, k)  BY <1>1, <1>5 DEF Way
<1>7. f[k] = g[k]  BY <1>1, <1>2, <1>3, <1>6, SameWay
<1>8. k + 1 \in 1 .. (k + 1) /\ (k + 1) - 1 = k  BY <1>1
<1>9. g[k + 1] = Enter(t, g[k], n)  BY <1>2, <1>5, <1>8 DEF Way
<1> QED  BY <1>3, <1>5, <1>7, <1>9 DEF q, k

\* Every name is an entry's, every link leads to a path of entries' names.
LEMMA FollowType ==
    ASSUME NEW t, IsTree(t), NEW p \in Seq(Name)
    PROVE  Follow(t, p) \in Seq(Name)
    BY DEF Follow, Kind, IsTree, Object

LEMMA FrontIs ==
    ASSUME NEW S, NEW p \in Seq(S), p # <<>>
    PROVE  /\ Front(p) \in Seq(S) /\ Len(Front(p)) = Len(p) - 1 /\ Last(p) \in S
           /\ \A i \in 1 .. (Len(p) - 1) : Front(p)[i] = p[i]
           /\ p = Append(Front(p), Last(p))
<1> DEFINE k == Len(p) - 1
           q == SubSeq(p, 1, k)
<1>1. Len(p) \in Nat /\ Len(p) # 0 /\ \A i \in 1 .. Len(p) : p[i] \in S
    BY EmptySeq, LenProperties, ElementOfSeq
<1>2. k \in 0 .. Len(p) /\ k \in Nat /\ k + 1 = Len(p)  BY <1>1
<1>3. q \in Seq(S) /\ Len(q) = k /\ \A i \in 1 .. k : q[i] = p[i]
    BY <1>1, <1>2, SubSeqProperties
<1>4. Front(p) = q /\ Last(p) = p[Len(p)] /\ p[Len(p)] \in S  BY <1>1 DEF Front, Last
<1> HIDE DEF q, k
<1> DEFINE r == Append(q, Last(p))
<1>5. /\ r \in Seq(S) /\ Len(r) = Len(p) /\ r[Len(p)] = Last(p)
      /\ \A i \in 1 .. k : r[i] = q[i]
    BY <1>2, <1>3, <1>4, AppendProperties
<1> HIDE DEF r
<1>6. ASSUME NEW i \in 1 .. Len(p) PROVE r[i] = p[i]
    <2>1. i \in 1 .. k \/ i = Len(p)  BY <1>1, <1>2
    <2> QED  BY <1>3, <1>4, <1>5, <2>1
<1>7. r = p  BY <1>5, <1>6, SeqEqual
<1> QED  BY <1>3, <1>4, <1>7 DEF k, r

LEMMA EnterType ==
    ASSUME NEW t, IsTree(t), NEW q \in Seq(Name), NEW n \in Node
    PROVE  Enter(t, q, n) \in Seq(Name)
<1> DEFINE d == Follow(t, q)
<1>1. d \in Seq(Name)  BY FollowType
<1> HIDE DEF d
<1>2. CASE n = "."  BY <1>1, <1>2 DEF Enter, d
<1>3. CASE n = ".."
    <2>1. d # <<>> => Front(d) \in Seq(Name)  BY <1>1, FrontIs
    <2>2. Enter(t, q, n) = IF d = <<>> THEN d ELSE Front(d)  BY <1>3 DEF Enter, d
    <2> QED  BY <1>1, <2>1, <2>2
<1>4. CASE n # "." /\ n # ".."
    <2>1. n \in Name  BY <1>4 DEF Node, Dots
    <2>2. Enter(t, q, n) = Append(d, n)  BY <1>4 DEF Enter, d
    <2> QED  BY <1>1, <2>1, <2>2, AppendProperties
<1> QED  BY <1>2, <1>3, <1>4

LEMMA WalkType ==
    ASSUME NEW t, IsTree(t), NEW p \in Seq(Node)
    PROVE  Walk(t, p) \in Seq(Name) /\ Real(t, p) \in Seq(Name)
<1>1. Len(p) \in Nat /\ \A i \in 1 .. Len(p) : p[i] \in Node
    BY LenProperties, ElementOfSeq
<1>2. PICK f : Walk(t, p) = f[Len(p)] /\ Way(f, t, p, Len(p))  BY <1>1, WalkIs
<1> DEFINE S == {i \in Nat : i <= Len(p) => f[i] \in Seq(Name)}
<1>3. 0 \in S  BY <1>2, EmptySeq DEF Way
<1>4. ASSUME NEW i \in S PROVE i + 1 \in S
    <2>1. ASSUME i + 1 <= Len(p) PROVE f[i + 1] \in Seq(Name)
        <3>1. i \in Nat /\ i <= Len(p) /\ i + 1 \in 1 .. Len(p) /\ (i + 1) - 1 = i
            BY <1>1, <2>1
        <3>2. f[i] \in Seq(Name) /\ p[i + 1] \in Node  BY <1>1, <3>1
        <3>3. f[i + 1] = Enter(t, f[i], p[i + 1])  BY <1>2, <3>1 DEF Way
        <3> QED  BY <3>2, <3>3, EnterType
    <2> QED  BY <2>1
<1> HIDE DEF S
<1>5. S = Nat
    <2>1. S \in SUBSET Nat  BY DEF S
    <2> QED  BY <1>3, <1>4, <2>1, Induction
<1>6. Walk(t, p) \in Seq(Name)  BY <1>1, <1>2, <1>5 DEF S
<1> QED  BY <1>6, FollowType DEF Real

-----------------------------------------------------------------------------
(* What the calls do to a tree *)

LEMMA PrefixIs ==
    ASSUME NEW S, NEW p \in Seq(S), NEW q \in Seq(S)
    PROVE  IsPrefix(p, q) <=> Len(p) <= Len(q) /\ \A i \in 1 .. Len(p) : p[i] = q[i]
<1> DEFINE n == Len(p)
           a == SubSeq(p, 1, n)
           b == SubSeq(q, 1, n)
<1>1. Len(p) \in Nat /\ Len(q) \in Nat /\ \A i \in 1 .. Len(q) : q[i] \in S
    BY LenProperties, ElementOfSeq
<1>2. a = p  BY SubSeqFull
<1>3. CASE Len(p) <= Len(q)
    <2>1. n \in 0 .. Len(q)  BY <1>1, <1>3
    <2>2. b \in Seq(S) /\ Len(b) = n /\ \A i \in 1 .. n : b[i] = q[i]
        BY <1>1, <2>1, SubSeqProperties
    <2>3. IsPrefix(p, q) <=> p = b  BY <1>2, <1>3 DEF IsPrefix
    <2> HIDE DEF b
    <2>4. (\A i \in 1 .. n : p[i] = q[i]) => p = b  BY <2>2, SeqEqual
    <2>5. p = b => \A i \in 1 .. n : p[i] = q[i]  BY <2>2
    <2> QED  BY <1>3, <2>3, <2>4, <2>5
<1>4. CASE ~(Len(p) <= Len(q))  BY <1>4 DEF IsPrefix
<1> QED  BY <1>3, <1>4

\* A leaf made, replaced or taken away; a directory made.
LEMMA PutKeepsTree ==
    ASSUME NEW t, IsTree(t), NEW p \in Seq(Name), CanHold(t, p), NEW o,
           o \in Object,
           o.kind = "dir" \/ Kind(t, p) # "dir"
    PROVE  IsTree(Put(t, p, o))
<1> DEFINE u == Put(t, p, o)
<1>1. /\ DOMAIN u = DOMAIN t \cup {p}
      /\ \A q \in DOMAIN u : u[q] = IF q = p THEN o ELSE t[q]
    BY DEF Put
<1> HIDE DEF u
<1>2. ASSUME NEW q, Kind(t, q) = "dir" PROVE Kind(u, q) = "dir"
    BY <1>1, <1>2 DEF Kind
<1>3. ASSUME NEW q \in DOMAIN u
      PROVE  /\ q \in Seq(Name) /\ u[q] \in Object
             /\ q # <<>> => Kind(u, Front(q)) = "dir"
    <2>1. CASE q = p
        <3>1. Kind(t, Front(q)) = "dir"  BY <2>1 DEF CanHold
        <3> QED  BY <1>1, <1>2, <2>1, <3>1
    <2>2. CASE q # p
        <3>1. q \in DOMAIN t /\ u[q] = t[q]  BY <1>1, <2>2
        <3> QED  BY <1>2, <3>1 DEF IsTree
    <2> QED  BY <2>1, <2>2
<1> QED  BY <1>3 DEF IsTree, u

LEMMA WithoutKeepsTree ==
    ASSUME NEW t, IsTree(t), NEW p, \A q \in DOMAIN t : q # <<>> => Front(q) # p
    PROVE  IsTree(Without(t, p))
<1> DEFINE u == Without(t, p)
<1>1. DOMAIN u = DOMAIN t \ {p} /\ \A q \in DOMAIN u : u[q] = t[q]
    BY DEF Without
<1> HIDE DEF u
<1>2. ASSUME NEW q \in DOMAIN u
      PROVE  /\ q \in Seq(Name) /\ u[q] \in Object
             /\ q # <<>> => Kind(u, Front(q)) = "dir"
    <2>1. q \in DOMAIN t /\ u[q] = t[q]  BY <1>1
    <2>2. ASSUME q # <<>> PROVE Kind(u, Front(q)) = "dir"
        <3>1. Kind(t, Front(q)) = "dir" /\ Front(q) # p  BY <2>1, <2>2 DEF IsTree
        <3> QED  BY <1>1, <3>1 DEF Kind
    <2> QED  BY <2>1, <2>2 DEF IsTree
<1> QED  BY <1>2 DEF IsTree, u

\* What is not a directory has nothing below it; an empty one has not either.
LEMMA LeafIsBare ==
    ASSUME NEW t, IsTree(t), NEW p, Kind(t, p) # "dir"
    PROVE  \A q \in DOMAIN t : q # <<>> => Front(q) # p
    BY DEF IsTree

LEMMA EmptyIsBare ==
    ASSUME NEW t, IsTree(t), NEW p, Entries(t, p) = {}
    PROVE  \A q \in DOMAIN t : q # <<>> => Front(q) # p
<1> SUFFICES ASSUME NEW q \in DOMAIN t, q # <<>>, Front(q) = p
             PROVE  FALSE
    OBVIOUS
<1>1. q \in Seq(Name)  BY DEF IsTree
<1>2. /\ p \in Seq(Name) /\ Len(p) = Len(q) - 1 /\ Len(q) \in Nat
      /\ \A i \in 1 .. (Len(q) - 1) : p[i] = q[i]
    BY <1>1, FrontIs, LenProperties
<1>3. IsPrefix(p, q)  BY <1>1, <1>2, PrefixIs
<1>4. Len(q) = Len(p) + 1  BY <1>2
<1>5. Last(q) \in Entries(t, p)  BY <1>3, <1>4 DEF Entries
<1> QED  BY <1>5

LEMMA RestIs ==
    ASSUME NEW S, NEW p \in Seq(S), NEW q \in Seq(S), IsPrefix(p, q)
    PROVE  LET r == SubSeq(q, Len(p) + 1, Len(q))
           IN  r \in Seq(S) /\ q = p \o r
<1> DEFINE n == Len(p)
           r == SubSeq(q, n + 1, Len(q))
<1>1. /\ n \in Nat /\ Len(q) \in Nat /\ n <= Len(q) /\ \A i \in 1 .. Len(q) : q[i] \in S
      /\ \A i \in 1 .. n : p[i] = q[i]
    BY LenProperties, ElementOfSeq, PrefixIs
<1>2. r \in Seq(S) /\ Len(r) = Len(q) - n /\ \A i \in 1 .. (Len(q) - n) : r[i] = q[n + i]
    BY <1>1, SubSeqProperties
<1> HIDE DEF r
<1> DEFINE u == p \o r
<1>3. /\ u \in Seq(S) /\ Len(u) = n + Len(r)
      /\ \A i \in 1 .. (n + Len(r)) : u[i] = IF i <= n THEN p[i] ELSE r[i - n]
    BY <1>2, ConcatProperties
<1> HIDE DEF u
<1>4. ASSUME NEW i \in 1 .. Len(q) PROVE u[i] = q[i]
    <2>1. CASE i <= n  BY <1>1, <1>2, <1>3, <2>1
    <2>2. CASE ~(i <= n)
        <3> DEFINE k == i - n
        <3>1. k \in 1 .. (Len(q) - n) /\ n + k = i  BY <1>1, <2>2
        <3>2. u[i] = r[k]  BY <1>1, <1>2, <1>3, <2>2
        <3> HIDE DEF k
        <3> QED  BY <1>2, <3>1, <3>2
    <2> QED  BY <2>1, <2>2
<1>5. u = q  BY <1>1, <1>2, <1>3, <1>4, SeqEqual
<1> QED  BY <1>2, <1>5 DEF u, r

LEMMA OnwardIs ==
    ASSUME NEW S, NEW p \in Seq(S), NEW r \in Seq(S)
    PROVE  /\ p \o r \in Seq(S) /\ Len(p \o r) = Len(p) + Len(r)
           /\ IsPrefix(p, p \o r)
           /\ SubSeq(p \o r, Len(p) + 1, Len(p \o r)) = r
<1> DEFINE n == Len(p)
           q == p \o r
           w == SubSeq(q, n + 1, Len(q))
<1>1. n \in Nat /\ Len(r) \in Nat  BY LenProperties
<1>2. /\ q \in Seq(S) /\ Len(q) = n + Len(r)
      /\ \A i \in 1 .. (n + Len(r)) : q[i] = IF i <= n THEN p[i] ELSE r[i - n]
    BY ConcatProperties
<1> HIDE DEF q
<1>3. IsPrefix(p, q)
    <2>1. \A i \in 1 .. n : p[i] = q[i]  BY <1>1, <1>2
    <2>2. n <= Len(q)  BY <1>1, <1>2
    <2> QED  BY <1>2, <2>1, <2>2, PrefixIs
<1>4. w = r
    <2>1. \A i \in 1 .. Len(q) : q[i] \in S  BY <1>2, ElementOfSeq
    <2>2. w \in Seq(S) /\ Len(w) = Len(r) /\ \A i \in 1 .. Len(r) : w[i] = q[n + i]
        BY <1>1, <1>2, <2>1, SubSeqProperties
    <2> HIDE DEF w
    <2>3. ASSUME NEW i \in 1 .. Len(r) PROVE w[i] = r[i]
        <3> DEFINE k == n + i
        <3>1. k \in 1 .. (n + Len(r)) /\ ~(k <= n) /\ k - n = i  BY <1>1
        <3>2. w[i] = q[k]  BY <2>2
        <3> HIDE DEF k
        <3> QED  BY <1>2, <3>1, <3>2
    <2> QED  BY <2>2, <2>3, SeqEqual
<1> QED  BY <1>2, <1>3, <1>4 DEF q, w

LEMMA PrefixOn ==
    ASSUME NEW S, NEW p \in Seq(S), NEW q \in Seq(S), q # <<>>, IsPrefix(p, Front(q))
    PROVE  IsPrefix(p, q)
<1>1. /\ Front(q) \in Seq(S) /\ Len(Front(q)) = Len(q) - 1 /\ Len(q) \in Nat /\ Len(p) \in Nat
      /\ \A i \in 1 .. (Len(q) - 1) : Front(q)[i] = q[i]
    BY FrontIs, LenProperties
<1>2. Len(p) <= Len(Front(q)) /\ \A i \in 1 .. Len(p) : p[i] = Front(q)[i]
    BY <1>1, PrefixIs
<1>3. Len(p) <= Len(q) /\ \A i \in 1 .. Len(p) : p[i] = q[i]  BY <1>1, <1>2
<1> QED  BY <1>3, PrefixIs

LEMMA OnwardFront ==
    ASSUME NEW S, NEW p \in Seq(S), NEW r \in Seq(S), r # <<>>
    PROVE  Front(p \o r) = p \o Front(r) /\ p \o r # <<>>
<1> DEFINE f == Front(r)
           x == Last(r)
<1>1. f \in Seq(S) /\ x \in S /\ r = Append(f, x)  BY FrontIs
<1> HIDE DEF f, x
<1>2. p \o r = Append(p \o f, x)
    <2>1. p \o f \in Seq(S) /\ <<x>> \in Seq(S)  BY <1>1, ConcatProperties
    <2>2. r = f \o <<x>> /\ Append(p \o f, x) = (p \o f) \o <<x>>  BY <1>1, <2>1, AppendIsConcat
    <2>3. (p \o f) \o <<x>> = p \o (f \o <<x>>)  BY <1>1, <2>1, ConcatAssociative, SMTT(20)
    <2> QED  BY <2>2, <2>3
<1>3. p \o f \in Seq(S)  BY <1>1, ConcatProperties
<1> DEFINE y == p \o f
           z == Append(y, x)
<1>4. y \in Seq(S)  BY <1>3
<1> HIDE DEF y
<1>5. Len(y) \in Nat /\ z \in Seq(S) /\ Len(z) = Len(y) + 1 /\ \A i \in 1 .. Len(y) : z[i] = y[i]
    BY <1>1, <1>4, LenProperties, AppendProperties
<1> HIDE DEF z
<1>6. z # <<>>  BY <1>5, EmptySeq
<1>7. /\ Front(z) \in Seq(S) /\ Len(Front(z)) = Len(y)
      /\ \A i \in 1 .. Len(y) : Front(z)[i] = z[i]
    <2>1. Len(z) - 1 = Len(y)  BY <1>5
    <2> QED  BY <1>5, <1>6, <2>1, FrontIs
<1>8. Front(z) = y  BY <1>4, <1>5, <1>7, SeqEqual
<1> QED  BY <1>2, <1>6, <1>8 DEF f, y, z

\* What rename() of s to d leaves, all that is at s moved with it.
LEMMA MovedIs ==
    ASSUME NEW t, IsTree(t), NEW s \in Seq(Name), NEW d \in Seq(Name)
    PROVE  LET u == Moved(t, s, d)
               Kept(q) == q \in DOMAIN t /\ ~IsPrefix(s, q) /\ ~IsPrefix(d, q)
           IN  /\ \A q : Kept(q) => q \in DOMAIN u /\ u[q] = t[q]
               /\ \A r \in Seq(Name) : s \o r \in DOMAIN t =>
                     d \o r \in DOMAIN u /\ u[d \o r] = t[s \o r]
               /\ \A q \in DOMAIN u : Kept(q) \/ \E r \in Seq(Name) :
                     q = d \o r /\ s \o r \in DOMAIN t
<1> DEFINE u == Moved(t, s, d)
           kept == {q \in DOMAIN t : ~IsPrefix(s, q) /\ ~IsPrefix(d, q)}
           Onto(q) == d \o SubSeq(q, Len(s) + 1, Len(q))
           from == {q \in DOMAIN t : IsPrefix(s, q)}
<1>1. /\ DOMAIN u = kept \cup {Onto(q) : q \in from}
      /\ \A q \in DOMAIN u :
            u[q] = IF q \in kept THEN t[q] ELSE t[s \o SubSeq(q, Len(d) + 1, Len(q))]
    BY DEF Moved
<1>2. \A q \in DOMAIN t : q \in Seq(Name)  BY DEF IsTree
<1> HIDE DEF u
<1>3. ASSUME NEW r \in Seq(Name), s \o r \in DOMAIN t
      PROVE  d \o r \in DOMAIN u /\ u[d \o r] = t[s \o r]
    <2>1. s \o r \in from /\ Onto(s \o r) = d \o r  BY <1>3, OnwardIs
    <2>2. d \o r \in DOMAIN u  BY <1>1, <2>1
    <2>3. IsPrefix(d, d \o r) /\ SubSeq(d \o r, Len(d) + 1, Len(d \o r)) = r  BY OnwardIs
    <2>4. d \o r \notin kept  BY <2>3
    <2> QED  BY <1>1, <2>2, <2>3, <2>4
<1>4. ASSUME NEW q \in from
      PROVE  \E r \in Seq(Name) : Onto(q) = d \o r /\ s \o r \in DOMAIN t
    <2> DEFINE r == SubSeq(q, Len(s) + 1, Len(q))
    <2>1. r \in Seq(Name) /\ q = s \o r  BY <1>2, RestIs
    <2> HIDE DEF r
    <2>2. Onto(q) = d \o r  BY DEF r
    <2>3. s \o r \in DOMAIN t  BY <2>1
    <2> QED  BY <2>1, <2>2, <2>3
<1>5. \A q \in kept : q \in DOMAIN u /\ u[q] = t[q]  BY <1>1
<1>6. \A q \in DOMAIN u : q \in kept \/ \E r \in Seq(Name) : q = d \o r /\ s \o r \in DOMAIN t
    <2> HIDE DEF kept, from, Onto
    <2>1. ASSUME NEW q \in DOMAIN u, q \notin kept
          PROVE  \E r \in Seq(Name) : q = d \o r /\ s \o r \in DOMAIN t
        <3>1. PICK x \in from : q = Onto(x)  BY <1>1, <2>1
        <3> QED  BY <1>4, <3>1
    <2> QED  BY <2>1
<1> QED  BY <1>3, <1>5, <1>6 DEF u

LEMMA MovedKeepsTree ==
    ASSUME NEW t, IsTree(t), NEW s \in Seq(Name), NEW d \in Seq(Name),
           CanHold(t, d), ~IsPrefix(s, d), ~IsPrefix(d, s)
    PROVE  IsTree(Moved(t, s, d))
<1> DEFINE u == Moved(t, s, d)
           Kept(q) == q \in DOMAIN t /\ ~IsPrefix(s, q) /\ ~IsPrefix(d, q)
<1>1. /\ \A q : Kept(q) => q \in DOMAIN u /\ u[q] = t[q]
      /\ \A r \in Seq(Name) : s \o r \in DOMAIN t =>
            d \o r \in DOMAIN u /\ u[d \o r] = t[s \o r]
      /\ \A q \in DOMAIN u : Kept(q) \/ \E r \in Seq(Name) :
            q = d \o r /\ s \o r \in DOMAIN t
    BY MovedIs
<1>2. \A q \in DOMAIN t : /\ q \in Seq(Name) /\ t[q] \in Object
                          /\ q # <<>> => Kind(t, Front(q)) = "dir"
    BY DEF IsTree
<1> HIDE DEF u
<1>3. ASSUME NEW q, Kept(q)
      PROVE  q # <<>> => Kind(u, Front(q)) = "dir"
    <2> SUFFICES ASSUME q # <<>> PROVE Kind(u, Front(q)) = "dir"
        OBVIOUS
    <2>1. Kind(t, Front(q)) = "dir" /\ Front(q) \in DOMAIN t  BY <1>2, <1>3 DEF Kind
    <2>2. Kept(Front(q))  BY <1>2, <1>3, <2>1, PrefixOn
    <2> QED  BY <1>1, <2>1, <2>2 DEF Kind
<1>4. ASSUME NEW r \in Seq(Name), s \o r \in DOMAIN t
      PROVE  d \o r # <<>> => Kind(u, Front(d \o r)) = "dir"
    <2>1. CASE r = <<>>
        <3>1. d \o r = d  BY <2>1, ConcatEmptySeq
        <3>2. d # <<>> /\ Kind(t, Front(d)) = "dir" /\ Front(d) \in DOMAIN t
            BY DEF CanHold, Kind
        <3>3. ~IsPrefix(s, Front(d))  BY <3>2, PrefixOn
        <3>4. ~IsPrefix(d, Front(d))
            <4>1. Front(d) \in Seq(Name) /\ Len(Front(d)) = Len(d) - 1 /\ Len(d) \in Nat
                BY <3>2, FrontIs, LenProperties
            <4> QED  BY <4>1, PrefixIs
        <3> QED  BY <1>1, <3>1, <3>2, <3>3, <3>4 DEF Kind
    <2>2. CASE r # <<>>
        <3> DEFINE f == Front(r)
        <3>1. f \in Seq(Name)  BY <2>2, FrontIs
        <3>2. Front(s \o r) = s \o f /\ s \o r # <<>> /\ Front(d \o r) = d \o f
            BY <2>2, OnwardFront
        <3> HIDE DEF f
        <3>3. Kind(t, s \o f) = "dir"  BY <1>2, <1>4, <3>2, ZenonT(20)
        <3>4. s \o f \in DOMAIN t  BY <3>3, ZenonT(20) DEF Kind
        <3> QED  BY <1>1, <3>1, <3>2, <3>3, <3>4 DEF Kind
    <2> QED  BY <2>1, <2>2
<1>5. ASSUME NEW q \in DOMAIN u
      PROVE  /\ q \in Seq(Name) /\ u[q] \in Object
             /\ q # <<>> => Kind(u, Front(q)) = "dir"
    <2>1. CASE Kept(q)  BY <1>1, <1>2, <1>3, <2>1
    <2>2. CASE ~Kept(q)
        <3>1. PICK r \in Seq(Name) : q = d \o r /\ s \o r \in DOMAIN t  BY <1>1, <2>2
        <3>2. u[q] = t[s \o r]  BY <1>1, <3>1
        <3>3. d \o r \in Seq(Name)  BY OnwardIs
        <3> QED  BY <1>2, <1>4, <3>1, <3>2, <3>3
    <2> QED  BY <2>1, <2>2
<1> QED  BY <1>5 DEF IsTree, u
-----------------------------------------------------------------------------
(* The inductive invariant *)

Pcs == {"copy", "follow", "data", "symlink", "list", "remove", "scan", "move", "copied"}
Frames == [pc : Pcs, src : Seq(Node), dst : Seq(Node), in : Seq(Node), out : Seq(Node),
           off : Nat, text : Seq(Name), must : SUBSET Name, seen : SUBSET Name]

\* A call in progress, with paths that fit.  It may be put on a stack where n
\* calls are below it.
Deep(f, n) == /\ f \in Frames /\ Len(f.src) <= MaxPath /\ Len(f.dst) <= MaxPath
              /\ Len(f.src) >= n /\ Len(f.src) >= 1

\* The call on top, in tree t, with n calls below it.
OnTop(t, f, n) ==
    /\ f.pc = "data" => /\ f.out \in Seq(Name)
                        /\ Kind(t, f.in) = "file" /\ Kind(t, f.out) = "file"
    /\ f.pc = "symlink" => f.out \in Seq(Name) /\ Kind(t, f.out) # "dir"
    /\ f.pc = "move" => n = 0

StackOK(t, s) ==
    /\ s \in Seq(Frames)
    /\ \A i \in 1 .. Len(s) : Deep(s[i], Len(s) - i)
    /\ s # <<>> => OnTop(t, s[1], Len(s) - 1)
    /\ \A i \in 2 .. Len(s) : s[i].pc \in {"list", "scan", "copied"}

IInv ==
    /\ job \in Jobs /\ arg \in 1 .. Len(job.args) + 1
    /\ status \in {0, 1} /\ fails \in 0 .. MaxFails
    /\ IsTree(fs)
    /\ StackOK(fs, stack)
    /\ stack # <<>> \/ ret # "call" => arg <= Len(job.args)

-----------------------------------------------------------------------------
(* The stack *)

LEMMA TailIs ==
    ASSUME NEW S, NEW s \in Seq(S), s # <<>>
    PROVE  /\ Tail(s) \in Seq(S) /\ Len(s) \in Nat /\ Len(s) >= 1 /\ Len(Tail(s)) = Len(s) - 1
           /\ s[1] \in S
           /\ \A i \in 1 .. (Len(s) - 1) : Tail(s)[i] = s[i + 1]
<1>1. Len(s) \in Nat /\ Len(s) >= 1  BY EmptySeq, LenProperties
<1>2. 1 \in 1 .. Len(s)  BY <1>1
<1> QED  BY <1>1, <1>2, ElementOfSeq, HeadTailProperties

LEMMA BecomeIs ==
    ASSUME NEW S, NEW s \in Seq(S), s # <<>>, NEW f \in S
    PROVE  LET z == <<f>> \o Tail(s)
           IN  z \in Seq(S) /\ Len(z) = Len(s) /\ z[1] = f /\ \A i \in 2 .. Len(s) : z[i] = s[i]
<1> DEFINE r == Tail(s)
           z == <<f>> \o r
<1>1. Len(s) \in Nat /\ Len(s) >= 1 /\ r \in Seq(S) /\ Len(r) = Len(s) - 1
      /\ \A i \in 1 .. Len(r) : r[i] = s[i + 1]
    BY TailIs
<1> HIDE DEF r
<1> DEFINE g == <<f>>
<1>2. g \in Seq(S) /\ Len(g) = 1 /\ g[1] = f  OBVIOUS
<1> HIDE DEF g
<1>3. /\ g \o r \in Seq(S) /\ Len(g \o r) = Len(g) + Len(r)
      /\ \A i \in 1 .. (Len(g) + Len(r)) : (g \o r)[i] = IF i <= Len(g) THEN g[i] ELSE r[i - Len(g)]
    <2>1. g \in Seq(S) /\ r \in Seq(S)  BY <1>1, <1>2
    <2> QED  BY <2>1, ConcatProperties
<1>4. /\ z \in Seq(S) /\ Len(z) = Len(s)
      /\ \A i \in 1 .. Len(s) : z[i] = IF i <= 1 THEN g[i] ELSE r[i - 1]
    BY <1>1, <1>2, <1>3 DEF g
<1> HIDE DEF z
<1>5. z[1] = f  BY <1>1, <1>2, <1>4
<1>6. ASSUME NEW i \in 2 .. Len(s) PROVE z[i] = s[i]
    <2> DEFINE k == i - 1
    <2>1. k \in 1 .. Len(r) /\ k + 1 = i /\ ~(i <= 1) /\ i \in 1 .. Len(s)  BY <1>1
    <2>2. z[i] = r[k]  BY <1>4, <2>1
    <2> HIDE DEF k
    <2> QED  BY <1>1, <2>1, <2>2
<1> QED  BY <1>4, <1>5, <1>6 DEF z, r

LEMMA CallIs ==
    ASSUME NEW S, NEW s \in Seq(S), s # <<>>, NEW f \in S, NEW c \in S
    PROVE  LET z == <<c, f>> \o Tail(s)
           IN  /\ z \in Seq(S) /\ Len(z) = Len(s) + 1 /\ z[1] = c /\ z[2] = f
               /\ \A i \in 3 .. (Len(s) + 1) : z[i] = s[i - 1]
<1> DEFINE r == Tail(s)
           z == <<c, f>> \o r
<1>1. Len(s) \in Nat /\ Len(s) >= 1 /\ r \in Seq(S) /\ Len(r) = Len(s) - 1
      /\ \A i \in 1 .. Len(r) : r[i] = s[i + 1]
    BY TailIs
<1> HIDE DEF r
<1> DEFINE g == <<c, f>>
<1>2. g \in Seq(S) /\ Len(g) = 2 /\ g[1] = c /\ g[2] = f  OBVIOUS
<1> HIDE DEF g
<1>3. /\ g \o r \in Seq(S) /\ Len(g \o r) = Len(g) + Len(r)
      /\ \A i \in 1 .. (Len(g) + Len(r)) : (g \o r)[i] = IF i <= Len(g) THEN g[i] ELSE r[i - Len(g)]
    <2>1. g \in Seq(S) /\ r \in Seq(S)  BY <1>1, <1>2
    <2> QED  BY <2>1, ConcatProperties
<1>4. /\ z \in Seq(S) /\ Len(z) = Len(s) + 1
      /\ \A i \in 1 .. (Len(s) + 1) : z[i] = IF i <= 2 THEN g[i] ELSE r[i - 2]
    BY <1>1, <1>2, <1>3 DEF g
<1> HIDE DEF z
<1>5. z[1] = c /\ z[2] = f  BY <1>1, <1>2, <1>4
<1>6. ASSUME NEW i \in 3 .. (Len(s) + 1) PROVE z[i] = s[i - 1]
    <2> DEFINE k == i - 2
    <2>1. k \in 1 .. Len(r) /\ k + 1 = i - 1 /\ ~(i <= 2) /\ i \in 1 .. (Len(s) + 1)  BY <1>1
    <2>2. z[i] = r[k]  BY <1>4, <2>1
    <2> HIDE DEF k
    <2>3. r[k] = s[k + 1]  BY <1>1, <2>1
    <2> QED  BY <2>1, <2>2, <2>3
<1> QED  BY <1>4, <1>5, <1>6 DEF z, r

LEMMA StackBecome ==
    ASSUME NEW t, NEW u, NEW s, StackOK(t, s), s # <<>>, NEW f,
           Deep(f, Len(s) - 1), OnTop(u, f, Len(s) - 1)
    PROVE  StackOK(u, <<f>> \o Tail(s))
<1> DEFINE z == <<f>> \o Tail(s)
<1>1. s \in Seq(Frames) /\ f \in Frames /\ Len(s) \in Nat  BY LenProperties DEF StackOK, Deep
<1>2. z \in Seq(Frames) /\ Len(z) = Len(s) /\ z[1] = f /\ \A i \in 2 .. Len(s) : z[i] = s[i]
    BY <1>1, BecomeIs
<1> HIDE DEF z
<1>3. ASSUME NEW i \in 1 .. Len(z) PROVE Deep(z[i], Len(z) - i)
    <2>1. CASE i = 1  BY <1>2, <2>1
    <2>2. CASE i # 1
        <3>1. i \in 2 .. Len(s)  BY <1>1, <1>2, <2>2
        <3> QED  BY <1>2, <3>1 DEF StackOK
    <2> QED  BY <2>1, <2>2
<1>4. \A i \in 2 .. Len(z) : z[i].pc \in {"list", "scan", "copied"}  BY <1>2 DEF StackOK
<1>5. OnTop(u, z[1], Len(z) - 1)  BY <1>2
<1> QED  BY <1>2, <1>3, <1>4, <1>5 DEF StackOK, z

LEMMA StackCall ==
    ASSUME NEW t, NEW u, NEW s, StackOK(t, s), s # <<>>, NEW f, NEW c,
           Deep(f, Len(s) - 1), f.pc \in {"list", "scan", "copied"},
           Deep(c, Len(s)), OnTop(u, c, Len(s))
    PROVE  StackOK(u, <<c, f>> \o Tail(s))
<1> DEFINE z == <<c, f>> \o Tail(s)
<1>1. s \in Seq(Frames) /\ f \in Frames /\ c \in Frames /\ Len(s) \in Nat
    BY LenProperties DEF StackOK, Deep
<1>2. /\ z \in Seq(Frames) /\ Len(z) = Len(s) + 1 /\ z[1] = c /\ z[2] = f
      /\ \A i \in 3 .. (Len(s) + 1) : z[i] = s[i - 1]
    BY <1>1, CallIs
<1> HIDE DEF z
<1>3. ASSUME NEW i \in 1 .. Len(z)
      PROVE  /\ Deep(z[i], Len(z) - i)
             /\ i >= 2 => z[i].pc \in {"list", "scan", "copied"}
    <2>1. CASE i = 1
        <3>1. Len(z) - i = Len(s)  BY <1>1, <1>2, <2>1
        <3> QED  BY <1>2, <2>1, <3>1
    <2>2. CASE i = 2
        <3>1. Len(z) - i = Len(s) - 1  BY <1>1, <1>2, <2>2
        <3> QED  BY <1>2, <2>2, <3>1
    <2>3. CASE i # 1 /\ i # 2
        <3> DEFINE k == i - 1
        <3>1. i \in 3 .. (Len(s) + 1) /\ k \in 2 .. Len(s) /\ k \in 1 .. Len(s) /\ Len(z) - i = Len(s) - k
            BY <1>1, <1>2, <2>3
        <3>2. z[i] = s[k]  BY <1>2, <3>1
        <3> HIDE DEF k
        <3> QED  BY <3>1, <3>2 DEF StackOK
    <2> QED  BY <2>1, <2>2, <2>3
<1>4. Len(z) - 1 = Len(s)  BY <1>1, <1>2
<1>5. OnTop(u, z[1], Len(z) - 1)  BY <1>2, <1>4
<1>6. \A i \in 2 .. Len(z) : i \in 1 .. Len(z) /\ i >= 2  BY <1>1, <1>2
<1> QED  BY <1>2, <1>3, <1>5, <1>6 DEF StackOK, z

LEMMA StackReturn ==
    ASSUME NEW t, NEW u, NEW s, StackOK(t, s), s # <<>>
    PROVE  StackOK(u, Tail(s))
<1> DEFINE r == Tail(s)
<1>1. s \in Seq(Frames)  BY DEF StackOK
<1>2. r \in Seq(Frames) /\ Len(s) \in Nat /\ Len(r) = Len(s) - 1 /\ Len(s) >= 1
      /\ \A i \in 1 .. (Len(s) - 1) : r[i] = s[i + 1]
    BY <1>1, TailIs
<1> HIDE DEF r
<1>3. ASSUME NEW i \in 1 .. Len(r)
      PROVE  Deep(r[i], Len(r) - i) /\ r[i].pc \in {"list", "scan", "copied"}
    <2> DEFINE k == i + 1
    <2>1. k \in 2 .. Len(s) /\ k \in 1 .. Len(s) /\ Len(r) - i = Len(s) - k /\ r[i] = s[k]
        BY <1>2
    <2> HIDE DEF k
    <2> QED  BY <2>1 DEF StackOK
<1>4. ASSUME r # <<>> PROVE OnTop(u, r[1], Len(r) - 1)
    <2>1. 1 \in 1 .. Len(r)  BY <1>2, <1>4, EmptySeq
    <2> QED  BY <1>3, <2>1 DEF OnTop
<1>5. \A i \in 2 .. Len(r) : i \in 1 .. Len(r)  BY <1>2
<1> QED  BY <1>2, <1>3, <1>4, <1>5 DEF StackOK, r

-----------------------------------------------------------------------------
(* Each step *)

LEMMA FrameIs ==
    ASSUME NEW pc \in Pcs, NEW s \in Seq(Node), NEW d \in Seq(Node)
    PROVE  LET f == Frame(pc, s, d)
           IN  /\ f \in Frames /\ f.pc = pc /\ f.src = s /\ f.dst = d
               /\ f.in = s /\ f.out = d
<1>1. <<>> \in Seq(Name)  BY EmptySeq
<1> QED  BY <1>1 DEF Frame, Frames

LEMMA RemovalIs ==
    ASSUME NEW s \in Seq(Node)
    PROVE  LET f == Frame("remove", s, <<>>)
           IN  f \in Frames /\ f.pc = "remove" /\ f.src = s /\ Len(f.dst) = 0
<1> DEFINE d == <<>>
           f == Frame("remove", s, d)
<1>1. d \in Seq(Node) /\ Len(d) = 0  BY EmptySeq
<1> HIDE DEF d
<1>2. f \in Frames /\ f.pc = "remove" /\ f.src = s /\ f.dst = d
    BY <1>1, EmptySeq DEF Frame, Frames, Pcs
<1> QED  BY <1>1, <1>2 DEF d

LEMMA NameIsNode ==
    ASSUME NEW p \in Seq(Name)
    PROVE  p \in Seq(Node)
<1>1. Len(p) \in Nat /\ p = [i \in 1 .. Len(p) |-> p[i]] /\ \A i \in 1 .. Len(p) : p[i] \in Name
    BY LenProperties, ElementOfSeq
<1>2. \A i \in 1 .. Len(p) : p[i] \in Node  BY <1>1 DEF Node
<1> QED  BY <1>1, <1>2, IsASeq

LEMMA EntriesType ==
    ASSUME NEW t, IsTree(t), NEW S, NEW p \in Seq(S)
    PROVE  Entries(t, p) \subseteq Name
<1> SUFFICES ASSUME NEW q \in DOMAIN t, Len(q) = Len(p) + 1
             PROVE  Last(q) \in Name
    BY DEF Entries
<1>1. q \in Seq(Name) /\ Len(p) \in Nat  BY LenProperties DEF IsTree
<1>2. q # <<>>  BY <1>1, EmptySeq
<1> QED  BY <1>1, <1>2, FrontIs

LEMMA TopIs ==
    ASSUME IInv, stack # <<>>
    PROVE  /\ top \in Frames /\ Deep(top, Len(stack) - 1) /\ OnTop(fs, top, Len(stack) - 1)
           /\ Len(stack) \in Nat /\ Len(stack) >= 1
<1>1. stack \in Seq(Frames)  BY DEF IInv, StackOK
<1>2. Len(stack) \in Nat /\ Len(stack) >= 1  BY <1>1, EmptySeq, LenProperties
<1>3. 1 \in 1 .. Len(stack)  BY <1>2
<1> QED  BY <1>1, <1>2, <1>3, ElementOfSeq DEF IInv, StackOK, top

\* The call on top returns.
LEMMA Returns ==
    ASSUME IInv, stack # <<>>, stack' = Tail(stack)
    PROVE  StackOK(fs', stack')
    BY StackReturn DEF IInv

\* The call on top goes on, with the paths it was given.
LEMMA Becomes ==
    ASSUME IInv, stack # <<>>, NEW f, f \in Frames, f.src = top.src, f.dst = top.dst,
           OnTop(fs', f, Len(stack) - 1), stack' = <<f>> \o Tail(stack)
    PROVE  StackOK(fs', stack')
<1>1. Deep(top, Len(stack) - 1)  BY TopIs
<1>2. Deep(f, Len(stack) - 1)  BY <1>1 DEF Deep
<1> QED  BY <1>2, StackBecome DEF IInv

\* It calls fsutil_copy_path() or fsutil_remove_path() for an entry.
LEMMA CallsFor ==
    ASSUME IInv, stack # <<>>, NEW f, f \in Frames, f.src = top.src, f.dst = top.dst,
           f.pc \in {"list", "scan"}, NEW n \in Name, ~TooLong(top.src),
           NEW pc \in {"copy", "remove"}, NEW d \in Seq(Node), Len(d) <= MaxPath,
           stack' = <<Frame(pc, Append(top.src, n), d), f>> \o Tail(stack)
    PROVE  StackOK(fs', stack')
<1>1. Deep(top, Len(stack) - 1) /\ Len(stack) \in Nat /\ Len(stack) >= 1  BY TopIs
<1>2. Deep(f, Len(stack) - 1)  BY <1>1 DEF Deep
<1> DEFINE s == Append(top.src, n)
           c == Frame(pc, s, d)
<1>3. top.src \in Seq(Node) /\ n \in Node  BY <1>1 DEF Deep, Frames, Node
<1>4. s \in Seq(Node) /\ Len(s) = Len(top.src) + 1  BY <1>3, AppendProperties
<1>5. Len(top.src) \in Nat /\ MaxPath \in Nat  BY <1>3, LenProperties, FsAssumption
<1>6. Len(s) <= MaxPath  BY <1>4, <1>5 DEF TooLong
<1>7. Len(s) >= Len(stack) /\ Len(s) >= 1  BY <1>1, <1>4, <1>5 DEF Deep
<1> HIDE DEF s
<1>8. c \in Frames /\ c.src = s /\ c.dst = d /\ c.pc = pc  BY <1>4, FrameIs DEF Pcs
<1> HIDE DEF c
<1>9. Deep(c, Len(stack))  BY <1>6, <1>7, <1>8 DEF Deep
<1>10. OnTop(fs', c, Len(stack))  BY <1>8 DEF OnTop
<1>11. stack' = <<c, f>> \o Tail(stack)  BY DEF c, s
<1> QED  BY <1>2, <1>9, <1>10, <1>11, StackCall DEF IInv

LEMMA Keeps ==
    ASSUME IInv, stack # <<>>, UNCHANGED <<job, arg, status>>, fails' \in 0 .. MaxFails,
           IsTree(fs'), StackOK(fs', stack')
    PROVE  IInv'
    BY DEF IInv

\* Most returns change no file.
LEMMA RejectKeeps ==
    ASSUME IInv, stack # <<>>, NEW v, Reject(v),
           UNCHANGED <<job, arg, status>>, fails' \in 0 .. MaxFails
    PROVE  IInv'
<1>1. IsTree(fs')  BY DEF IInv, Reject
<1>2. StackOK(fs', stack')  BY Returns DEF Reject, Return
<1> QED  BY <1>1, <1>2, Keeps

LEMMA SourceType ==
    ASSUME IInv, stack # <<>>
    PROVE  /\ Source \in Seq(Name) /\ Source \in Seq(Node)
           /\ Walk(fs, top.src) \in Seq(Name) /\ Walk(fs, top.dst) \in Seq(Name)
           /\ Real(fs, top.dst) \in Seq(Name)
<1>1. top.src \in Seq(Node) /\ top.dst \in Seq(Node) /\ IsTree(fs)  BY TopIs DEF Frames, IInv
<1>2. Walk(fs, top.src) \in Seq(Name) /\ Real(fs, top.src) \in Seq(Name)
    BY <1>1, WalkType
<1>3. Walk(fs, top.dst) \in Seq(Name) /\ Real(fs, top.dst) \in Seq(Name)
    BY <1>1, WalkType
<1> QED  BY <1>2, <1>3, NameIsNode DEF Source

LEMMA FailsType ==
    ASSUME IInv
    PROVE  fails \in 0 .. MaxFails
    BY DEF IInv

LEMMA CopyNothingKeeps == IInv /\ CopyNothing => IInv'
<1> SUFFICES ASSUME IInv, CopyNothing PROVE IInv'
    OBVIOUS
<1>1. stack # <<>>  BY DEF CopyNothing, Copying
<1>2. UNCHANGED <<job, arg, status, fails>> /\ \E v : Reject(v)  BY DEF CopyNothing
<1> QED  BY <1>1, <1>2, RejectKeeps, FailsType

LEMMA CopyRegularKeeps == IInv /\ CopyRegular => IInv'
<1> SUFFICES ASSUME IInv, CopyRegular PROVE IInv'
    OBVIOUS
<1> DEFINE out == Real(fs, top.dst)
           o == [kind |-> "file", body |-> <<>>]
           f == [top EXCEPT !.pc = "data", !.in = Source, !.out = out]
<1>1. stack # <<>> /\ UNCHANGED <<job, arg, status, fails>>  BY DEF CopyRegular, Copying
<1>2. out \in Seq(Name) /\ out \in Seq(Node) /\ Source \in Seq(Node)
    BY <1>1, SourceType, NameIsNode
<1>3. CASE \E v : Reject(v)  BY <1>1, <1>3, RejectKeeps, FailsType
<1>4. CASE /\ Kind(fs, out) \in {"none", "file"} /\ CanHold(fs, out)
           /\ fs' = Put(fs, out, o) /\ stack' = <<f>> \o Tail(stack)
    <2>1. IsTree(fs')
        <3>1. o \in Object /\ o.kind = "file" /\ IsTree(fs)  BY EmptySeq DEF IInv, Object
        <3> HIDE DEF o, out
        <3> QED  BY <1>2, <1>4, <3>1, PutKeepsTree
    <2>2. f \in Frames /\ f.pc = "data" /\ f.out = out /\ f.src = top.src /\ f.dst = top.dst
        <3> HIDE DEF out
        <3> QED  BY <1>1, <1>2, TopIs DEF Frames, Pcs
    <2>3. Kind(fs', out) = "file" /\ Kind(fs', Source) = "file" /\ f.in = Source
        <3>1. Kind(fs, Source) = "file" /\ f.in = Source  BY <1>1, TopIs DEF CopyRegular, Copying, Frames
        <3> HIDE DEF out
        <3> QED  BY <1>4, <3>1 DEF Kind, Put
    <2> HIDE DEF f
    <2>4. OnTop(fs', f, Len(stack) - 1)  BY <1>2, <2>2, <2>3 DEF OnTop
    <2>5. StackOK(fs', stack')  BY <1>1, <1>4, <2>2, <2>4, Becomes
    <2> QED  BY <1>1, <2>1, <2>5, Keeps, FailsType
<1>5. (\E v : Reject(v)) \/ (/\ Kind(fs, out) \in {"none", "file"} /\ CanHold(fs, out)
           /\ fs' = Put(fs, out, o) /\ stack' = <<f>> \o Tail(stack))
    BY DEF CopyRegular, Become
<1> QED  BY <1>3, <1>4, <1>5

LEMMA CopyChunkKeeps == IInv /\ CopyChunk => IInv'
<1> SUFFICES ASSUME IInv, CopyChunk PROVE IInv'
    OBVIOUS
<1> DEFINE f == [top EXCEPT !.off = @ + 1]
<1>1. stack # <<>> /\ UNCHANGED <<job, arg, status, fails>> /\ stack' = <<f>> \o Tail(stack)
    BY DEF CopyChunk, At, Become
<1>2. /\ top \in Frames /\ OnTop(fs, top, Len(stack) - 1) /\ top.pc = "data"
      /\ top.off < Len(fs[top.in].body)
    BY <1>1, TopIs DEF CopyChunk, At, More
<1>3. f \in Frames /\ f.src = top.src /\ f.dst = top.dst /\ f.pc = "data" /\ f.in = top.in /\ f.out = top.out
    <2>1. top.off \in Nat /\ top.off + 1 \in Nat  BY <1>2 DEF Frames
    <2> DEFINE k == top.off + 1
    <2>2. k \in Nat /\ f = [top EXCEPT !.off = k]  BY <2>1
    <2> HIDE DEF k, f
    <2> QED  BY <1>2, <2>2 DEF Frames
<1> DEFINE x == fs[top.in].body[top.off + 1]
           b == Append(fs[top.out].body, x)
<1>4. fs' = [fs EXCEPT ![top.out].body = b]  BY DEF CopyChunk
<1>5. /\ IsTree(fs) /\ top.in \in DOMAIN fs /\ top.out \in DOMAIN fs /\ top.out \in Seq(Name)
      /\ fs[top.in] \in [kind : {"file"}, body : Seq(Chunk)]
      /\ fs[top.out] \in [kind : {"file"}, body : Seq(Chunk)]
    BY <1>2 DEF IInv, OnTop, Kind, IsTree, Object
<1>6. x \in Chunk
    <2>1. fs[top.in].body \in Seq(Chunk) /\ top.off \in Nat  BY <1>2, <1>5 DEF Frames
    <2>2. top.off + 1 \in 1 .. Len(fs[top.in].body)  BY <1>2, <2>1, LenProperties
    <2> QED  BY <2>1, <2>2, ElementOfSeq
<1> HIDE DEF x, f
<1>7. b \in Seq(Chunk)  BY <1>5, <1>6, AppendProperties
<1> HIDE DEF b
<1>8. /\ DOMAIN fs' = DOMAIN fs /\ \A q \in DOMAIN fs : q # top.out => fs'[q] = fs[q]
      /\ fs'[top.out] \in [kind : {"file"}, body : Seq(Chunk)]
    BY <1>4, <1>5, <1>7
<1>9. ASSUME NEW q PROVE Kind(fs', q) = Kind(fs, q)
    <2>1. CASE q = top.out  BY <1>5, <1>8, <2>1 DEF Kind
    <2>2. CASE q # top.out  BY <1>8, <2>2 DEF Kind
    <2> QED  BY <2>1, <2>2
<1>10. IsTree(fs')
    <2>1. ASSUME NEW q \in DOMAIN fs' PROVE fs'[q] \in Object
        <3>1. CASE q = top.out  BY <1>8, <3>1 DEF Object
        <3>2. CASE q # top.out  BY <1>5, <1>8, <3>2 DEF IsTree
        <3> QED  BY <3>1, <3>2
    <2> QED  BY <1>5, <1>8, <1>9, <2>1 DEF IsTree
<1>11. OnTop(fs', f, Len(stack) - 1)  BY <1>2, <1>3, <1>9 DEF OnTop
<1>12. StackOK(fs', stack')  BY <1>1, <1>3, <1>11, Becomes
<1> QED  BY <1>1, <1>10, <1>12, Keeps, FailsType

LEMMA CopySymlinkKeeps == IInv /\ CopySymlink => IInv'
<1> SUFFICES ASSUME IInv, CopySymlink PROVE IInv'
    OBVIOUS
<1> DEFINE d == Walk(fs, top.dst)
           g == [top EXCEPT !.pc = "follow"]
           f == [top EXCEPT !.pc = "symlink", !.out = d, !.text = fs[Source].body]
<1>1. stack # <<>> /\ UNCHANGED <<job, arg, status, fails>> /\ Kind(fs, Source) = "link"
    BY DEF CopySymlink, Copying
<1>2. d \in Seq(Name) /\ d \in Seq(Node)  BY <1>1, SourceType, NameIsNode
<1>3. top \in Frames /\ IsTree(fs) /\ fs[Source].body \in Seq(Name)
    BY <1>1, TopIs DEF IInv, IsTree, Kind, Object
<1> HIDE DEF d
<1>4. CASE stack' = <<g>> \o Tail(stack) /\ UNCHANGED fs
    <2>1. g \in Frames /\ g.pc = "follow" /\ g.src = top.src /\ g.dst = top.dst
        BY <1>3 DEF Frames, Pcs
    <2> HIDE DEF g
    <2>2. OnTop(fs', g, Len(stack) - 1)  BY <2>1 DEF OnTop
    <2>3. StackOK(fs', stack')  BY <1>1, <1>4, <2>1, <2>2, Becomes
    <2> QED  BY <1>1, <1>3, <1>4, <2>3, Keeps, FailsType
<1>5. CASE Kind(fs, d) # "dir" /\ fs' = Without(fs, d) /\ stack' = <<f>> \o Tail(stack)
    <2>1. f \in Frames /\ f.pc = "symlink" /\ f.src = top.src /\ f.dst = top.dst /\ f.out = d
        BY <1>2, <1>3 DEF Frames, Pcs
    <2> HIDE DEF f
    <2>2. Kind(fs', d) # "dir"  BY <1>5 DEF Kind, Without
    <2>3. OnTop(fs', f, Len(stack) - 1)  BY <1>2, <2>1, <2>2 DEF OnTop
    <2>4. StackOK(fs', stack')  BY <1>1, <1>5, <2>1, <2>3, Becomes
    <2>5. IsTree(fs')  BY <1>3, <1>5, LeafIsBare, WithoutKeepsTree
    <2> QED  BY <1>1, <2>4, <2>5, Keeps, FailsType
<1> QED  BY <1>4, <1>5 DEF CopySymlink, Become, d

LEMMA SymlinkKeeps == IInv /\ Symlink => IInv'
<1> SUFFICES ASSUME IInv, Symlink PROVE IInv'
    OBVIOUS
<1> DEFINE g == [top EXCEPT !.pc = "follow"]
           o == [kind |-> "link", body |-> top.text]
<1>1. stack # <<>> /\ top.pc = "symlink" /\ UNCHANGED <<job, arg, status, fails>>
    BY DEF Symlink, At
<1>2. /\ top \in Frames /\ top.out \in Seq(Name) /\ top.text \in Seq(Name) /\ IsTree(fs)
      /\ Kind(fs, top.out) # "dir"
    BY <1>1, TopIs DEF IInv, OnTop, Frames
<1>3. CASE CanHold(fs, top.out) /\ fs' = Put(fs, top.out, o) /\ stack' = Tail(stack)
    <2>1. o \in Object /\ o.kind = "link"  BY <1>2 DEF Object
    <2> HIDE DEF o
    <2>2. IsTree(fs')  BY <1>2, <1>3, <2>1, PutKeepsTree
    <2>3. StackOK(fs', stack')  BY <1>1, <1>3, Returns
    <2> QED  BY <1>1, <2>2, <2>3, Keeps, FailsType
<1>4. CASE stack' = <<g>> \o Tail(stack) /\ UNCHANGED fs
    <2>1. g \in Frames /\ g.pc = "follow" /\ g.src = top.src /\ g.dst = top.dst
        BY <1>2 DEF Frames, Pcs
    <2> HIDE DEF g
    <2>2. OnTop(fs', g, Len(stack) - 1)  BY <2>1 DEF OnTop
    <2>3. StackOK(fs', stack')  BY <1>1, <1>4, <2>1, <2>2, Becomes
    <2> QED  BY <1>1, <1>2, <1>4, <2>3, Keeps, FailsType
<1> QED  BY <1>3, <1>4 DEF Symlink, Become, Return

LEMMA CopyDirectoryKeeps == IInv /\ CopyDirectory => IInv'
<1> SUFFICES ASSUME IInv, CopyDirectory PROVE IInv'
    OBVIOUS
<1> DEFINE d == Walk(fs, top.dst)
           new == IF Kind(fs, d) = "none" THEN Put(fs, d, Dir) ELSE fs
           m == Entries(new, Source)
           f == [top EXCEPT !.pc = "list", !.in = Source, !.must = m]
<1>1. stack # <<>> /\ UNCHANGED <<job, arg, status, fails>>  BY DEF CopyDirectory, Copying
<1>2. d \in Seq(Name) /\ Source \in Seq(Node) /\ IsTree(fs)  BY <1>1, SourceType DEF IInv
<1>3. CASE \E v : Reject(v)  BY <1>1, <1>3, RejectKeeps, FailsType
<1>4. CASE CanHold(fs, d) /\ fs' = new /\ stack' = <<f>> \o Tail(stack)
    <2>1. IsTree(new)
        <3> HIDE DEF d
        <3>1. Dir \in Object /\ Dir.kind = "dir"  BY DEF Dir, Object
        <3> QED  BY <1>2, <1>4, <3>1, PutKeepsTree
    <2> HIDE DEF new
    <2>2. m \in SUBSET Name  BY <1>2, <2>1, EntriesType
    <2> HIDE DEF m
    <2>3. f \in Frames /\ f.pc = "list" /\ f.src = top.src /\ f.dst = top.dst
        BY <1>1, <1>2, <2>2, TopIs DEF Frames, Pcs
    <2> HIDE DEF f
    <2>4. OnTop(fs', f, Len(stack) - 1)  BY <2>3 DEF OnTop
    <2>5. StackOK(fs', stack')  BY <1>1, <1>4, <2>3, <2>4, Becomes
    <2> QED  BY <1>1, <1>4, <2>1, <2>5, Keeps, FailsType
<1>5. \/ \E v : Reject(v)
      \/ CanHold(fs, d) /\ fs' = new /\ stack' = <<f>> \o Tail(stack)
    BY DEF CopyDirectory, Become
<1> QED  BY <1>3, <1>4, <1>5

LEMMA CopyEntryKeeps == IInv /\ CopyEntry => IInv'
<1> SUFFICES ASSUME IInv, CopyEntry PROVE IInv'
    OBVIOUS
<1>1. stack # <<>> /\ top.pc = "list" /\ UNCHANGED <<job, arg, status, fails>>
    BY DEF CopyEntry, At
<1>2. top \in Frames /\ Deep(top, Len(stack) - 1) /\ IsTree(fs)  BY <1>1, TopIs DEF IInv
<1>3. PICK n \in Entries(fs, top.in) :
          IF TooLong(top.src) \/ TooLong(top.dst) THEN Reject("ENAMETOOLONG")
          ELSE /\ Call([top EXCEPT !.seen = @ \cup {n}],
                       Frame("copy", Append(top.src, n), Append(top.dst, n)))
               /\ UNCHANGED fs
    BY DEF CopyEntry
<1>4. n \in Name /\ n \in Node
    <2>1. top.in \in Seq(Node)  BY <1>2 DEF Frames
    <2> QED  BY <1>2, <1>3, <2>1, EntriesType DEF Node
<1>5. CASE TooLong(top.src) \/ TooLong(top.dst)
    <2>1. Reject("ENAMETOOLONG")  BY <1>3, <1>5
    <2> QED  BY <1>1, <2>1, RejectKeeps, FailsType
<1>6. CASE ~TooLong(top.src) /\ ~TooLong(top.dst)
    <2> DEFINE f == [top EXCEPT !.seen = @ \cup {n}]
               d == Append(top.dst, n)
    <2>1. stack' = <<Frame("copy", Append(top.src, n), d), f>> \o Tail(stack) /\ UNCHANGED fs
        BY <1>3, <1>6 DEF Call
    <2>2. f \in Frames /\ f.src = top.src /\ f.dst = top.dst /\ f.pc = "list"
        <3> DEFINE w == top.seen \cup {n}
        <3>1. w \in SUBSET Name /\ f = [top EXCEPT !.seen = w]  BY <1>2, <1>4 DEF Frames
        <3> HIDE DEF w, f
        <3> QED  BY <1>1, <1>2, <3>1 DEF Frames
    <2>3. d \in Seq(Node) /\ Len(d) <= MaxPath
        <3>1. top.dst \in Seq(Node)  BY <1>2 DEF Frames
        <3>2. d \in Seq(Node) /\ Len(d) = Len(top.dst) + 1  BY <1>4, <3>1, AppendProperties
        <3> QED  BY <1>6, <3>1, <3>2, FsAssumption, LenProperties DEF TooLong
    <2> HIDE DEF f, d
    <2>4. StackOK(fs', stack')  BY <1>1, <1>4, <1>6, <2>1, <2>2, <2>3, CallsFor
    <2> QED  BY <1>1, <1>2, <2>1, <2>4, Keeps, FailsType
<1> QED  BY <1>5, <1>6

LEMMA EntryDoneKeeps == IInv /\ (EntryCopied \/ EntryRemoved) => IInv'
<1> SUFFICES ASSUME IInv, EntryCopied \/ EntryRemoved PROVE IInv'
    OBVIOUS
<1>1. stack # <<>> /\ UNCHANGED <<job, arg, status, fails>>
    BY DEF EntryCopied, EntryRemoved, At
<1>2. CASE Reject(ret)  BY <1>1, <1>2, RejectKeeps, FailsType
<1>3. CASE UNCHANGED <<stack, fs>>  BY <1>1, <1>3 DEF IInv
<1> QED  BY <1>2, <1>3 DEF EntryCopied, EntryRemoved

LEMMA ReadDoneKeeps == IInv /\ (CopyEof \/ DirectoryCopied) => IInv'
<1> SUFFICES ASSUME IInv, CopyEof \/ DirectoryCopied PROVE IInv'
    OBVIOUS
<1>1. stack # <<>> /\ UNCHANGED <<job, arg, status, fails>> /\ Reject("ok")
    BY DEF CopyEof, DirectoryCopied, At
<1> QED  BY <1>1, RejectKeeps, FailsType

LEMMA RemoveLeafKeeps == IInv /\ RemoveLeaf => IInv'
<1> SUFFICES ASSUME IInv, RemoveLeaf PROVE IInv'
    OBVIOUS
<1> DEFINE p == Lookup(top.src)
           f == [top EXCEPT !.pc = "scan", !.in = p]
<1>1. stack # <<>> /\ UNCHANGED <<job, arg, status, fails>>  BY DEF RemoveLeaf, At
<1>2. top \in Frames /\ IsTree(fs) /\ p \in Seq(Node)
    BY <1>1, TopIs, SourceType, NameIsNode DEF IInv, Lookup
<1>3. CASE \E v : Reject(v)  BY <1>1, <1>3, RejectKeeps, FailsType
<1>4. CASE Kind(fs, p) # "dir" /\ fs' = Without(fs, p) /\ Return("ok")
    <2>1. IsTree(fs')
        <3> HIDE DEF p
        <3> QED  BY <1>2, <1>4, LeafIsBare, WithoutKeepsTree
    <2>2. StackOK(fs', stack')  BY <1>1, <1>4, Returns DEF Return
    <2> QED  BY <1>1, <2>1, <2>2, Keeps, FailsType
<1>5. CASE stack' = <<f>> \o Tail(stack) /\ UNCHANGED fs
    <2> HIDE DEF p
    <2>1. f \in Frames /\ f.pc = "scan" /\ f.src = top.src /\ f.dst = top.dst
        BY <1>2 DEF Frames, Pcs
    <2> HIDE DEF f
    <2>2. OnTop(fs', f, Len(stack) - 1)  BY <2>1 DEF OnTop
    <2>3. StackOK(fs', stack')  BY <1>1, <1>5, <2>1, <2>2, Becomes
    <2> QED  BY <1>1, <1>2, <1>5, <2>3, Keeps, FailsType
<1>6. \/ \E v : Reject(v)
      \/ Kind(fs, p) # "dir" /\ fs' = Without(fs, p) /\ Return("ok")
      \/ stack' = <<f>> \o Tail(stack) /\ UNCHANGED fs
    BY DEF RemoveLeaf, Become
<1> QED  BY <1>3, <1>4, <1>5, <1>6

LEMMA RemoveEntryKeeps == IInv /\ RemoveEntry => IInv'
<1> SUFFICES ASSUME IInv, RemoveEntry PROVE IInv'
    OBVIOUS
<1>1. stack # <<>> /\ top.pc = "scan" /\ UNCHANGED <<job, arg, status, fails>>
    BY DEF RemoveEntry, At
<1>2. top \in Frames /\ IsTree(fs)  BY <1>1, TopIs DEF IInv
<1>3. PICK n \in Entries(fs, top.in) :
          IF TooLong(top.src) THEN Reject("ENAMETOOLONG")
          ELSE Call(top, Frame("remove", Append(top.src, n), <<>>)) /\ UNCHANGED fs
    BY DEF RemoveEntry
<1>4. n \in Name
    <2>1. top.in \in Seq(Node)  BY <1>2 DEF Frames
    <2> QED  BY <1>2, <1>3, <2>1, EntriesType
<1>5. CASE TooLong(top.src)
    <2>1. Reject("ENAMETOOLONG")  BY <1>3, <1>5
    <2> QED  BY <1>1, <2>1, RejectKeeps, FailsType
<1>6. CASE ~TooLong(top.src)
    <2>1. stack' = <<Frame("remove", Append(top.src, n), <<>>), top>> \o Tail(stack) /\ UNCHANGED fs
        BY <1>3, <1>6 DEF Call
    <2>2. <<>> \in Seq(Node) /\ Len(<<>>) <= MaxPath  BY EmptySeq, FsAssumption
    <2>3. StackOK(fs', stack')  BY <1>1, <1>2, <1>4, <1>6, <2>1, <2>2, CallsFor
    <2> QED  BY <1>1, <1>2, <2>1, <2>3, Keeps, FailsType
<1> QED  BY <1>5, <1>6

LEMMA DirectoryRemovedKeeps == IInv /\ DirectoryRemoved => IInv'
<1> SUFFICES ASSUME IInv, DirectoryRemoved PROVE IInv'
    OBVIOUS
<1>1. stack # <<>> /\ UNCHANGED <<job, arg, status, fails>> /\ Entries(fs, top.in) = {}
    BY DEF DirectoryRemoved, At
<1>2. CASE Reject("EBUSY")  BY <1>1, <1>2, RejectKeeps, FailsType
<1>3. CASE fs' = Without(fs, top.in) /\ Return("ok")
    <2>1. IsTree(fs')  BY <1>1, <1>3, EmptyIsBare, WithoutKeepsTree DEF IInv
    <2>2. StackOK(fs', stack')  BY <1>1, <1>3, Returns DEF Return
    <2> QED  BY <1>1, <2>1, <2>2, Keeps, FailsType
<1> QED  BY <1>2, <1>3 DEF DirectoryRemoved

LEMMA RenameKeeps == IInv /\ Rename => IInv'
<1> SUFFICES ASSUME IInv, Rename PROVE IInv'
    OBVIOUS
<1> DEFINE s == Walk(fs, top.src)
           d == Walk(fs, top.dst)
           e == RenameError(s, d)
           f == [top EXCEPT !.pc = "copied", !.in = s]
           c == Frame("copy", top.src, top.dst)
<1>1. stack # <<>> /\ top.pc = "move" /\ UNCHANGED <<job, arg, status, fails>>
    BY DEF Rename, At
<1>2. /\ s \in Seq(Name) /\ d \in Seq(Name) /\ s \in Seq(Node) /\ IsTree(fs)
      /\ top \in Frames /\ Deep(top, Len(stack) - 1) /\ Len(stack) = 1
    BY <1>1, SourceType, NameIsNode, TopIs DEF IInv, OnTop
<1>3. CASE \E v : Reject(v)  BY <1>1, <1>3, RejectKeeps, FailsType
<1>4. CASE e = "ok" /\ fs' = (IF s = d THEN fs ELSE Moved(fs, s, d)) /\ Return("ok")
    <2>1. s # d => CanHold(fs, d) /\ ~IsPrefix(s, d) /\ ~IsPrefix(d, s)
        <3> HIDE DEF s, d
        <3> QED  BY <1>4 DEF RenameError
    <2>2. IsTree(fs')
        <3> HIDE DEF s, d, e
        <3> QED  BY <1>2, <1>4, <2>1, MovedKeepsTree
    <2>3. StackOK(fs', stack')  BY <1>1, <1>4, Returns DEF Return
    <2> QED  BY <1>1, <2>2, <2>3, Keeps, FailsType
<1>5. CASE stack' = <<c, f>> \o Tail(stack) /\ UNCHANGED fs
    <2>1. top.src \in Seq(Node) /\ top.dst \in Seq(Node)  BY <1>2 DEF Frames
    <2>2. c \in Frames /\ c.src = top.src /\ c.dst = top.dst /\ c.pc = "copy"
        BY <2>1, FrameIs DEF Pcs
    <2> HIDE DEF c, s
    <2>3. f \in Frames /\ f.pc = "copied" /\ f.src = top.src /\ f.dst = top.dst
        BY <1>2 DEF Frames, Pcs
    <2> HIDE DEF f
    <2>4. Deep(f, Len(stack) - 1) /\ Deep(c, Len(stack))  BY <1>2, <2>2, <2>3 DEF Deep
    <2>5. OnTop(fs', c, Len(stack))  BY <2>2 DEF OnTop
    <2>6. StackOK(fs', stack')  BY <1>1, <1>5, <2>3, <2>4, <2>5, StackCall DEF IInv
    <2> QED  BY <1>1, <1>2, <1>5, <2>6, Keeps, FailsType
<1>6. \/ \E v : Reject(v)
      \/ e = "ok" /\ fs' = (IF s = d THEN fs ELSE Moved(fs, s, d)) /\ Return("ok")
      \/ stack' = <<c, f>> \o Tail(stack) /\ UNCHANGED fs
    <2>1. CASE e = "ok"  BY <2>1 DEF Rename
    <2>2. CASE e = "EXDEV"
        <3>1. Call(f, c) /\ UNCHANGED fs  BY <2>2 DEF Rename
        <3> QED  BY <3>1 DEF Call
    <2>3. CASE e # "ok" /\ e # "EXDEV"
        <3>1. Reject(e)  BY <2>3 DEF Rename
        <3> QED  BY <3>1
    <2> QED  BY <2>1, <2>2, <2>3
<1> QED  BY <1>3, <1>4, <1>5, <1>6

LEMMA RemoveSourceKeeps == IInv /\ RemoveSource => IInv'
<1> SUFFICES ASSUME IInv, RemoveSource PROVE IInv'
    OBVIOUS
<1> DEFINE f == Frame("remove", top.src, <<>>)
<1>1. stack # <<>> /\ UNCHANGED <<job, arg, status, fails>>  BY DEF RemoveSource, At
<1>2. top \in Frames /\ Deep(top, Len(stack) - 1) /\ IsTree(fs)  BY <1>1, TopIs DEF IInv
<1>3. CASE Reject(ret)  BY <1>1, <1>3, RejectKeeps, FailsType
<1>4. CASE stack' = <<f>> \o Tail(stack) /\ UNCHANGED fs
    <2>1. top.src \in Seq(Node)  BY <1>2 DEF Frames
    <2>2. f \in Frames /\ f.src = top.src /\ Len(f.dst) = 0 /\ f.pc = "remove"
        BY <2>1, RemovalIs
    <2> HIDE DEF f
    <2>3. MaxPath \in Nat  BY FsAssumption
    <2>4. Deep(f, Len(stack) - 1)  BY <1>2, <2>1, <2>2, <2>3 DEF Deep
    <2>5. OnTop(fs', f, Len(stack) - 1)  BY <2>2 DEF OnTop
    <2>6. StackOK(fs', stack')  BY <1>1, <1>4, <2>4, <2>5, StackBecome DEF IInv
    <2> QED  BY <1>1, <1>2, <1>4, <2>6, Keeps, FailsType
<1>5. CASE Kind(fs, top.in) # "dir" /\ fs' = Without(fs, top.in) /\ Return("ok")
    <2>1. IsTree(fs')  BY <1>2, <1>5, LeafIsBare, WithoutKeepsTree
    <2>2. StackOK(fs', stack')  BY <1>1, <1>5, Returns DEF Return
    <2> QED  BY <1>1, <2>1, <2>2, Keeps, FailsType
<1>6. \/ Reject(ret)
      \/ stack' = <<f>> \o Tail(stack) /\ UNCHANGED fs
      \/ Kind(fs, top.in) # "dir" /\ fs' = Without(fs, top.in) /\ Return("ok")
    BY DEF RemoveSource
<1> QED  BY <1>3, <1>4, <1>5, <1>6

LEMMA CallFailsKeeps == IInv /\ CallFails => IInv'
<1> SUFFICES ASSUME IInv, CallFails PROVE IInv'
    OBVIOUS
<1>1. fails' \in 0 .. MaxFails  BY FsAssumption DEF IInv, CallFails
<1>2. stack # <<>> /\ UNCHANGED <<job, arg, status>> /\ Reject("EIO")  BY DEF CallFails
<1> QED  BY <1>1, <1>2, RejectKeeps

LEMMA CopySymlinkFailsKeeps == IInv /\ CopySymlinkFails => IInv'
<1> SUFFICES ASSUME IInv, CopySymlinkFails PROVE IInv'
    OBVIOUS
<1> DEFINE g == [top EXCEPT !.pc = "follow"]
<1>1. /\ stack # <<>> /\ UNCHANGED <<job, fs, arg, status>> /\ stack' = <<g>> \o Tail(stack)
    BY DEF CopySymlinkFails, Copying, At, Become
<1>2. fails' \in 0 .. MaxFails  BY FsAssumption DEF IInv, CopySymlinkFails
<1>3. g \in Frames /\ g.pc = "follow" /\ g.src = top.src /\ g.dst = top.dst
    BY <1>1, TopIs DEF Frames, Pcs
<1> HIDE DEF g
<1>4. OnTop(fs', g, Len(stack) - 1)  BY <1>3 DEF OnTop
<1>5. StackOK(fs', stack')  BY <1>1, <1>3, <1>4, Becomes
<1> QED  BY <1>1, <1>2, <1>5, Keeps DEF IInv

LEMMA EmptyStack ==
    ASSUME NEW t
    PROVE  StackOK(t, <<>>)
<1>1. <<>> \in Seq(Frames) /\ Len(<<>>) = 0  BY EmptySeq
<1> QED  BY <1>1 DEF StackOK

LEMMA FirstCall ==
    ASSUME NEW t, NEW f, Deep(f, 0), OnTop(t, f, 0)
    PROVE  StackOK(t, <<f>>)
<1>1. <<f>> \in Seq(Frames) /\ Len(<<f>>) = 1 /\ <<f>>[1] = f  BY DEF Deep
<1> DEFINE z == <<f>>
<1> HIDE DEF z
<1>2. z \in Seq(Frames) /\ Len(z) = 1 /\ z[1] = f  BY <1>1 DEF z
<1>3. StackOK(t, z)  BY <1>2 DEF StackOK
<1> QED  BY <1>3 DEF z

LEMMA BeginKeeps ==
    ASSUME IInv, NEW seen \in BOOLEAN, Begin(seen), seen \/ fails < MaxFails
    PROVE  IInv'
<1> DEFINE d == Target(seen /\ Kind(fs, Walk(fs, job.dst)) = "dir")
<1>1. fails' \in 0 .. MaxFails  BY FsAssumption DEF IInv, Begin
<1>2. /\ stack = <<>> /\ arg <= Len(job.args) /\ arg \in Nat /\ Len(job.args) \in Nat
      /\ UNCHANGED <<job, fs, arg, status>>
    <2>1. job.args \in Seq(Seq(Node) \ {<<>>})  BY FsAssumption DEF IInv, Node
    <2>2. Len(job.args) \in Nat  BY <2>1, LenProperties
    <2> QED  BY <2>2 DEF Begin, Done, IInv
<1>3. Source1 \in Seq(Node) /\ Source1 # <<>> /\ Len(Source1) <= MaxPath /\ Len(Source1) >= 1
    <2>1. job.args \in Seq(Seq(Node) \ {<<>>})  BY FsAssumption DEF IInv, Node
    <2>2. arg \in 1 .. Len(job.args) /\ arg \in DOMAIN job.args
        BY <1>2, <2>1, LenProperties DEF IInv
    <2>3. job.args[arg] \in Seq(Node) \ {<<>>}  BY <2>1, <2>2, ElementOfSeq
    <2>4. Len(job.args[arg]) <= MaxPath  BY <2>2, FsAssumption DEF IInv
    <2>5. Len(job.args[arg]) \in Nat /\ Len(job.args[arg]) # 0  BY <2>3, EmptySeq, LenProperties
    <2> QED  BY <2>3, <2>4, <2>5 DEF Source1
<1>4. d \in Seq(Node)
    <2>1. job.dst \in Seq(Node)  BY FsAssumption DEF IInv, Node
    <2>2. Last(Source1) \in Node  BY <1>3, FrontIs
    <2> QED  BY <2>1, <2>2, AppendProperties DEF Target
<1>5. MaxPath \in Nat  BY FsAssumption
<1> HIDE DEF d
<1>6. CASE stack' = <<Frame("remove", Source1, <<>>)>>
    <2> DEFINE f == Frame("remove", Source1, <<>>)
    <2>1. f \in Frames /\ f.pc = "remove" /\ f.src = Source1 /\ Len(f.dst) = 0
        BY <1>3, RemovalIs
    <2> HIDE DEF f
    <2>2. Deep(f, 0) /\ OnTop(fs', f, 0)  BY <1>3, <1>5, <2>1 DEF Deep, OnTop
    <2>3. stack' = <<f>>  BY <1>6 DEF f
    <2>4. StackOK(fs', stack')  BY <2>2, <2>3, FirstCall
    <2> QED  BY <1>1, <1>2, <2>4 DEF IInv
<1>7. CASE ret' = "ENOTDIR" /\ UNCHANGED stack
    <2>1. StackOK(fs', stack')  BY <1>2, <1>7, EmptyStack
    <2> QED  BY <1>1, <1>2, <2>1 DEF IInv
<1>8. CASE Len(d) <= MaxPath /\ \E pc \in {"move", "copy"} : stack' = <<Frame(pc, Source1, d)>>
    <2>1. PICK pc \in {"move", "copy"} : stack' = <<Frame(pc, Source1, d)>>  BY <1>8
    <2> DEFINE f == Frame(pc, Source1, d)
    <2>2. f \in Frames /\ f.pc = pc /\ f.src = Source1 /\ f.dst = d
        BY <1>3, <1>4, FrameIs DEF Pcs
    <2> HIDE DEF f
    <2>3. Deep(f, 0) /\ OnTop(fs', f, 0)  BY <1>3, <1>5, <1>8, <2>2 DEF Deep, OnTop
    <2>4. stack' = <<f>>  BY <2>1 DEF f
    <2>5. StackOK(fs', stack')  BY <2>3, <2>4, FirstCall
    <2> QED  BY <1>1, <1>2, <2>5 DEF IInv
<1>9. \/ stack' = <<Frame("remove", Source1, <<>>)>>
      \/ ret' = "ENOTDIR" /\ UNCHANGED stack
      \/ Len(d) <= MaxPath /\ \E pc \in {"move", "copy"} : stack' = <<Frame(pc, Source1, d)>>
    <2>1. Len(d) \in Nat  BY <1>4, LenProperties
    <2> QED  BY <1>5, <2>1 DEF Begin, d
<1> QED  BY <1>6, <1>7, <1>8, <1>9

LEMMA ArgDoneKeeps == IInv /\ ArgDone => IInv'
<1> SUFFICES ASSUME IInv, ArgDone PROVE IInv'
    OBVIOUS
<1>1. job.args \in Seq(Seq(Node) \ {<<>>})  BY FsAssumption DEF IInv, Node
<1>2. Len(job.args) \in Nat  BY <1>1, LenProperties
<1>3. stack = <<>> /\ ret # "call" /\ UNCHANGED <<job, fs, stack, fails>>
    BY DEF ArgDone, Answered
<1>4. arg' \in 1 .. Len(job'.args) + 1  BY <1>2, <1>3 DEF ArgDone, IInv
<1>5. ret' = "call" /\ status' \in {0, 1}  BY DEF ArgDone, IInv
<1> QED  BY <1>3, <1>4, <1>5 DEF IInv

-----------------------------------------------------------------------------
(* Theorems *)

\* The inductive invariant holds in every reachable state.
THEOREM Invariance == Spec => []IInv
<1>1. Init => IInv
    <2> SUFFICES ASSUME Init PROVE IInv
        OBVIOUS
    <2>1. job.args \in Seq(Seq(Node) \ {<<>>}) /\ IsTree(job.tree)  BY FsAssumption DEF Init, Node
    <2>2. Len(job.args) \in Nat  BY <2>1, LenProperties
    <2>3. StackOK(fs, stack)  BY EmptyStack DEF Init
    <2> QED  BY <2>1, <2>2, <2>3, FsAssumption DEF Init, IInv
<1>2. IInv /\ [Next]_vars => IInv'
    <2> SUFFICES ASSUME IInv, [Next]_vars PROVE IInv'
        OBVIOUS
    <2>1. CASE UNCHANGED vars  BY <2>1 DEF vars, IInv
    <2>2. CASE CopyStep
        BY <2>2, CopyNothingKeeps, CopyRegularKeeps, CopyChunkKeeps, ReadDoneKeeps,
           CopySymlinkKeeps, SymlinkKeeps, CopyDirectoryKeeps, CopyEntryKeeps, EntryDoneKeeps
        DEF CopyStep
    <2>3. CASE RemoveStep
        BY <2>3, RemoveLeafKeeps, RemoveEntryKeeps, EntryDoneKeeps, DirectoryRemovedKeeps
        DEF RemoveStep
    <2>4. CASE Rename \/ RemoveSource \/ CallFails \/ CopySymlinkFails \/ ArgDone
        BY <2>4, RenameKeeps, RemoveSourceKeeps, CallFailsKeeps, CopySymlinkFailsKeeps,
           ArgDoneKeeps
    <2>5. CASE BeginArg \/ BeginBlind
        BY <2>5, BeginKeeps DEF BeginArg, BeginBlind
    <2> QED  BY <2>1, <2>2, <2>3, <2>4, <2>5 DEF Next
<1> QED  BY <1>1, <1>2, PTL DEF Spec

\* cp, mv and rm leave a tree behind at every step, every path they build fits its
\* buffer, and fsutil_copy_path() and fsutil_remove_path() recurse no deeper than
\* a path is long, whatever tree and operands they are given.
THEOREM TypeCorrect == Spec => []TypeOK
<1>1. IInv => TypeOK
    <2> SUFFICES ASSUME IInv PROVE TypeOK
        OBVIOUS
    <2>1. stack \in Seq(Frames) /\ Len(stack) \in Nat /\ DOMAIN stack = 1 .. Len(stack)
        BY LenProperties DEF IInv, StackOK
    <2>2. \A i \in DOMAIN stack : Len(stack[i].src) <= MaxPath /\ Len(stack[i].dst) <= MaxPath
        BY <2>1 DEF IInv, StackOK, Deep
    <2>3. Len(stack) <= MaxPath + 1
        <3>1. CASE stack = <<>>  BY <3>1, EmptySeq, FsAssumption
        <3>2. CASE stack # <<>>
            <4>1. Deep(top, Len(stack) - 1) /\ MaxPath \in Nat  BY <3>2, TopIs, FsAssumption
            <4>2. Len(top.src) \in Nat  BY <4>1, LenProperties DEF Deep, Frames
            <4> QED  BY <2>1, <4>1, <4>2 DEF Deep
        <3> QED  BY <3>1, <3>2
    <2> QED  BY <2>2, <2>3 DEF IInv, TypeOK
<1> QED  BY <1>1, Invariance, PTL

-----------------------------------------------------------------------------
(* Paths without links *)

\* Every directory on the way to p is there.
Direct(t, p) == p \in Seq(Name) /\ (p # <<>> => Kind(t, Front(p)) = "dir")

LEMMA PrefixShort ==
    ASSUME NEW S, NEW p \in Seq(S), NEW q \in Seq(S), IsPrefix(p, q)
    PROVE  Len(p) \in Nat /\ Len(q) \in Nat /\ Len(p) <= Len(q) /\ (Len(p) = Len(q) => p = q)
<1>1. Len(p) \in Nat /\ Len(q) \in Nat  BY LenProperties
<1>2. Len(p) <= Len(q) /\ \A i \in 1 .. Len(p) : p[i] = q[i]  BY PrefixIs
<1>3. Len(p) = Len(q) => p = q  BY <1>2, SeqEqual
<1> QED  BY <1>1, <1>2, <1>3

\* A proper prefix is a prefix of what comes before the last name.
LEMMA PrefixFront ==
    ASSUME NEW S, NEW p \in Seq(S), NEW q \in Seq(S), IsPrefix(p, q), p # q
    PROVE  q # <<>> /\ IsPrefix(p, Front(q)) /\ Len(p) < Len(q)
<1>1. Len(p) \in Nat /\ Len(q) \in Nat /\ Len(p) < Len(q)  BY PrefixShort
<1>2. q # <<>>  BY <1>1, EmptySeq
<1>3. /\ Front(q) \in Seq(S) /\ Len(Front(q)) = Len(q) - 1
      /\ \A i \in 1 .. (Len(q) - 1) : Front(q)[i] = q[i]
    BY <1>2, FrontIs
<1>4. \A i \in 1 .. Len(p) : p[i] = q[i]  BY PrefixIs
<1>5. Len(p) <= Len(Front(q)) /\ \A i \in 1 .. Len(p) : p[i] = Front(q)[i]  BY <1>1, <1>3, <1>4
<1> QED  BY <1>1, <1>2, <1>3, <1>5, PrefixIs

LEMMA PrefixOfAppend ==
    ASSUME NEW S, NEW p \in Seq(S), NEW n \in S
    PROVE  LET q == Append(p, n)
           IN  q \in Seq(S) /\ q # <<>> /\ Len(q) = Len(p) + 1 /\ Front(q) = p /\ IsPrefix(p, q)
<1> DEFINE q == Append(p, n)
<1>1. q \in Seq(S) /\ Len(q) = Len(p) + 1 /\ Len(p) \in Nat /\ \A i \in 1 .. Len(p) : q[i] = p[i]
    BY AppendProperties, LenProperties
<1> HIDE DEF q
<1>2. q # <<>>  BY <1>1, EmptySeq
<1>3. /\ Front(q) \in Seq(S) /\ Len(Front(q)) = Len(q) - 1
      /\ \A i \in 1 .. (Len(q) - 1) : Front(q)[i] = q[i]
    BY <1>1, <1>2, FrontIs
<1>4. Len(Front(q)) = Len(p) /\ \A i \in 1 .. Len(p) : Front(q)[i] = p[i]  BY <1>1, <1>3
<1>5. Front(q) = p  BY <1>3, <1>4, SeqEqual
<1>6. IsPrefix(p, q)  BY <1>1, PrefixIs
<1> QED  BY <1>1, <1>2, <1>5, <1>6 DEF q

LEMMA PrefixTransitive ==
    ASSUME NEW S, NEW p \in Seq(S), NEW q \in Seq(S), NEW r \in Seq(S), IsPrefix(p, q), IsPrefix(q, r)
    PROVE  IsPrefix(p, r)
<1>1. Len(p) <= Len(q) /\ Len(q) <= Len(r)  BY PrefixIs
<1>2. \A i \in 1 .. Len(p) : p[i] = q[i]  BY PrefixIs
<1>3. \A i \in 1 .. Len(q) : q[i] = r[i]  BY PrefixIs
<1>4. Len(p) \in Nat /\ Len(q) \in Nat /\ Len(r) \in Nat  BY LenProperties
<1>5. Len(p) <= Len(r) /\ \A i \in 1 .. Len(p) : p[i] = r[i]  BY <1>1, <1>2, <1>3, <1>4
<1> QED  BY <1>5, PrefixIs

LEMMA PrefixSelf ==
    ASSUME NEW S, NEW p \in Seq(S)
    PROVE  IsPrefix(p, p)
<1>1. Len(p) \in Nat  BY LenProperties
<1> QED  BY <1>1, PrefixIs

\* What is above a name is a directory.
LEMMA AboveIsDir ==
    ASSUME NEW t, IsTree(t), NEW p \in Seq(Name), NEW q \in DOMAIN t, IsPrefix(p, q)
    PROVE  p \in DOMAIN t /\ (p # q => Kind(t, p) = "dir")
<1> DEFINE S == {k \in Nat : \A x \in DOMAIN t : IsPrefix(p, x) /\ Len(x) = Len(p) + k
                                => p \in DOMAIN t /\ (p # x => Kind(t, p) = "dir")}
<1>1. \A x \in DOMAIN t : x \in Seq(Name) /\ (x # <<>> => Kind(t, Front(x)) = "dir")  BY DEF IsTree
<1>2. 0 \in S
    <2> SUFFICES ASSUME NEW x \in DOMAIN t, IsPrefix(p, x), Len(x) = Len(p) + 0
                 PROVE  p \in DOMAIN t /\ (p # x => Kind(t, p) = "dir")
        OBVIOUS
    <2>1. p = x  BY <1>1, PrefixShort
    <2> QED  BY <2>1
<1>3. ASSUME NEW k \in S PROVE k + 1 \in S
    <2> SUFFICES ASSUME NEW x \in DOMAIN t, IsPrefix(p, x), Len(x) = Len(p) + (k + 1)
                 PROVE  p \in DOMAIN t /\ (p # x => Kind(t, p) = "dir")
        OBVIOUS
    <2>1. x \in Seq(Name) /\ Len(p) \in Nat /\ k \in Nat  BY <1>1, LenProperties
    <2>2. p # x  BY <2>1
    <2>3. x # <<>> /\ IsPrefix(p, Front(x))  BY <2>1, <2>2, PrefixFront
    <2> DEFINE y == Front(x)
    <2>4. Kind(t, y) = "dir" /\ y \in DOMAIN t  BY <1>1, <2>3 DEF Kind
    <2>5. Len(y) = Len(p) + k  BY <2>1, <2>3, FrontIs
    <2> HIDE DEF y
    <2>6. p \in DOMAIN t /\ (p # y => Kind(t, p) = "dir")
        <3>1. IsPrefix(p, y)  BY <2>3 DEF y
        <3> QED  BY <2>4, <2>5, <3>1
    <2> QED  BY <2>4, <2>6
<1> HIDE DEF S
<1>4. S = Nat
    <2>1. S \in SUBSET Nat  BY DEF S
    <2> QED  BY <1>2, <1>3, <2>1, Induction
<1>5. Len(q) - Len(p) \in Nat /\ Len(q) = Len(p) + (Len(q) - Len(p))  BY <1>1, PrefixShort
<1> QED  BY <1>4, <1>5 DEF S

LEMMA DirIsDirect ==
    ASSUME NEW t, IsTree(t), NEW p, Kind(t, p) = "dir"
    PROVE  Direct(t, p)
    BY DEF Direct, Kind, IsTree

LEMMA DirectAbove ==
    ASSUME NEW t, IsTree(t), NEW p \in Seq(Name), NEW q, Direct(t, q), IsPrefix(p, q)
    PROVE  Direct(t, p) /\ (p # q => Kind(t, p) = "dir")
<1>1. CASE p = q  BY <1>1
<1>2. CASE p # q
    <2> DEFINE y == Front(q)
    <2>1. q # <<>> /\ IsPrefix(p, y)  BY <1>2, PrefixFront DEF Direct
    <2>2. Kind(t, y) = "dir" /\ y \in DOMAIN t  BY <2>1 DEF Direct, Kind
    <2> HIDE DEF y
    <2>3. Kind(t, p) = "dir"  BY <2>1, <2>2, AboveIsDir
    <2> QED  BY <2>3, DirIsDirect
<1> QED  BY <1>1, <1>2

\* Such a path is where it leads.
LEMMA DirectWalk ==
    ASSUME NEW t, IsTree(t), NEW p, Direct(t, p)
    PROVE  Walk(t, p) = p
<1> DEFINE S == {k \in Nat : \A x \in Seq(Name) : Len(x) = k /\ Direct(t, x) => Walk(t, x) = x}
<1>1. 0 \in S
    <2> SUFFICES ASSUME NEW x \in Seq(Name), Len(x) = 0 PROVE Walk(t, x) = x
        OBVIOUS
    <2>1. x = <<>>  BY EmptySeq
    <2> QED  BY <2>1, WalkNothing
<1>2. ASSUME NEW k \in S PROVE k + 1 \in S
    <2> SUFFICES ASSUME NEW x \in Seq(Name), Len(x) = k + 1, Direct(t, x) PROVE Walk(t, x) = x
        OBVIOUS
    <2> DEFINE y == Front(x)
               n == Last(x)
    <2>1. k \in Nat /\ x # <<>>  BY EmptySeq
    <2>2. y \in Seq(Name) /\ Len(y) = k /\ n \in Name /\ x = Append(y, n)
        <3>1. Len(x) - 1 = k  BY <2>1
        <3> QED  BY <2>1, <3>1, FrontIs
    <2>3. Kind(t, y) = "dir"  BY <2>1 DEF Direct
    <2> HIDE DEF y, n
    <2>4. Walk(t, y) = y  BY <2>2, <2>3, DirIsDirect
    <2>5. Walk(t, x) = Enter(t, y, n)
        <3>1. y \in Seq(Node) /\ n \in Node  BY <2>2, NameIsNode DEF Node
        <3> QED  BY <2>2, <2>4, <3>1, WalkOn
    <2>6. n # "." /\ n # ".."  BY <2>2, FsAssumption DEF Dots
    <2>7. Follow(t, y) = y  BY <2>3 DEF Follow
    <2> QED  BY <2>2, <2>5, <2>6, <2>7 DEF Enter
<1> HIDE DEF S
<1>3. S = Nat
    <2>1. S \in SUBSET Nat  BY DEF S
    <2> QED  BY <1>1, <1>2, <2>1, Induction
<1>4. p \in Seq(Name) /\ Len(p) \in Nat  BY LenProperties DEF Direct
<1> QED  BY <1>3, <1>4 DEF S

LEMMA EmptyIsAlone ==
    ASSUME NEW t, IsTree(t), NEW p \in Seq(Name), Entries(t, p) = {}, NEW q \in DOMAIN t, IsPrefix(p, q)
    PROVE  q = p
<1> SUFFICES ASSUME p # q PROVE FALSE
    OBVIOUS
<1> DEFINE n == Len(p) + 1
           x == SubSeq(q, 1, n)
<1>1. q \in Seq(Name) /\ Len(p) \in Nat /\ Len(q) \in Nat  BY LenProperties DEF IsTree
<1>2. Len(p) < Len(q)  BY <1>1, PrefixFront
<1>3. \A i \in 1 .. Len(q) : q[i] \in Name  BY <1>1, ElementOfSeq
<1>4. x \in Seq(Name) /\ Len(x) = n /\ \A i \in 1 .. n : x[i] = q[i]
    <2>1. n \in 0 .. Len(q) /\ n \in Nat  BY <1>1, <1>2
    <2> HIDE DEF n
    <2> QED  BY <1>1, <1>3, <2>1, SubSeqProperties
<1> HIDE DEF x
<1>5. IsPrefix(x, q)
    <2>1. Len(x) <= Len(q) /\ \A i \in 1 .. Len(x) : x[i] = q[i]  BY <1>1, <1>2, <1>4
    <2> QED  BY <1>1, <1>4, <2>1, PrefixIs
<1>6. x \in DOMAIN t  BY <1>4, <1>5, AboveIsDir
<1>7. IsPrefix(p, x)
    <2>1. \A i \in 1 .. Len(p) : p[i] = q[i]  BY <1>1, PrefixIs
    <2>2. Len(p) <= Len(x) /\ \A i \in 1 .. Len(p) : p[i] = x[i]  BY <1>1, <1>4, <2>1
    <2> QED  BY <1>4, <2>2, PrefixIs
<1>8. Last(x) \in Entries(t, p)  BY <1>4, <1>6, <1>7 DEF Entries
<1> QED  BY <1>8

-----------------------------------------------------------------------------
(* Operands that name what they say *)

\* The operands and the directories they are in are reached without a link, no
\* operand is in another one, and the destination is not in any.
PlainJob(j) ==
    /\ \A i \in DOMAIN j.args : Direct(j.tree, j.args[i])
    /\ \A i, k \in DOMAIN j.args : IsPrefix(j.args[i], j.args[k]) => i = k
    /\ j.cmd # "rm" => /\ Direct(j.tree, j.dst)
                       /\ \A i \in DOMAIN j.args : ~IsPrefix(j.args[i], j.dst)

CopyPcs == {"copy", "follow", "data", "symlink", "list"}
RemovePcs == {"remove", "scan"}

\* The call f of command c, in tree t, for operand s and destination d, works
\* below one of them.
OnCourse(c, t, s, d, f) ==
    /\ f.pc \in CopyPcs => c # "rm" /\ Direct(t, f.dst) /\ IsPrefix(d, f.dst)
    /\ f.pc = "data" => \/ f.out = f.dst
                        \/ Kind(t, f.dst) = "link" /\ t[f.dst].body = f.out
    /\ f.pc = "symlink" => f.out = f.dst
    /\ f.pc = "list" => Kind(t, f.dst) = "dir"
    /\ f.pc \in RemovePcs => c # "cp" /\ Direct(t, f.src) /\ IsPrefix(s, f.src)
    /\ f.pc = "scan" => f.in = f.src /\ Kind(t, f.src) = "dir"
    /\ f.pc \in {"move", "copied"} => c = "mv" /\ f.src = s /\ f.dst = d
    /\ f.pc = "move" => Direct(t, d)
    /\ f.pc = "copied" => f.in = s

\* What is being removed is below what is being scanned; a move calls, and is
\* not called.
Inside(f, g) == /\ f.pc \in RemovePcs => g.pc = "scan" /\ Len(g.src) < Len(f.src)
                /\ f.pc # "copied"

Courses(c, t, s, d, stk) ==
    /\ \A i \in 1 .. Len(stk) : OnCourse(c, t, s, d, stk[i])
    /\ \A i, k \in 1 .. Len(stk) : i < k => Inside(stk[i], stk[k])

\* The ways to the operands still to come.
OpenWays(j, t, n) ==
    /\ \A k \in DOMAIN j.args : k >= n => Direct(t, j.args[k])
    /\ j.cmd # "rm" => Direct(t, j.dst)

PInv ==
    /\ PlainJob(job) /\ OpenWays(job, fs, arg) /\ final \in Seq(Name)
    /\ stack # <<>> => Courses(job.cmd, fs, Source1, final, stack)

DirsStay(t, u) == \A q : Kind(t, q) = "dir" => Kind(u, q) = "dir"
DirsStayBut(t, u, p) == \A q : q # p /\ Kind(t, q) = "dir" => Kind(u, q) = "dir"

LEMMA DirectStays ==
    ASSUME NEW t, NEW u, DirsStay(t, u), NEW p, Direct(t, p)
    PROVE  Direct(u, p)
    BY DEF DirsStay, Direct

LEMMA WaysStay ==
    ASSUME NEW j, NEW t, NEW u, DirsStay(t, u), NEW n, OpenWays(j, t, n)
    PROVE  OpenWays(j, u, n)
    BY DirectStays DEF OpenWays

\* The calls below the top one.
LEMMA WaitingStay ==
    ASSUME NEW c, NEW t, NEW u, DirsStay(t, u), NEW s, NEW d, NEW f,
           f.pc \in {"list", "scan", "copied"}, OnCourse(c, t, s, d, f)
    PROVE  OnCourse(c, u, s, d, f)
<1>1. Direct(t, f.dst) => Direct(u, f.dst)  BY DirectStays
<1>2. Direct(t, f.src) => Direct(u, f.src)  BY DirectStays
<1> QED  BY <1>1, <1>2 DEF OnCourse, DirsStay, CopyPcs, RemovePcs

LEMMA WaitingStayBut ==
    ASSUME NEW c, NEW t, NEW u, NEW p \in Seq(Name), DirsStayBut(t, u, p), NEW s, NEW d, NEW f,
           f.pc = "scan", OnCourse(c, t, s, d, f), Len(f.src) < Len(p)
    PROVE  OnCourse(c, u, s, d, f)
<1> DEFINE q == f.src
<1>1. Direct(t, q) /\ Kind(t, q) = "dir" /\ q \in Seq(Name)
    BY DEF OnCourse, Direct, RemovePcs
<1>2. Len(q) \in Nat /\ Len(p) \in Nat  BY <1>1, LenProperties
<1>3. q # p  BY <1>2
<1>4. Kind(u, q) = "dir"  BY <1>1, <1>3 DEF DirsStayBut
<1>5. Direct(u, q)
    <2>1. ASSUME q # <<>> PROVE Kind(u, Front(q)) = "dir"
        <3>1. Len(Front(q)) = Len(q) - 1  BY <1>1, <2>1, FrontIs
        <3>2. Front(q) # p  BY <1>2, <3>1
        <3> QED  BY <1>1, <2>1, <3>2 DEF Direct, DirsStayBut
    <2> QED  BY <1>1, <2>1 DEF Direct
<1> QED  BY <1>4, <1>5 DEF OnCourse, CopyPcs, RemovePcs

LEMMA CoursesBecome ==
    ASSUME NEW c, NEW t, NEW u, NEW o, NEW d, NEW s \in Seq(Frames), s # <<>>,
           Courses(c, t, o, d, s), NEW f \in Frames, OnCourse(c, u, o, d, f),
           \A i \in 2 .. Len(s) : OnCourse(c, u, o, d, s[i]),
           \A i \in 2 .. Len(s) : Inside(s[1], s[i]) => Inside(f, s[i])
    PROVE  Courses(c, u, o, d, <<f>> \o Tail(s))
<1> DEFINE z == <<f>> \o Tail(s)
<1>1. Len(z) = Len(s) /\ z[1] = f /\ \A i \in 2 .. Len(s) : z[i] = s[i]
    BY BecomeIs
<1>2. Len(s) \in Nat  BY LenProperties
<1> HIDE DEF z
<1>3. ASSUME NEW i \in 1 .. Len(z) PROVE OnCourse(c, u, o, d, z[i])
    <2>1. i = 1 \/ i \in 2 .. Len(s)  BY <1>1, <1>2
    <2> QED  BY <1>1, <2>1
<1>4. ASSUME NEW i \in 1 .. Len(z), NEW k \in 1 .. Len(z), i < k PROVE Inside(z[i], z[k])
    <2>1. k \in 2 .. Len(s) /\ 1 \in 1 .. Len(s) /\ k \in 1 .. Len(s) /\ i \in 1 .. Len(s)
        BY <1>1, <1>2, <1>4
    <2>2. CASE i = 1
        <3>1. Inside(s[1], s[k])  BY <1>4, <2>1, <2>2 DEF Courses
        <3> QED  BY <1>1, <2>1, <2>2, <3>1
    <2>3. CASE i # 1
        <3>1. i \in 2 .. Len(s)  BY <1>2, <2>1, <2>3
        <3> QED  BY <1>1, <1>4, <2>1, <3>1 DEF Courses
    <2> QED  BY <2>2, <2>3
<1> QED  BY <1>3, <1>4 DEF Courses, z

LEMMA CoursesCall ==
    ASSUME NEW c, NEW t, NEW u, NEW o, NEW d, NEW s \in Seq(Frames), s # <<>>,
           Courses(c, t, o, d, s), NEW f \in Frames, NEW g \in Frames,
           OnCourse(c, u, o, d, f), OnCourse(c, u, o, d, g), Inside(g, f),
           \A i \in 2 .. Len(s) : OnCourse(c, u, o, d, s[i]),
           \A i \in 2 .. Len(s) : Inside(s[1], s[i]) => Inside(f, s[i]) /\ Inside(g, s[i])
    PROVE  Courses(c, u, o, d, <<g, f>> \o Tail(s))
<1> DEFINE z == <<g, f>> \o Tail(s)
<1>1. /\ Len(z) = Len(s) + 1 /\ z[1] = g /\ z[2] = f
      /\ \A i \in 3 .. (Len(s) + 1) : z[i] = s[i - 1]
    BY CallIs
<1>2. Len(s) \in Nat /\ Len(s) >= 1  BY LenProperties, EmptySeq
<1> HIDE DEF z
<1>3. ASSUME NEW i \in 3 .. Len(z)
      PROVE  i - 1 \in 2 .. Len(s) /\ i - 1 \in 1 .. Len(s) /\ z[i] = s[i - 1]
    BY <1>1, <1>2
<1>4. ASSUME NEW i \in 1 .. Len(z) PROVE OnCourse(c, u, o, d, z[i])
    <2>1. i = 1 \/ i = 2 \/ i \in 3 .. Len(z)  BY <1>1, <1>2
    <2> QED  BY <1>1, <1>3, <2>1
<1>5. ASSUME NEW i \in 1 .. Len(z), NEW k \in 1 .. Len(z), i < k PROVE Inside(z[i], z[k])
    <2>1. CASE i = 1 /\ k = 2  BY <1>1, <2>1
    <2>2. CASE k # 2
        <3>1. k \in 3 .. Len(z)  BY <1>1, <1>2, <1>5, <2>2
        <3> DEFINE m == k - 1
        <3>2. m \in 2 .. Len(s) /\ m \in 1 .. Len(s) /\ z[k] = s[m]  BY <1>3, <3>1
        <3>3. 1 \in 1 .. Len(s) /\ 1 < m  BY <1>2, <3>2
        <3>4. CASE i = 1 \/ i = 2
            <4>1. Inside(s[1], s[m])
                <5> HIDE DEF m
                <5> QED  BY <3>2, <3>3 DEF Courses
            <4> HIDE DEF m
            <4> QED  BY <1>1, <3>2, <3>4, <4>1
        <3>5. CASE i # 1 /\ i # 2
            <4> DEFINE l == i - 1
            <4>1. i \in 3 .. Len(z) /\ l < m  BY <1>1, <1>2, <1>5, <3>5
            <4>2. l \in 1 .. Len(s) /\ z[i] = s[l]  BY <1>3, <4>1
            <4> HIDE DEF l, m
            <4> QED  BY <3>2, <4>1, <4>2 DEF Courses
        <3> QED  BY <3>4, <3>5
    <2>3. CASE k = 2 /\ i # 1
        <3>1. FALSE  BY <1>1, <1>2, <1>5, <2>3
        <3> QED  BY <3>1
    <2> QED  BY <2>1, <2>2, <2>3
<1> QED  BY <1>4, <1>5 DEF Courses, z

LEMMA CoursesReturn ==
    ASSUME NEW c, NEW t, NEW u, NEW o, NEW d, NEW s \in Seq(Frames), s # <<>>,
           Courses(c, t, o, d, s), \A i \in 2 .. Len(s) : OnCourse(c, u, o, d, s[i])
    PROVE  Courses(c, u, o, d, Tail(s))
<1> DEFINE r == Tail(s)
<1>1. /\ Len(s) \in Nat /\ Len(s) >= 1 /\ Len(r) = Len(s) - 1
      /\ \A i \in 1 .. (Len(s) - 1) : r[i] = s[i + 1]
    BY TailIs
<1> HIDE DEF r
<1>2. ASSUME NEW i \in 1 .. Len(r)
      PROVE  i + 1 \in 2 .. Len(s) /\ i + 1 \in 1 .. Len(s) /\ r[i] = s[i + 1]
    BY <1>1
<1>3. ASSUME NEW i \in 1 .. Len(r) PROVE OnCourse(c, u, o, d, r[i])
    BY <1>2
<1>4. ASSUME NEW i \in 1 .. Len(r), NEW k \in 1 .. Len(r), i < k PROVE Inside(r[i], r[k])
    <2> DEFINE a == i + 1
               b == k + 1
    <2>1. a \in 1 .. Len(s) /\ b \in 1 .. Len(s) /\ r[i] = s[a] /\ r[k] = s[b]  BY <1>2
    <2>2. a < b  BY <1>1, <1>4
    <2> HIDE DEF a, b
    <2> QED  BY <2>1, <2>2 DEF Courses
<1> QED  BY <1>3, <1>4 DEF Courses, r

LEMMA PFacts ==
    ASSUME IInv, PInv, stack # <<>>
    PROVE  /\ IsTree(fs) /\ arg \in DOMAIN job.args /\ stack \in Seq(Frames) /\ top = stack[1]
           /\ Direct(fs, Source1) /\ Walk(fs, Source1) = Source1
           /\ Courses(job.cmd, fs, Source1, final, stack)
           /\ OnCourse(job.cmd, fs, Source1, final, top)
           /\ \A i \in 2 .. Len(stack) : /\ stack[i].pc \in {"list", "scan", "copied"}
                                         /\ OnCourse(job.cmd, fs, Source1, final, stack[i])
                                         /\ Inside(top, stack[i])
<1>1. job.args \in Seq(Seq(Node) \ {<<>>})  BY FsAssumption DEF IInv, Node
<1>2. Len(job.args) \in Nat /\ DOMAIN job.args = 1 .. Len(job.args)  BY <1>1, LenProperties
<1>3. arg \in DOMAIN job.args  BY <1>2 DEF IInv
<1>4. Direct(fs, Source1)  BY <1>2, <1>3 DEF PInv, OpenWays, Source1
<1>5. Walk(fs, Source1) = Source1  BY <1>4, DirectWalk DEF IInv
<1>6. Courses(job.cmd, fs, Source1, final, stack)  BY DEF PInv
<1>7. Len(stack) \in Nat /\ Len(stack) >= 1 /\ stack \in Seq(Frames) /\ 1 \in 1 .. Len(stack)
    BY TopIs, EmptySeq, LenProperties DEF IInv, StackOK
<1>8. \A i \in 2 .. Len(stack) : i \in 1 .. Len(stack) /\ 1 < i  BY <1>7
<1>9. OnCourse(job.cmd, fs, Source1, final, top)  BY <1>6, <1>7 DEF Courses, top
<1>10. ASSUME NEW i \in 2 .. Len(stack)
       PROVE  /\ stack[i].pc \in {"list", "scan", "copied"}
              /\ OnCourse(job.cmd, fs, Source1, final, stack[i])
              /\ Inside(top, stack[i])
    <2>1. stack[i].pc \in {"list", "scan", "copied"}  BY DEF IInv, StackOK
    <2>2. OnCourse(job.cmd, fs, Source1, final, stack[i])  BY <1>6, <1>8 DEF Courses
    <2>3. Inside(top, stack[i])  BY <1>6, <1>7, <1>8 DEF Courses, top
    <2> QED  BY <2>1, <2>2, <2>3
<1> QED  BY <1>3, <1>4, <1>5, <1>6, <1>7, <1>9, <1>10 DEF IInv, top

\* What the step leaves of the calls below the top one.
Others == /\ OpenWays(job, fs', arg)
          /\ \A i \in 2 .. Len(stack) : OnCourse(job.cmd, fs', Source1, final, stack[i])

LEMMA DirsStayOthers ==
    ASSUME IInv, PInv, stack # <<>>, DirsStay(fs, fs')
    PROVE  Others
<1>1. OpenWays(job, fs', arg)  BY WaysStay DEF PInv
<1>2. \A i \in 2 .. Len(stack) : OnCourse(job.cmd, fs', Source1, final, stack[i])
    BY PFacts, WaitingStay
<1> QED  BY <1>1, <1>2 DEF Others

LEMMA PReturns ==
    ASSUME IInv, PInv, stack # <<>>, Others, stack' = Tail(stack), UNCHANGED <<job, arg, final>>
    PROVE  PInv'
<1>1. Courses(job.cmd, fs', Source1, final, Tail(stack))
    <2>1. stack \in Seq(Frames) /\ Courses(job.cmd, fs, Source1, final, stack)  BY PFacts
    <2> QED  BY <2>1, CoursesReturn DEF Others
<1>2. OpenWays(job', fs', arg') /\ final' \in Seq(Name)  BY DEF Others, PInv
<1>3. Courses(job'.cmd, fs', Source1', final', stack')  BY <1>1 DEF Source1
<1> QED  BY <1>2, <1>3 DEF PInv

LEMMA PBecomes ==
    ASSUME IInv, PInv, stack # <<>>, Others, NEW f \in Frames,
           OnCourse(job.cmd, fs', Source1, final, f),
           \A i \in 2 .. Len(stack) : Inside(top, stack[i]) => Inside(f, stack[i]),
           stack' = <<f>> \o Tail(stack), UNCHANGED <<job, arg, final>>
    PROVE  PInv'
<1>1. Courses(job.cmd, fs', Source1, final, <<f>> \o Tail(stack))
    <2>1. stack \in Seq(Frames) /\ Courses(job.cmd, fs, Source1, final, stack) /\ top = stack[1]
        BY PFacts
    <2>2. \A i \in 2 .. Len(stack) : Inside(stack[1], stack[i]) => Inside(f, stack[i])  BY <2>1
    <2> QED  BY <2>1, <2>2, CoursesBecome DEF Others
<1>2. OpenWays(job', fs', arg') /\ final' \in Seq(Name)  BY DEF Others, PInv
<1>3. Courses(job'.cmd, fs', Source1', final', stack')  BY <1>1 DEF Source1
<1> QED  BY <1>2, <1>3 DEF PInv

LEMMA PCalls ==
    ASSUME IInv, PInv, stack # <<>>, Others, NEW f \in Frames, NEW g \in Frames,
           OnCourse(job.cmd, fs', Source1, final, f), OnCourse(job.cmd, fs', Source1, final, g),
           Inside(g, f),
           \A i \in 2 .. Len(stack) : Inside(top, stack[i]) => Inside(f, stack[i]) /\ Inside(g, stack[i]),
           stack' = <<g, f>> \o Tail(stack), UNCHANGED <<job, arg, final>>
    PROVE  PInv'
<1>1. Courses(job.cmd, fs', Source1, final, <<g, f>> \o Tail(stack))
    <2>1. stack \in Seq(Frames) /\ Courses(job.cmd, fs, Source1, final, stack) /\ top = stack[1]
        BY PFacts
    <2>2. \A i \in 2 .. Len(stack) :
              Inside(stack[1], stack[i]) => Inside(f, stack[i]) /\ Inside(g, stack[i])  BY <2>1
    <2> QED  BY <2>1, <2>2, CoursesCall DEF Others
<1>2. OpenWays(job', fs', arg') /\ final' \in Seq(Name)  BY DEF Others, PInv
<1>3. Courses(job'.cmd, fs', Source1', final', stack')  BY <1>1 DEF Source1
<1> QED  BY <1>2, <1>3 DEF PInv

-----------------------------------------------------------------------------
(* What a step changes *)

TouchOK == \A p \in DOMAIN fs \cup DOMAIN fs' :
               \/ p \in DOMAIN fs \cap DOMAIN fs' /\ fs[p] = fs'[p]
               \/ MayTouch(p)

LEMMA TouchNothing == UNCHANGED fs => TouchOK
    BY DEF TouchOK

LEMMA TouchPut ==
    ASSUME NEW p, NEW o, MayTouch(p), fs' = Put(fs, p, o)
    PROVE  TouchOK
    BY DEF TouchOK, Put

LEMMA TouchWithout ==
    ASSUME NEW p, MayTouch(p), fs' = Without(fs, p)
    PROVE  TouchOK
    BY DEF TouchOK, Without

\* The copy may write its destination, and where a link that stands there leads.
LEMMA TouchDst ==
    ASSUME IInv, PInv, stack # <<>>, top.pc \in CopyPcs
    PROVE  /\ MayTouch(top.dst) /\ Walk(fs, top.dst) = top.dst /\ top.dst \in Seq(Name)
           /\ Kind(fs, top.dst) = "link" => MayTouch(fs[top.dst].body)
<1>1. /\ IsTree(fs) /\ job.cmd # "rm" /\ Direct(fs, top.dst) /\ IsPrefix(final, top.dst)
      /\ top.dst \in Seq(Name)
    BY PFacts DEF OnCourse, Direct
<1>2. Walk(fs, top.dst) = top.dst  BY <1>1, DirectWalk
<1>3. final \in Seq(Name)  BY DEF PInv
<1>4. Walk(fs, final) = final  BY <1>1, <1>3, DirectAbove, DirectWalk
<1>5. MayTouch(top.dst)  BY <1>1, <1>4 DEF MayTouch
<1>6. ASSUME Kind(fs, top.dst) = "link" PROVE MayTouch(fs[top.dst].body)
    <2>1. top.dst \in DOMAIN fs /\ fs[top.dst].kind = "link"  BY <1>6 DEF Kind
    <2>2. top.dst \in Below(fs, Walk(fs, final))  BY <1>1, <1>4, <2>1 DEF Below
    <2> QED  BY <1>1, <2>1, <2>2 DEF MayTouch
<1> QED  BY <1>1, <1>2, <1>5, <1>6

\* mv and rm may remove what is below the operand.
LEMMA TouchSrc ==
    ASSUME IInv, PInv, stack # <<>>, job.cmd # "cp", NEW p, IsPrefix(Source1, p)
    PROVE  MayTouch(p)
    BY PFacts DEF MayTouch

LEMMA PutDirs ==
    ASSUME NEW t, NEW p, NEW o, o.kind = "dir" \/ Kind(t, p) # "dir"
    PROVE  DirsStay(t, Put(t, p, o))
    BY DEF DirsStay, Put, Kind

LEMMA WithoutDirs ==
    ASSUME NEW t, NEW p, Kind(t, p) # "dir"
    PROVE  DirsStay(t, Without(t, p))
    BY DEF DirsStay, Without, Kind

LEMMA PReject ==
    ASSUME IInv, PInv, stack # <<>>, NEW v, Reject(v), UNCHANGED <<job, arg, final>>
    PROVE  PInv' /\ TouchOK
<1>1. UNCHANGED fs /\ stack' = Tail(stack)  BY DEF Reject, Return
<1>2. DirsStay(fs, fs')  BY <1>1 DEF DirsStay
<1> QED  BY <1>1, <1>2, DirsStayOthers, PReturns, TouchNothing

LEMMA PCopyNothing == IInv /\ PInv /\ CopyNothing => PInv' /\ TouchOK
<1> SUFFICES ASSUME IInv, PInv, CopyNothing PROVE PInv' /\ TouchOK
    OBVIOUS
<1>1. stack # <<>> /\ UNCHANGED <<job, arg, final>> /\ \E v : Reject(v)
    BY DEF CopyNothing, Copying
<1> QED  BY <1>1, PReject

LEMMA PReadDone == IInv /\ PInv /\ (CopyEof \/ DirectoryCopied) => PInv' /\ TouchOK
<1> SUFFICES ASSUME IInv, PInv, CopyEof \/ DirectoryCopied PROVE PInv' /\ TouchOK
    OBVIOUS
<1>1. stack # <<>> /\ UNCHANGED <<job, arg, final>> /\ Reject("ok")
    BY DEF CopyEof, DirectoryCopied, At
<1> QED  BY <1>1, PReject

LEMMA PEntryDone == IInv /\ PInv /\ (EntryCopied \/ EntryRemoved) => PInv' /\ TouchOK
<1> SUFFICES ASSUME IInv, PInv, EntryCopied \/ EntryRemoved PROVE PInv' /\ TouchOK
    OBVIOUS
<1>1. stack # <<>> /\ UNCHANGED <<job, arg, final>>  BY DEF EntryCopied, EntryRemoved, At
<1>2. CASE Reject(ret)  BY <1>1, <1>2, PReject
<1>3. CASE UNCHANGED <<stack, fs>>
    <2>1. PInv'  BY <1>1, <1>3 DEF PInv, Source1
    <2> QED  BY <1>3, <2>1, TouchNothing
<1> QED  BY <1>2, <1>3 DEF EntryCopied, EntryRemoved

LEMMA PCallFails == IInv /\ PInv /\ CallFails => PInv' /\ TouchOK
<1> SUFFICES ASSUME IInv, PInv, CallFails PROVE PInv' /\ TouchOK
    OBVIOUS
<1>1. stack # <<>> /\ UNCHANGED <<job, arg, final>> /\ Reject("EIO")  BY DEF CallFails
<1> QED  BY <1>1, PReject

\* A call that copies has no condition on those that called it.
LEMMA CopyInside ==
    ASSUME NEW f, f.pc \in CopyPcs, NEW g
    PROVE  Inside(f, g)
    BY DEF Inside, CopyPcs, RemovePcs

LEMMA PCopyRegular == IInv /\ PInv /\ CopyRegular => PInv' /\ TouchOK
<1> SUFFICES ASSUME IInv, PInv, CopyRegular PROVE PInv' /\ TouchOK
    OBVIOUS
<1> DEFINE out == Real(fs, top.dst)
           o == [kind |-> "file", body |-> <<>>]
           f == [top EXCEPT !.pc = "data", !.in = Source, !.out = out]
<1>1. stack # <<>> /\ UNCHANGED <<job, arg, final>> /\ top.pc \in CopyPcs
    BY DEF CopyRegular, Copying, CopyPcs
<1>2. \/ \E v : Reject(v)
      \/ (/\ Kind(fs, out) \in {"none", "file"}
           /\ fs' = Put(fs, out, o) /\ stack' = <<f>> \o Tail(stack))
    BY DEF CopyRegular, Become
<1>3. CASE \E v : Reject(v)  BY <1>1, <1>3, PReject
<1>4. CASE /\ Kind(fs, out) \in {"none", "file"}
           /\ fs' = Put(fs, out, o) /\ stack' = <<f>> \o Tail(stack)
    <2>1. /\ MayTouch(top.dst) /\ Walk(fs, top.dst) = top.dst
          /\ Kind(fs, top.dst) = "link" => MayTouch(fs[top.dst].body)
        BY <1>1, TouchDst
    <2>2. out = Follow(fs, top.dst)  BY <2>1 DEF Real
    <2>3. top \in Frames /\ Source \in Seq(Node) /\ out \in Seq(Node)
        BY <1>1, TopIs, SourceType, NameIsNode
    <2>4. f \in Frames /\ f.pc = "data" /\ f.out = out /\ f.dst = top.dst
        <3> HIDE DEF out
        <3> QED  BY <2>3 DEF Frames, Pcs
    <2> HIDE DEF out, f
    <2>5. MayTouch(out)  BY <2>1, <2>2 DEF Follow
    <2>6. TouchOK  BY <1>4, <2>5, TouchPut
    <2>7. DirsStay(fs, fs')  BY <1>4, PutDirs
    <2>8. Others  BY <1>1, <2>7, DirsStayOthers
    <2>9. out = top.dst \/ (Kind(fs', top.dst) = "link" /\ fs'[top.dst].body = out)
        <3>1. CASE Kind(fs, top.dst) # "link"  BY <2>2, <3>1 DEF Follow
        <3>2. CASE Kind(fs, top.dst) = "link"
            <4>1. out = fs[top.dst].body /\ out # top.dst  BY <1>4, <2>2, <3>2 DEF Follow
            <4>2. top.dst \in DOMAIN fs  BY <3>2 DEF Kind
            <4>3. top.dst \in DOMAIN fs' /\ fs'[top.dst] = fs[top.dst]  BY <1>4, <4>1, <4>2 DEF Put
            <4> QED  BY <3>2, <4>1, <4>2, <4>3 DEF Kind
        <3> QED  BY <3>1, <3>2
    <2>10. OnCourse(job.cmd, fs', Source1, final, f)
        <3>1. job.cmd # "rm" /\ Direct(fs, top.dst) /\ IsPrefix(final, top.dst)
            BY <1>1, PFacts DEF OnCourse
        <3>2. Direct(fs', top.dst)  BY <2>7, <3>1, DirectStays
        <3> QED  BY <2>4, <2>9, <3>1, <3>2 DEF OnCourse, RemovePcs
    <2>11. \A i \in 2 .. Len(stack) : Inside(f, stack[i])  BY <2>4, CopyInside DEF CopyPcs
    <2>12. PInv'  BY <1>1, <1>4, <2>4, <2>8, <2>10, <2>11, PBecomes
    <2> QED  BY <2>6, <2>12
<1> QED  BY <1>2, <1>3, <1>4

LEMMA PCopyChunk == IInv /\ PInv /\ CopyChunk => PInv' /\ TouchOK
<1> SUFFICES ASSUME IInv, PInv, CopyChunk PROVE PInv' /\ TouchOK
    OBVIOUS
<1> DEFINE k == top.off + 1
           f == [top EXCEPT !.off = k]
           b == Append(fs[top.out].body, fs[top.in].body[top.off + 1])
<1>1. /\ stack # <<>> /\ UNCHANGED <<job, arg, final>> /\ top.pc = "data" /\ top.pc \in CopyPcs
      /\ stack' = <<f>> \o Tail(stack) /\ fs' = [fs EXCEPT ![top.out].body = b]
    BY DEF CopyChunk, At, Become, CopyPcs
<1>2. /\ top \in Frames /\ Kind(fs, top.out) = "file" /\ k \in Nat
    BY <1>1, TopIs DEF OnTop, Frames
<1> HIDE DEF k, b
<1>3. f \in Frames /\ f.pc = "data" /\ f.out = top.out /\ f.dst = top.dst
    BY <1>1, <1>2 DEF Frames
<1> HIDE DEF f
<1>4. OnCourse(job.cmd, fs, Source1, final, top)  BY <1>1, PFacts
<1>5. /\ IsTree(fs) /\ top.out \in DOMAIN fs
      /\ fs[top.out] \in [kind : {"file"}, body : Seq(Chunk)]
    BY <1>2 DEF IInv, Kind, IsTree, Object
<1>6. DOMAIN fs' = DOMAIN fs /\ (\A q \in DOMAIN fs : q # top.out => fs'[q] = fs[q])
    BY <1>1
<1>7. fs'[top.out].kind = "file"
    <2>1. fs'[top.out] = [fs[top.out] EXCEPT !.body = b]  BY <1>1, <1>5
    <2> QED  BY <1>5, <2>1
<1>8. DirsStay(fs, fs')
    <2>1. ASSUME NEW q, Kind(fs, q) = "dir" PROVE Kind(fs', q) = "dir"
        <3>1. q # top.out  BY <1>2, <2>1
        <3> QED  BY <1>6, <2>1, <3>1 DEF Kind
    <2> QED  BY <2>1 DEF DirsStay
<1>9. MayTouch(top.out)
    <2>1. /\ MayTouch(top.dst)
          /\ Kind(fs, top.dst) = "link" => MayTouch(fs[top.dst].body)
        BY <1>1, TouchDst
    <2> QED  BY <1>1, <1>4, <2>1 DEF OnCourse
<1>10. TouchOK  BY <1>6, <1>9 DEF TouchOK
<1>11. top.out = top.dst \/ (Kind(fs', top.dst) = "link" /\ fs'[top.dst].body = top.out)
    <2>1. CASE Kind(fs, top.dst) = "link" /\ fs[top.dst].body = top.out
        <3>1. top.dst # top.out /\ top.dst \in DOMAIN fs  BY <1>2, <2>1 DEF Kind
        <3> QED  BY <1>6, <2>1, <3>1 DEF Kind
    <2> QED  BY <1>1, <1>4, <2>1 DEF OnCourse
<1>12. OnCourse(job.cmd, fs', Source1, final, f)
    <2>1. job.cmd # "rm" /\ Direct(fs, top.dst) /\ IsPrefix(final, top.dst)
        BY <1>1, <1>4 DEF OnCourse
    <2>2. Direct(fs', top.dst)  BY <1>8, <2>1, DirectStays
    <2> QED  BY <1>3, <1>11, <2>1, <2>2 DEF OnCourse, RemovePcs
<1>13. Others  BY <1>1, <1>8, DirsStayOthers
<1>14. \A i \in 2 .. Len(stack) : Inside(f, stack[i])  BY <1>3, CopyInside DEF CopyPcs
<1>15. PInv'  BY <1>1, <1>3, <1>12, <1>13, <1>14, PBecomes
<1> QED  BY <1>10, <1>15

\* A copy that goes on in another way, in the same place.
LEMMA PCopyGoesOn ==
    ASSUME IInv, PInv, stack # <<>>, top.pc \in CopyPcs, DirsStay(fs, fs'),
           NEW f \in Frames, f.dst = top.dst, f.pc \in {"follow", "symlink", "list"},
           f.pc = "symlink" => f.out = top.dst, f.pc = "list" => Kind(fs', top.dst) = "dir",
           stack' = <<f>> \o Tail(stack), UNCHANGED <<job, arg, final>>
    PROVE  PInv'
<1>1. Others  BY DirsStayOthers
<1>2. job.cmd # "rm" /\ Direct(fs, top.dst) /\ IsPrefix(final, top.dst)
    BY PFacts DEF OnCourse
<1>3. Direct(fs', top.dst)  BY <1>2, DirectStays
<1>4. OnCourse(job.cmd, fs', Source1, final, f)  BY <1>2, <1>3 DEF OnCourse, RemovePcs
<1>5. \A i \in 2 .. Len(stack) : Inside(f, stack[i])  BY CopyInside DEF CopyPcs
<1> QED  BY <1>1, <1>4, <1>5, PBecomes

LEMMA PCopySymlink == IInv /\ PInv /\ CopySymlink => PInv' /\ TouchOK
<1> SUFFICES ASSUME IInv, PInv, CopySymlink PROVE PInv' /\ TouchOK
    OBVIOUS
<1> DEFINE d == Walk(fs, top.dst)
           g == [top EXCEPT !.pc = "follow"]
           f == [top EXCEPT !.pc = "symlink", !.out = d, !.text = fs[Source].body]
<1>1. /\ stack # <<>> /\ UNCHANGED <<job, arg, final>> /\ Kind(fs, Source) = "link"
      /\ top.pc \in CopyPcs
    BY DEF CopySymlink, Copying, CopyPcs
<1>2. d = top.dst /\ MayTouch(d) /\ d \in Seq(Node)  BY <1>1, TouchDst, NameIsNode
<1>3. top \in Frames /\ fs[Source].body \in Seq(Name)
    BY <1>1, TopIs DEF IInv, IsTree, Kind, Object
<1>4. \/ stack' = <<g>> \o Tail(stack) /\ UNCHANGED fs
      \/ Kind(fs, d) # "dir" /\ fs' = Without(fs, d) /\ stack' = <<f>> \o Tail(stack)
    BY DEF CopySymlink, Become
<1> HIDE DEF d
<1>5. CASE stack' = <<g>> \o Tail(stack) /\ UNCHANGED fs
    <2>1. g \in Frames /\ g.pc = "follow" /\ g.dst = top.dst  BY <1>3 DEF Frames, Pcs
    <2> HIDE DEF g
    <2>2. DirsStay(fs, fs')  BY <1>5 DEF DirsStay
    <2>3. PInv'  BY <1>1, <1>5, <2>1, <2>2, PCopyGoesOn
    <2> QED  BY <1>5, <2>3, TouchNothing
<1>6. CASE Kind(fs, d) # "dir" /\ fs' = Without(fs, d) /\ stack' = <<f>> \o Tail(stack)
    <2>1. f \in Frames /\ f.pc = "symlink" /\ f.dst = top.dst /\ f.out = d
        BY <1>2, <1>3 DEF Frames, Pcs
    <2> HIDE DEF f
    <2>2. DirsStay(fs, fs')  BY <1>6, WithoutDirs
    <2>3. PInv'  BY <1>1, <1>2, <1>6, <2>1, <2>2, PCopyGoesOn
    <2>4. TouchOK  BY <1>2, <1>6, TouchWithout
    <2> QED  BY <2>3, <2>4
<1> QED  BY <1>4, <1>5, <1>6

LEMMA PSymlink == IInv /\ PInv /\ Symlink => PInv' /\ TouchOK
<1> SUFFICES ASSUME IInv, PInv, Symlink PROVE PInv' /\ TouchOK
    OBVIOUS
<1> DEFINE g == [top EXCEPT !.pc = "follow"]
           o == [kind |-> "link", body |-> top.text]
<1>1. /\ stack # <<>> /\ UNCHANGED <<job, arg, final>> /\ top.pc = "symlink" /\ top.pc \in CopyPcs
    BY DEF Symlink, At, CopyPcs
<1>2. top \in Frames /\ Kind(fs, top.out) # "dir"  BY <1>1, TopIs DEF OnTop
<1>3. top.out = top.dst  BY <1>1, PFacts DEF OnCourse
<1>4. \/ fs' = Put(fs, top.out, o) /\ stack' = Tail(stack)
      \/ stack' = <<g>> \o Tail(stack) /\ UNCHANGED fs
    BY DEF Symlink, Become, Return
<1>5. CASE fs' = Put(fs, top.out, o) /\ stack' = Tail(stack)
    <2> HIDE DEF o
    <2>1. DirsStay(fs, fs')  BY <1>2, <1>5, PutDirs
    <2>2. PInv'  BY <1>1, <1>5, <2>1, DirsStayOthers, PReturns
    <2>3. MayTouch(top.out)  BY <1>1, <1>3, TouchDst
    <2>4. TouchOK  BY <1>5, <2>3, TouchPut
    <2> QED  BY <2>2, <2>4
<1>6. CASE stack' = <<g>> \o Tail(stack) /\ UNCHANGED fs
    <2>1. g \in Frames /\ g.pc = "follow" /\ g.dst = top.dst  BY <1>2 DEF Frames, Pcs
    <2> HIDE DEF g
    <2>2. DirsStay(fs, fs')  BY <1>6 DEF DirsStay
    <2>3. PInv'  BY <1>1, <1>6, <2>1, <2>2, PCopyGoesOn
    <2> QED  BY <1>6, <2>3, TouchNothing
<1> QED  BY <1>4, <1>5, <1>6

LEMMA PCopySymlinkFails == IInv /\ PInv /\ CopySymlinkFails => PInv' /\ TouchOK
<1> SUFFICES ASSUME IInv, PInv, CopySymlinkFails PROVE PInv' /\ TouchOK
    OBVIOUS
<1> DEFINE g == [top EXCEPT !.pc = "follow"]
<1>1. /\ stack # <<>> /\ UNCHANGED <<job, fs, arg, final>> /\ stack' = <<g>> \o Tail(stack)
      /\ top.pc \in CopyPcs
    BY DEF CopySymlinkFails, Copying, At, Become, CopyPcs
<1>2. g \in Frames /\ g.pc = "follow" /\ g.dst = top.dst  BY <1>1, TopIs DEF Frames, Pcs
<1> HIDE DEF g
<1>3. DirsStay(fs, fs')  BY <1>1 DEF DirsStay
<1>4. PInv'  BY <1>1, <1>2, <1>3, PCopyGoesOn
<1> QED  BY <1>1, <1>4, TouchNothing

LEMMA PCopyDirectory == IInv /\ PInv /\ IInv' /\ CopyDirectory => PInv' /\ TouchOK
<1> SUFFICES ASSUME IInv, PInv, IInv', CopyDirectory PROVE PInv' /\ TouchOK
    OBVIOUS
<1> DEFINE d == Walk(fs, top.dst)
           new == IF Kind(fs, d) = "none" THEN Put(fs, d, Dir) ELSE fs
           m == Entries(new, Source)
           f == [top EXCEPT !.pc = "list", !.in = Source, !.must = m]
<1>1. stack # <<>> /\ UNCHANGED <<job, arg, final>> /\ top.pc \in CopyPcs
    BY DEF CopyDirectory, Copying, CopyPcs
<1>2. d = top.dst /\ MayTouch(d)  BY <1>1, TouchDst
<1>3. \/ \E v : Reject(v)
      \/ Kind(fs, d) \in {"none", "dir"} /\ fs' = new /\ stack' = <<f>> \o Tail(stack)
    BY DEF CopyDirectory, Become
<1> HIDE DEF d
<1>4. CASE \E v : Reject(v)  BY <1>1, <1>4, PReject
<1>5. CASE Kind(fs, d) \in {"none", "dir"} /\ fs' = new /\ stack' = <<f>> \o Tail(stack)
    <2>1. top \in Frames /\ Source \in Seq(Node)  BY <1>1, TopIs, SourceType
    <2>2. m \in SUBSET Name  BY <1>5, <2>1, EntriesType DEF IInv
    <2> HIDE DEF m
    <2>3. f \in Frames /\ f.pc = "list" /\ f.dst = top.dst  BY <2>1, <2>2 DEF Frames, Pcs
    <2> HIDE DEF f
    <2>4. Dir.kind = "dir"  BY DEF Dir
    <2>5. DirsStay(fs, fs') /\ Kind(fs', d) = "dir"
        <3>1. CASE Kind(fs, d) = "none"
            <4>1. fs' = Put(fs, d, Dir)  BY <1>5, <3>1
            <4>2. DirsStay(fs, fs')  BY <2>4, <4>1, PutDirs
            <4>3. Kind(fs', d) = "dir"  BY <2>4, <4>1 DEF Put, Kind
            <4> QED  BY <4>2, <4>3
        <3>2. CASE Kind(fs, d) = "dir"  BY <1>5, <3>2 DEF DirsStay
        <3> QED  BY <1>5, <3>1, <3>2
    <2>6. PInv'  BY <1>1, <1>2, <1>5, <2>3, <2>5, PCopyGoesOn
    <2>7. TouchOK
        <3>1. CASE fs' = Put(fs, d, Dir)  BY <1>2, <3>1, TouchPut
        <3>2. CASE UNCHANGED fs  BY <3>2, TouchNothing
        <3> QED  BY <1>5, <3>1, <3>2
    <2> QED  BY <2>6, <2>7
<1> QED  BY <1>3, <1>4, <1>5

LEMMA PCopyEntry == IInv /\ PInv /\ CopyEntry => PInv' /\ TouchOK
<1> SUFFICES ASSUME IInv, PInv, CopyEntry PROVE PInv' /\ TouchOK
    OBVIOUS
<1>1. stack # <<>> /\ top.pc = "list" /\ top.pc \in CopyPcs /\ UNCHANGED <<job, arg, final>>
    BY DEF CopyEntry, At, CopyPcs
<1>2. top \in Frames /\ IsTree(fs)  BY <1>1, TopIs DEF IInv
<1>3. PICK n \in Entries(fs, top.in) :
          IF TooLong(top.src) \/ TooLong(top.dst) THEN Reject("ENAMETOOLONG")
          ELSE /\ Call([top EXCEPT !.seen = @ \cup {n}],
                       Frame("copy", Append(top.src, n), Append(top.dst, n)))
               /\ UNCHANGED fs
    BY DEF CopyEntry
<1>4. n \in Name /\ n \in Node
    <2>1. top.in \in Seq(Node)  BY <1>2 DEF Frames
    <2> QED  BY <1>2, <1>3, <2>1, EntriesType DEF Node
<1>5. CASE Reject("ENAMETOOLONG")  BY <1>1, <1>5, PReject
<1>6. CASE ~Reject("ENAMETOOLONG")
    <2> DEFINE w == top.seen \cup {n}
               f == [top EXCEPT !.seen = w]
               s == Append(top.src, n)
               d == Append(top.dst, n)
               g == Frame("copy", s, d)
    <2>1. stack' = <<g, f>> \o Tail(stack) /\ UNCHANGED fs
        BY <1>3, <1>6 DEF Call
    <2>2. w \in SUBSET Name  BY <1>2, <1>4 DEF Frames
    <2> HIDE DEF w
    <2>3. f \in Frames /\ f.dst = top.dst /\ f.pc = "list"
        BY <1>1, <1>2, <2>2 DEF Frames
    <2>4. s \in Seq(Node) /\ d \in Seq(Node)  BY <1>2, <1>4, AppendProperties DEF Frames
    <2>5. OnCourse(job.cmd, fs, Source1, final, top)  BY <1>1, PFacts
    <2>6. /\ job.cmd # "rm" /\ Direct(fs, top.dst) /\ IsPrefix(final, top.dst)
          /\ Kind(fs, top.dst) = "dir" /\ top.dst \in Seq(Name) /\ final \in Seq(Name)
        BY <1>1, <2>5 DEF OnCourse, Direct, PInv
    <2>7. d \in Seq(Name) /\ d # <<>> /\ Front(d) = top.dst /\ IsPrefix(top.dst, d)
        BY <1>4, <2>6, PrefixOfAppend
    <2> HIDE DEF f, d, s
    <2>8. Direct(fs, d) /\ IsPrefix(final, d)
        BY <2>6, <2>7, PrefixTransitive DEF Direct
    <2>9. g \in Frames /\ g.pc = "copy" /\ g.dst = d  BY <2>4, FrameIs DEF Pcs
    <2> HIDE DEF g
    <2>10. OnCourse(job.cmd, fs', Source1, final, f) /\ OnCourse(job.cmd, fs', Source1, final, g)
        BY <2>1, <2>3, <2>6, <2>8, <2>9 DEF OnCourse, RemovePcs
    <2>11. Inside(g, f) /\ \A i \in 2 .. Len(stack) : Inside(f, stack[i]) /\ Inside(g, stack[i])
        BY <2>3, <2>9, CopyInside DEF CopyPcs
    <2>12. DirsStay(fs, fs')  BY <2>1 DEF DirsStay
    <2>13. Others  BY <1>1, <2>12, DirsStayOthers
    <2>14. PInv'  BY <1>1, <2>1, <2>3, <2>9, <2>10, <2>11, <2>13, PCalls
    <2> QED  BY <2>1, <2>14, TouchNothing
<1> QED  BY <1>5, <1>6

LEMMA PRemoveLeaf == IInv /\ PInv /\ RemoveLeaf => PInv' /\ TouchOK
<1> SUFFICES ASSUME IInv, PInv, RemoveLeaf PROVE PInv' /\ TouchOK
    OBVIOUS
<1> DEFINE p == Lookup(top.src)
           f == [top EXCEPT !.pc = "scan", !.in = p]
<1>1. stack # <<>> /\ top.pc = "remove" /\ UNCHANGED <<job, arg, final>>  BY DEF RemoveLeaf, At
<1>2. /\ top \in Frames /\ IsTree(fs) /\ job.cmd # "cp" /\ Direct(fs, top.src)
      /\ IsPrefix(Source1, top.src)
    BY <1>1, PFacts, TopIs DEF OnCourse, RemovePcs
<1>3. p = top.src  BY <1>2, DirectWalk DEF Lookup
<1>4. MayTouch(p)  BY <1>1, <1>2, <1>3, TouchSrc
<1>5. \/ \E v : Reject(v)
      \/ Kind(fs, p) # "dir" /\ fs' = Without(fs, p) /\ stack' = Tail(stack)
      \/ Kind(fs, p) = "dir" /\ stack' = <<f>> \o Tail(stack) /\ UNCHANGED fs
    BY DEF RemoveLeaf, Become, Return
<1> HIDE DEF p
<1>6. CASE \E v : Reject(v)  BY <1>1, <1>6, PReject
<1>7. CASE Kind(fs, p) # "dir" /\ fs' = Without(fs, p) /\ stack' = Tail(stack)
    <2>1. DirsStay(fs, fs')  BY <1>7, WithoutDirs
    <2>2. PInv'  BY <1>1, <1>7, <2>1, DirsStayOthers, PReturns
    <2> QED  BY <1>4, <1>7, <2>2, TouchWithout
<1>8. CASE Kind(fs, p) = "dir" /\ stack' = <<f>> \o Tail(stack) /\ UNCHANGED fs
    <2>1. p \in Seq(Node)  BY <1>2, <1>3 DEF Frames
    <2>2. f \in Frames /\ f.pc = "scan" /\ f.src = top.src /\ f.in = p
        BY <1>2, <2>1 DEF Frames, Pcs
    <2> HIDE DEF f
    <2>3. OnCourse(job.cmd, fs', Source1, final, f)
        BY <1>2, <1>3, <1>8, <2>2 DEF OnCourse, CopyPcs
    <2>4. \A i \in 2 .. Len(stack) : Inside(top, stack[i]) => Inside(f, stack[i])
        BY <1>1, <2>2 DEF Inside, RemovePcs
    <2>5. DirsStay(fs, fs')  BY <1>8 DEF DirsStay
    <2>6. Others  BY <1>1, <2>5, DirsStayOthers
    <2>7. PInv'  BY <1>1, <1>8, <2>2, <2>3, <2>4, <2>6, PBecomes
    <2> QED  BY <1>8, <2>7, TouchNothing
<1> QED  BY <1>5, <1>6, <1>7, <1>8

LEMMA PRemoveEntry == IInv /\ PInv /\ RemoveEntry => PInv' /\ TouchOK
<1> SUFFICES ASSUME IInv, PInv, RemoveEntry PROVE PInv' /\ TouchOK
    OBVIOUS
<1>1. stack # <<>> /\ top.pc = "scan" /\ UNCHANGED <<job, arg, final>>
    BY DEF RemoveEntry, At
<1>2. top \in Frames /\ IsTree(fs)  BY <1>1, TopIs DEF IInv
<1>3. PICK n \in Entries(fs, top.in) :
          IF TooLong(top.src) THEN Reject("ENAMETOOLONG")
          ELSE Call(top, Frame("remove", Append(top.src, n), <<>>)) /\ UNCHANGED fs
    BY DEF RemoveEntry
<1>4. n \in Name
    <2>1. top.in \in Seq(Node)  BY <1>2 DEF Frames
    <2> QED  BY <1>2, <1>3, <2>1, EntriesType
<1>5. CASE Reject("ENAMETOOLONG")  BY <1>1, <1>5, PReject
<1>6. CASE ~Reject("ENAMETOOLONG")
    <2> DEFINE s == Append(top.src, n)
               g == Frame("remove", s, <<>>)
    <2>1. stack' = <<g, top>> \o Tail(stack) /\ UNCHANGED fs  BY <1>3, <1>6 DEF Call
    <2>2. OnCourse(job.cmd, fs, Source1, final, top)  BY <1>1, PFacts
    <2>3. /\ job.cmd # "cp" /\ Direct(fs, top.src) /\ IsPrefix(Source1, top.src)
          /\ Kind(fs, top.src) = "dir" /\ top.src \in Seq(Name)
        BY <1>1, <2>2 DEF OnCourse, RemovePcs, Direct
    <2>4. Source1 \in Seq(Name)  BY <1>1, PFacts DEF Direct
    <2>5. /\ s \in Seq(Name) /\ s # <<>> /\ Front(s) = top.src /\ IsPrefix(top.src, s)
          /\ Len(s) = Len(top.src) + 1 /\ Len(top.src) \in Nat
        BY <1>4, <2>3, PrefixOfAppend, LenProperties
    <2> HIDE DEF s
    <2>6. Direct(fs, s) /\ IsPrefix(Source1, s)
        BY <2>3, <2>4, <2>5, PrefixTransitive DEF Direct
    <2>7. g \in Frames /\ g.pc = "remove" /\ g.src = s  BY <2>5, NameIsNode, RemovalIs
    <2> HIDE DEF g
    <2>8. OnCourse(job.cmd, fs', Source1, final, top) /\ OnCourse(job.cmd, fs', Source1, final, g)
        BY <2>1, <2>2, <2>3, <2>6, <2>7 DEF OnCourse, CopyPcs
    <2>9. Inside(g, top)  BY <1>1, <2>5, <2>7 DEF Inside
    <2>10. ASSUME NEW i \in 2 .. Len(stack), Inside(top, stack[i])
           PROVE  Inside(g, stack[i])
        <3> DEFINE h == stack[i]
        <3>1. h \in Frames
            <4>1. stack \in Seq(Frames) /\ Len(stack) \in Nat  BY <1>1, PFacts, TopIs
            <4>2. i \in 1 .. Len(stack)  BY <4>1
            <4> QED  BY <4>1, <4>2, ElementOfSeq
        <3>2. h.pc = "scan" /\ Len(h.src) < Len(top.src)
            BY <1>1, <2>10 DEF Inside, RemovePcs
        <3> HIDE DEF h
        <3>3. Len(h.src) \in Nat  BY <3>1, LenProperties DEF Frames
        <3>4. Len(h.src) < Len(g.src)  BY <2>5, <2>7, <3>2, <3>3
        <3> QED  BY <2>7, <3>2, <3>4 DEF Inside, h
    <2>11. DirsStay(fs, fs')  BY <2>1 DEF DirsStay
    <2>12. Others  BY <1>1, <2>11, DirsStayOthers
    <2>13. PInv'
        BY <1>1, <1>2, <2>1, <2>7, <2>8, <2>9, <2>10, <2>12, PCalls
    <2> QED  BY <2>1, <2>13, TouchNothing
<1> QED  BY <1>5, <1>6

\* The ways to what is still to come do not go through what is removed.
LEMMA WaysAside ==
    ASSUME IInv, PInv, stack # <<>>, NEW k \in DOMAIN job.args, k >= arg,
           NEW q, Kind(fs, q) = "dir", job.args[k] # <<>>, q = Front(job.args[k]),
           NEW p \in Seq(Name), IsPrefix(Source1, p)
    PROVE  ~IsPrefix(p, q)
<1> SUFFICES ASSUME IsPrefix(p, q) PROVE FALSE
    OBVIOUS
<1>1. Direct(fs, Source1) /\ arg \in DOMAIN job.args /\ Direct(fs, job.args[k])
    BY PFacts DEF PInv, OpenWays
<1>2. Source1 \in Seq(Name) /\ job.args[k] \in Seq(Name)  BY <1>1 DEF Direct
<1>3. q \in Seq(Name)  BY <1>2, FrontIs
<1>4. IsPrefix(Source1, q)  BY <1>2, <1>3, PrefixTransitive
<1>5. IsPrefix(Source1, job.args[k])  BY <1>2, <1>4, PrefixOn
<1>6. k = arg  BY <1>1, <1>5 DEF PInv, PlainJob, Source1
<1>7. Len(q) = Len(Source1) - 1 /\ Len(Source1) \in Nat
    BY <1>2, <1>6, FrontIs, LenProperties DEF Source1
<1>8. Len(Source1) <= Len(q)  BY <1>2, <1>3, <1>4, PrefixShort
<1> QED  BY <1>7, <1>8

LEMMA DestinationAside ==
    ASSUME IInv, PInv, stack # <<>>, job.cmd # "rm", job.dst # <<>>,
           NEW p \in Seq(Name), IsPrefix(Source1, p)
    PROVE  ~IsPrefix(p, Front(job.dst))
<1> DEFINE q == Front(job.dst)
<1> SUFFICES ASSUME IsPrefix(p, q) PROVE FALSE
    OBVIOUS
<1>1. /\ Direct(fs, Source1) /\ arg \in DOMAIN job.args /\ Direct(fs, job.dst)
    BY PFacts DEF PInv, OpenWays
<1>2. Source1 \in Seq(Name) /\ job.dst \in Seq(Name)  BY <1>1 DEF Direct
<1>3. q \in Seq(Name)  BY <1>2, FrontIs
<1>4. IsPrefix(Source1, q)  BY <1>2, <1>3, PrefixTransitive
<1>5. IsPrefix(Source1, job.dst)  BY <1>2, <1>4, PrefixOn
<1> QED  BY <1>1, <1>5 DEF PInv, PlainJob, Source1

LEMMA NamesLeft ==
    ASSUME IInv, NEW k \in DOMAIN job.args
    PROVE  job.args[k] # <<>>
<1>1. job.args \in Seq(Seq(Node) \ {<<>>})  BY FsAssumption DEF IInv, Node
<1>2. k \in 1 .. Len(job.args)  BY <1>1, LenProperties
<1> QED  BY <1>1, <1>2, ElementOfSeq

\* A step that leaves the directories above the operands alone.
LEMMA WaysKept ==
    ASSUME IInv, PInv, stack # <<>>, NEW u,
           \A q : Kind(fs, q) = "dir" /\ ~IsPrefix(Source1, q) => Kind(u, q) = "dir"
    PROVE  OpenWays(job, u, arg)
<1>1. Direct(fs, Source1) /\ Source1 \in Seq(Name)  BY PFacts DEF Direct
<1>2. IsPrefix(Source1, Source1)  BY <1>1, PrefixSelf
<1>3. ASSUME NEW k \in DOMAIN job.args, k >= arg PROVE Direct(u, job.args[k])
    <2> DEFINE q == Front(job.args[k])
    <2>1. Direct(fs, job.args[k]) /\ job.args[k] # <<>>  BY <1>3, NamesLeft DEF PInv, OpenWays
    <2>2. Kind(fs, q) = "dir"  BY <2>1 DEF Direct
    <2>3. ~IsPrefix(Source1, q)  BY <1>1, <1>2, <1>3, <2>1, <2>2, WaysAside
    <2>4. Kind(u, q) = "dir"  BY <2>2, <2>3
    <2> QED  BY <2>1, <2>4 DEF Direct
<1>4. ASSUME job.cmd # "rm" PROVE Direct(u, job.dst)
    <2>1. Direct(fs, job.dst)  BY <1>4 DEF PInv, OpenWays
    <2>2. ASSUME job.dst # <<>> PROVE Kind(u, Front(job.dst)) = "dir"
        <3>1. ~IsPrefix(Source1, Front(job.dst))  BY <1>1, <1>2, <1>4, <2>2, DestinationAside
        <3> QED  BY <2>1, <2>2, <3>1 DEF Direct
    <2> QED  BY <2>1, <2>2 DEF Direct
<1> QED  BY <1>3, <1>4 DEF OpenWays

LEMMA PDirectoryRemoved == IInv /\ PInv /\ DirectoryRemoved => PInv' /\ TouchOK
<1> SUFFICES ASSUME IInv, PInv, DirectoryRemoved PROVE PInv' /\ TouchOK
    OBVIOUS
<1>1. stack # <<>> /\ top.pc = "scan" /\ UNCHANGED <<job, arg, final>>
    BY DEF DirectoryRemoved, At
<1>2. CASE Reject("EBUSY")  BY <1>1, <1>2, PReject
<1>3. CASE fs' = Without(fs, top.in) /\ Return("ok")
    <2> DEFINE p == top.src
    <2>1. /\ top.in = p /\ job.cmd # "cp" /\ IsPrefix(Source1, p) /\ p \in Seq(Name)
        BY <1>1, PFacts DEF OnCourse, RemovePcs, Direct
    <2>2. TouchOK  BY <1>1, <1>3, <2>1, TouchSrc, TouchWithout
    <2> HIDE DEF p
    <2>3. fs' = Without(fs, p)  BY <1>3, <2>1
    <2>4. DirsStayBut(fs, fs', p)  BY <2>3 DEF DirsStayBut, Without, Kind
    <2>5. OpenWays(job, fs', arg)
        <3>1. ASSUME NEW q, Kind(fs, q) = "dir", ~IsPrefix(Source1, q) PROVE Kind(fs', q) = "dir"
            BY <2>1, <2>4, <3>1 DEF DirsStayBut
        <3> QED  BY <1>1, <3>1, WaysKept
    <2>6. ASSUME NEW i \in 2 .. Len(stack) PROVE OnCourse(job.cmd, fs', Source1, final, stack[i])
        <3>1. Inside(top, stack[i]) /\ OnCourse(job.cmd, fs, Source1, final, stack[i])
            BY <1>1, PFacts
        <3>2. stack[i].pc = "scan" /\ Len(stack[i].src) < Len(p)
            BY <1>1, <3>1 DEF Inside, RemovePcs, p
        <3> QED  BY <2>1, <2>4, <3>1, <3>2, WaitingStayBut
    <2>7. PInv'  BY <1>1, <1>3, <2>5, <2>6, PReturns DEF Others, Return
    <2> QED  BY <2>2, <2>7
<1> QED  BY <1>2, <1>3 DEF DirectoryRemoved

LEMMA PRemoveSource == IInv /\ PInv /\ RemoveSource => PInv' /\ TouchOK
<1> SUFFICES ASSUME IInv, PInv, RemoveSource PROVE PInv' /\ TouchOK
    OBVIOUS
<1> DEFINE f == Frame("remove", top.src, <<>>)
<1>1. stack # <<>> /\ top.pc = "copied" /\ UNCHANGED <<job, arg, final>>  BY DEF RemoveSource, At
<1>2. /\ top.in = Source1 /\ top.src = Source1 /\ job.cmd = "mv" /\ Direct(fs, Source1)
      /\ Source1 \in Seq(Name)
    BY <1>1, PFacts DEF OnCourse, Direct
<1>3. IsPrefix(Source1, Source1)  BY <1>2, PrefixSelf
<1>4. \/ Reject(ret)
      \/ stack' = <<f>> \o Tail(stack) /\ UNCHANGED fs
      \/ Kind(fs, top.in) # "dir" /\ fs' = Without(fs, top.in) /\ stack' = Tail(stack)
    BY DEF RemoveSource, Return
<1>5. CASE Reject(ret)  BY <1>1, <1>5, PReject
<1>6. CASE stack' = <<f>> \o Tail(stack) /\ UNCHANGED fs
    <2>1. f \in Frames /\ f.pc = "remove" /\ f.src = Source1  BY <1>2, NameIsNode, RemovalIs
    <2> HIDE DEF f
    <2>2. OnCourse(job.cmd, fs', Source1, final, f)
        BY <1>2, <1>3, <1>6, <2>1 DEF OnCourse, CopyPcs
    <2>3. \A i \in 2 .. Len(stack) : Inside(top, stack[i]) => Inside(f, stack[i])
        BY <1>1 DEF Inside
    <2>4. DirsStay(fs, fs')  BY <1>6 DEF DirsStay
    <2>5. Others  BY <1>1, <2>4, DirsStayOthers
    <2>6. PInv'  BY <1>1, <1>6, <2>1, <2>2, <2>3, <2>5, PBecomes
    <2> QED  BY <1>6, <2>6, TouchNothing
<1>7. CASE Kind(fs, top.in) # "dir" /\ fs' = Without(fs, top.in) /\ stack' = Tail(stack)
    <2>1. DirsStay(fs, fs')  BY <1>7, WithoutDirs
    <2>2. PInv'  BY <1>1, <1>7, <2>1, DirsStayOthers, PReturns
    <2>3. MayTouch(top.in)  BY <1>1, <1>2, <1>3, TouchSrc
    <2> QED  BY <1>7, <2>2, <2>3, TouchWithout
<1> QED  BY <1>4, <1>5, <1>6, <1>7

LEMMA MovedDirs ==
    ASSUME NEW t, IsTree(t), NEW s \in Seq(Name), NEW d \in Seq(Name),
           Entries(t, d) = {}, Kind(t, d) = "dir" => Kind(t, s) = "dir",
           NEW q, Kind(t, q) = "dir", ~IsPrefix(s, q)
    PROVE  Kind(Moved(t, s, d), q) = "dir"
<1> DEFINE u == Moved(t, s, d)
           Kept(x) == x \in DOMAIN t /\ ~IsPrefix(s, x) /\ ~IsPrefix(d, x)
<1>1. /\ \A x : Kept(x) => x \in DOMAIN u /\ u[x] = t[x]
      /\ \A r \in Seq(Name) : s \o r \in DOMAIN t =>
            d \o r \in DOMAIN u /\ u[d \o r] = t[s \o r]
    BY MovedIs
<1>2. q \in DOMAIN t  BY DEF Kind
<1> HIDE DEF u
<1> SUFFICES Kind(u, q) = "dir"
    BY DEF u
<1>3. CASE ~IsPrefix(d, q)
    <2>1. Kept(q)  BY <1>2, <1>3
    <2>2. q \in DOMAIN u /\ u[q] = t[q]  BY <1>1, <2>1
    <2> QED  BY <1>2, <2>2 DEF Kind
<1>4. CASE IsPrefix(d, q)
    <2>1. q = d  BY <1>2, <1>4, EmptyIsAlone
    <2>2. Kind(t, s) = "dir" /\ s \in DOMAIN t  BY <2>1 DEF Kind
    <2> DEFINE r == <<>>
    <2>3. r \in Seq(Name) /\ s \o r = s /\ d \o r = d  BY EmptySeq, ConcatEmptySeq
    <2> HIDE DEF r
    <2>4. d \in DOMAIN u /\ u[d] = t[s]  BY <1>1, <2>2, <2>3
    <2> QED  BY <2>1, <2>2, <2>4 DEF Kind
<1> QED  BY <1>3, <1>4

\* Nothing changes but what is at s and at d.
LEMMA MovedOnly ==
    ASSUME NEW t, IsTree(t), NEW s \in Seq(Name), NEW d \in Seq(Name)
    PROVE  LET u == Moved(t, s, d)
           IN  \A x \in DOMAIN t \cup DOMAIN u :
                   \/ x \in DOMAIN t \cap DOMAIN u /\ t[x] = u[x]
                   \/ IsPrefix(s, x) \/ IsPrefix(d, x)
<1> DEFINE u == Moved(t, s, d)
           Kept(x) == x \in DOMAIN t /\ ~IsPrefix(s, x) /\ ~IsPrefix(d, x)
<1>1. /\ \A x : Kept(x) => x \in DOMAIN u /\ u[x] = t[x]
      /\ \A x \in DOMAIN u : Kept(x) \/ \E r \in Seq(Name) :
             x = d \o r /\ s \o r \in DOMAIN t
    <2>1. \A x : Kept(x) => x \in DOMAIN u /\ u[x] = t[x]  BY MovedIs
    <2>2. \A x \in DOMAIN u : Kept(x) \/ \E r \in Seq(Name) :
              x = d \o r /\ s \o r \in DOMAIN t
        BY MovedIs
    <2> HIDE DEF u, Kept
    <2> QED  BY <2>1, <2>2
<1> HIDE DEF u
<1>2. ASSUME NEW x \in DOMAIN t \cup DOMAIN u, ~Kept(x) PROVE IsPrefix(s, x) \/ IsPrefix(d, x)
    <2>1. CASE x \in DOMAIN t  BY <1>2, <2>1
    <2>2. CASE x \in DOMAIN u
        <3>1. PICK r \in Seq(Name) : x = d \o r  BY <1>1, <1>2, <2>2
        <3>2. IsPrefix(d, x)  BY <3>1, OnwardIs
        <3> QED  BY <3>2
    <2> QED  BY <1>2, <2>1, <2>2
<1>3. ASSUME NEW x, Kept(x) PROVE x \in DOMAIN t \cap DOMAIN u /\ t[x] = u[x]
    <2>1. x \in DOMAIN u /\ u[x] = t[x]  BY <1>1, <1>3
    <2> QED  BY <1>3, <2>1
<1> HIDE DEF Kept
<1> QED  BY <1>2, <1>3 DEF u

LEMMA TouchMoved ==
    ASSUME IsTree(fs), NEW s \in Seq(Name), NEW d \in Seq(Name), fs' = Moved(fs, s, d),
           \A x : IsPrefix(s, x) \/ IsPrefix(d, x) => MayTouch(x)
    PROVE  TouchOK
<1> DEFINE u == Moved(fs, s, d)
<1>1. \A x \in DOMAIN fs \cup DOMAIN u :
          \/ x \in DOMAIN fs \cap DOMAIN u /\ fs[x] = u[x]
          \/ IsPrefix(s, x) \/ IsPrefix(d, x)
    BY MovedOnly
<1> HIDE DEF u
<1>2. fs' = u  BY DEF u
<1> QED  BY <1>1, <1>2 DEF TouchOK

LEMMA PRename == IInv /\ PInv /\ Rename => PInv' /\ TouchOK
<1> SUFFICES ASSUME IInv, PInv, Rename PROVE PInv' /\ TouchOK
    OBVIOUS
<1> DEFINE s == Walk(fs, top.src)
           d == Walk(fs, top.dst)
           e == RenameError(s, d)
           f == [top EXCEPT !.pc = "copied", !.in = s]
           c == Frame("copy", top.src, top.dst)
<1>1. stack # <<>> /\ top.pc = "move" /\ UNCHANGED <<job, arg, final>>  BY DEF Rename, At
<1>2. /\ top \in Frames /\ Len(stack) = 1 /\ IsTree(fs)
    BY <1>1, TopIs DEF IInv, OnTop
<1>3. /\ job.cmd = "mv" /\ top.src = Source1 /\ top.dst = final /\ Direct(fs, final)
      /\ Direct(fs, Source1) /\ Walk(fs, Source1) = Source1
    BY <1>1, PFacts DEF OnCourse
<1>4. s = Source1 /\ d = final /\ Walk(fs, final) = final /\ s \in Seq(Name) /\ d \in Seq(Name)
    BY <1>2, <1>3, DirectWalk DEF Direct
<1>5. \/ \E v : Reject(v)
      \/ e = "ok" /\ fs' = (IF s = d THEN fs ELSE Moved(fs, s, d)) /\ stack' = Tail(stack)
      \/ stack' = <<c, f>> \o Tail(stack) /\ UNCHANGED fs
    <2>1. CASE e = "ok"  BY <2>1 DEF Rename, Return
    <2>2. CASE e = "EXDEV"
        <3>1. Call(f, c) /\ UNCHANGED fs  BY <2>2 DEF Rename
        <3> QED  BY <3>1 DEF Call
    <2>3. CASE e # "ok" /\ e # "EXDEV"
        <3>1. Reject(e)  BY <2>3 DEF Rename
        <3> QED  BY <3>1
    <2> QED  BY <2>1, <2>2, <2>3
<1>6. CASE \E v : Reject(v)  BY <1>1, <1>6, PReject
<1>7. CASE e = "ok" /\ fs' = (IF s = d THEN fs ELSE Moved(fs, s, d)) /\ stack' = Tail(stack)
    <2>1. CASE s = d
        <3>1. DirsStay(fs, fs')  BY <1>7, <2>1 DEF DirsStay
        <3>2. PInv'  BY <1>1, <1>7, <3>1, DirsStayOthers, PReturns
        <3> QED  BY <1>7, <2>1, <3>2, TouchNothing
    <2>2. CASE s # d
        <3> HIDE DEF s, d
        <3>1. Entries(fs, d) = {} /\ (Kind(fs, d) = "dir" => Kind(fs, s) = "dir")
            BY <1>7, <2>2 DEF RenameError
        <3> HIDE DEF e
        <3>2. fs' = Moved(fs, s, d)  BY <1>7, <2>2
        <3>3. OpenWays(job, fs', arg)
            <4>1. ASSUME NEW q, Kind(fs, q) = "dir", ~IsPrefix(Source1, q)
                  PROVE  Kind(fs', q) = "dir"
                BY <1>2, <1>4, <3>1, <3>2, <4>1, MovedDirs
            <4> QED  BY <1>1, <4>1, WaysKept
        <3>4. Others
            <4>1. \A i \in 2 .. Len(stack) : FALSE  BY <1>2
            <4> QED  BY <3>3, <4>1 DEF Others
        <3>5. PInv'  BY <1>1, <1>7, <3>4, PReturns
        <3>6. TouchOK
            <4>1. ASSUME NEW x, IsPrefix(d, x) PROVE MayTouch(x)
                BY <1>3, <1>4, <4>1 DEF MayTouch
            <4>2. ASSUME NEW x, IsPrefix(s, x) PROVE MayTouch(x)
                BY <1>1, <1>3, <1>4, <4>2, TouchSrc
            <4> QED  BY <1>2, <1>4, <3>2, <4>1, <4>2, TouchMoved
        <3> QED  BY <3>5, <3>6
    <2> QED  BY <2>1, <2>2
<1>8. CASE stack' = <<c, f>> \o Tail(stack) /\ UNCHANGED fs
    <2>1. top.src \in Seq(Node) /\ top.dst \in Seq(Node) /\ s \in Seq(Node)
        BY <1>2, <1>4, NameIsNode DEF Frames
    <2>2. c \in Frames /\ c.dst = final /\ c.pc = "copy"  BY <1>3, <2>1, FrameIs DEF Pcs
    <2> HIDE DEF c, s
    <2>3. f \in Frames /\ f.pc = "copied" /\ f.src = Source1 /\ f.dst = final /\ f.in = Source1
        BY <1>2, <1>3, <1>4, <2>1 DEF Frames, Pcs
    <2> HIDE DEF f
    <2>4. IsPrefix(final, final)  BY <1>4, PrefixSelf
    <2>5. OnCourse(job.cmd, fs', Source1, final, c) /\ OnCourse(job.cmd, fs', Source1, final, f)
        BY <1>3, <1>8, <2>2, <2>3, <2>4 DEF OnCourse, CopyPcs, RemovePcs
    <2>6. Inside(c, f)  BY <2>2, CopyInside DEF CopyPcs
    <2>7. \A i \in 2 .. Len(stack) : FALSE  BY <1>2
    <2>8. DirsStay(fs, fs')  BY <1>8 DEF DirsStay
    <2>9. Others  BY <1>1, <2>8, DirsStayOthers
    <2>10. \A i \in 2 .. Len(stack) :
               Inside(top, stack[i]) => Inside(f, stack[i]) /\ Inside(c, stack[i])  BY <2>7
    <2>11. PInv'  BY <1>1, <1>8, <2>2, <2>3, <2>5, <2>6, <2>9, <2>10, PCalls
    <2> QED  BY <1>8, <2>11, TouchNothing
<1> QED  BY <1>5, <1>6, <1>7, <1>8

\* The operand main's loop is at.
LEMMA NextArg ==
    ASSUME IInv, PInv, ~Done
    PROVE  Direct(fs, Source1) /\ Source1 \in Seq(Name) /\ Source1 # <<>>
<1>1. job.args \in Seq(Seq(Node) \ {<<>>})  BY FsAssumption DEF IInv, Node
<1>2. Len(job.args) \in Nat /\ DOMAIN job.args = 1 .. Len(job.args)  BY <1>1, LenProperties
<1>3. arg \in DOMAIN job.args /\ arg >= arg  BY <1>2 DEF IInv, Done
<1> QED  BY <1>3, NamesLeft DEF PInv, OpenWays, Direct, Source1

LEMMA FirstCourse ==
    ASSUME NEW c, NEW t, NEW s, NEW d, NEW f, OnCourse(c, t, s, d, f)
    PROVE  Courses(c, t, s, d, <<f>>)
<1> DEFINE z == <<f>>
<1>1. Len(z) = 1 /\ z[1] = f  OBVIOUS
<1> HIDE DEF z
<1>2. Courses(c, t, s, d, z)  BY <1>1 DEF Courses
<1> QED  BY <1>2 DEF z

\* Where fsutil_resolve_target() puts the copy.
LEMMA TargetDirect ==
    ASSUME IInv, PInv, stack = <<>>, ~Done, job.cmd # "rm", NEW seen \in BOOLEAN
    PROVE  Direct(fs, Target(seen /\ Kind(fs, Walk(fs, job.dst)) = "dir"))
<1>1. /\ Direct(fs, job.dst) /\ Walk(fs, job.dst) = job.dst /\ job.dst \in Seq(Name)
    BY DirectWalk DEF PInv, OpenWays, IInv, Direct
<1>2. CASE seen /\ Kind(fs, job.dst) = "dir"
    <2> DEFINE n == Last(Source1)
               d == Append(job.dst, n)
    <2>1. n \in Name  BY NextArg, FrontIs
    <2>2. d \in Seq(Name) /\ d # <<>> /\ Front(d) = job.dst
        BY <1>1, <2>1, PrefixOfAppend
    <2>3. Target(seen /\ Kind(fs, Walk(fs, job.dst)) = "dir") = d  BY <1>1, <1>2 DEF Target
    <2> HIDE DEF d
    <2>4. Direct(fs, d)  BY <1>2, <2>2 DEF Direct
    <2> QED  BY <2>3, <2>4
<1>3. CASE ~(seen /\ Kind(fs, job.dst) = "dir")
    BY <1>1, <1>3 DEF Target
<1> QED  BY <1>2, <1>3

LEMMA PBegin ==
    ASSUME IInv, PInv, NEW seen \in BOOLEAN, Begin(seen)
    PROVE  PInv' /\ TouchOK
<1> DEFINE d == Target(seen /\ Kind(fs, Walk(fs, job.dst)) = "dir")
<1>1. stack = <<>> /\ ~Done /\ UNCHANGED <<job, fs, arg>>  BY DEF Begin
<1>2. Direct(fs, Source1) /\ Source1 \in Seq(Name) /\ IsPrefix(Source1, Source1)
    BY <1>1, NextArg, PrefixSelf
<1>3. TouchOK  BY <1>1, TouchNothing
<1>4. PlainJob(job') /\ OpenWays(job', fs', arg')  BY <1>1 DEF PInv
<1>5. job.cmd \in {"cp", "mv", "rm"}  BY FsAssumption DEF IInv
<1>6. job.cmd # "rm" => Direct(fs, d)  BY <1>1, TargetDirect
<1> HIDE DEF d
<1>7. CASE job.cmd = "rm"
    <2> DEFINE f == Frame("remove", Source1, <<>>)
    <2>1. f.pc = "remove" /\ f.src = Source1  BY DEF Frame
    <2>2. stack' = <<f>> /\ UNCHANGED final  BY <1>7 DEF Begin
    <2> HIDE DEF f
    <2>3. OnCourse(job.cmd, fs, Source1, final, f)
        BY <1>2, <1>7, <2>1 DEF OnCourse, CopyPcs
    <2>4. Courses(job.cmd, fs, Source1, final, stack')  BY <2>2, <2>3, FirstCourse
    <2>5. Courses(job'.cmd, fs', Source1', final', stack')  BY <1>1, <2>2, <2>4 DEF Source1
    <2> QED  BY <1>3, <1>4, <2>2, <2>5 DEF PInv
<1>8. CASE job.cmd # "rm" /\ UNCHANGED <<stack, final>>
    BY <1>1, <1>3, <1>4, <1>8 DEF PInv
<1>9. CASE /\ job.cmd # "rm" /\ final' = d
           /\ stack' = <<Frame(IF job.cmd = "mv" THEN "move" ELSE "copy", Source1, d)>>
    <2> DEFINE f == Frame(IF job.cmd = "mv" THEN "move" ELSE "copy", Source1, d)
    <2>1. /\ f.pc = (IF job.cmd = "mv" THEN "move" ELSE "copy") /\ f.src = Source1
          /\ f.dst = d
        BY DEF Frame
    <2>2. stack' = <<f>>  BY <1>9
    <2> HIDE DEF f
    <2>3. d \in Seq(Name) /\ IsPrefix(d, d)  BY <1>6, <1>9, PrefixSelf DEF Direct
    <2>4. OnCourse(job.cmd, fs, Source1, d, f)
        BY <1>5, <1>6, <1>9, <2>1, <2>3 DEF OnCourse, CopyPcs, RemovePcs
    <2>5. Courses(job.cmd, fs, Source1, d, stack')  BY <2>2, <2>4, FirstCourse
    <2>6. Courses(job'.cmd, fs', Source1', final', stack')  BY <1>1, <1>9, <2>5 DEF Source1
    <2>7. final' \in Seq(Name)  BY <1>9, <2>3
    <2> QED  BY <1>3, <1>4, <2>6, <2>7 DEF PInv
<1>10. \/ job.cmd = "rm"
       \/ job.cmd # "rm" /\ UNCHANGED <<stack, final>>
       \/ /\ job.cmd # "rm" /\ final' = d
          /\ stack' = <<Frame(IF job.cmd = "mv" THEN "move" ELSE "copy", Source1, d)>>
    BY DEF Begin, d
<1> QED  BY <1>7, <1>8, <1>9, <1>10

LEMMA PArgDone == IInv /\ PInv /\ ArgDone => PInv' /\ TouchOK
<1> SUFFICES ASSUME IInv, PInv, ArgDone PROVE PInv' /\ TouchOK
    OBVIOUS
<1>1. stack = <<>> /\ UNCHANGED <<job, fs, final, stack>> /\ arg' = arg + 1
    BY DEF ArgDone, Answered
<1>2. job.args \in Seq(Seq(Node) \ {<<>>})  BY FsAssumption DEF IInv, Node
<1>3. DOMAIN job.args = 1 .. Len(job.args) /\ Len(job.args) \in Nat  BY <1>2, LenProperties
<1>4. \A k \in DOMAIN job.args : k >= arg + 1 => k >= arg  BY <1>3 DEF IInv
<1>5. OpenWays(job, fs, arg + 1)  BY <1>4 DEF PInv, OpenWays
<1>6. OpenWays(job', fs', arg')  BY <1>1, <1>5
<1>7. PInv'  BY <1>1, <1>6 DEF PInv
<1> QED  BY <1>1, <1>7, TouchNothing

LEMMA PStep == IInv /\ IInv' /\ PInv /\ [Next]_vars => PInv' /\ TouchOK
<1> SUFFICES ASSUME IInv, IInv', PInv, [Next]_vars PROVE PInv' /\ TouchOK
    OBVIOUS
<1>1. CASE UNCHANGED vars
    <2>1. PInv'  BY <1>1 DEF vars, PInv, Source1
    <2> QED  BY <1>1, <2>1, TouchNothing DEF vars
<1>2. CASE CopyStep
    BY <1>2, PCopyNothing, PCopyRegular, PCopyChunk, PReadDone, PCopySymlink, PSymlink,
       PCopyDirectory, PCopyEntry, PEntryDone
    DEF CopyStep
<1>3. CASE RemoveStep
    BY <1>3, PRemoveLeaf, PRemoveEntry, PEntryDone, PDirectoryRemoved DEF RemoveStep
<1>4. CASE Rename \/ RemoveSource \/ CallFails \/ CopySymlinkFails \/ ArgDone
    BY <1>4, PRename, PRemoveSource, PCallFails, PCopySymlinkFails, PArgDone
<1>5. CASE BeginArg \/ BeginBlind
    BY <1>5, PBegin DEF BeginArg, BeginBlind
<1> QED  BY <1>1, <1>2, <1>3, <1>4, <1>5 DEF Next

LEMMA PInit == Init /\ PlainJob(job) => PInv
<1> SUFFICES ASSUME Init, PlainJob(job) PROVE PInv
    OBVIOUS
<1>1. fs = job.tree /\ final = <<>> /\ stack = <<>> /\ arg = 1  BY DEF Init
<1>2. final \in Seq(Name)  BY <1>1, EmptySeq
<1>3. OpenWays(job, fs, arg)  BY <1>1 DEF PlainJob, OpenWays
<1> QED  BY <1>1, <1>2, <1>3 DEF PInv

\* When the operands and the destination are named without links and apart from
\* each other, cp, mv and rm change nothing but the destination, what a link standing
\* there leads to, and (mv, rm) the operand: whatever else the tree holds, links in
\* it included, and whichever call of fsutil_copy_path(), fsutil_remove_path() and
\* fsutil_move_path() fails.
THEOREM WritesWhereTold == Spec /\ PlainJob(job) => TouchesOnly
<1>1. TouchOK => \A p \in DOMAIN fs \cup DOMAIN fs' :
                     \/ p \in DOMAIN fs \cap DOMAIN fs' /\ fs[p] = fs'[p]
                     \/ MayTouch(p)
    BY DEF TouchOK
<1>2. IInv /\ IInv' /\ PInv /\ [Next]_vars => PInv' /\ TouchOK  BY PStep
<1> QED  BY <1>1, <1>2, PInit, Invariance, PTL DEF Spec, TouchesOnly

-----------------------------------------------------------------------------
(* Sources that stay as they are *)

\* Where the copy of operand k may be put: fsutil_resolve_target() takes a
\* destination it cannot look up for a name that does not exist yet.
Places(j, k) == {Append(j.dst, Last(j.args[k]))}
                    \cup (IF Len(j.args) = 1 THEN {j.dst} ELSE {})
Under(j, q) == \E i \in DOMAIN j.args : IsPrefix(j.args[i], q)

\* No two operands are put in one place, none is where another is put, and a link
\* that stands in the way leads into none.
Apart(j) ==
    /\ PlainJob(j)
    /\ \A i, k \in DOMAIN j.args : Last(j.args[i]) = Last(j.args[k]) => i = k
    /\ \A k \in DOMAIN j.args : \A p \in Places(j, k) :
          /\ \A i \in DOMAIN j.args : ~IsPrefix(p, j.args[i])
          /\ \A q \in DOMAIN j.tree : IsPrefix(p, q) /\ j.tree[q].kind = "link"
                                          => ~Under(j, j.tree[q].body)

\* Operand k is as the command found it.
Untouched(j, t, k) == \A q \in DOMAIN t \cup DOMAIN j.tree :
    IsPrefix(j.args[k], q) => q \in DOMAIN t \cap DOMAIN j.tree /\ t[q] = j.tree[q]

\* The command has made no link at p or below.
OldLinks(j, t, p) == \A q \in DOMAIN t :
    IsPrefix(p, q) /\ t[q].kind = "link" => q \in DOMAIN j.tree /\ j.tree[q] = t[q]

\* Where the call f is still to write there are no links but old ones.
ToWrite(j, t, f) ==
    /\ f.pc \in {"copy", "follow", "symlink", "move"} => OldLinks(j, t, f.dst)
    /\ f.pc = "list" => \A n \in Name \ f.seen : OldLinks(j, t, Append(f.dst, n))
    /\ f.pc = "data" => ~Under(j, f.out)

\* If g reads a directory, the call f copies an entry that g has read.
Nested(f, g) == g.pc = "list" => \E n \in g.seen : IsPrefix(Append(g.dst, n), f.dst)

Copies(j, t, stk) ==
    /\ \A i \in 1 .. Len(stk) : ToWrite(j, t, stk[i])
    /\ \A i, k \in 1 .. Len(stk) : i < k => Nested(stk[i], stk[k])

Pending(k) == k > arg \/ (k = arg /\ stack = <<>> /\ ret = "call")
\* The operands that are not yet moved or being removed.
Intact(k) == \/ job.cmd = "cp" \/ k > arg
             \/ k = arg /\ IF stack = <<>> THEN ret = "call" ELSE top.pc \notin RemovePcs

SInv ==
    /\ job.cmd # "rm" /\ Apart(job)
    /\ \A k \in DOMAIN job.args : Intact(k) => Untouched(job, fs, k)
    /\ \A k \in DOMAIN job.args : Pending(k) => \A p \in Places(job, k) : OldLinks(job, fs, p)
    /\ stack # <<>> => final \in Places(job, arg) /\ Copies(job, fs, stack)
    /\ stack # <<>> /\ top.pc = "copied" => ret # "call"

LEMMA PrefixesCompare ==
    ASSUME NEW S, NEW p \in Seq(S), NEW q \in Seq(S), NEW r \in Seq(S), IsPrefix(p, r), IsPrefix(q, r)
    PROVE  IsPrefix(p, q) \/ IsPrefix(q, p)
<1>1. \A i \in 1 .. Len(p) : p[i] = r[i]  BY PrefixIs
<1>2. \A i \in 1 .. Len(q) : q[i] = r[i]  BY PrefixIs
<1>3. Len(p) \in Nat /\ Len(q) \in Nat  BY LenProperties
<1>4. CASE Len(p) <= Len(q)
    <2>1. \A i \in 1 .. Len(p) : p[i] = q[i]  BY <1>1, <1>2, <1>3, <1>4
    <2> QED  BY <1>4, <2>1, PrefixIs
<1>5. CASE Len(q) <= Len(p)
    <2>1. \A i \in 1 .. Len(q) : q[i] = p[i]  BY <1>1, <1>2, <1>3, <1>5
    <2> QED  BY <1>5, <2>1, PrefixIs
<1> QED  BY <1>3, <1>4, <1>5

\* Names of one directory are not above each other.
LEMMA NamesApart ==
    ASSUME NEW S, NEW p \in Seq(S), NEW m \in S, NEW n \in S, NEW r \in Seq(S),
           IsPrefix(Append(p, m), r), IsPrefix(Append(p, n), r)
    PROVE  m = n
<1> DEFINE a == Append(p, m)
           b == Append(p, n)
           k == Len(p) + 1
<1>1. /\ a \in Seq(S) /\ b \in Seq(S) /\ Len(p) \in Nat /\ Len(a) = k /\ Len(b) = k
      /\ a[k] = m /\ b[k] = n
    BY AppendProperties, LenProperties
<1> HIDE DEF a, b
<1>2. k \in 1 .. Len(a) /\ k \in 1 .. Len(b)  BY <1>1
<1> HIDE DEF k
<1>3. a[k] = r[k] /\ b[k] = r[k]
    <2>1. IsPrefix(a, r) /\ IsPrefix(b, r)  BY DEF a, b
    <2> QED  BY <1>1, <1>2, <2>1, PrefixIs
<1> QED  BY <1>1, <1>3

\* Tree u has no link that t has not.
Gentle(t, u) == \A q \in DOMAIN u : u[q].kind = "link" => q \in DOMAIN t /\ t[q] = u[q]

LEMMA OldStay ==
    ASSUME NEW j, NEW t, NEW u, Gentle(t, u), NEW p, OldLinks(j, t, p)
    PROVE  OldLinks(j, u, p)
    BY DEF Gentle, OldLinks

LEMMA OldBelow ==
    ASSUME NEW j, NEW t, IsTree(t), NEW p \in Seq(Name), NEW r \in Seq(Name), IsPrefix(p, r),
           OldLinks(j, t, p)
    PROVE  OldLinks(j, t, r)
<1>1. \A q \in DOMAIN t : q \in Seq(Name)  BY DEF IsTree
<1>2. \A q \in DOMAIN t : IsPrefix(r, q) => IsPrefix(p, q)  BY <1>1, PrefixTransitive
<1> QED  BY <1>2 DEF OldLinks

LEMMA WriteStays ==
    ASSUME NEW j, NEW t, NEW u, Gentle(t, u), NEW f, ToWrite(j, t, f)
    PROVE  ToWrite(j, u, f)
<1>1. \A p : OldLinks(j, t, p) => OldLinks(j, u, p)  BY OldStay
<1> QED  BY <1>1 DEF ToWrite

LEMMA PutGentle ==
    ASSUME NEW t, NEW p, NEW o, o.kind # "link"
    PROVE  Gentle(t, Put(t, p, o))
    BY DEF Gentle, Put

LEMMA WithoutGentle ==
    ASSUME NEW t, NEW p
    PROVE  Gentle(t, Without(t, p))
    BY DEF Gentle, Without

LEMMA UntouchedPut ==
    ASSUME NEW j, NEW t, NEW k, Untouched(j, t, k), NEW p, ~IsPrefix(j.args[k], p), NEW o
    PROVE  Untouched(j, Put(t, p, o), k)
    BY DEF Untouched, Put

LEMMA UntouchedWithout ==
    ASSUME NEW j, NEW t, NEW k, Untouched(j, t, k), NEW p, ~IsPrefix(j.args[k], p)
    PROVE  Untouched(j, Without(t, p), k)
    BY DEF Untouched, Without

LEMMA CopiesBecome ==
    ASSUME NEW j, NEW t, NEW u, NEW s \in Seq(Frames), s # <<>>,
           Copies(j, t, s), NEW f \in Frames, ToWrite(j, u, f),
           \A i \in 2 .. Len(s) : ToWrite(j, u, s[i]),
           \A i \in 2 .. Len(s) : Nested(s[1], s[i]) => Nested(f, s[i])
    PROVE  Copies(j, u, <<f>> \o Tail(s))
<1> DEFINE z == <<f>> \o Tail(s)
<1>1. Len(z) = Len(s) /\ z[1] = f /\ \A i \in 2 .. Len(s) : z[i] = s[i]
    BY BecomeIs
<1>2. Len(s) \in Nat  BY LenProperties
<1> HIDE DEF z
<1>3. ASSUME NEW i \in 1 .. Len(z) PROVE ToWrite(j, u, z[i])
    <2>1. i = 1 \/ i \in 2 .. Len(s)  BY <1>1, <1>2
    <2> QED  BY <1>1, <2>1
<1>4. ASSUME NEW i \in 1 .. Len(z), NEW k \in 1 .. Len(z), i < k PROVE Nested(z[i], z[k])
    <2>1. k \in 2 .. Len(s) /\ 1 \in 1 .. Len(s) /\ k \in 1 .. Len(s) /\ i \in 1 .. Len(s)
        BY <1>1, <1>2, <1>4
    <2>2. CASE i = 1
        <3>1. Nested(s[1], s[k])  BY <1>4, <2>1, <2>2 DEF Copies
        <3> QED  BY <1>1, <2>1, <2>2, <3>1
    <2>3. CASE i # 1
        <3>1. i \in 2 .. Len(s)  BY <1>2, <2>1, <2>3
        <3> QED  BY <1>1, <1>4, <2>1, <3>1 DEF Copies
    <2> QED  BY <2>2, <2>3
<1> QED  BY <1>3, <1>4 DEF Copies, z

LEMMA CopiesCall ==
    ASSUME NEW j, NEW t, NEW u, NEW s \in Seq(Frames), s # <<>>,
           Copies(j, t, s), NEW f \in Frames, NEW g \in Frames,
           ToWrite(j, u, f), ToWrite(j, u, g), Nested(g, f),
           \A i \in 2 .. Len(s) : ToWrite(j, u, s[i]),
           \A i \in 2 .. Len(s) : Nested(s[1], s[i]) => Nested(f, s[i]) /\ Nested(g, s[i])
    PROVE  Copies(j, u, <<g, f>> \o Tail(s))
<1> DEFINE z == <<g, f>> \o Tail(s)
<1>1. /\ Len(z) = Len(s) + 1 /\ z[1] = g /\ z[2] = f
      /\ \A i \in 3 .. (Len(s) + 1) : z[i] = s[i - 1]
    BY CallIs
<1>2. Len(s) \in Nat /\ Len(s) >= 1  BY LenProperties, EmptySeq
<1> HIDE DEF z
<1>3. ASSUME NEW i \in 3 .. Len(z)
      PROVE  i - 1 \in 2 .. Len(s) /\ i - 1 \in 1 .. Len(s) /\ z[i] = s[i - 1]
    BY <1>1, <1>2
<1>4. ASSUME NEW i \in 1 .. Len(z) PROVE ToWrite(j, u, z[i])
    <2>1. i = 1 \/ i = 2 \/ i \in 3 .. Len(z)  BY <1>1, <1>2
    <2> QED  BY <1>1, <1>3, <2>1
<1>5. ASSUME NEW i \in 1 .. Len(z), NEW k \in 1 .. Len(z), i < k PROVE Nested(z[i], z[k])
    <2>1. CASE i = 1 /\ k = 2  BY <1>1, <2>1
    <2>2. CASE k # 2
        <3>1. k \in 3 .. Len(z)  BY <1>1, <1>2, <1>5, <2>2
        <3> DEFINE m == k - 1
        <3>2. m \in 2 .. Len(s) /\ m \in 1 .. Len(s) /\ z[k] = s[m]  BY <1>3, <3>1
        <3>3. 1 \in 1 .. Len(s) /\ 1 < m  BY <1>2, <3>2
        <3>4. CASE i = 1 \/ i = 2
            <4>1. Nested(s[1], s[m])
                <5> HIDE DEF m
                <5> QED  BY <3>2, <3>3 DEF Copies
            <4> HIDE DEF m
            <4> QED  BY <1>1, <3>2, <3>4, <4>1
        <3>5. CASE i # 1 /\ i # 2
            <4> DEFINE l == i - 1
            <4>1. i \in 3 .. Len(z) /\ l < m  BY <1>1, <1>2, <1>5, <3>5
            <4>2. l \in 1 .. Len(s) /\ z[i] = s[l]  BY <1>3, <4>1
            <4> HIDE DEF l, m
            <4> QED  BY <3>2, <4>1, <4>2 DEF Copies
        <3> QED  BY <3>4, <3>5
    <2>3. CASE k = 2 /\ i # 1
        <3>1. FALSE  BY <1>1, <1>2, <1>5, <2>3
        <3> QED  BY <3>1
    <2> QED  BY <2>1, <2>2, <2>3
<1> QED  BY <1>4, <1>5 DEF Copies, z

LEMMA CopiesReturn ==
    ASSUME NEW j, NEW t, NEW u, NEW s \in Seq(Frames), s # <<>>,
           Copies(j, t, s), \A i \in 2 .. Len(s) : ToWrite(j, u, s[i])
    PROVE  Copies(j, u, Tail(s))
<1> DEFINE r == Tail(s)
<1>1. /\ Len(s) \in Nat /\ Len(s) >= 1 /\ Len(r) = Len(s) - 1
      /\ \A i \in 1 .. (Len(s) - 1) : r[i] = s[i + 1]
    BY TailIs
<1> HIDE DEF r
<1>2. ASSUME NEW i \in 1 .. Len(r)
      PROVE  i + 1 \in 2 .. Len(s) /\ i + 1 \in 1 .. Len(s) /\ r[i] = s[i + 1]
    BY <1>1
<1>3. ASSUME NEW i \in 1 .. Len(r) PROVE ToWrite(j, u, r[i])
    BY <1>2
<1>4. ASSUME NEW i \in 1 .. Len(r), NEW k \in 1 .. Len(r), i < k PROVE Nested(r[i], r[k])
    <2> DEFINE a == i + 1
               b == k + 1
    <2>1. a \in 1 .. Len(s) /\ b \in 1 .. Len(s) /\ r[i] = s[a] /\ r[k] = s[b]  BY <1>2
    <2>2. a < b  BY <1>1, <1>4
    <2> HIDE DEF a, b
    <2> QED  BY <2>1, <2>2 DEF Copies
<1> QED  BY <1>3, <1>4 DEF Copies, r

\* What is copied is put where no operand is.
LEMMA FinalApart ==
    ASSUME IInv, PInv, SInv, stack # <<>>, NEW q \in Seq(Name), IsPrefix(final, q)
    PROVE  ~Under(job, q)
<1> SUFFICES ASSUME NEW i \in DOMAIN job.args, IsPrefix(job.args[i], q) PROVE FALSE
    BY DEF Under
<1> DEFINE a == job.args[i]
           n == Last(Source1)
<1>1. /\ arg \in DOMAIN job.args /\ final \in Places(job, arg) /\ final \in Seq(Name)
      /\ job.cmd # "rm" /\ Apart(job) /\ PlainJob(job)
    BY PFacts DEF SInv, Apart, PInv
<1>2. a \in Seq(Name) /\ job.dst \in Seq(Name) /\ ~IsPrefix(a, job.dst)
    BY <1>1 DEF PlainJob, Direct
<1>3. ~IsPrefix(final, a)  BY <1>1 DEF Apart
<1> HIDE DEF a
<1>4. IsPrefix(a, final)
    <2>1. IsPrefix(a, q)  BY DEF a
    <2> QED  BY <1>1, <1>2, <1>3, <2>1, PrefixesCompare
<1>5. CASE final = job.dst  BY <1>2, <1>4, <1>5
<1>6. CASE final = Append(job.dst, n)
    <2>1. n \in Name
        <3>1. Source1 \in Seq(Name) /\ Source1 # <<>>
            BY <1>1, PFacts, NamesLeft DEF Direct, Source1
        <3> QED  BY <3>1, FrontIs
    <2>2. Front(final) = job.dst  BY <1>2, <1>6, <2>1, PrefixOfAppend
    <2>3. a # final  BY <1>1, <1>3, PrefixSelf
    <2>4. IsPrefix(a, Front(final))  BY <1>1, <1>2, <1>4, <2>3, PrefixFront
    <2> QED  BY <1>2, <2>2, <2>4
<1> QED  BY <1>1, <1>5, <1>6 DEF Places, Source1

LEMMA SFacts ==
    ASSUME IInv, PInv, SInv, stack # <<>>
    PROVE  /\ ToWrite(job, fs, top) /\ IsTree(fs)
           /\ \A i \in 2 .. Len(stack) : /\ ToWrite(job, fs, stack[i])
                                         /\ Nested(top, stack[i])
<1>1. Copies(job, fs, stack)  BY DEF SInv
<1>2. Len(stack) \in Nat /\ Len(stack) >= 1 /\ 1 \in 1 .. Len(stack)
    BY EmptySeq, LenProperties DEF IInv, StackOK
<1>3. \A i \in 2 .. Len(stack) : i \in 1 .. Len(stack) /\ 1 < i  BY <1>2
<1>4. ToWrite(job, fs, top)  BY <1>1, <1>2 DEF Copies, top
<1>5. \A i \in 2 .. Len(stack) : ToWrite(job, fs, stack[i])  BY <1>1, <1>3 DEF Copies
<1>6. \A i \in 2 .. Len(stack) : Nested(top, stack[i])  BY <1>1, <1>2, <1>3 DEF Copies, top
<1> QED  BY <1>4, <1>5, <1>6 DEF SInv, IInv

\* Neither the place of the copy is below an operand, nor what a link there leads to.
LEMMA PlaceApart ==
    ASSUME IInv, PInv, SInv, stack # <<>>, top.pc \in CopyPcs
    PROVE  /\ ~Under(job, top.dst)
           /\ Kind(fs, top.dst) = "link" /\ OldLinks(job, fs, top.dst)
                  => ~Under(job, fs[top.dst].body)
<1>1. IsPrefix(final, top.dst) /\ top.dst \in Seq(Name) /\ arg \in DOMAIN job.args
    BY PFacts DEF OnCourse, Direct
<1>2. ~Under(job, top.dst)  BY <1>1, FinalApart
<1>3. ASSUME Kind(fs, top.dst) = "link", OldLinks(job, fs, top.dst)
      PROVE  ~Under(job, fs[top.dst].body)
    <2>1. top.dst \in DOMAIN fs /\ fs[top.dst].kind = "link"  BY <1>3 DEF Kind
    <2>2. IsPrefix(top.dst, top.dst)  BY <1>1, PrefixSelf
    <2>3. top.dst \in DOMAIN job.tree /\ job.tree[top.dst] = fs[top.dst]
        BY <1>3, <2>1, <2>2 DEF OldLinks
    <2>4. final \in Places(job, arg) /\ Apart(job)  BY DEF SInv
    <2> QED  BY <1>1, <2>1, <2>3, <2>4 DEF Apart
<1> QED  BY <1>2, <1>3

\* The name of an operand.
LEMMA LastName ==
    ASSUME IInv, PlainJob(job), NEW k \in DOMAIN job.args
    PROVE  Last(job.args[k]) \in Name
<1>1. job.args[k] \in Seq(Name) /\ job.args[k] # <<>>  BY NamesLeft DEF PlainJob, Direct
<1> QED  BY <1>1, FrontIs

\* Where other operands are put there is neither this one nor what is made of it.
LEMMA PlacesAside ==
    ASSUME IInv, PInv, SInv, stack # <<>>, NEW k \in DOMAIN job.args, k # arg,
           NEW r \in Places(job, k), NEW q \in Seq(Name),
           IsPrefix(final, q) \/ IsPrefix(Source1, q)
    PROVE  ~IsPrefix(r, q)
<1> SUFFICES ASSUME IsPrefix(r, q) PROVE FALSE
    OBVIOUS
<1>1. arg \in DOMAIN job.args /\ PlainJob(job) /\ Apart(job) /\ job.cmd # "rm"
    BY PFacts DEF SInv, PInv
<1>2. Len(job.args) # 1
    <2>1. job.args \in Seq(Seq(Node) \ {<<>>})  BY FsAssumption DEF IInv, Node
    <2> QED  BY <1>1, <2>1, LenProperties
<1> DEFINE m == Last(job.args[k])
           n == Last(job.args[arg])
<1>3. r = Append(job.dst, m) /\ final = Append(job.dst, n)
    BY <1>2 DEF SInv, Places
<1>4. m \in Name /\ n \in Name /\ m # n  BY <1>1, LastName DEF Apart
<1>5. job.dst \in Seq(Name)  BY <1>1 DEF PlainJob, Direct
<1> HIDE DEF m, n
<1>6. CASE IsPrefix(final, q)  BY <1>3, <1>4, <1>5, <1>6, NamesApart
<1>7. CASE IsPrefix(Source1, q)
    <2> DEFINE a == Source1
    <2>1. a \in Seq(Name) /\ ~IsPrefix(a, job.dst) /\ ~IsPrefix(r, a)
        BY <1>1 DEF PlainJob, Direct, Apart, Source1
    <2>2. r \in Seq(Name) /\ r # <<>> /\ Front(r) = job.dst
        BY <1>3, <1>4, <1>5, PrefixOfAppend
    <2>3. IsPrefix(a, q)  BY <1>7
    <2> HIDE DEF a
    <2>4. IsPrefix(a, r)  BY <2>1, <2>2, <2>3, PrefixesCompare
    <2>5. a # r  BY <2>1, <2>2, PrefixSelf
    <2>6. IsPrefix(a, Front(r))  BY <2>1, <2>2, <2>4, <2>5, PrefixFront
    <2> QED  BY <2>1, <2>2, <2>6
<1> QED  BY <1>6, <1>7

\* Nor is another operand there.
LEMMA OperandsAside ==
    ASSUME IInv, PInv, SInv, stack # <<>>, NEW k \in DOMAIN job.args, k # arg,
           NEW q \in Seq(Name), IsPrefix(final, q) \/ IsPrefix(Source1, q)
    PROVE  ~IsPrefix(job.args[k], q)
<1> SUFFICES ASSUME IsPrefix(job.args[k], q) PROVE FALSE
    OBVIOUS
<1>1. arg \in DOMAIN job.args /\ PlainJob(job)  BY PFacts DEF PInv
<1>2. job.args[k] \in Seq(Name) /\ Source1 \in Seq(Name)
    BY <1>1 DEF PlainJob, Direct, Source1
<1>3. ~IsPrefix(final, q)  BY FinalApart DEF Under
<1>4. IsPrefix(job.args[k], Source1) \/ IsPrefix(Source1, job.args[k])
    BY <1>2, <1>3, PrefixesCompare
<1> QED  BY <1>1, <1>4 DEF PlainJob, Source1

\* What a step leaves of the calls below the top one and of the operands.
SOthers ==
    /\ \A k \in DOMAIN job.args : Intact(k)' => Untouched(job, fs', k)
    /\ \A k \in DOMAIN job.args : k > arg => \A p \in Places(job, k) : OldLinks(job, fs', p)
    /\ \A i \in 2 .. Len(stack) : ToWrite(job, fs', stack[i])

\* As long as nothing is removed the operand being worked on is intact.
LEMMA IntactBefore ==
    ASSUME UNCHANGED <<job, arg>>, stack # <<>>, top.pc \notin RemovePcs, NEW k, Intact(k)'
    PROVE  Intact(k)
    BY DEF Intact

LEMMA IntactAhead ==
    ASSUME UNCHANGED <<job, arg>>, job.cmd # "cp", NEW k, Intact(k)',
           IF stack' = <<>> THEN ret' # "call" ELSE top'.pc \in RemovePcs
    PROVE  k > arg
    BY DEF Intact

LEMMA GentleOthers ==
    ASSUME IInv, PInv, SInv, stack # <<>>, Gentle(fs, fs'),
           \A k \in DOMAIN job.args : Intact(k)' => Untouched(job, fs', k)
    PROVE  SOthers
<1>1. \A p : OldLinks(job, fs, p) => OldLinks(job, fs', p)  BY OldStay
<1>2. \A k \in DOMAIN job.args : k > arg => \A p \in Places(job, k) : OldLinks(job, fs', p)
    BY <1>1 DEF SInv, Pending
<1>3. \A i \in 2 .. Len(stack) : ToWrite(job, fs', stack[i])  BY SFacts, WriteStays
<1> QED  BY <1>2, <1>3 DEF SOthers

LEMMA SameOthers ==
    ASSUME IInv, PInv, SInv, stack # <<>>, UNCHANGED <<job, arg, fs>>, top.pc \notin RemovePcs
    PROVE  SOthers
<1>1. Gentle(fs, fs')  BY DEF Gentle
<1>2. \A k \in DOMAIN job.args : Intact(k)' => Untouched(job, fs', k)  BY IntactBefore DEF SInv
<1> QED  BY <1>1, <1>2, GentleOthers

\* A step of a copy that leaves the operands alone and makes no link.
LEMMA CopyOthers ==
    ASSUME IInv, PInv, SInv, stack # <<>>, UNCHANGED <<job, arg>>, top.pc \in CopyPcs,
           Gentle(fs, fs'),
           \A k \in DOMAIN job.args : Untouched(job, fs, k) => Untouched(job, fs', k)
    PROVE  SOthers
<1>1. top.pc \notin RemovePcs  BY DEF CopyPcs, RemovePcs
<1>2. \A k \in DOMAIN job.args : Intact(k)' => Untouched(job, fs', k)
    BY <1>1, IntactBefore DEF SInv
<1> QED  BY <1>2, GentleOthers

\* Other than in the calls, SInv' is what SOthers says.
LEMMA SAfter ==
    ASSUME IInv, PInv, SInv, stack # <<>>, SOthers, UNCHANGED <<job, arg, final>>,
           stack' # <<>> \/ ret' # "call", stack' # <<>> => Copies(job, fs', stack'),
           stack' # <<>> /\ top'.pc = "copied" => ret' # "call"
    PROVE  SInv'
<1>1. \A k \in DOMAIN job.args : Pending(k)' => k > arg  BY DEF Pending
<1>2. /\ job'.cmd # "rm" /\ Apart(job')
      /\ \A k \in DOMAIN job'.args : Intact(k)' => Untouched(job', fs', k)
    BY DEF SInv, SOthers
<1>3. \A k \in DOMAIN job'.args : Pending(k)' => \A p \in Places(job', k) : OldLinks(job', fs', p)
    BY <1>1 DEF SOthers
<1>4. stack' # <<>> => final' \in Places(job', arg') /\ Copies(job', fs', stack')  BY DEF SInv
<1> QED  BY <1>2, <1>3, <1>4 DEF SInv, Pending, Intact, top

\* Removals are called by removals.
LEMMA ScanBelow ==
    ASSUME IInv, PInv, stack # <<>>, top.pc \in RemovePcs, stack' = Tail(stack), stack' # <<>>
    PROVE  top'.pc \in RemovePcs
<1>1. /\ stack \in Seq(Frames) /\ Len(stack) \in Nat /\ Len(Tail(stack)) = Len(stack) - 1
      /\ \A i \in 1 .. (Len(stack) - 1) : Tail(stack)[i] = stack[i + 1]
      /\ Tail(stack) \in Seq(Frames)
    BY PFacts, TailIs
<1> DEFINE r == Tail(stack)
<1> HIDE DEF r
<1>2. r # <<>> /\ r \in Seq(Frames)  BY <1>1 DEF r
<1>3. Len(r) \in Nat /\ Len(r) # 0  BY <1>2, EmptySeq, LenProperties
<1>4. 1 \in 1 .. (Len(stack) - 1) /\ 2 \in 2 .. Len(stack)  BY <1>1, <1>3 DEF r
<1>5. top' = stack[2]  BY <1>1, <1>4 DEF top
<1>6. Inside(top, stack[2])  BY <1>4, PFacts
<1> QED  BY <1>5, <1>6 DEF Inside, RemovePcs

LEMMA TopBecomes ==
    ASSUME IInv, stack # <<>>, NEW f \in Frames, Become(f)
    PROVE  stack' # <<>> /\ top' = f
<1> DEFINE z == <<f>> \o Tail(stack)
<1>1. stack \in Seq(Frames)  BY DEF IInv, StackOK
<1>2. Len(z) = Len(stack) /\ Len(stack) \in Nat /\ Len(stack) # 0 /\ z[1] = f
    BY <1>1, BecomeIs, EmptySeq, LenProperties
<1>3. stack' = z  BY DEF Become
<1> HIDE DEF z
<1>4. z # <<>>  BY <1>2, EmptySeq
<1> QED  BY <1>2, <1>3, <1>4 DEF top

LEMMA TopCalls ==
    ASSUME IInv, stack # <<>>, NEW f \in Frames, NEW g \in Frames, Call(f, g)
    PROVE  stack' # <<>> /\ top' = g
<1> DEFINE z == <<g, f>> \o Tail(stack)
<1>1. stack \in Seq(Frames)  BY DEF IInv, StackOK
<1>2. Len(z) = Len(stack) + 1 /\ Len(stack) \in Nat /\ z[1] = g
    BY <1>1, CallIs, LenProperties
<1>3. stack' = z  BY DEF Call
<1> HIDE DEF z
<1>4. z # <<>>  BY <1>2, EmptySeq
<1> QED  BY <1>2, <1>3, <1>4 DEF top

LEMMA SReturns ==
    ASSUME IInv, PInv, SInv, stack # <<>>, SOthers, NEW v, v # "call", Return(v),
           UNCHANGED <<job, arg, final>>
    PROVE  SInv'
<1>1. stack \in Seq(Frames) /\ Copies(job, fs, stack)  BY PFacts DEF SInv
<1>2. Copies(job, fs', Tail(stack))  BY <1>1, CopiesReturn DEF SOthers
<1>3. stack' = Tail(stack) /\ ret' # "call"  BY DEF Return
<1> QED  BY <1>2, <1>3, SAfter

LEMMA SBecomes ==
    ASSUME IInv, PInv, SInv, stack # <<>>, SOthers, NEW f \in Frames, f.dst = top.dst,
           f.pc # "copied", ToWrite(job, fs', f), Become(f), UNCHANGED <<job, arg, final>>
    PROVE  SInv'
<1>1. stack \in Seq(Frames) /\ top = stack[1] /\ Copies(job, fs, stack)  BY PFacts DEF SInv
<1>2. \A i \in 2 .. Len(stack) : Nested(stack[1], stack[i]) => Nested(f, stack[i])
    BY <1>1 DEF Nested
<1> DEFINE z == <<f>> \o Tail(stack)
<1>3. Copies(job, fs', z)  BY <1>1, <1>2, CopiesBecome DEF SOthers
<1>4. Len(z) = Len(stack) /\ Len(stack) \in Nat /\ Len(stack) # 0
    BY <1>1, BecomeIs, EmptySeq, LenProperties
<1>5. stack' = z  BY DEF Become
<1> HIDE DEF z
<1>6. z # <<>>  BY <1>4, EmptySeq
<1>7. top' = f  BY TopBecomes
<1> QED  BY <1>3, <1>5, <1>6, <1>7, SAfter

LEMMA SRejects ==
    ASSUME IInv, PInv, SInv, stack # <<>>, NEW v, v # "call", Reject(v),
           UNCHANGED <<job, arg, final>>
    PROVE  SInv'
<1>1. UNCHANGED fs /\ Return(v) /\ stack' = Tail(stack) /\ ret' = v  BY DEF Reject, Return
<1>2. CASE top.pc \notin RemovePcs  BY <1>1, <1>2, SameOthers, SReturns
<1>3. CASE top.pc \in RemovePcs
    <2>1. IF stack' = <<>> THEN ret' # "call" ELSE top'.pc \in RemovePcs
        BY <1>1, <1>3, ScanBelow
    <2>2. job.cmd # "cp"  BY <1>3, PFacts DEF OnCourse
    <2>3. \A k \in DOMAIN job.args : Intact(k)' => Untouched(job, fs', k)
        BY <1>1, <2>1, <2>2, IntactAhead DEF SInv, Intact
    <2>4. Gentle(fs, fs')  BY <1>1 DEF Gentle
    <2> QED  BY <1>1, <2>3, <2>4, GentleOthers, SReturns
<1> QED  BY <1>2, <1>3

\* What a step at this operand and its place leaves of the next ones.
LEMMA NextUntouched ==
    ASSUME IInv, PInv, SInv, stack # <<>>, NEW u, IsTree(u),
           \A q \in DOMAIN fs \cup DOMAIN u :
               \/ q \in DOMAIN fs \cap DOMAIN u /\ fs[q] = u[q]
               \/ IsPrefix(Source1, q) \/ IsPrefix(final, q),
           NEW k \in DOMAIN job.args, k > arg
    PROVE  /\ Untouched(job, u, k)
           /\ \A p \in Places(job, k) : OldLinks(job, u, p)
<1>1. \A q \in DOMAIN fs \cup DOMAIN u : q \in Seq(Name)  BY DEF IInv, IsTree
<1>2. k # arg
    <2>1. job.args \in Seq(Seq(Node) \ {<<>>})  BY FsAssumption DEF IInv, Node
    <2> QED  BY <2>1, LenProperties DEF IInv
<1>3. Untouched(job, fs, k) /\ \A p \in Places(job, k) : OldLinks(job, fs, p)
    BY DEF SInv, Pending, Intact
<1>4. \A q \in DOMAIN fs \cup DOMAIN u : IsPrefix(job.args[k], q)
          => q \in DOMAIN fs \cap DOMAIN u /\ fs[q] = u[q]
    BY <1>1, <1>2, OperandsAside
<1>5. Untouched(job, u, k)  BY <1>3, <1>4 DEF Untouched
<1>6. ASSUME NEW p \in Places(job, k) PROVE OldLinks(job, u, p)
    <2>1. \A q \in DOMAIN fs \cup DOMAIN u : IsPrefix(p, q)
              => q \in DOMAIN fs \cap DOMAIN u /\ fs[q] = u[q]
        BY <1>1, <1>2, PlacesAside
    <2> QED  BY <1>3, <2>1 DEF OldLinks
<1> QED  BY <1>5, <1>6

\* A step that removes something of the operand.
LEMMA RemovalOthers ==
    ASSUME IInv, PInv, SInv, stack # <<>>, IsTree(fs'), UNCHANGED <<job, arg>>,
           job.cmd # "cp", UNCHANGED fs \/ \E p : IsPrefix(Source1, p) /\ fs' = Without(fs, p),
           IF stack' = <<>> THEN ret' # "call" ELSE top'.pc \in RemovePcs
    PROVE  SOthers
<1>1. Gentle(fs, fs')
    <2>1. CASE UNCHANGED fs  BY <2>1 DEF Gentle
    <2>2. CASE \E p : fs' = Without(fs, p)  BY <2>2, WithoutGentle
    <2> QED  BY <2>1, <2>2
<1>2. \A q \in DOMAIN fs \cup DOMAIN fs' :
          \/ q \in DOMAIN fs \cap DOMAIN fs' /\ fs[q] = fs'[q]
          \/ IsPrefix(Source1, q) \/ IsPrefix(final, q)
    BY DEF Without
<1>3. \A k \in DOMAIN job.args : Intact(k)' => Untouched(job, fs', k)
    BY <1>2, IntactAhead, NextUntouched
<1> QED  BY <1>1, <1>3, GentleOthers

LEMMA SCalls ==
    ASSUME IInv, PInv, SInv, stack # <<>>, SOthers, NEW f \in Frames, NEW g \in Frames,
           ToWrite(job, fs', f), ToWrite(job, fs', g), Nested(g, f), g.pc # "copied",
           \A i \in 2 .. Len(stack) : Nested(top, stack[i]) => Nested(f, stack[i]) /\ Nested(g, stack[i]),
           Call(f, g), UNCHANGED <<job, arg, final>>
    PROVE  SInv'
<1> DEFINE z == <<g, f>> \o Tail(stack)
<1>1. stack \in Seq(Frames) /\ Copies(job, fs, stack) /\ top = stack[1]
    BY PFacts DEF SInv
<1>2. Copies(job, fs', z)
    <2>1. \A i \in 2 .. Len(stack) : Nested(stack[1], stack[i])
              => Nested(f, stack[i]) /\ Nested(g, stack[i])
        BY <1>1
    <2> QED  BY <1>1, <2>1, CopiesCall DEF SOthers
<1>3. stack' = z  BY DEF Call
<1> HIDE DEF z
<1>4. Copies(job, fs', stack')  BY <1>2, <1>3
<1> QED  BY <1>4, TopCalls, SAfter

LEMMA SCopyNothing == IInv /\ PInv /\ SInv /\ CopyNothing => SInv'
<1> SUFFICES ASSUME IInv, PInv, SInv, CopyNothing PROVE SInv'
    OBVIOUS
<1>1. stack # <<>> /\ UNCHANGED <<job, arg, final>> /\ \E v : v # "call" /\ Reject(v)
    BY DEF CopyNothing, Copying
<1> QED  BY <1>1, SRejects

LEMMA SReadDone == IInv /\ PInv /\ SInv /\ (CopyEof \/ DirectoryCopied) => SInv'
<1> SUFFICES ASSUME IInv, PInv, SInv, CopyEof \/ DirectoryCopied PROVE SInv'
    OBVIOUS
<1>1. stack # <<>> /\ UNCHANGED <<job, arg, final>> /\ Reject("ok")
    BY DEF CopyEof, DirectoryCopied, At
<1> QED  BY <1>1, SRejects

LEMMA SEntryCopied == IInv /\ PInv /\ SInv /\ EntryCopied => SInv'
<1> SUFFICES ASSUME IInv, PInv, SInv, EntryCopied PROVE SInv'
    OBVIOUS
<1>1. stack # <<>> /\ ret # "call" /\ top.pc = "list" /\ UNCHANGED <<job, arg, final>>  BY DEF EntryCopied, At
<1>2. CASE Reject(ret)  BY <1>1, <1>2, SRejects
<1>3. CASE UNCHANGED <<stack, fs>>
    BY <1>1, <1>3 DEF SInv, Pending, Intact, top
<1> QED  BY <1>2, <1>3 DEF EntryCopied

LEMMA SCallFails == IInv /\ PInv /\ SInv /\ CallFails => SInv'
<1> SUFFICES ASSUME IInv, PInv, SInv, CallFails PROVE SInv'
    OBVIOUS
<1>1. stack # <<>> /\ UNCHANGED <<job, arg, final>> /\ Reject("EIO")  BY DEF CallFails
<1> QED  BY <1>1, SRejects

LEMMA SCopyRegular == IInv /\ PInv /\ SInv /\ CopyRegular => SInv'
<1> SUFFICES ASSUME IInv, PInv, SInv, CopyRegular PROVE SInv'
    OBVIOUS
<1> DEFINE out == Real(fs, top.dst)
           o == [kind |-> "file", body |-> <<>>]
           f == [top EXCEPT !.pc = "data", !.in = Source, !.out = out]
<1>1. /\ stack # <<>> /\ UNCHANGED <<job, arg, final>> /\ top.pc \in CopyPcs
      /\ top.pc \in {"copy", "follow"}
    BY DEF CopyRegular, Copying, CopyPcs
<1>2. \/ \E v : v # "call" /\ Reject(v)
      \/ fs' = Put(fs, out, o) /\ Become(f)
    BY DEF CopyRegular
<1>3. CASE \E v : v # "call" /\ Reject(v)  BY <1>1, <1>3, SRejects
<1>4. CASE fs' = Put(fs, out, o) /\ Become(f)
    <2>1. out = Follow(fs, top.dst)  BY <1>1, TouchDst DEF Real
    <2>2. top \in Frames /\ Source \in Seq(Node) /\ out \in Seq(Node)
        BY <1>1, TopIs, SourceType, NameIsNode
    <2>3. f \in Frames /\ f.pc = "data" /\ f.out = out /\ f.dst = top.dst
        <3> HIDE DEF out
        <3> QED  BY <2>2 DEF Frames, Pcs
    <2>4. o.kind # "link"  OBVIOUS
    <2> HIDE DEF out, f, o
    <2>5. OldLinks(job, fs, top.dst)  BY <1>1, SFacts DEF ToWrite
    <2>6. ~Under(job, out)  BY <1>1, <2>1, <2>5, PlaceApart DEF Follow
    <2>7. Gentle(fs, fs')  BY <1>4, <2>4, PutGentle
    <2>8. \A k \in DOMAIN job.args : Untouched(job, fs, k) => Untouched(job, fs', k)
        BY <1>4, <2>6, UntouchedPut DEF Under
    <2>9. SOthers  BY <1>1, <2>7, <2>8, CopyOthers
    <2>10. ToWrite(job, fs', f)  BY <2>3, <2>6 DEF ToWrite
    <2> QED  BY <1>1, <1>4, <2>3, <2>9, <2>10, SBecomes
<1> QED  BY <1>2, <1>3, <1>4

LEMMA SCopyChunk == IInv /\ PInv /\ SInv /\ CopyChunk => SInv'
<1> SUFFICES ASSUME IInv, PInv, SInv, CopyChunk PROVE SInv'
    OBVIOUS
<1> DEFINE k == top.off + 1
           f == [top EXCEPT !.off = k]
           b == Append(fs[top.out].body, fs[top.in].body[top.off + 1])
<1>1. /\ stack # <<>> /\ UNCHANGED <<job, arg, final>> /\ top.pc = "data"
      /\ Become(f) /\ fs' = [fs EXCEPT ![top.out].body = b]
    BY DEF CopyChunk, At
<1>2. top \in Frames /\ Kind(fs, top.out) = "file" /\ k \in Nat
    BY <1>1, TopIs DEF OnTop, Frames
<1> HIDE DEF k, b
<1>3. f \in Frames /\ f.pc = "data" /\ f.out = top.out /\ f.dst = top.dst
    BY <1>1, <1>2 DEF Frames
<1> HIDE DEF f
<1>4. ~Under(job, top.out)  BY <1>1, SFacts DEF ToWrite
<1>5. /\ IsTree(fs) /\ top.out \in DOMAIN fs
      /\ fs[top.out] \in [kind : {"file"}, body : Seq(Chunk)]
    BY <1>2 DEF IInv, Kind, IsTree, Object
<1>6. DOMAIN fs' = DOMAIN fs /\ (\A q \in DOMAIN fs : q # top.out => fs'[q] = fs[q])
    BY <1>1
<1>7. fs'[top.out].kind = "file"
    <2>1. fs'[top.out] = [fs[top.out] EXCEPT !.body = b]  BY <1>1, <1>5
    <2> QED  BY <1>5, <2>1
<1>8. Gentle(fs, fs')  BY <1>6, <1>7 DEF Gentle
<1>9. \A i \in DOMAIN job.args : Untouched(job, fs, i) => Untouched(job, fs', i)
    BY <1>4, <1>6 DEF Untouched, Under
<1>10. SOthers
    <2>1. top.pc \in CopyPcs  BY <1>1 DEF CopyPcs
    <2> QED  BY <1>1, <1>8, <1>9, <2>1, CopyOthers
<1>11. ToWrite(job, fs', f)  BY <1>3, <1>4 DEF ToWrite
<1> QED  BY <1>1, <1>3, <1>10, <1>11, SBecomes

\* A copy that goes on in another way before it has made its link.
LEMMA SCopyGoesOn ==
    ASSUME IInv, PInv, SInv, stack # <<>>, top.pc \in {"copy", "follow", "symlink"},
           Gentle(fs, fs'),
           \A k \in DOMAIN job.args : Untouched(job, fs, k) => Untouched(job, fs', k),
           NEW f \in Frames, f.dst = top.dst, f.pc \in {"follow", "symlink"},
           Become(f), UNCHANGED <<job, arg, final>>
    PROVE  SInv'
<1>1. SOthers
    <2>1. top.pc \in CopyPcs  BY DEF CopyPcs
    <2> QED  BY <2>1, CopyOthers
<1>2. OldLinks(job, fs', f.dst)  BY SFacts, OldStay DEF ToWrite
<1>3. ToWrite(job, fs', f)  BY <1>2 DEF ToWrite
<1> QED  BY <1>1, <1>3, SBecomes

LEMMA SCopySymlink == IInv /\ PInv /\ SInv /\ CopySymlink => SInv'
<1> SUFFICES ASSUME IInv, PInv, SInv, CopySymlink PROVE SInv'
    OBVIOUS
<1> DEFINE d == Walk(fs, top.dst)
           g == [top EXCEPT !.pc = "follow"]
           f == [top EXCEPT !.pc = "symlink", !.out = d, !.text = fs[Source].body]
<1>1. /\ stack # <<>> /\ UNCHANGED <<job, arg, final>> /\ Kind(fs, Source) = "link"
      /\ top.pc \in CopyPcs /\ top.pc = "copy"
    BY DEF CopySymlink, Copying, CopyPcs
<1>2. d = top.dst /\ d \in Seq(Node) /\ ~Under(job, d)  BY <1>1, TouchDst, NameIsNode, PlaceApart
<1>3. top \in Frames /\ fs[Source].body \in Seq(Name)
    BY <1>1, TopIs DEF IInv, IsTree, Kind, Object
<1>4. \/ Become(g) /\ UNCHANGED fs
      \/ fs' = Without(fs, d) /\ Become(f)
    BY DEF CopySymlink
<1> HIDE DEF d
<1>6. CASE Become(g) /\ UNCHANGED fs
    <2>1. g \in Frames /\ g.pc = "follow" /\ g.dst = top.dst  BY <1>3 DEF Frames, Pcs
    <2> HIDE DEF g
    <2>2. Gentle(fs, fs')  BY <1>6 DEF Gentle
    <2> QED  BY <1>1, <1>6, <2>1, <2>2, SCopyGoesOn
<1>7. CASE fs' = Without(fs, d) /\ Become(f)
    <2>1. f \in Frames /\ f.pc = "symlink" /\ f.dst = top.dst
        BY <1>2, <1>3 DEF Frames, Pcs
    <2> HIDE DEF f
    <2>2. Gentle(fs, fs')  BY <1>7, WithoutGentle
    <2>3. \A k \in DOMAIN job.args : Untouched(job, fs, k) => Untouched(job, fs', k)
        BY <1>2, <1>7, UntouchedWithout DEF Under
    <2> QED  BY <1>1, <1>7, <2>1, <2>2, <2>3, SCopyGoesOn
<1> QED  BY <1>4, <1>6, <1>7

LEMMA SCopySymlinkFails == IInv /\ PInv /\ SInv /\ CopySymlinkFails => SInv'
<1> SUFFICES ASSUME IInv, PInv, SInv, CopySymlinkFails PROVE SInv'
    OBVIOUS
<1> DEFINE g == [top EXCEPT !.pc = "follow"]
<1>1. /\ stack # <<>> /\ UNCHANGED <<job, fs, arg, final>> /\ Become(g)
      /\ top.pc \in {"copy", "symlink"}
    BY DEF CopySymlinkFails, Copying, At
<1>2. g \in Frames /\ g.pc = "follow" /\ g.dst = top.dst  BY <1>1, TopIs DEF Frames, Pcs
<1> HIDE DEF g
<1>3. Gentle(fs, fs')  BY <1>1 DEF Gentle
<1> QED  BY <1>1, <1>2, <1>3, SCopyGoesOn

LEMMA OldPut ==
    ASSUME NEW j, NEW t, NEW p, NEW o, NEW r, OldLinks(j, t, r), ~IsPrefix(r, p)
    PROVE  OldLinks(j, Put(t, p, o), r)
    BY DEF OldLinks, Put

LEMMA SSymlink == IInv /\ PInv /\ SInv /\ Symlink => SInv'
<1> SUFFICES ASSUME IInv, PInv, SInv, Symlink PROVE SInv'
    OBVIOUS
<1> DEFINE g == [top EXCEPT !.pc = "follow"]
           o == [kind |-> "link", body |-> top.text]
           p == top.dst
<1>1. /\ stack # <<>> /\ UNCHANGED <<job, arg, final>> /\ top.pc = "symlink" /\ top.pc \in CopyPcs
    BY DEF Symlink, At, CopyPcs
<1>2. top \in Frames  BY <1>1, TopIs
<1>3. top.out = p /\ p \in Seq(Name) /\ IsPrefix(final, p)
    BY <1>1, PFacts DEF OnCourse, Direct
<1>4. \/ fs' = Put(fs, top.out, o) /\ Return("ok")
      \/ Become(g) /\ UNCHANGED fs
    BY DEF Symlink
<1>5. ~Under(job, p)  BY <1>1, PlaceApart
<1>6. CASE fs' = Put(fs, top.out, o) /\ Return("ok")
    <2> HIDE DEF o, p
    <2>1. fs' = Put(fs, p, o)  BY <1>3, <1>6
    <2>2. \A k \in DOMAIN job.args : Intact(k)' => Untouched(job, fs', k)
        <3>1. \A k \in DOMAIN job.args : Untouched(job, fs, k) => Untouched(job, fs', k)
            BY <1>5, <2>1, UntouchedPut DEF Under
        <3>2. top.pc \notin RemovePcs  BY <1>1 DEF RemovePcs
        <3> QED  BY <1>1, <3>1, <3>2, IntactBefore DEF SInv
    <2>3. ASSUME NEW k \in DOMAIN job.args, k > arg, NEW r \in Places(job, k)
          PROVE  OldLinks(job, fs', r)
        <3>1. OldLinks(job, fs, r)  BY <2>3 DEF SInv, Pending
        <3>2. k # arg
            <4>1. job.args \in Seq(Seq(Node) \ {<<>>})  BY FsAssumption DEF IInv, Node
            <4> QED  BY <2>3, <4>1, LenProperties DEF IInv
        <3>3. ~IsPrefix(r, p)  BY <1>1, <1>3, <3>2, PlacesAside
        <3> QED  BY <2>1, <3>1, <3>3, OldPut
    <2>4. ASSUME NEW i \in 2 .. Len(stack) PROVE ToWrite(job, fs', stack[i])
        <3> DEFINE h == stack[i]
        <3>1. ToWrite(job, fs, h) /\ Nested(top, h)  BY <1>1, <2>4, SFacts
        <3>2. OnCourse(job.cmd, fs, Source1, final, h)  BY <1>1, <2>4, PFacts
        <3> HIDE DEF h
        <3>3. h.pc \in {"list", "scan", "copied"}  BY <1>1, <2>4, PFacts DEF h
        <3> SUFFICES ASSUME h.pc = "list" PROVE ToWrite(job, fs', h)
            BY <3>3 DEF ToWrite, h
        <3>4. PICK n \in h.seen : IsPrefix(Append(h.dst, n), p)  BY <3>1 DEF Nested, p
        <3>8. h.dst \in Seq(Name)  BY <3>2 DEF OnCourse, CopyPcs, Direct
        <3>5. h.seen \subseteq Name
            <4>1. stack \in Seq(Frames) /\ Len(stack) \in Nat  BY <1>1, PFacts, LenProperties
            <4>2. i \in 1 .. Len(stack)  BY <2>4, <4>1
            <4>3. h \in Frames  BY <4>1, <4>2, ElementOfSeq DEF h
            <4> QED  BY <4>3 DEF Frames
        <3>6. ASSUME NEW m \in Name \ h.seen PROVE OldLinks(job, fs', Append(h.dst, m))
            <4>1. OldLinks(job, fs, Append(h.dst, m))  BY <3>1 DEF ToWrite
            <4>2. ~IsPrefix(Append(h.dst, m), p)
                BY <1>3, <3>4, <3>8, <3>5, NamesApart
            <4> QED  BY <2>1, <4>1, <4>2, OldPut
        <3> QED  BY <3>6 DEF ToWrite
    <2>5. SOthers  BY <2>2, <2>3, <2>4 DEF SOthers
    <2> QED  BY <1>1, <1>6, <2>5, SReturns
<1>7. CASE Become(g) /\ UNCHANGED fs
    <2>1. g \in Frames /\ g.pc = "follow" /\ g.dst = top.dst  BY <1>2 DEF Frames, Pcs
    <2> HIDE DEF g
    <2>2. Gentle(fs, fs')  BY <1>7 DEF Gentle
    <2> QED  BY <1>1, <1>7, <2>1, <2>2, SCopyGoesOn
<1> QED  BY <1>4, <1>6, <1>7

LEMMA SCopyDirectory == IInv /\ PInv /\ SInv /\ IInv' /\ CopyDirectory => SInv'
<1> SUFFICES ASSUME IInv, PInv, SInv, IInv', CopyDirectory PROVE SInv'
    OBVIOUS
<1> DEFINE d == Walk(fs, top.dst)
           new == IF Kind(fs, d) = "none" THEN Put(fs, d, Dir) ELSE fs
           m == Entries(new, Source)
           f == [top EXCEPT !.pc = "list", !.in = Source, !.must = m]
<1>1. /\ stack # <<>> /\ UNCHANGED <<job, arg, final>> /\ top.pc \in CopyPcs
      /\ top.pc \in {"copy", "follow"}
    BY DEF CopyDirectory, Copying, CopyPcs
<1>2. d = top.dst /\ d \in Seq(Name) /\ ~Under(job, d)  BY <1>1, TouchDst, PlaceApart
<1>3. \/ \E v : v # "call" /\ Reject(v)
      \/ fs' = new /\ Become(f)
    BY DEF CopyDirectory
<1> HIDE DEF d
<1>4. CASE \E v : v # "call" /\ Reject(v)  BY <1>1, <1>4, SRejects
<1>5. CASE fs' = new /\ Become(f)
    <2>1. top \in Frames /\ Source \in Seq(Node)  BY <1>1, TopIs, SourceType
    <2>2. m \in SUBSET Name  BY <1>5, <2>1, EntriesType DEF IInv
    <2> HIDE DEF m
    <2>3. f \in Frames /\ f.pc = "list" /\ f.dst = top.dst
        BY <2>1, <2>2 DEF Frames, Pcs
    <2> HIDE DEF f
    <2>4. Dir.kind # "link"  BY DEF Dir
    <2>5. Gentle(fs, fs') /\ \A k \in DOMAIN job.args : Untouched(job, fs, k) => Untouched(job, fs', k)
        <3>1. CASE fs' = Put(fs, d, Dir)
            BY <1>2, <2>4, <3>1, PutGentle, UntouchedPut DEF Under
        <3>2. CASE UNCHANGED fs  BY <3>2 DEF Gentle
        <3> QED  BY <1>5, <3>1, <3>2
    <2>6. SOthers  BY <1>1, <2>5, CopyOthers
    <2>7. OldLinks(job, fs', d)  BY <1>1, <1>2, <2>5, SFacts, OldStay DEF ToWrite
    <2>8. ASSUME NEW n \in Name PROVE OldLinks(job, fs', Append(d, n))
        <3>1. Append(d, n) \in Seq(Name) /\ IsPrefix(d, Append(d, n))  BY <1>2, PrefixOfAppend
        <3>2. IsTree(fs')  BY DEF IInv
        <3> QED  BY <1>2, <2>7, <3>1, <3>2, OldBelow
    <2>9. ToWrite(job, fs', f)  BY <1>2, <2>3, <2>8 DEF ToWrite
    <2> QED  BY <1>1, <1>5, <2>3, <2>6, <2>9, SBecomes
<1> QED  BY <1>3, <1>4, <1>5

LEMMA SCopyEntry == IInv /\ PInv /\ SInv /\ CopyEntry => SInv'
<1> SUFFICES ASSUME IInv, PInv, SInv, CopyEntry PROVE SInv'
    OBVIOUS
<1>1. stack # <<>> /\ top.pc = "list" /\ top.pc \in CopyPcs /\ UNCHANGED <<job, arg, final>>
    BY DEF CopyEntry, At, CopyPcs
<1>2. top \in Frames /\ IsTree(fs)  BY <1>1, TopIs DEF IInv
<1>3. PICK n \in Entries(fs, top.in) \ top.seen :
          IF TooLong(top.src) \/ TooLong(top.dst) THEN Reject("ENAMETOOLONG")
          ELSE /\ Call([top EXCEPT !.seen = @ \cup {n}],
                       Frame("copy", Append(top.src, n), Append(top.dst, n)))
               /\ UNCHANGED fs
    BY DEF CopyEntry
<1>4. n \in Name /\ n \in Node /\ n \notin top.seen
    <2>1. top.in \in Seq(Node)  BY <1>2 DEF Frames
    <2> QED  BY <1>2, <1>3, <2>1, EntriesType DEF Node
<1>5. CASE Reject("ENAMETOOLONG")  BY <1>1, <1>5, SRejects
<1>6. CASE ~Reject("ENAMETOOLONG")
    <2> DEFINE w == top.seen \cup {n}
               f == [top EXCEPT !.seen = w]
               s == Append(top.src, n)
               d == Append(top.dst, n)
               g == Frame("copy", s, d)
               z == <<g, f>> \o Tail(stack)
    <2>1. stack' = z /\ UNCHANGED <<fs, ret>>
        BY <1>3, <1>6 DEF Call
    <2>2. w \in SUBSET Name /\ n \in w /\ top.seen \subseteq w  BY <1>2, <1>4 DEF Frames
    <2> HIDE DEF w
    <2>3. f \in Frames /\ f.dst = top.dst /\ f.pc = "list" /\ f.seen = w
        BY <1>1, <1>2, <2>2 DEF Frames
    <2>4. s \in Seq(Node) /\ d \in Seq(Node)  BY <1>2, <1>4, AppendProperties DEF Frames
    <2>5. top.dst \in Seq(Name)  BY <1>1, PFacts DEF OnCourse, Direct
    <2>6. d \in Seq(Name) /\ IsPrefix(top.dst, d) /\ IsPrefix(d, d)
        BY <1>4, <2>5, PrefixOfAppend, PrefixSelf
    <2>7. g \in Frames /\ g.dst = d /\ g.pc = "copy"
        <3> HIDE DEF s, d
        <3> QED  BY <2>4, FrameIs DEF Pcs
    <2>8. ToWrite(job, fs, top)  BY <1>1, SFacts
    <2>9. ToWrite(job, fs, f) /\ ToWrite(job, fs, g)
        <3>1. \A m \in Name \ w : m \in Name \ top.seen  BY <2>2
        <3>2. \A m \in Name \ w : OldLinks(job, fs, Append(top.dst, m))
            BY <1>1, <2>8, <3>1 DEF ToWrite
        <3>3. OldLinks(job, fs, d)  BY <1>1, <1>4, <2>8 DEF ToWrite
        <3> HIDE DEF f, g, d
        <3> QED  BY <2>3, <2>7, <3>2, <3>3 DEF ToWrite
    <2>10. Nested(g, f)  BY <2>2, <2>3, <2>6, <2>7 DEF Nested
    <2>11. ASSUME NEW i \in 2 .. Len(stack), Nested(top, stack[i])
           PROVE  Nested(f, stack[i]) /\ Nested(g, stack[i])
        <3> DEFINE h == stack[i]
        <3>1. OnCourse(job.cmd, fs, Source1, final, h)  BY <1>1, <2>11, PFacts
        <3> SUFFICES ASSUME h.pc = "list" PROVE Nested(f, h) /\ Nested(g, h)
            BY DEF Nested, h
        <3>2. h.seen \subseteq Name
            <4>1. stack \in Seq(Frames) /\ Len(stack) \in Nat  BY <1>1, PFacts, LenProperties
            <4>2. i \in 1 .. Len(stack)  BY <2>11, <4>1
            <4>3. h \in Frames  BY <4>1, <4>2, ElementOfSeq DEF h
            <4> QED  BY <4>3 DEF Frames
        <3>3. PICK x \in h.seen : IsPrefix(Append(h.dst, x), top.dst)  BY <2>11 DEF Nested
        <3> HIDE DEF h, f, g, d
        <3>4. h.dst \in Seq(Name)  BY <3>1 DEF OnCourse, CopyPcs, Direct
        <3>5. Append(h.dst, x) \in Seq(Name)  BY <3>2, <3>3, <3>4, AppendProperties
        <3>6. IsPrefix(Append(h.dst, x), d)  BY <2>5, <2>6, <3>3, <3>5, PrefixTransitive
        <3> QED  BY <2>3, <2>7, <3>3, <3>6 DEF Nested
    <2> HIDE DEF f, g, s, d
    <2>12. SOthers
        <3>1. top.pc \notin RemovePcs  BY <1>1 DEF RemovePcs
        <3> QED  BY <1>1, <2>1, <3>1, SameOthers
    <2>13. ToWrite(job, fs', f) /\ ToWrite(job, fs', g)  BY <2>1, <2>9
    <2>14. Call(f, g)  BY <2>1 DEF Call
    <2> QED  BY <1>1, <2>3, <2>7, <2>10, <2>11, <2>12, <2>13, <2>14, SCalls
<1> QED  BY <1>5, <1>6

LEMMA SRemoveLeaf == IInv /\ PInv /\ SInv /\ IInv' /\ RemoveLeaf => SInv'
<1> SUFFICES ASSUME IInv, PInv, SInv, IInv', RemoveLeaf PROVE SInv'
    OBVIOUS
<1> DEFINE p == Lookup(top.src)
           f == [top EXCEPT !.pc = "scan", !.in = p]
<1>1. /\ stack # <<>> /\ top.pc = "remove" /\ top.pc \in RemovePcs /\ UNCHANGED <<job, arg, final>>
    BY DEF RemoveLeaf, At, RemovePcs
<1>2. /\ top \in Frames /\ IsTree(fs) /\ IsTree(fs') /\ job.cmd # "cp" /\ Direct(fs, top.src)
      /\ IsPrefix(Source1, top.src)
    BY <1>1, PFacts, TopIs DEF OnCourse, RemovePcs, IInv
<1>3. p = top.src  BY <1>2, DirectWalk DEF Lookup
<1>4. \/ \E v : v # "call" /\ Reject(v)
      \/ fs' = Without(fs, p) /\ Return("ok")
      \/ Become(f) /\ UNCHANGED fs
    BY DEF RemoveLeaf
<1> HIDE DEF p
<1>5. CASE \E v : v # "call" /\ Reject(v)  BY <1>1, <1>5, SRejects
<1>6. CASE fs' = Without(fs, p) /\ Return("ok")
    <2>1. IF stack' = <<>> THEN ret' # "call" ELSE top'.pc \in RemovePcs
        BY <1>1, <1>6, ScanBelow DEF Return
    <2>2. SOthers  BY <1>1, <1>2, <1>3, <1>6, <2>1, RemovalOthers
    <2> QED  BY <1>1, <1>6, <2>2, SReturns
<1>7. CASE Become(f) /\ UNCHANGED fs
    <2>1. p \in Seq(Node)  BY <1>2, <1>3 DEF Frames
    <2>2. f \in Frames /\ f.pc = "scan" /\ f.dst = top.dst
        BY <1>2, <2>1 DEF Frames, Pcs
    <2> HIDE DEF f
    <2>4. SOthers
        <3>1. top'.pc \in RemovePcs /\ stack' # <<>>
            BY <1>1, <1>7, <2>2, TopBecomes DEF RemovePcs
        <3> QED  BY <1>1, <1>2, <1>7, <3>1, RemovalOthers
    <2>5. ToWrite(job, fs', f)  BY <2>2 DEF ToWrite
    <2> QED  BY <1>1, <1>7, <2>2, <2>4, <2>5, SBecomes
<1> QED  BY <1>4, <1>5, <1>6, <1>7

LEMMA SRemoveEntry == IInv /\ PInv /\ SInv /\ RemoveEntry => SInv'
<1> SUFFICES ASSUME IInv, PInv, SInv, RemoveEntry PROVE SInv'
    OBVIOUS
<1>1. /\ stack # <<>> /\ top.pc = "scan" /\ top.pc \in RemovePcs /\ UNCHANGED <<job, arg, final>>
    BY DEF RemoveEntry, At, RemovePcs
<1>2. top \in Frames /\ IsTree(fs) /\ job.cmd # "cp"
    BY <1>1, TopIs, PFacts DEF IInv, OnCourse
<1>3. PICK n \in Entries(fs, top.in) :
          IF TooLong(top.src) THEN Reject("ENAMETOOLONG")
          ELSE Call(top, Frame("remove", Append(top.src, n), <<>>)) /\ UNCHANGED fs
    BY DEF RemoveEntry
<1>4. n \in Name /\ n \in Node
    <2>1. top.in \in Seq(Node)  BY <1>2 DEF Frames
    <2> QED  BY <1>2, <1>3, <2>1, EntriesType DEF Node
<1>5. CASE Reject("ENAMETOOLONG")  BY <1>1, <1>5, SRejects
<1>6. CASE ~Reject("ENAMETOOLONG")
    <2> DEFINE s == Append(top.src, n)
               g == Frame("remove", s, <<>>)
    <2>1. Call(top, g) /\ UNCHANGED fs  BY <1>3, <1>6
    <2>2. s \in Seq(Node)  BY <1>2, <1>4, AppendProperties DEF Frames
    <2> HIDE DEF s
    <2>3. g \in Frames /\ g.pc = "remove"  BY <2>2, RemovalIs
    <2> HIDE DEF g
    <2>4. SOthers
        <3>1. top'.pc \in RemovePcs /\ stack' # <<>>
            BY <1>1, <1>2, <2>1, <2>3, TopCalls DEF RemovePcs
        <3>2. IsTree(fs')  BY <1>2, <2>1
        <3> QED  BY <1>1, <1>2, <2>1, <3>1, <3>2, RemovalOthers
    <2>5. ToWrite(job, fs', top) /\ ToWrite(job, fs', g)  BY <1>1, <2>3 DEF ToWrite
    <2>6. Nested(g, top)  BY <1>1 DEF Nested
    <2>7. ASSUME NEW i \in 2 .. Len(stack) PROVE Nested(top, stack[i]) /\ Nested(g, stack[i])
        <3>1. stack[i].pc = "scan"  BY <1>1, <2>7, PFacts DEF Inside
        <3> QED  BY <3>1 DEF Nested
    <2> QED  BY <1>1, <1>2, <2>1, <2>3, <2>4, <2>5, <2>6, <2>7, SCalls
<1> QED  BY <1>5, <1>6

LEMMA SEntryRemoved == IInv /\ PInv /\ SInv /\ EntryRemoved => SInv'
<1> SUFFICES ASSUME IInv, PInv, SInv, EntryRemoved PROVE SInv'
    OBVIOUS
<1>1. stack # <<>> /\ ret # "call" /\ top.pc = "scan" /\ UNCHANGED <<job, arg, final>>
    BY DEF EntryRemoved, At
<1>2. CASE Reject(ret)  BY <1>1, <1>2, SRejects
<1>3. CASE UNCHANGED <<stack, fs>>
    BY <1>1, <1>3 DEF SInv, Pending, Intact, top
<1> QED  BY <1>2, <1>3 DEF EntryRemoved

LEMMA SDirectoryRemoved == IInv /\ PInv /\ SInv /\ IInv' /\ DirectoryRemoved => SInv'
<1> SUFFICES ASSUME IInv, PInv, SInv, IInv', DirectoryRemoved PROVE SInv'
    OBVIOUS
<1>1. /\ stack # <<>> /\ top.pc = "scan" /\ top.pc \in RemovePcs /\ UNCHANGED <<job, arg, final>>
    BY DEF DirectoryRemoved, At, RemovePcs
<1>2. CASE Reject("EBUSY")  BY <1>1, <1>2, SRejects
<1>3. CASE fs' = Without(fs, top.in) /\ Return("ok")
    <2>1. job.cmd # "cp" /\ IsPrefix(Source1, top.in) /\ IsTree(fs')
        BY <1>1, PFacts DEF OnCourse, IInv
    <2>2. IF stack' = <<>> THEN ret' # "call" ELSE top'.pc \in RemovePcs
        BY <1>1, <1>3, ScanBelow DEF Return
    <2>3. SOthers  BY <1>1, <1>3, <2>1, <2>2, RemovalOthers
    <2> QED  BY <1>1, <1>3, <2>3, SReturns
<1> QED  BY <1>2, <1>3 DEF DirectoryRemoved

LEMMA SRemoveSource == IInv /\ PInv /\ SInv /\ IInv' /\ RemoveSource => SInv'
<1> SUFFICES ASSUME IInv, PInv, SInv, IInv', RemoveSource PROVE SInv'
    OBVIOUS
<1> DEFINE f == Frame("remove", top.src, <<>>)
<1>1. stack # <<>> /\ top.pc = "copied" /\ UNCHANGED <<job, arg, final>>  BY DEF RemoveSource, At
<1>2. /\ top.in = Source1 /\ top.src = Source1 /\ job.cmd = "mv" /\ Source1 \in Seq(Name)
      /\ IsTree(fs')
    BY <1>1, PFacts DEF OnCourse, Direct, IInv
<1>3. IsPrefix(Source1, Source1)  BY <1>2, PrefixSelf
<1>4. Len(stack) = 1
    <2>1. Len(stack) \in Nat /\ Len(stack) # 0
        BY <1>1, PFacts, EmptySeq, LenProperties
    <2>2. ~(2 \in 2 .. Len(stack))  BY <1>1, PFacts DEF Inside
    <2> DEFINE n == Len(stack)
    <2>3. n \in Nat /\ n # 0 /\ ~(2 \in 2 .. n)  BY <2>1, <2>2
    <2> HIDE DEF n
    <2>4. n = 1  BY <2>3
    <2> QED  BY <2>4 DEF n
<1>5. \/ ret # "call" /\ Reject(ret)
      \/ stack' = <<f>> \o Tail(stack) /\ UNCHANGED fs
      \/ fs' = Without(fs, top.in) /\ Return("ok")
    BY <1>1 DEF RemoveSource, SInv
<1>6. CASE ret # "call" /\ Reject(ret)  BY <1>1, <1>6, SRejects
<1>7. CASE stack' = <<f>> \o Tail(stack) /\ UNCHANGED fs
    <2>1. f \in Frames /\ f.pc = "remove"  BY <1>2, NameIsNode, RemovalIs
    <2> DEFINE z == <<f>> \o Tail(stack)
    <2>2. stack \in Seq(Frames) /\ Copies(job, fs, stack)  BY <1>1, PFacts DEF SInv
    <2> HIDE DEF f
    <2>3. Len(z) = 1 /\ z[1] = f  BY <1>1, <1>4, <2>1, <2>2, BecomeIs
    <2>4. stack' = z  BY <1>7
    <2> HIDE DEF z
    <2>5. z # <<>>  BY <2>3, EmptySeq
    <2>6. SOthers
        <3>1. top'.pc \in RemovePcs  BY <2>1, <2>3, <2>4 DEF top, RemovePcs
        <3> QED  BY <1>1, <1>2, <1>7, <2>4, <2>5, <3>1, RemovalOthers
    <2>7. Copies(job, fs', z)  BY <2>1, <2>3 DEF Copies, ToWrite
    <2>8. top'.pc # "copied"  BY <2>1, <2>3, <2>4 DEF top
    <2> QED  BY <1>1, <2>4, <2>5, <2>6, <2>7, <2>8, SAfter
<1>8. CASE fs' = Without(fs, top.in) /\ Return("ok")
    <2>1. stack' = <<>> /\ ret' # "call"
        <3>1. stack \in Seq(Frames)  BY <1>1, PFacts
        <3>2. Len(Tail(stack)) = 0 /\ Tail(stack) \in Seq(Frames)  BY <1>1, <1>4, <3>1, TailIs
        <3>3. Tail(stack) = <<>>  BY <3>2, EmptySeq
        <3> QED  BY <1>8, <3>3 DEF Return
    <2>2. SOthers  BY <1>1, <1>2, <1>3, <1>8, <2>1, RemovalOthers
    <2> QED  BY <1>1, <1>8, <2>2, SReturns
<1> QED  BY <1>5, <1>6, <1>7, <1>8

LEMMA SRename == IInv /\ PInv /\ SInv /\ IInv' /\ Rename => SInv'
<1> SUFFICES ASSUME IInv, PInv, SInv, IInv', Rename PROVE SInv'
    OBVIOUS
<1> DEFINE s == Walk(fs, top.src)
           d == Walk(fs, top.dst)
           e == RenameError(s, d)
           f == [top EXCEPT !.pc = "copied", !.in = s]
           c == Frame("copy", top.src, top.dst)
<1>1. stack # <<>> /\ top.pc = "move" /\ UNCHANGED <<job, arg, final>>  BY DEF Rename, At
<1>2. /\ top \in Frames /\ Len(stack) = 1 /\ IsTree(fs) /\ IsTree(fs')
    BY <1>1, TopIs DEF IInv, OnTop
<1>3. /\ job.cmd = "mv" /\ top.src = Source1 /\ top.dst = final /\ Direct(fs, final)
      /\ Direct(fs, Source1) /\ Walk(fs, Source1) = Source1
    BY <1>1, PFacts DEF OnCourse
<1>4. s = Source1 /\ d = final /\ Walk(fs, final) = final /\ s \in Seq(Name) /\ d \in Seq(Name)
    BY <1>2, <1>3, DirectWalk DEF Direct
<1>5. \/ \E v : v # "call" /\ Reject(v)
      \/ fs' = (IF s = d THEN fs ELSE Moved(fs, s, d)) /\ Return("ok")
      \/ Call(f, c) /\ UNCHANGED fs
    <2>1. CASE e = "ok"  BY <2>1 DEF Rename
    <2>2. CASE e = "EXDEV"  BY <2>2 DEF Rename
    <2>3. CASE e # "ok" /\ e # "EXDEV"
        <3>1. Reject(e)  BY <2>3 DEF Rename
        <3>2. e # "call"  BY DEF RenameError
        <3> QED  BY <3>1, <3>2
    <2> QED  BY <2>1, <2>2, <2>3
<1>6. CASE \E v : v # "call" /\ Reject(v)  BY <1>1, <1>6, SRejects
<1>7. CASE fs' = (IF s = d THEN fs ELSE Moved(fs, s, d)) /\ Return("ok")
    <2>1. \A q \in DOMAIN fs \cup DOMAIN fs' :
              \/ q \in DOMAIN fs \cap DOMAIN fs' /\ fs[q] = fs'[q]
              \/ IsPrefix(Source1, q) \/ IsPrefix(final, q)
        <3>1. CASE UNCHANGED fs  BY <3>1
        <3>2. CASE fs' = Moved(fs, s, d)
            <4> DEFINE u == Moved(fs, s, d)
            <4>1. \A q \in DOMAIN fs \cup DOMAIN u :
                      \/ q \in DOMAIN fs \cap DOMAIN u /\ fs[q] = u[q]
                      \/ IsPrefix(s, q) \/ IsPrefix(d, q)
                <5> HIDE DEF s, d
                <5> QED  BY <1>2, <1>4, MovedOnly
            <4> HIDE DEF u
            <4>2. fs' = u  BY <3>2 DEF u
            <4> HIDE DEF s, d
            <4> QED  BY <1>4, <4>1, <4>2
        <3> QED  BY <1>7, <3>1, <3>2
    <2>2. stack' = Tail(stack) /\ Tail(stack) = <<>> /\ ret' # "call"
        <3>1. stack \in Seq(Frames)  BY <1>1, PFacts
        <3>2. Len(Tail(stack)) = 0 /\ Tail(stack) \in Seq(Frames)  BY <1>1, <1>2, <3>1, TailIs
        <3>3. Tail(stack) = <<>>  BY <3>2, EmptySeq
        <3> QED  BY <1>7, <3>3 DEF Return
    <2>3. SOthers
        <3>1. \A k \in DOMAIN job.args : Intact(k)' => k > arg
            BY <1>1, <1>3, <2>2, IntactAhead
        <3>2. \A k \in DOMAIN job.args : k > arg => Untouched(job, fs', k)
                  /\ \A p \in Places(job, k) : OldLinks(job, fs', p)
            BY <1>1, <1>2, <2>1, NextUntouched
        <3>3. \A i \in 2 .. Len(stack) : FALSE  BY <1>2
        <3> QED  BY <3>1, <3>2, <3>3 DEF SOthers
    <2> QED  BY <1>1, <1>7, <2>3, SReturns
<1>8. CASE Call(f, c) /\ UNCHANGED fs
    <2>1. top.src \in Seq(Node) /\ top.dst \in Seq(Node) /\ s \in Seq(Node)
        BY <1>2, <1>4, NameIsNode DEF Frames
    <2>2. c \in Frames /\ c.dst = top.dst /\ c.pc = "copy"  BY <2>1, FrameIs DEF Pcs
    <2> HIDE DEF c, s
    <2>3. f \in Frames /\ f.pc = "copied"  BY <1>2, <2>1 DEF Frames, Pcs
    <2> HIDE DEF f
    <2>4. SOthers
        <3>1. top.pc \notin RemovePcs  BY <1>1 DEF RemovePcs
        <3> QED  BY <1>1, <1>8, <3>1, SameOthers
    <2>5. ToWrite(job, fs', f) /\ ToWrite(job, fs', c)
        <3>1. OldLinks(job, fs, top.dst)  BY <1>1, SFacts DEF ToWrite
        <3> QED  BY <1>8, <2>2, <2>3, <3>1 DEF ToWrite
    <2>6. Nested(c, f)  BY <2>3 DEF Nested
    <2>7. \A i \in 2 .. Len(stack) : FALSE  BY <1>2
    <2> QED  BY <1>1, <1>8, <2>2, <2>3, <2>4, <2>5, <2>6, <2>7, SCalls
<1> QED  BY <1>5, <1>6, <1>7, <1>8

LEMMA SBegin ==
    ASSUME IInv, PInv, SInv, NEW seen \in BOOLEAN, Begin(seen)
    PROVE  SInv'
<1> DEFINE d == Target(seen /\ Kind(fs, Walk(fs, job.dst)) = "dir")
           f == Frame(IF job.cmd = "mv" THEN "move" ELSE "copy", Source1, d)
<1>1. stack = <<>> /\ ~Done /\ ret = "call" /\ UNCHANGED <<job, fs, arg>>  BY DEF Begin
<1>2. job.cmd # "rm" /\ Apart(job)  BY DEF SInv
<1>3. \/ ret' # "call" /\ stack' = <<>>
      \/ /\ ~(Many /\ ~(seen /\ Kind(fs, Walk(fs, job.dst)) = "dir"))
         /\ final' = d /\ stack' = <<f>>
    BY <1>1, <1>2 DEF Begin, d
<1>4. CASE ret' # "call" /\ stack' = <<>>
    <2>1. \A k \in DOMAIN job.args : (Pending(k)' => Pending(k)) /\ (Intact(k)' => Intact(k))
        BY <1>1, <1>4 DEF Pending, Intact
    <2> QED  BY <1>1, <1>2, <1>4, <2>1 DEF SInv, Pending, Intact
<1>5. CASE /\ ~(Many /\ ~(seen /\ Kind(fs, Walk(fs, job.dst)) = "dir"))
           /\ final' = d /\ stack' = <<f>>
    <2>1. f.pc \in {"copy", "move"} /\ f.dst = d  BY DEF Frame
    <2>2. arg \in DOMAIN job.args /\ Len(job.args) >= 1 /\ Len(job.args) \in Nat
        <3>1. job.args \in Seq(Seq(Node) \ {<<>>})  BY FsAssumption DEF IInv, Node
        <3> QED  BY <1>1, <3>1, LenProperties DEF IInv, Done
    <2>3. d \in Places(job, arg)
        <3>1. CASE seen /\ Kind(fs, Walk(fs, job.dst)) = "dir"
            BY <3>1 DEF Target, Places, Source1
        <3>2. CASE ~(seen /\ Kind(fs, Walk(fs, job.dst)) = "dir")
            <4>1. ~Many  BY <1>5, <3>2
            <4> DEFINE n == Len(job.args)
            <4>2. n \in Nat /\ n >= 1 /\ ~(n > 1)  BY <2>2, <4>1 DEF Many
            <4> HIDE DEF n
            <4>3. n = 1  BY <4>2
            <4> QED  BY <3>2, <4>3 DEF Target, Places, n
        <3> QED  BY <3>1, <3>2
    <2> HIDE DEF f, d
    <2>4. OldLinks(job, fs, d)  BY <1>1, <2>2, <2>3 DEF SInv, Pending
    <2>5. ToWrite(job, fs, f)  BY <2>1, <2>4 DEF ToWrite
    <2> DEFINE z == <<f>>
    <2>6. Len(z) = 1 /\ z[1] = f /\ z # <<>>  OBVIOUS
    <2>7. stack' = z  BY <1>5
    <2> HIDE DEF z
    <2>8. Copies(job, fs, z)  BY <2>5, <2>6 DEF Copies
    <2>9. \A k \in DOMAIN job.args : (Pending(k)' => Pending(k)) /\ (Intact(k)' => Intact(k))
        BY <1>1, <2>6, <2>7 DEF Pending, Intact
    <2>12. top'.pc # "copied"  BY <2>1, <2>6, <2>7 DEF top
    <2>10. /\ job'.cmd # "rm" /\ Apart(job')
           /\ final' \in Places(job', arg') /\ Copies(job', fs', stack')
           /\ \A k \in DOMAIN job'.args : Intact(k)' => Untouched(job', fs', k)
        BY <1>1, <1>2, <1>5, <2>3, <2>7, <2>8, <2>9 DEF SInv
    <2>11. \A k \in DOMAIN job'.args : Pending(k)' => \A p \in Places(job', k) : OldLinks(job', fs', p)
        BY <1>1, <2>9 DEF SInv
    <2> QED  BY <2>10, <2>11, <2>12 DEF SInv, Pending, Intact, top
<1> QED  BY <1>3, <1>4, <1>5

LEMMA SArgDone == IInv /\ PInv /\ SInv /\ ArgDone => SInv'
<1> SUFFICES ASSUME IInv, PInv, SInv, ArgDone PROVE SInv'
    OBVIOUS
<1>1. stack = <<>> /\ UNCHANGED <<job, fs, final, stack>> /\ arg' = arg + 1
    BY DEF ArgDone, Answered
<1>2. job.args \in Seq(Seq(Node) \ {<<>>})  BY FsAssumption DEF IInv, Node
<1>3. DOMAIN job.args = 1 .. Len(job.args) /\ Len(job.args) \in Nat  BY <1>2, LenProperties
<1>4. \A k \in DOMAIN job.args : (Pending(k)' => Pending(k)) /\ (Intact(k)' => Intact(k))
    BY <1>1, <1>3 DEF IInv, Pending, Intact
<1>5. \A k \in DOMAIN job'.args : Pending(k)' => \A p \in Places(job', k) : OldLinks(job', fs', p)
    BY <1>1, <1>4 DEF SInv
<1>6. \A k \in DOMAIN job'.args : Intact(k)' => Untouched(job', fs', k)
    BY <1>1, <1>4 DEF SInv
<1> QED  BY <1>1, <1>5, <1>6 DEF SInv, Pending, Intact

LEMMA SStep == IInv /\ IInv' /\ PInv /\ SInv /\ [Next]_vars => SInv'
<1> SUFFICES ASSUME IInv, IInv', PInv, SInv, [Next]_vars PROVE SInv'
    OBVIOUS
<1>1. CASE UNCHANGED vars
    <2>1. UNCHANGED <<job, fs, arg, final, stack, ret>>  BY <1>1 DEF vars
    <2> QED  BY <2>1 DEF SInv, Pending, Intact, top
<1>2. CASE CopyStep
    BY <1>2, SCopyNothing, SCopyRegular, SCopyChunk, SReadDone, SCopySymlink, SSymlink,
       SCopyDirectory, SCopyEntry, SEntryCopied
    DEF CopyStep
<1>3. CASE CallFails \/ CopySymlinkFails \/ ArgDone
    BY <1>3, SCallFails, SCopySymlinkFails, SArgDone
<1>4. CASE BeginArg \/ BeginBlind  BY <1>4, SBegin DEF BeginArg, BeginBlind
<1>5. CASE RemoveStep \/ Rename \/ RemoveSource
    BY <1>5, SRemoveLeaf, SRemoveEntry, SEntryRemoved, SDirectoryRemoved, SRename, SRemoveSource
    DEF RemoveStep
<1> QED  BY <1>1, <1>2, <1>3, <1>4, <1>5 DEF Next

LEMMA SInit == Init /\ Apart(job) /\ job.cmd # "rm" => SInv
<1> SUFFICES ASSUME Init, Apart(job), job.cmd # "rm" PROVE SInv
    OBVIOUS
<1>1. fs = job.tree /\ stack = <<>>  BY DEF Init
<1>2. \A k : Untouched(job, fs, k)  BY <1>1 DEF Untouched
<1>3. \A p : OldLinks(job, fs, p)  BY <1>1 DEF OldLinks
<1> QED  BY <1>1, <1>2, <1>3 DEF SInv

\* cp leaves its sources as they are at every step, whichever call of
\* fsutil_copy_path() fails and whatever links the sources hold or stand in the
\* way of the copy, unless a link in the way leads into a source.
THEOREM SourcesKept == Spec /\ Apart(job) /\ job.cmd = "cp" => []SourceSafe
<1>1. Init /\ Apart(job) /\ job.cmd = "cp" => PInv /\ SInv
    BY PInit, SInit DEF Apart
<1>2. IInv /\ IInv' /\ PInv /\ SInv /\ [Next]_vars => PInv' /\ SInv'
    BY PStep, SStep
<1>4. job.cmd = "cp" /\ [Next]_vars => (job.cmd = "cp")'
    BY DEF Next, vars, CopyStep, RemoveStep, CopyNothing, CopyRegular, CopyChunk, CopyEof,
           CopySymlink, Symlink, CopyDirectory, CopyEntry, EntryCopied, DirectoryCopied,
           RemoveLeaf, RemoveEntry, EntryRemoved, DirectoryRemoved, Rename, RemoveSource,
           CallFails, CopySymlinkFails, BeginArg, BeginBlind, Begin, ArgDone
<1>3. IInv /\ PInv /\ SInv /\ job.cmd = "cp" => SourceSafe
    <2> SUFFICES ASSUME IInv, PInv, SInv, job.cmd = "cp", NEW i \in DOMAIN job.args,
                        NEW p \in Below(job.tree, Walk(job.tree, job.args[i]))
                 PROVE  p \in DOMAIN fs /\ fs[p] = job.tree[p]
        BY DEF SourceSafe
    <2>1. IsTree(job.tree) /\ Direct(job.tree, job.args[i])
        BY FsAssumption DEF IInv, PInv, PlainJob
    <2>2. Walk(job.tree, job.args[i]) = job.args[i]  BY <2>1, DirectWalk
    <2>3. p \in DOMAIN job.tree /\ IsPrefix(job.args[i], p)  BY <2>2 DEF Below
    <2> QED  BY <2>3 DEF SInv, Untouched, Intact
<1> QED  BY <1>1, <1>2, <1>3, <1>4, Invariance, PTL DEF Spec

-----------------------------------------------------------------------------
(* Copies that are complete *)

\* The command may put something at q.
InPlace(j, q) == \E k \in DOMAIN j.args : \E p \in Places(j, k) : IsPrefix(p, q)

\* No link stands in the way, and none in an operand leads to where something is put.
Clear(j) ==
    /\ Apart(j)
    /\ \A q \in DOMAIN j.tree : j.tree[q].kind = "link" =>
          /\ ~InPlace(j, q)
          /\ Under(j, q) => ~InPlace(j, j.tree[q].body)

\* The object o of the tree as it was is at q: itself, or what it led to.
Same(j, o, t, q) ==
    /\ q \in DOMAIN t
    /\ \/ t[q] = o
       \/ o.kind = "link" /\ t[q].kind # "link" /\ t[q].kind = Kind(j.tree, o.body)

\* All that was at s is at d.
Good(j, t, s, d) ==
    \A r \in Seq(Name) : s \o r \in DOMAIN j.tree => Same(j, j.tree[s \o r], t, d \o r)

\* Nothing is new or changed but where the command may put something.
Fresh(j, t) == \A q \in DOMAIN t : InPlace(j, q) \/ (q \in DOMAIN j.tree /\ t[q] = j.tree[q])

\* Operand k is as it was, or all of it is where it was to be put.
Kept(j, t, k) == Untouched(j, t, k) \/ \E p \in Places(j, k) : Good(j, t, j.args[k], p)

\* How far the copy f of what was at f.src has come.
Progress(j, t, f) ==
    LET o == j.tree[f.src]
    IN /\ f.pc \in {"follow", "symlink"} => o.kind = "link"
       /\ f.pc = "symlink" => f.text = o.body
       /\ f.pc = "data" =>
             \/ o.kind = "link" /\ Kind(j.tree, o.body) = "file"
             \/ /\ o.kind = "file" /\ f.in = f.src
                /\ f.off <= Len(o.body) /\ Len(t[f.dst].body) = f.off
                /\ \A i \in 1 .. f.off : t[f.dst].body[i] = o.body[i]
       /\ f.pc = "list" =>
             \/ o.kind = "link" /\ Kind(j.tree, o.body) = "dir"
             \/ o.kind = "dir" /\ f.in = f.src /\ f.must = Entries(j.tree, f.src)

\* The call f copies part of the operand s, writes where its path says, and what it
\* found at f.src is what was there at first.
FrameOK(j, t, s, f) ==
    f.pc \in CopyPcs =>
        /\ f.src \in Seq(Name) /\ IsPrefix(s, f.src)
        /\ f.pc = "data" => f.out = f.dst
        /\ f.pc \in {"copy", "follow", "symlink"} => f.off = 0 /\ f.seen = {}
        /\ f.src \in DOMAIN j.tree => Progress(j, t, f)

\* Every entry that f has read is copied, but for the one e is in.
Ready(j, t, f, e) ==
    f.pc = "list" => \A m \in f.seen : \/ IsPrefix(Append(f.dst, m), e)
                                       \/ Good(j, t, Append(f.src, m), Append(f.dst, m))

\* What the call g called f for.
CalledFor(f, g) ==
    /\ g.pc = "list" => \E n \in g.seen : f.src = Append(g.src, n) /\ f.dst = Append(g.dst, n)
    /\ g.pc = "copied" => f.src = g.src /\ f.dst = g.dst

\* The call f was made for the operand itself.
Begun(c, s, d, f) == f.src = s /\ (f.pc \in CopyPcs => f.dst = d /\ c = "cp")

\* Each call of stk was made for part of what its caller was made for, the
\* last one for all of it, and what they have copied so far is good.
Chain(j, t, s, d, stk) ==
    /\ \A i \in 1 .. Len(stk) : FrameOK(j, t, s, stk[i]) /\ Ready(j, t, stk[i], stk[1].dst)
    /\ \A i, k \in 1 .. Len(stk) : k = i + 1 => CalledFor(stk[i], stk[k])
    /\ \A i \in 1 .. Len(stk) : i = Len(stk) => Begun(j.cmd, s, d, stk[i])

\* Nothing is removed before all of the operand is copied.
InProgress ==
    /\ top.pc \notin {"list", "scan", "copied"} => ret = "call"
    /\ \A i \in 2 .. Len(stack) : stack[i].pc \in RemovePcs => top.pc \in RemovePcs
    /\ ret \in {"call", "ok"} => Chain(job, fs, Source1, final, stack)
    /\ top.pc \in RemovePcs \/ (top.pc = "copied" /\ ret = "ok")
           => Good(job, fs, Source1, final)

\* What holds between two calls: all of an operand that was answered with success
\* is in its place, and mv has removed it from where it was.
CInv ==
    /\ Clear(job) /\ Fresh(job, fs)
    /\ \A k \in DOMAIN job.args : Kept(job, fs, k)
    /\ stack # <<>> => InProgress
    /\ stack = <<>> /\ ret = "ok" => /\ Good(job, fs, Source1, final)
                                     /\ job.cmd = "mv" => Source1 \notin DOMAIN fs

-----------------------------------------------------------------------------
(* What stays good *)

LEMMA GoodStays ==
    ASSUME NEW j, NEW t, NEW u, NEW s, NEW d, Good(j, t, s, d),
           \A r \in Seq(Name) : d \o r \in DOMAIN t => d \o r \in DOMAIN u /\ u[d \o r] = t[d \o r]
    PROVE  Good(j, u, s, d)
    BY DEF Good, Same

\* t and u differ at p only.
ChangedAt(t, u, p) == \A q \in DOMAIN t \cup DOMAIN u :
    q # p => q \in DOMAIN t \cap DOMAIN u /\ u[q] = t[q]

LEMMA GoodAt ==
    ASSUME NEW j, NEW t, NEW u, NEW s, NEW d \in Seq(Name), Good(j, t, s, d),
           NEW p, ChangedAt(t, u, p), ~IsPrefix(d, p)
    PROVE  Good(j, u, s, d)
<1>1. \A r \in Seq(Name) : d \o r # p  BY OnwardIs
<1>2. \A r \in Seq(Name) : d \o r \in DOMAIN t => d \o r \in DOMAIN u /\ u[d \o r] = t[d \o r]
    BY <1>1 DEF ChangedAt
<1> QED  BY <1>2, GoodStays

LEMMA GoodNothing ==
    ASSUME NEW j, NEW t, IsTree(j.tree), NEW s \in Seq(Name), NEW d, s \notin DOMAIN j.tree
    PROVE  Good(j, t, s, d)
<1>1. ASSUME NEW r \in Seq(Name), s \o r \in DOMAIN j.tree PROVE FALSE
    <2>1. IsPrefix(s, s \o r)  BY OnwardIs
    <2> QED  BY <1>1, <2>1, AboveIsDir
<1> QED  BY <1>1 DEF Good

LEMMA OnwardNothing ==
    ASSUME NEW S, NEW p \in Seq(S)
    PROVE  LET r == <<>> IN r \in Seq(S) /\ p \o r = p
<1> DEFINE r == <<>>
<1>1. r \in Seq(S) /\ p \o r = p  BY EmptySeq, ConcatEmptySeq
<1> QED  BY <1>1

LEMMA OnwardSelf ==
    ASSUME NEW S, NEW p \in Seq(S), NEW r \in Seq(S), p \o r = p
    PROVE  r = <<>>
<1>1. Len(p \o r) = Len(p) + Len(r) /\ Len(p) \in Nat /\ Len(r) \in Nat
    BY OnwardIs, LenProperties
<1>2. Len(p) = Len(p) + Len(r)  BY <1>1
<1>3. Len(r) = 0  BY <1>1, <1>2
<1> QED  BY <1>3, EmptySeq

LEMMA GoodLeaf ==
    ASSUME NEW j, NEW t, IsTree(j.tree), NEW s \in Seq(Name), NEW d \in Seq(Name),
           Kind(j.tree, s) # "dir", s \in DOMAIN j.tree => Same(j, j.tree[s], t, d)
    PROVE  Good(j, t, s, d)
<1> SUFFICES ASSUME NEW r \in Seq(Name), s \o r \in DOMAIN j.tree
             PROVE  Same(j, j.tree[s \o r], t, d \o r)
    BY DEF Good
<1>1. IsPrefix(s, s \o r)  BY OnwardIs
<1>2. s \in DOMAIN j.tree /\ s = s \o r  BY <1>1, AboveIsDir
<1>3. r = <<>>  BY <1>2, OnwardSelf
<1>4. d \o r = d  BY <1>3, OnwardNothing
<1> QED  BY <1>2, <1>4

\* The first name of a path, and the path after it.
LEMMA FirstName ==
    ASSUME NEW S, NEW r \in Seq(S), r # <<>>
    PROVE  r[1] \in S /\ Tail(r) \in Seq(S) /\ \A p \in Seq(S) : p \o r = Append(p, r[1]) \o Tail(r)
<1> DEFINE m == r[1]
           z == Tail(r)
           h == <<m>>
<1>1. m \in S /\ z \in Seq(S)  BY TailIs
<1>2. h \in Seq(S)  BY <1>1
<1>3. r = h \o z
    <2> DEFINE y == h \o z
    <2>1. y \in Seq(S) /\ Len(y) = Len(r) /\ y[1] = m /\ \A i \in 2 .. Len(r) : y[i] = r[i]
        BY <1>1, BecomeIs
    <2> HIDE DEF y
    <2>2. Len(r) \in Nat  BY LenProperties
    <2>3. \A i \in 1 .. Len(r) : y[i] = r[i]
        <3> SUFFICES ASSUME NEW i \in 1 .. Len(r) PROVE y[i] = r[i]
            OBVIOUS
        <3>1. i = 1 \/ i \in 2 .. Len(r)  BY <2>2
        <3> QED  BY <2>1, <3>1
    <2>4. y = r  BY <2>1, <2>3, SeqEqual
    <2> QED  BY <2>4 DEF y
<1>4. ASSUME NEW p \in Seq(S) PROVE p \o r = Append(p, m) \o z
    <2>1. Append(p, m) = p \o h  BY <1>1, AppendIsConcat
    <2> HIDE DEF h, z, m
    <2>2. (p \o h) \o z = p \o (h \o z)  BY <1>1, <1>2, ConcatAssociative, SMTT(20)
    <2> QED  BY <1>3, <2>1, <2>2
<1> QED  BY <1>1, <1>4

LEMMA GoodDir ==
    ASSUME NEW j, NEW t, IsTree(j.tree), NEW s \in Seq(Name), NEW d \in Seq(Name),
           s \in DOMAIN j.tree => Same(j, j.tree[s], t, d),
           \A m \in Entries(j.tree, s) : Good(j, t, Append(s, m), Append(d, m))
    PROVE  Good(j, t, s, d)
<1> SUFFICES ASSUME NEW r \in Seq(Name), s \o r \in DOMAIN j.tree
             PROVE  Same(j, j.tree[s \o r], t, d \o r)
    BY DEF Good
<1>1. CASE r = <<>>
    <2>1. s \o r = s /\ d \o r = d  BY <1>1, OnwardNothing
    <2> QED  BY <2>1
<1>2. CASE r # <<>>
    <2> DEFINE m == r[1]
               z == Tail(r)
    <2>1. m \in Name /\ z \in Seq(Name) /\ \A p \in Seq(Name) : p \o r = Append(p, m) \o z
        BY <1>2, FirstName
    <2> HIDE DEF m, z
    <2>3. s \o r = Append(s, m) \o z /\ d \o r = Append(d, m) \o z  BY <2>1
    <2> DEFINE q == Append(s, m)
    <2>4. q \in Seq(Name) /\ Len(q) = Len(s) + 1 /\ IsPrefix(s, q) /\ q # <<>>
        BY <2>1, PrefixOfAppend
    <2>5. Last(q) = m
        <3>1. Len(s) \in Nat /\ q[Len(s) + 1] = m  BY <2>1, AppendProperties, LenProperties
        <3> QED  BY <2>4, <3>1 DEF Last
    <2>6. IsPrefix(q, q \o z)  BY <2>1, <2>4, OnwardIs
    <2>7. q \in DOMAIN j.tree  BY <2>3, <2>4, <2>6, AboveIsDir
    <2>8. m \in Entries(j.tree, s)  BY <2>4, <2>5, <2>7 DEF Entries
    <2>9. Good(j, t, q, Append(d, m))  BY <2>8
    <2> HIDE DEF q
    <2>10. q \o z \in DOMAIN j.tree  BY <2>3 DEF q
    <2>11. Same(j, j.tree[q \o z], t, Append(d, m) \o z)  BY <2>1, <2>9, <2>10 DEF Good
    <2> QED  BY <2>3, <2>11 DEF q
<1> QED  BY <1>1, <1>2

-----------------------------------------------------------------------------
(* The calls in progress *)

LEMMA ReadyOnward ==
    ASSUME NEW j, NEW t, NEW f \in Frames, f.pc = "list" => f.dst \in Seq(Name),
           NEW e \in Seq(Name), NEW x \in Seq(Name), IsPrefix(e, x), Ready(j, t, f, e)
    PROVE  Ready(j, t, f, x)
<1> SUFFICES ASSUME f.pc = "list", NEW m \in f.seen, IsPrefix(Append(f.dst, m), e)
             PROVE  IsPrefix(Append(f.dst, m), x)
    BY DEF Ready
<1>1. Append(f.dst, m) \in Seq(Name)
    <2>1. m \in Name  BY DEF Frames
    <2> QED  BY <2>1, AppendProperties
<1> QED  BY <1>1, PrefixTransitive

LEMMA CalledAgain ==
    ASSUME NEW f, NEW g, NEW h, f.src = g.src, f.dst = g.dst
    PROVE  CalledFor(f, h) <=> CalledFor(g, h)
    BY DEF CalledFor

LEMMA ChainBecome ==
    ASSUME NEW j, NEW t, NEW u, NEW s, NEW d, NEW stk \in Seq(Frames), stk # <<>>,
           Chain(j, t, s, d, stk), NEW f \in Frames, f.src = stk[1].src, f.dst = stk[1].dst,
           f.pc \in CopyPcs => stk[1].pc \in CopyPcs,
           FrameOK(j, u, s, f), Ready(j, u, f, f.dst),
           \A i \in 2 .. Len(stk) : FrameOK(j, u, s, stk[i]) /\ Ready(j, u, stk[i], f.dst)
    PROVE  Chain(j, u, s, d, <<f>> \o Tail(stk))
<1> DEFINE z == <<f>> \o Tail(stk)
<1>1. Len(z) = Len(stk) /\ z[1] = f /\ \A i \in 2 .. Len(stk) : z[i] = stk[i]
    BY BecomeIs
<1>2. Len(stk) \in Nat /\ Len(stk) >= 1  BY EmptySeq, LenProperties
<1> HIDE DEF z
<1>3. ASSUME NEW i \in 1 .. Len(z) PROVE FrameOK(j, u, s, z[i]) /\ Ready(j, u, z[i], z[1].dst)
    <2>1. i = 1 \/ i \in 2 .. Len(stk)  BY <1>1, <1>2
    <2> QED  BY <1>1, <2>1
<1>4. ASSUME NEW i \in 1 .. Len(z), NEW k \in 1 .. Len(z), k = i + 1 PROVE CalledFor(z[i], z[k])
    <2>1. k \in 2 .. Len(stk) /\ k \in 1 .. Len(stk) /\ i \in 1 .. Len(stk)
        BY <1>1, <1>2, <1>4
    <2>2. CalledFor(stk[i], stk[k])  BY <1>4, <2>1 DEF Chain
    <2>3. CASE i = 1  BY <1>1, <2>1, <2>2, <2>3, CalledAgain
    <2>4. CASE i # 1
        <3>1. i \in 2 .. Len(stk)  BY <1>2, <2>1, <2>4
        <3> QED  BY <1>1, <2>1, <2>2, <3>1
    <2> QED  BY <2>3, <2>4
<1>5. ASSUME NEW i \in 1 .. Len(z), i = Len(z) PROVE Begun(j.cmd, s, d, z[i])
    <2>1. Begun(j.cmd, s, d, stk[i])  BY <1>1, <1>5 DEF Chain
    <2>2. CASE i = 1  BY <1>1, <2>1, <2>2 DEF Begun
    <2>3. CASE i # 1
        <3>1. i \in 2 .. Len(stk)  BY <1>1, <1>2, <2>3
        <3> QED  BY <1>1, <2>1, <3>1
    <2> QED  BY <2>2, <2>3
<1> QED  BY <1>3, <1>4, <1>5 DEF Chain, z

LEMMA ChainCall ==
    ASSUME NEW j, NEW t, NEW u, NEW s, NEW d, NEW stk \in Seq(Frames), stk # <<>>,
           Chain(j, t, s, d, stk), NEW f \in Frames, NEW g \in Frames,
           f.src = stk[1].src, f.dst = stk[1].dst,
           f.pc \in CopyPcs => stk[1].pc \in CopyPcs,
           FrameOK(j, u, s, f), Ready(j, u, f, g.dst), FrameOK(j, u, s, g), Ready(j, u, g, g.dst),
           CalledFor(g, f),
           \A i \in 2 .. Len(stk) : FrameOK(j, u, s, stk[i]) /\ Ready(j, u, stk[i], g.dst)
    PROVE  Chain(j, u, s, d, <<g, f>> \o Tail(stk))
<1> DEFINE z == <<g, f>> \o Tail(stk)
<1>1. /\ Len(z) = Len(stk) + 1 /\ z[1] = g /\ z[2] = f
      /\ \A i \in 3 .. (Len(stk) + 1) : z[i] = stk[i - 1]
    BY CallIs
<1>2. Len(stk) \in Nat /\ Len(stk) >= 1  BY LenProperties, EmptySeq
<1> HIDE DEF z
<1>3. ASSUME NEW i \in 3 .. Len(z)
      PROVE  i - 1 \in 2 .. Len(stk) /\ i - 1 \in 1 .. Len(stk) /\ z[i] = stk[i - 1]
    BY <1>1, <1>2
<1>4. ASSUME NEW i \in 1 .. Len(z) PROVE FrameOK(j, u, s, z[i]) /\ Ready(j, u, z[i], z[1].dst)
    <2>1. i = 1 \/ i = 2 \/ i \in 3 .. Len(z)  BY <1>1, <1>2
    <2> QED  BY <1>1, <1>3, <2>1
<1>5. ASSUME NEW i \in 1 .. Len(z), NEW k \in 1 .. Len(z), k = i + 1 PROVE CalledFor(z[i], z[k])
    <2>1. CASE i = 1
        <3>1. k = 2  BY <1>5, <2>1
        <3> QED  BY <1>1, <2>1, <3>1
    <2>2. CASE i # 1
        <3> DEFINE a == i - 1
                   b == k - 1
        <3>1. k \in 3 .. Len(z) /\ b = a + 1 /\ a \in 1 .. Len(stk) /\ b \in 1 .. Len(stk)
            BY <1>1, <1>2, <1>5, <2>2
        <3>2. z[k] = stk[b]  BY <1>3, <3>1
        <3>3. CASE i = 2
            <4>1. a = 1  BY <3>3
            <4> HIDE DEF a, b
            <4>2. CalledFor(stk[a], stk[b])  BY <3>1 DEF Chain
            <4> QED  BY <1>1, <3>2, <3>3, <4>1, <4>2, CalledAgain
        <3>4. CASE i # 2
            <4>1. i \in 3 .. Len(z)  BY <1>1, <1>2, <2>2, <3>4
            <4>2. z[i] = stk[a]  BY <1>3, <4>1
            <4> HIDE DEF a, b
            <4> QED  BY <3>1, <3>2, <4>2 DEF Chain
        <3> QED  BY <3>3, <3>4
    <2> QED  BY <2>1, <2>2
<1>6. ASSUME NEW i \in 1 .. Len(z), i = Len(z) PROVE Begun(j.cmd, s, d, z[i])
    <2> DEFINE a == i - 1
    <2>1. a \in 1 .. Len(stk) /\ a = Len(stk) /\ i >= 2  BY <1>1, <1>2, <1>6
    <2>2. CASE i = 2
        <3>1. a = 1  BY <2>2
        <3> HIDE DEF a
        <3>2. Begun(j.cmd, s, d, stk[a])  BY <2>1 DEF Chain
        <3> QED  BY <1>1, <2>2, <3>1, <3>2 DEF Begun
    <2>3. CASE i # 2
        <3>1. i \in 3 .. Len(z)  BY <1>1, <1>2, <2>1, <2>3
        <3>2. z[i] = stk[a]  BY <1>3, <3>1
        <3> HIDE DEF a
        <3> QED  BY <2>1, <3>2 DEF Chain
    <2> QED  BY <2>2, <2>3
<1> QED  BY <1>4, <1>5, <1>6 DEF Chain, z

LEMMA ChainReturn ==
    ASSUME NEW j, NEW t, NEW u, NEW s, NEW d, NEW stk \in Seq(Frames), stk # <<>>,
           Chain(j, t, s, d, stk),
           \A i \in 2 .. Len(stk) : FrameOK(j, u, s, stk[i]) /\ Ready(j, u, stk[i], stk[2].dst)
    PROVE  Chain(j, u, s, d, Tail(stk))
<1> DEFINE r == Tail(stk)
<1>1. /\ Len(stk) \in Nat /\ Len(stk) >= 1 /\ Len(r) = Len(stk) - 1
      /\ \A i \in 1 .. (Len(stk) - 1) : r[i] = stk[i + 1]
    BY TailIs
<1> HIDE DEF r
<1>2. ASSUME NEW i \in 1 .. Len(r)
      PROVE  i + 1 \in 2 .. Len(stk) /\ i + 1 \in 1 .. Len(stk) /\ r[i] = stk[i + 1]
    BY <1>1
<1>3. ASSUME NEW i \in 1 .. Len(r) PROVE FrameOK(j, u, s, r[i]) /\ Ready(j, u, r[i], r[1].dst)
    <2>1. 1 \in 1 .. Len(r)  BY <1>1
    <2>2. r[1] = stk[2]  BY <1>2, <2>1
    <2> QED  BY <1>2, <2>2
<1>4. ASSUME NEW i \in 1 .. Len(r), NEW k \in 1 .. Len(r), k = i + 1 PROVE CalledFor(r[i], r[k])
    <2> DEFINE a == i + 1
               b == k + 1
    <2>1. a \in 1 .. Len(stk) /\ b \in 1 .. Len(stk) /\ r[i] = stk[a] /\ r[k] = stk[b]  BY <1>2
    <2>2. b = a + 1  BY <1>4
    <2> HIDE DEF a, b
    <2> QED  BY <2>1, <2>2 DEF Chain
<1>5. ASSUME NEW i \in 1 .. Len(r), i = Len(r) PROVE Begun(j.cmd, s, d, r[i])
    <2> DEFINE a == i + 1
    <2>1. a \in 1 .. Len(stk) /\ r[i] = stk[a]  BY <1>2
    <2>2. a = Len(stk)  BY <1>1, <1>5
    <2> HIDE DEF a
    <2> QED  BY <2>1, <2>2 DEF Chain
<1> QED  BY <1>3, <1>4, <1>5 DEF Chain, r

\* A call that waits has nothing open.
LEMMA FrameWaits ==
    ASSUME NEW j, NEW t, NEW u, NEW s, NEW f, f.pc \in {"list", "scan", "copied"}, FrameOK(j, t, s, f)
    PROVE  FrameOK(j, u, s, f)
    BY DEF FrameOK, Progress, CopyPcs

-----------------------------------------------------------------------------
(* What a step leaves *)

LEMMA CFacts ==
    ASSUME IInv, PInv, SInv, CInv, stack # <<>>
    PROVE  /\ stack \in Seq(Frames) /\ Len(stack) \in Nat /\ Len(stack) >= 1 /\ top = stack[1]
           /\ top \in Frames /\ IsTree(fs) /\ IsTree(job.tree) /\ Clear(job) /\ InProgress
           /\ arg \in DOMAIN job.args /\ final \in Places(job, arg) /\ final \in Seq(Name)
           /\ Source1 \in Seq(Name) /\ job.cmd # "rm"
<1>1. stack \in Seq(Frames) /\ Len(stack) \in Nat /\ Len(stack) >= 1 /\ top = stack[1]
    BY PFacts, TopIs
<1>2. top \in Frames /\ IsTree(fs) /\ IsTree(job.tree)  BY TopIs, FsAssumption DEF IInv
<1>3. arg \in DOMAIN job.args /\ Source1 \in Seq(Name)  BY PFacts DEF Direct
<1> QED  BY <1>1, <1>2, <1>3 DEF CInv, SInv, PInv

\* The copy on top, as long as no call has failed.
LEMMA CopyFacts ==
    ASSUME IInv, PInv, SInv, CInv, stack # <<>>, top.pc \in CopyPcs, ret \in {"call", "ok"}
    PROVE  /\ FrameOK(job, fs, Source1, top) /\ Ready(job, fs, top, top.dst)
           /\ Chain(job, fs, Source1, final, stack)
           /\ top.src \in Seq(Name) /\ IsPrefix(Source1, top.src)
           /\ top.dst \in Seq(Name) /\ IsPrefix(final, top.dst) /\ Walk(fs, top.dst) = top.dst
           /\ Untouched(job, fs, arg)
<1>1. Chain(job, fs, Source1, final, stack)  BY CFacts DEF InProgress
<1>2. 1 \in 1 .. Len(stack) /\ top = stack[1]  BY CFacts
<1>3. FrameOK(job, fs, Source1, top) /\ Ready(job, fs, top, top.dst)  BY <1>1, <1>2 DEF Chain
<1>4. top.src \in Seq(Name) /\ IsPrefix(Source1, top.src)  BY <1>3 DEF FrameOK
<1>5. top.dst \in Seq(Name) /\ IsPrefix(final, top.dst)  BY PFacts DEF OnCourse, Direct
<1>6. Walk(fs, top.dst) = top.dst  BY TouchDst
<1>7. Untouched(job, fs, arg)
    <2>1. Intact(arg)  BY DEF Intact, CopyPcs, RemovePcs
    <2> QED  BY <2>1, CFacts DEF SInv
<1> QED  BY <1>1, <1>3, <1>4, <1>5, <1>6, <1>7

LEMMA TopReturns ==
    ASSUME IInv, stack # <<>>, stack' = Tail(stack), stack' # <<>>
    PROVE  /\ Len(stack') = Len(stack) - 1 /\ Len(stack) >= 2 /\ Len(stack) \in Nat
           /\ 2 \in 2 .. Len(stack) /\ top' = stack[2]
           /\ \A i \in 1 .. Len(stack') : stack'[i] = stack[i + 1]
<1> DEFINE r == Tail(stack)
<1>1. stack \in Seq(Frames)  BY DEF IInv, StackOK
<1>2. /\ r \in Seq(Frames) /\ Len(stack) \in Nat /\ Len(r) = Len(stack) - 1
      /\ \A i \in 1 .. (Len(stack) - 1) : r[i] = stack[i + 1]
    BY <1>1, TailIs
<1>3. stack' = r  OBVIOUS
<1> HIDE DEF r
<1>4. Len(r) # 0  BY <1>2, <1>3, EmptySeq
<1>5. Len(stack) >= 2 /\ 1 \in 1 .. (Len(stack) - 1)  BY <1>2, <1>4
<1>6. r[1] = stack[2]  BY <1>2, <1>5
<1>7. top' = r[1]  BY <1>3 DEF top
<1> QED  BY <1>2, <1>3, <1>5, <1>6, <1>7

\* What called the call on top waits for it.
LEMMA CallerWaits ==
    ASSUME IInv, PInv, SInv, CInv, stack # <<>>, stack' = Tail(stack), stack' # <<>>
    PROVE  /\ top'.pc \in {"list", "scan", "copied"}
           /\ top'.pc \in RemovePcs <=> top.pc \in RemovePcs
           /\ \A i \in 2 .. Len(stack') : stack'[i].pc \in RemovePcs => top'.pc \in RemovePcs
<1>1. /\ Len(stack') = Len(stack) - 1 /\ Len(stack) >= 2 /\ Len(stack) \in Nat
      /\ 2 \in 2 .. Len(stack) /\ top' = stack[2]
      /\ \A i \in 1 .. Len(stack') : stack'[i] = stack[i + 1]
    BY TopReturns
<1>2. \A i \in 2 .. Len(stack) : stack[i].pc \in RemovePcs => top.pc \in RemovePcs
    BY CFacts DEF InProgress
<1>3. \A i \in 2 .. Len(stack) : stack[i].pc \in {"list", "scan", "copied"} /\ Inside(top, stack[i])
    BY PFacts
<1>4. top.pc \in RemovePcs => top'.pc \in RemovePcs  BY <1>1, <1>3 DEF Inside, RemovePcs
<1>5. ASSUME NEW i \in 2 .. Len(stack'), stack'[i].pc \in RemovePcs PROVE top'.pc \in RemovePcs
    <2> DEFINE k == i + 1
    <2>1. k \in 2 .. Len(stack) /\ stack'[i] = stack[k]  BY <1>1
    <2> HIDE DEF k
    <2> QED  BY <1>2, <1>4, <1>5, <2>1
<1> QED  BY <1>1, <1>2, <1>3, <1>4, <1>5

\* What a step leaves of the other operands and of the rest of the tree.
COthers == Fresh(job, fs') /\ \A k \in DOMAIN job.args : Kept(job, fs', k)

LEMMA SameKept == CInv /\ UNCHANGED <<job, fs>> => COthers
    BY DEF CInv, COthers

LEMMA CAfter ==
    ASSUME CInv, COthers, UNCHANGED <<job, arg, final>>, stack' # <<>> => InProgress',
           stack' = <<>> /\ ret' = "ok" => /\ Good(job, fs', Source1, final)
                                           /\ job.cmd = "mv" => Source1 \notin DOMAIN fs'
    PROVE  CInv'
    BY DEF CInv, COthers, Source1

LEMMA CFails ==
    ASSUME IInv, PInv, SInv, CInv, stack # <<>>, NEW v, v \notin {"call", "ok"}, Reject(v),
           UNCHANGED <<job, arg, final>>
    PROVE  CInv'
<1>1. stack' = Tail(stack) /\ ret' = v /\ UNCHANGED fs  BY DEF Reject, Return
<1>2. COthers  BY <1>1, SameKept
<1>3. ASSUME stack' # <<>> PROVE InProgress'
    <2>1. /\ top'.pc \in {"list", "scan", "copied"}
          /\ top'.pc \in RemovePcs <=> top.pc \in RemovePcs
          /\ \A i \in 2 .. Len(stack') : stack'[i].pc \in RemovePcs => top'.pc \in RemovePcs
        BY <1>1, <1>3, CallerWaits
    <2>2. top'.pc \in RemovePcs => Good(job, fs, Source1, final)
        BY <2>1, CFacts DEF InProgress
    <2> QED  BY <1>1, <2>1, <2>2 DEF InProgress, Source1
<1> QED  BY <1>1, <1>2, <1>3, CAfter

\* Nothing is changed but what is at the operand and where it is put.
Nearby(t, u) == \A q \in DOMAIN t \cup DOMAIN u :
    \/ q \in DOMAIN t \cap DOMAIN u /\ u[q] = t[q]
    \/ IsPrefix(Source1, q) \/ IsPrefix(final, q)

LEMMA OthersKept ==
    ASSUME IInv, PInv, SInv, CInv, stack # <<>>, NEW u, IsTree(u), Nearby(fs, u),
           NEW k \in DOMAIN job.args, k # arg
    PROVE  Kept(job, u, k)
<1> DEFINE a == job.args[k]
<1>1. IsTree(fs) /\ IsTree(job.tree) /\ Clear(job)  BY CFacts
<1>2. \A q \in DOMAIN fs \cup DOMAIN u : q \in Seq(Name)  BY <1>1 DEF IsTree
<1>3. CASE Untouched(job, fs, k)
    <2> SUFFICES ASSUME NEW q \in DOMAIN u \cup DOMAIN job.tree, IsPrefix(a, q)
                 PROVE  q \in DOMAIN u \cap DOMAIN job.tree /\ u[q] = job.tree[q]
        BY DEF Kept, Untouched
    <2>1. q \in Seq(Name)  BY <1>1 DEF IsTree
    <2>2. ~IsPrefix(Source1, q) /\ ~IsPrefix(final, q)  BY <2>1, OperandsAside
    <2>3. q \in DOMAIN fs \cup DOMAIN u
        <3>1. q \in DOMAIN job.tree => q \in DOMAIN fs  BY <1>3 DEF Untouched
        <3> QED  BY <3>1
    <2>4. q \in DOMAIN fs \cap DOMAIN u /\ u[q] = fs[q]  BY <2>2, <2>3 DEF Nearby
    <2> QED  BY <1>3, <2>4 DEF Untouched
<1>4. ASSUME NEW p \in Places(job, k), Good(job, fs, a, p) PROVE Kept(job, u, k)
    <2>1. p \in Seq(Name)
        <3>1. Apart(job) /\ PlainJob(job) /\ job.cmd # "rm"  BY <1>1 DEF Clear, Apart, SInv
        <3>2. job.dst \in Seq(Name) /\ Last(a) \in Name
            BY <3>1, LastName DEF PlainJob, Direct
        <3> HIDE DEF a
        <3>3. Append(job.dst, Last(a)) \in Seq(Name)  BY <3>2, AppendProperties
        <3> QED  BY <3>2, <3>3 DEF Places, a
    <2>2. ASSUME NEW r \in Seq(Name), p \o r \in DOMAIN fs
          PROVE  p \o r \in DOMAIN u /\ u[p \o r] = fs[p \o r]
        <3> DEFINE q == p \o r
        <3>1. q \in Seq(Name) /\ IsPrefix(p, q)  BY <2>1, OnwardIs
        <3> HIDE DEF q
        <3>2. ~IsPrefix(Source1, q) /\ ~IsPrefix(final, q)  BY <3>1, PlacesAside
        <3>3. q \in DOMAIN fs  BY <2>2 DEF q
        <3>4. q \in DOMAIN u /\ u[q] = fs[q]  BY <3>2, <3>3 DEF Nearby
        <3> QED  BY <3>4 DEF q
    <2> HIDE DEF a
    <2>3. Good(job, u, a, p)  BY <1>4, <2>2, GoodStays
    <2> QED  BY <2>3 DEF Kept, a
<1> QED  BY <1>3, <1>4 DEF CInv, Kept

\* What a step of a copy leaves of the other calls and operands.
LEMMA CopyStays ==
    ASSUME IInv, PInv, SInv, CInv, stack # <<>>, top.pc \in CopyPcs, ret \in {"call", "ok"},
           NEW u, IsTree(u), ChangedAt(fs, u, top.dst)
    PROVE  /\ Fresh(job, u) /\ \A k \in DOMAIN job.args : Kept(job, u, k)
           /\ \A i \in 2 .. Len(stack) : /\ FrameOK(job, u, Source1, stack[i])
                                         /\ Ready(job, u, stack[i], top.dst)
<1> DEFINE p == top.dst
<1>1. p \in Seq(Name) /\ IsPrefix(final, p) /\ ~Under(job, p)
    BY CopyFacts, PlaceApart
<1>2. final \in Places(job, arg) /\ arg \in DOMAIN job.args  BY CFacts
<1> HIDE DEF p
<1>3. ChangedAt(fs, u, p)  BY DEF p
<1>4. Fresh(job, u)
    <2>1. Fresh(job, fs)  BY DEF CInv
    <2>2. InPlace(job, p)  BY <1>1, <1>2 DEF InPlace
    <2> QED  BY <1>3, <2>1, <2>2 DEF Fresh, ChangedAt
<1>5. ASSUME NEW k \in DOMAIN job.args PROVE Kept(job, u, k)
    <2>1. CASE k = arg
        <3>1. Untouched(job, fs, arg)  BY CopyFacts
        <3>2. ~IsPrefix(job.args[arg], p)  BY <1>1, <1>2 DEF Under
        <3>3. Untouched(job, u, arg)  BY <1>3, <3>1, <3>2 DEF Untouched, ChangedAt
        <3> QED  BY <2>1, <3>3 DEF Kept
    <2>2. CASE k # arg
        <3>1. Nearby(fs, u)  BY <1>1, <1>3 DEF Nearby, ChangedAt
        <3> QED  BY <2>2, <3>1, OthersKept
    <2> QED  BY <2>1, <2>2
<1>6. ASSUME NEW i \in 2 .. Len(stack)
      PROVE  FrameOK(job, u, Source1, stack[i]) /\ Ready(job, u, stack[i], top.dst)
    <2> DEFINE f == stack[i]
    <2>1. f.pc \in {"list", "scan", "copied"} /\ OnCourse(job.cmd, fs, Source1, final, f)
        BY PFacts
    <2>2. FrameOK(job, fs, Source1, f) /\ Ready(job, fs, f, p)
        <3>1. Chain(job, fs, Source1, final, stack) /\ top = stack[1]  BY CopyFacts, CFacts
        <3>2. i \in 1 .. Len(stack)  BY CFacts
        <3> QED  BY <3>1, <3>2 DEF Chain, p
    <2>3. f \in Frames
        <3>1. stack \in Seq(Frames) /\ i \in 1 .. Len(stack)  BY CFacts
        <3> QED  BY <3>1, ElementOfSeq
    <2> HIDE DEF f
    <2>4. FrameOK(job, u, Source1, f)  BY <2>1, <2>2, FrameWaits
    <2>5. Ready(job, u, f, p)
        <3> SUFFICES ASSUME f.pc = "list", NEW m \in f.seen, ~IsPrefix(Append(f.dst, m), p)
                     PROVE  Good(job, u, Append(f.src, m), Append(f.dst, m))
            BY DEF Ready
        <3>1. Good(job, fs, Append(f.src, m), Append(f.dst, m))  BY <2>2 DEF Ready
        <3>2. Append(f.dst, m) \in Seq(Name)
            <4>1. f.dst \in Seq(Name) /\ m \in Name  BY <2>1, <2>3 DEF OnCourse, CopyPcs, Direct, Frames
            <4> QED  BY <4>1, AppendProperties
        <3> DEFINE s == Append(f.src, m)
                   d == Append(f.dst, m)
        <3>3. Good(job, fs, s, d) /\ d \in Seq(Name) /\ ~IsPrefix(d, p)  BY <3>1, <3>2
        <3> HIDE DEF s, d
        <3>4. Good(job, u, s, d)  BY <1>3, <3>3, GoodAt
        <3> QED  BY <3>4 DEF s, d
    <2> QED  BY <2>4, <2>5 DEF f, p
<1> QED  BY <1>4, <1>5, <1>6

LEMMA ChangedNothing ==
    ASSUME NEW t, NEW p
    PROVE  ChangedAt(t, t, p)
    BY DEF ChangedAt

\* The copy on top is complete.
LEMMA CopyReturns ==
    ASSUME IInv, PInv, SInv, CInv, stack # <<>>, top.pc \in CopyPcs, ret \in {"call", "ok"},
           IsTree(fs'), ChangedAt(fs, fs', top.dst), Good(job, fs', top.src, top.dst),
           Return("ok"), UNCHANGED <<job, arg, final>>
    PROVE  CInv'
<1>1. /\ Fresh(job, fs') /\ \A k \in DOMAIN job.args : Kept(job, fs', k)
      /\ \A i \in 2 .. Len(stack) : /\ FrameOK(job, fs', Source1, stack[i])
                                    /\ Ready(job, fs', stack[i], top.dst)
    BY CopyStays
<1>2. stack' = Tail(stack) /\ ret' = "ok"  BY DEF Return
<1>3. COthers  BY <1>1 DEF COthers
<1>4. /\ Chain(job, fs, Source1, final, stack) /\ top.src \in Seq(Name) /\ top.dst \in Seq(Name)
      /\ stack \in Seq(Frames) /\ Len(stack) \in Nat /\ Len(stack) >= 1 /\ top = stack[1]
    BY CopyFacts, CFacts
<1>5. ASSUME stack' = <<>>
      PROVE  Good(job, fs', Source1, final) /\ (job.cmd = "mv" => Source1 \notin DOMAIN fs')
    <2>1. Len(stack) = 1 /\ 1 \in 1 .. Len(stack)
        <3> DEFINE n == Len(stack)
                   k == Len(Tail(stack))
        <3>1. k = n - 1 /\ n \in Nat  BY <1>4, TailIs
        <3>2. k = 0  BY <1>2, <1>5, EmptySeq
        <3> HIDE DEF n, k
        <3>3. n = 1  BY <3>1, <3>2
        <3> QED  BY <3>3 DEF n
    <2>2. Begun(job.cmd, Source1, final, top)  BY <1>4, <2>1 DEF Chain
    <2> QED  BY <2>2 DEF Begun
<1>6. ASSUME stack' # <<>> PROVE InProgress'
    <2> DEFINE g == stack[2]
    <2>1. /\ top'.pc \in {"list", "scan", "copied"}
          /\ top'.pc \in RemovePcs <=> top.pc \in RemovePcs
          /\ \A i \in 2 .. Len(stack') : stack'[i].pc \in RemovePcs => top'.pc \in RemovePcs
        BY <1>2, <1>6, CallerWaits
    <2>2. top.pc \notin RemovePcs  BY DEF CopyPcs, RemovePcs
    <2>3. top' = g /\ Len(stack) >= 2 /\ 2 \in 2 .. Len(stack) /\ 2 \in 1 .. Len(stack)
        BY <1>2, <1>4, <1>6, TopReturns
    <2>4. OnCourse(job.cmd, fs, Source1, final, g) /\ g.pc \in {"list", "copied"} /\ g \in Frames
        <3>1. g \in Frames  BY <1>4, <2>3, ElementOfSeq
        <3> QED  BY <2>1, <2>2, <2>3, <3>1, PFacts DEF RemovePcs
    <2>5. CalledFor(top, g)  BY <1>4, <2>3 DEF Chain
    <2> HIDE DEF g
    <2>6. g.pc = "list" => g.dst \in Seq(Name) /\ g.seen \subseteq Name
        BY <2>4 DEF OnCourse, CopyPcs, Direct, Frames
    <2>7. Chain(job, fs', Source1, final, Tail(stack))
        <3>1. ASSUME NEW m \in g.seen, g.pc = "list"
              PROVE  Good(job, fs', Append(g.src, m), Append(g.dst, m))
            <4>1. PICK n \in g.seen : top.src = Append(g.src, n) /\ top.dst = Append(g.dst, n)
                BY <2>5, <3>1 DEF CalledFor
            <4>2. CASE m = n  BY <4>1, <4>2
            <4>3. CASE m # n
                <5>1. ~IsPrefix(Append(g.dst, m), top.dst)
                    <6>1. IsPrefix(top.dst, top.dst)  BY <1>4, PrefixSelf
                    <6> DEFINE e == top.dst
                    <6>2. IsPrefix(Append(g.dst, n), e) /\ e \in Seq(Name)  BY <1>4, <4>1, <6>1
                    <6> HIDE DEF e
                    <6>3. ~IsPrefix(Append(g.dst, m), e)
                        BY <2>6, <3>1, <4>3, <6>2, NamesApart
                    <6> QED  BY <6>3 DEF e
                <5>2. Ready(job, fs', g, top.dst)  BY <1>1, <2>3 DEF g
                <5> QED  BY <3>1, <5>1, <5>2 DEF Ready
            <4> QED  BY <4>2, <4>3
        <3>2. ASSUME NEW i \in 3 .. Len(stack) PROVE Ready(job, fs', stack[i], g.dst)
            <4> DEFINE f == stack[i]
            <4>1. i \in 2 .. Len(stack) /\ i \in 1 .. Len(stack) /\ 2 < i  BY <1>4
            <4>2. Ready(job, fs', f, top.dst) /\ OnCourse(job.cmd, fs, Source1, final, f)
                BY <1>1, <4>1, PFacts
            <4>3. Nested(g, f) /\ Inside(g, f)
                <5>1. Copies(job, fs, stack) /\ Courses(job.cmd, fs, Source1, final, stack)
                    BY PFacts DEF SInv
                <5> QED  BY <2>3, <4>1, <5>1 DEF Copies, Courses, g
            <4>4. f \in Frames  BY <1>4, <4>1, ElementOfSeq
            <4> HIDE DEF f
            <4> SUFFICES ASSUME f.pc = "list", NEW m \in f.seen, ~IsPrefix(Append(f.dst, m), g.dst)
                         PROVE  Good(job, fs', Append(f.src, m), Append(f.dst, m))
                BY DEF Ready, f
            <4>5. g.pc = "list"  BY <2>4, <4>3 DEF Inside
            <4>6. PICK n \in g.seen : top.dst = Append(g.dst, n)
                BY <2>5, <4>5 DEF CalledFor
            <4>7. PICK x \in f.seen : IsPrefix(Append(f.dst, x), g.dst)  BY <4>3 DEF Nested
            <4>8. f.dst \in Seq(Name) /\ f.seen \subseteq Name
                BY <4>2, <4>4 DEF OnCourse, CopyPcs, Direct, Frames
            <4>9. Append(f.dst, x) \in Seq(Name)  BY <4>7, <4>8, AppendProperties
            <4>10. IsPrefix(g.dst, top.dst)
                <5>1. g.dst \in Seq(Name) /\ n \in Name  BY <2>6, <4>5, <4>6
                <5> QED  BY <4>6, <5>1, PrefixOfAppend
            <4>11. IsPrefix(Append(f.dst, x), top.dst)
                BY <1>4, <2>6, <4>5, <4>7, <4>9, <4>10, PrefixTransitive
            <4>12. ~IsPrefix(Append(f.dst, m), top.dst)
                <5> SUFFICES ASSUME IsPrefix(Append(f.dst, m), top.dst) PROVE FALSE
                    OBVIOUS
                <5>1. m = x  BY <1>4, <4>8, <4>11, NamesApart
                <5> QED  BY <4>7, <5>1
            <4> QED  BY <4>2, <4>12 DEF Ready
        <3>3. ASSUME NEW i \in 2 .. Len(stack)
              PROVE  FrameOK(job, fs', Source1, stack[i]) /\ Ready(job, fs', stack[i], g.dst)
            <4>1. i = 2 \/ i \in 3 .. Len(stack)  BY <1>4
            <4>2. CASE i = 2
                <5>1. Ready(job, fs', g, g.dst)  BY <3>1 DEF Ready
                <5> QED  BY <1>1, <4>2, <5>1 DEF g
            <4> QED  BY <1>1, <3>2, <4>1, <4>2
        <3> QED  BY <1>4, <3>3, ChainReturn DEF g
    <2>8. top'.pc = "copied" => Good(job, fs', Source1, final)
        <3> SUFFICES ASSUME g.pc = "copied" PROVE Good(job, fs', Source1, final)
            BY <2>3
        <3>1. top.src = g.src /\ top.dst = g.dst  BY <2>5 DEF CalledFor
        <3>2. g.src = Source1 /\ g.dst = final  BY <2>4 DEF OnCourse
        <3> QED  BY <3>1, <3>2
    <2> QED  BY <1>2, <2>1, <2>2, <2>7, <2>8 DEF InProgress, Source1
<1> QED  BY <1>2, <1>3, <1>5, <1>6, CAfter

\* It goes on.
LEMMA CopyBecomes ==
    ASSUME IInv, PInv, SInv, CInv, stack # <<>>, top.pc \in CopyPcs, ret = "call",
           IsTree(fs'), ChangedAt(fs, fs', top.dst), NEW f \in Frames,
           f.src = top.src, f.dst = top.dst, f.pc \in {"follow", "data", "symlink", "list"},
           FrameOK(job, fs', Source1, f), Ready(job, fs', f, top.dst),
           Become(f), UNCHANGED <<job, arg, final>>
    PROVE  CInv'
<1>1. /\ Fresh(job, fs') /\ \A k \in DOMAIN job.args : Kept(job, fs', k)
      /\ \A i \in 2 .. Len(stack) : /\ FrameOK(job, fs', Source1, stack[i])
                                    /\ Ready(job, fs', stack[i], top.dst)
    BY CopyStays
<1> DEFINE z == <<f>> \o Tail(stack)
<1>2. stack' = z /\ ret' = "call"  BY DEF Become
<1>3. COthers  BY <1>1 DEF COthers
<1>4. Chain(job, fs, Source1, final, stack) /\ stack \in Seq(Frames) /\ top = stack[1]
    BY CopyFacts, CFacts
<1>5. Len(z) = Len(stack) /\ z[1] = f /\ \A i \in 2 .. Len(stack) : z[i] = stack[i]
    BY <1>4, BecomeIs
<1>6. Chain(job, fs', Source1, final, z)  BY <1>1, <1>4, ChainBecome
<1> HIDE DEF z
<1>7. stack' # <<>> /\ top' = f  BY TopBecomes
<1>8. \A i \in 2 .. Len(stack) : stack[i].pc \in RemovePcs => top.pc \in RemovePcs
    BY CFacts DEF InProgress
<1>9. \A i \in 2 .. Len(stack') : stack'[i].pc \in RemovePcs => top'.pc \in RemovePcs
    BY <1>2, <1>5, <1>8 DEF CopyPcs, RemovePcs
<1>10. top'.pc \notin RemovePcs /\ top'.pc # "copied"  BY <1>7 DEF RemovePcs
<1>11. InProgress'  BY <1>2, <1>6, <1>7, <1>9, <1>10 DEF InProgress, Source1
<1> QED  BY <1>3, <1>7, <1>11, CAfter

\* It calls itself for an entry.
LEMMA CopyCalls ==
    ASSUME IInv, PInv, SInv, CInv, stack # <<>>, top.pc = "list", ret = "call",
           NEW f \in Frames, NEW g \in Frames, f.src = top.src, f.dst = top.dst,
           f.pc = "list", g.pc = "copy", g.dst \in Seq(Name), IsPrefix(top.dst, g.dst),
           FrameOK(job, fs, Source1, f), Ready(job, fs, f, g.dst),
           FrameOK(job, fs, Source1, g), CalledFor(g, f),
           Call(f, g), UNCHANGED <<job, fs, arg, final>>
    PROVE  CInv'
<1> DEFINE z == <<g, f>> \o Tail(stack)
<1>1. top.pc \in CopyPcs  BY DEF CopyPcs
<1>2. stack' = z /\ ret' = "call"  BY DEF Call
<1>3. COthers  BY SameKept
<1>4. /\ Chain(job, fs, Source1, final, stack) /\ stack \in Seq(Frames) /\ top = stack[1]
      /\ top.dst \in Seq(Name) /\ Len(stack) \in Nat
    BY <1>1, CopyFacts, CFacts
<1>5. /\ Len(z) = Len(stack) + 1 /\ z[1] = g /\ z[2] = f
      /\ \A i \in 3 .. (Len(stack) + 1) : z[i] = stack[i - 1]
    BY <1>4, CallIs
<1>6. ASSUME NEW i \in 2 .. Len(stack)
      PROVE  FrameOK(job, fs, Source1, stack[i]) /\ Ready(job, fs, stack[i], g.dst)
    <2> DEFINE h == stack[i]
    <2>1. i \in 1 .. Len(stack)  BY <1>4
    <2>2. FrameOK(job, fs, Source1, h) /\ Ready(job, fs, h, top.dst)  BY <1>4, <2>1 DEF Chain
    <2>3. h \in Frames  BY <1>4, <2>1, ElementOfSeq
    <2>4. h.pc = "list" => h.dst \in Seq(Name)  BY PFacts DEF OnCourse, CopyPcs, Direct
    <2> HIDE DEF h
    <2>5. Ready(job, fs, h, g.dst)  BY <1>4, <2>2, <2>3, <2>4, ReadyOnward
    <2> QED  BY <2>2, <2>5 DEF h
<1>7. Ready(job, fs, g, g.dst)  BY DEF Ready
<1>8. Chain(job, fs, Source1, final, z)  BY <1>1, <1>4, <1>6, <1>7, ChainCall
<1> HIDE DEF z
<1>9. stack' # <<>> /\ top' = g  BY TopCalls
<1>10. \A i \in 2 .. Len(stack) : stack[i].pc \notin RemovePcs
    BY CFacts DEF InProgress, RemovePcs
<1>11. ASSUME NEW i \in 2 .. Len(stack') PROVE stack'[i].pc \notin RemovePcs
    <2>1. CASE i = 2  BY <1>2, <1>5, <2>1 DEF RemovePcs
    <2>2. CASE i # 2
        <3> DEFINE k == i - 1
        <3>1. k \in 2 .. Len(stack) /\ z[i] = stack[k]  BY <1>2, <1>4, <1>5, <2>2
        <3> HIDE DEF k
        <3> QED  BY <1>2, <1>10, <3>1
    <2> QED  BY <2>1, <2>2
<1>12. top'.pc \notin RemovePcs /\ top'.pc # "copied"  BY <1>9 DEF RemovePcs
<1>13. InProgress'  BY <1>2, <1>8, <1>9, <1>11, <1>12 DEF InProgress, Source1
<1> QED  BY <1>3, <1>9, <1>13, CAfter

-----------------------------------------------------------------------------
(* Each step of a copy *)

\* What is copied is still what it was, and stands where its path says.
LEMMA SourceIs ==
    ASSUME IInv, PInv, SInv, CInv, stack # <<>>, top.pc \in CopyPcs, ret \in {"call", "ok"},
           top.src \in DOMAIN job.tree
    PROVE  /\ Progress(job, fs, top) /\ Walk(fs, top.src) = top.src
           /\ top.src \in DOMAIN fs /\ fs[top.src] = job.tree[top.src]
           /\ job.tree[top.src] \in Object
<1>1. /\ FrameOK(job, fs, Source1, top) /\ top.src \in Seq(Name) /\ IsPrefix(Source1, top.src)
      /\ Untouched(job, fs, arg) /\ IsTree(fs) /\ IsTree(job.tree)
    BY CopyFacts, CFacts
<1>2. top.src \in DOMAIN fs /\ fs[top.src] = job.tree[top.src]
    BY <1>1 DEF Untouched, Source1
<1>3. Walk(fs, top.src) = top.src
    <2>1. Direct(fs, top.src)  BY <1>1, <1>2 DEF Direct, IsTree
    <2> QED  BY <1>1, <2>1, DirectWalk
<1>4. Progress(job, fs, top)  BY <1>1 DEF FrameOK
<1>5. job.tree[top.src] \in Object  BY <1>1 DEF IsTree
<1> QED  BY <1>2, <1>3, <1>4, <1>5

\* Where the copy is to be put no link stands.
LEMMA NoLinkThere ==
    ASSUME IInv, PInv, SInv, CInv, stack # <<>>, top.pc \in {"copy", "follow", "symlink"},
           ret \in {"call", "ok"}
    PROVE  Kind(fs, top.dst) # "link" /\ Real(fs, top.dst) = top.dst
<1>1. top.pc \in CopyPcs  BY DEF CopyPcs
<1>2. /\ top.dst \in Seq(Name) /\ IsPrefix(final, top.dst) /\ final \in Places(job, arg)
      /\ arg \in DOMAIN job.args /\ Clear(job) /\ Walk(fs, top.dst) = top.dst
    BY <1>1, CopyFacts, CFacts
<1>3. ASSUME Kind(fs, top.dst) = "link" PROVE FALSE
    <2>1. top.dst \in DOMAIN fs /\ fs[top.dst].kind = "link"  BY <1>3 DEF Kind
    <2>2. OldLinks(job, fs, top.dst)  BY SFacts DEF ToWrite
    <2>3. IsPrefix(top.dst, top.dst)  BY <1>2, PrefixSelf
    <2>4. top.dst \in DOMAIN job.tree /\ job.tree[top.dst].kind = "link"
        BY <2>1, <2>2, <2>3 DEF OldLinks
    <2>5. InPlace(job, top.dst)  BY <1>2 DEF InPlace
    <2> QED  BY <1>2, <2>4, <2>5 DEF Clear
<1> QED  BY <1>2, <1>3 DEF Real, Follow

\* What a link of the operand leads to is still what it was, or is gone.
LEMMA LinkLeads ==
    ASSUME IInv, PInv, SInv, CInv, stack # <<>>, top.pc \in CopyPcs, ret \in {"call", "ok"},
           top.src \in DOMAIN job.tree, job.tree[top.src].kind = "link"
    PROVE  LET b == job.tree[top.src].body
           IN  /\ Real(fs, top.src) = b
               /\ Kind(fs, b) # "none" => Kind(job.tree, b) = Kind(fs, b)
<1> DEFINE b == job.tree[top.src].body
<1>1. Walk(fs, top.src) = top.src /\ top.src \in DOMAIN fs /\ fs[top.src] = job.tree[top.src]
    BY SourceIs
<1>2. Real(fs, top.src) = b  BY <1>1 DEF Real, Follow, Kind
<1>3. ~InPlace(job, b)
    <2>1. IsPrefix(Source1, top.src) /\ Clear(job) /\ arg \in DOMAIN job.args
        BY CopyFacts, CFacts
    <2>2. Under(job, top.src)  BY <2>1 DEF Under, Source1
    <2> QED  BY <2>1, <2>2 DEF Clear
<1> HIDE DEF b
<1>4. Kind(fs, b) # "none" => Kind(job.tree, b) = Kind(fs, b)
    BY <1>3 DEF Kind, CInv, Fresh
<1> QED  BY <1>2, <1>4 DEF b

LEMMA PutAt ==
    ASSUME NEW t, NEW p, NEW o
    PROVE  ChangedAt(t, Put(t, p, o), p)
    BY DEF ChangedAt, Put

LEMMA WithoutAt ==
    ASSUME NEW t, NEW p
    PROVE  ChangedAt(t, Without(t, p), p)
    BY DEF ChangedAt, Without

LEMMA CallingNow ==
    ASSUME IInv, PInv, SInv, CInv, stack # <<>>, top.pc \notin {"list", "scan", "copied"}
    PROVE  ret = "call"
    BY CFacts DEF InProgress

LEMMA CCopyNothing == IInv /\ PInv /\ SInv /\ CInv /\ CopyNothing => CInv'
<1> SUFFICES ASSUME IInv, PInv, SInv, CInv, CopyNothing PROVE CInv'
    OBVIOUS
<1>1. stack # <<>> /\ UNCHANGED <<job, arg, final>>  BY DEF CopyNothing, Copying
<1>2. \E v : v \notin {"call", "ok"} /\ Reject(v)  BY DEF CopyNothing
<1> QED  BY <1>1, <1>2, CFails

LEMMA CCopyRegular == IInv /\ IInv' /\ PInv /\ SInv /\ CInv /\ CopyRegular => CInv'
<1> SUFFICES ASSUME IInv, IInv', PInv, SInv, CInv, CopyRegular PROVE CInv'
    OBVIOUS
<1> DEFINE out == Real(fs, top.dst)
           o == [kind |-> "file", body |-> <<>>]
           f == [top EXCEPT !.pc = "data", !.in = Source, !.out = out]
           s == top.src
<1>1. /\ stack # <<>> /\ UNCHANGED <<job, arg, final>> /\ top.pc \in CopyPcs
      /\ top.pc \in {"copy", "follow"} /\ Kind(fs, Source) = "file"
    BY DEF CopyRegular, Copying, CopyPcs
<1>2. ret = "call"  BY <1>1, CallingNow
<1>3. \/ \E v : v \notin {"call", "ok"} /\ Reject(v)
      \/ fs' = Put(fs, out, o) /\ Become(f)
    BY DEF CopyRegular
<1>4. CASE \E v : v \notin {"call", "ok"} /\ Reject(v)  BY <1>1, <1>4, CFails
<1>5. CASE fs' = Put(fs, out, o) /\ Become(f)
    <2>1. out = top.dst  BY <1>1, <1>2, NoLinkThere
    <2>2. top \in Frames /\ Source \in Seq(Node) /\ out \in Seq(Node)
        BY <1>1, TopIs, SourceType, NameIsNode
    <2>3. FrameOK(job, fs, Source1, top) /\ IsTree(fs')  BY <1>1, <1>2, CopyFacts DEF IInv
    <2> HIDE DEF out
    <2>4. /\ f \in Frames /\ f.pc = "data" /\ f.out = out /\ f.dst = top.dst /\ f.src = s
          /\ f.in = Source /\ f.off = top.off
        BY <2>2 DEF Frames, Pcs
    <2>5. f.off = 0  BY <1>1, <2>3, <2>4 DEF FrameOK
    <2> HIDE DEF f
    <2>6. ChangedAt(fs, fs', top.dst)  BY <1>5, <2>1, PutAt
    <2>7. fs'[top.dst] = o  BY <1>5, <2>1 DEF Put
    <2>8. ASSUME s \in DOMAIN job.tree PROVE Progress(job, fs', f)
        <3>1. /\ Progress(job, fs, top) /\ Walk(fs, s) = s /\ fs[s] = job.tree[s]
              /\ s \in DOMAIN fs
            BY <1>1, <1>2, <2>8, SourceIs
        <3>2. CASE top.pc = "copy"
            <4>1. Source = s  BY <3>1, <3>2 DEF Source
            <4>2. job.tree[s].kind = "file"  BY <1>1, <3>1, <4>1 DEF Kind
            <4>3. Len(o.body) = 0  OBVIOUS
            <4> HIDE DEF o
            <4>4. Len(fs'[f.dst].body) = f.off /\ \A i \in 1 .. f.off : FALSE
                BY <2>4, <2>5, <2>7, <4>3
            <4>5. f.off <= Len(job.tree[s].body)
                <5>1. job.tree[s] \in Object  BY <1>1, <1>2, <2>8, SourceIs
                <5>2. job.tree[s].body \in Seq(Chunk)  BY <4>2, <5>1 DEF Object
                <5> QED  BY <2>5, <5>2, LenProperties
            <4> QED  BY <2>4, <4>1, <4>2, <4>4, <4>5 DEF Progress
        <3>3. CASE top.pc = "follow"
            <4>1. job.tree[s].kind = "link"  BY <3>1, <3>3 DEF Progress
            <4>2. Source = job.tree[s].body
                BY <1>1, <1>2, <2>8, <3>3, <4>1, LinkLeads DEF Source
            <4>3. Kind(job.tree, job.tree[s].body) = "file"
                BY <1>1, <1>2, <2>8, <4>1, <4>2, LinkLeads
            <4> QED  BY <2>4, <4>1, <4>3 DEF Progress
        <3> QED  BY <1>1, <3>2, <3>3
    <2>9. FrameOK(job, fs', Source1, f)
        <3>1. s \in Seq(Name) /\ IsPrefix(Source1, s)  BY <1>1, <1>2, CopyFacts
        <3> QED  BY <2>1, <2>4, <2>8, <3>1 DEF FrameOK
    <2>10. Ready(job, fs', f, top.dst)  BY <2>4 DEF Ready
    <2> QED  BY <1>1, <1>2, <1>5, <2>3, <2>4, <2>6, <2>9, <2>10, CopyBecomes
<1> QED  BY <1>3, <1>4, <1>5

LEMMA CCopyChunk == IInv /\ IInv' /\ PInv /\ SInv /\ CInv /\ CopyChunk => CInv'
<1> SUFFICES ASSUME IInv, IInv', PInv, SInv, CInv, CopyChunk PROVE CInv'
    OBVIOUS
<1> DEFINE k == top.off + 1
           x == fs[top.in].body[top.off + 1]
           old == fs[top.out].body
           b == Append(old, x)
           f == [top EXCEPT !.off = k]
           s == top.src
<1>1. /\ stack # <<>> /\ UNCHANGED <<job, arg, final>> /\ top.pc = "data" /\ More
      /\ Become(f) /\ fs' = [fs EXCEPT ![top.out].body = b] /\ top.pc \in CopyPcs
    BY DEF CopyChunk, At, CopyPcs
<1>2. ret = "call"  BY <1>1, CallingNow
<1>3. /\ FrameOK(job, fs, Source1, top) /\ s \in Seq(Name) /\ IsPrefix(Source1, s)
      /\ top \in Frames /\ IsTree(fs')
    BY <1>1, <1>2, CopyFacts, CFacts DEF IInv
<1>4. top.out = top.dst  BY <1>1, <1>3 DEF FrameOK
<1>5. Kind(fs, top.out) = "file" /\ Kind(fs, top.in) = "file"  BY <1>1, TopIs DEF OnTop
<1>6. /\ top.out \in DOMAIN fs /\ fs[top.out] \in [kind : {"file"}, body : Seq(Chunk)]
      /\ top.in \in DOMAIN fs /\ fs[top.in] \in [kind : {"file"}, body : Seq(Chunk)]
    BY <1>5 DEF IInv, Kind, IsTree, Object
<1>7. k \in Nat /\ top.off \in Nat /\ k = top.off + 1  BY <1>3 DEF Frames
<1>8. k \in 1 .. Len(fs[top.in].body) /\ x = fs[top.in].body[k]
    <2>1. Len(fs[top.in].body) \in Nat  BY <1>6, LenProperties
    <2> QED  BY <1>1, <1>7, <2>1 DEF More
<1>9. x \in Chunk  BY <1>6, <1>8, ElementOfSeq
<1> HIDE DEF k, x
<1>10. f \in Frames /\ f.pc = "data" /\ f.out = top.out /\ f.dst = top.dst /\ f.src = s
       /\ f.in = top.in /\ f.off = k
    BY <1>1, <1>3, <1>7 DEF Frames
<1> HIDE DEF f
<1>11. old \in Seq(Chunk)  BY <1>6
<1> HIDE DEF old
<1>12. /\ b \in Seq(Chunk) /\ Len(b) = Len(old) + 1 /\ b[Len(old) + 1] = x
       /\ \A i \in 1 .. Len(old) : b[i] = old[i]
    BY <1>9, <1>11, AppendProperties
<1> HIDE DEF b
<1>13. ChangedAt(fs, fs', top.dst)  BY <1>1, <1>4, <1>6 DEF ChangedAt
<1>14. fs'[top.dst].body = b  BY <1>1, <1>4, <1>6
<1>15. ASSUME s \in DOMAIN job.tree PROVE Progress(job, fs', f)
    <2> DEFINE o == job.tree[s]
    <2>1. Progress(job, fs, top) /\ fs[s] = o  BY <1>1, <1>2, <1>15, SourceIs
    <2>2. CASE o.kind = "link" /\ Kind(job.tree, o.body) = "file"
        BY <1>10, <2>2 DEF Progress
    <2>3. CASE ~(o.kind = "link" /\ Kind(job.tree, o.body) = "file")
        <3>1. /\ o.kind = "file" /\ top.in = s /\ Len(old) = top.off
              /\ \A i \in 1 .. top.off : old[i] = o.body[i]
            BY <1>1, <1>4, <2>1, <2>3 DEF Progress, old
        <3>2. k <= Len(o.body) /\ x = o.body[k]
            <4>1. k \in 1 .. Len(o.body) /\ x = o.body[k]  BY <1>8, <2>1, <3>1
            <4>2. Len(o.body) \in Nat  BY <1>6, <2>1, <3>1, LenProperties
            <4> QED  BY <1>7, <4>1, <4>2
        <3>3. Len(b) = k  BY <1>7, <1>12, <3>1
        <3>4. \A i \in 1 .. k : b[i] = o.body[i]
            <4> SUFFICES ASSUME NEW i \in 1 .. k PROVE b[i] = o.body[i]
                OBVIOUS
            <4>1. i \in 1 .. top.off \/ i = k  BY <1>7
            <4>2. CASE i \in 1 .. top.off  BY <1>12, <3>1, <4>2
            <4>3. CASE i = k  BY <1>7, <1>12, <3>1, <3>2, <4>3
            <4> QED  BY <4>1, <4>2, <4>3
        <3> HIDE DEF o
        <3>5. o = job.tree[f.src]  BY <1>10 DEF o
        <3> QED  BY <1>10, <1>14, <3>1, <3>2, <3>3, <3>4, <3>5 DEF Progress
    <2> QED  BY <2>2, <2>3
<1>16. FrameOK(job, fs', Source1, f)  BY <1>3, <1>4, <1>10, <1>15 DEF FrameOK
<1>17. Ready(job, fs', f, top.dst)  BY <1>10 DEF Ready
<1> QED  BY <1>1, <1>2, <1>3, <1>10, <1>13, <1>16, <1>17, CopyBecomes

LEMMA CCopyEof == IInv /\ IInv' /\ PInv /\ SInv /\ CInv /\ CopyEof => CInv'
<1> SUFFICES ASSUME IInv, IInv', PInv, SInv, CInv, CopyEof PROVE CInv'
    OBVIOUS
<1> DEFINE s == top.src
           d == top.dst
           o == job.tree[s]
<1>1. /\ stack # <<>> /\ UNCHANGED <<job, arg, final, fs>> /\ top.pc = "data" /\ ~More
      /\ Return("ok") /\ top.pc \in CopyPcs
    BY DEF CopyEof, At, CopyPcs, Reject
<1>2. ret = "call"  BY <1>1, CallingNow
<1>3. /\ FrameOK(job, fs, Source1, top) /\ s \in Seq(Name) /\ d \in Seq(Name)
      /\ top \in Frames /\ IsTree(fs) /\ IsTree(job.tree)
    BY <1>1, <1>2, CopyFacts, CFacts
<1>4. top.out = d  BY <1>1, <1>3 DEF FrameOK
<1>5. Kind(fs, d) = "file"  BY <1>1, <1>4, TopIs DEF OnTop
<1>6. d \in DOMAIN fs /\ fs[d] \in [kind : {"file"}, body : Seq(Chunk)]
    BY <1>3, <1>5 DEF Kind, IsTree, Object
<1>7. ASSUME s \in DOMAIN job.tree PROVE Kind(job.tree, s) # "dir" /\ Same(job, o, fs, d)
    <2>1. Progress(job, fs, top) /\ fs[s] = o /\ o \in Object  BY <1>1, <1>2, <1>7, SourceIs
    <2>2. CASE o.kind = "link" /\ Kind(job.tree, o.body) = "file"
        BY <1>6, <1>7, <2>2 DEF Same, Kind
    <2>3. CASE ~(o.kind = "link" /\ Kind(job.tree, o.body) = "file")
        <3> DEFINE b == fs[d].body
                   c == o.body
        <3>1. /\ o.kind = "file" /\ top.in = s /\ top.off <= Len(c) /\ Len(b) = top.off
              /\ \A i \in 1 .. top.off : b[i] = c[i]
            BY <1>1, <2>1, <2>3 DEF Progress
        <3>2. o \in [kind : {"file"}, body : Seq(Chunk)]  BY <2>1, <3>1 DEF Object
        <3>3. b \in Seq(Chunk) /\ c \in Seq(Chunk)  BY <1>6, <3>2
        <3>4. ~(top.off < Len(c))  BY <1>1, <2>1, <3>1 DEF More
        <3>5. fs[d] = [kind |-> "file", body |-> b] /\ o = [kind |-> "file", body |-> c]
            BY <1>6, <3>2
        <3> HIDE DEF b, c, o
        <3>6. Len(b) = Len(c) /\ \A i \in 1 .. Len(b) : b[i] = c[i]
            <4>1. Len(b) \in Nat /\ Len(c) \in Nat  BY <3>3, LenProperties
            <4> QED  BY <3>1, <3>4, <4>1
        <3>7. b = c  BY <3>3, <3>6, SeqEqual
        <3>8. fs[d] = o  BY <3>5, <3>7
        <3> QED  BY <1>6, <1>7, <3>1, <3>8 DEF Same, Kind, o
    <2> QED  BY <2>2, <2>3
<1> HIDE DEF s, d
<1>8. Good(job, fs, s, d)
    <2>1. CASE s \in DOMAIN job.tree  BY <1>3, <1>7, <2>1, GoodLeaf
    <2>2. CASE s \notin DOMAIN job.tree  BY <1>3, <2>2, GoodNothing
    <2> QED  BY <2>1, <2>2
<1>9. Good(job, fs', top.src, top.dst)  BY <1>1, <1>8 DEF s, d
<1>10. ChangedAt(fs, fs', top.dst)  BY <1>1, ChangedNothing
<1> QED  BY <1>1, <1>2, <1>3, <1>9, <1>10, CopyReturns

\* A copy that goes on as the copy of a link, or of what the link leads to.
LEMMA CopyGoesOn ==
    ASSUME IInv, PInv, SInv, CInv, stack # <<>>, top.pc \in {"copy", "symlink"},
           IsTree(fs'), ChangedAt(fs, fs', top.dst), NEW f \in Frames,
           f.src = top.src, f.dst = top.dst, f.pc \in {"follow", "symlink"},
           f.off = top.off, f.seen = top.seen,
           top.src \in DOMAIN job.tree => /\ job.tree[top.src].kind = "link"
                                          /\ f.pc = "symlink" => f.text = job.tree[top.src].body,
           Become(f), UNCHANGED <<job, arg, final>>
    PROVE  CInv'
<1>1. ret = "call" /\ top.pc \in CopyPcs  BY CallingNow DEF CopyPcs
<1>2. FrameOK(job, fs, Source1, top)  BY <1>1, CopyFacts
<1>3. FrameOK(job, fs', Source1, f)  BY <1>1, <1>2 DEF FrameOK, Progress
<1>4. Ready(job, fs', f, top.dst)  BY DEF Ready
<1> QED  BY <1>1, <1>3, <1>4, CopyBecomes

LEMMA CCopySymlink == IInv /\ IInv' /\ PInv /\ SInv /\ CInv /\ CopySymlink => CInv'
<1> SUFFICES ASSUME IInv, IInv', PInv, SInv, CInv, CopySymlink PROVE CInv'
    OBVIOUS
<1> DEFINE d == Walk(fs, top.dst)
           x == fs[Source].body
           f == [top EXCEPT !.pc = "follow"]
           g == [top EXCEPT !.pc = "symlink", !.out = d, !.text = x]
<1>1. /\ stack # <<>> /\ UNCHANGED <<job, arg, final>> /\ top.pc = "copy" /\ top.pc \in CopyPcs
      /\ Kind(fs, Source) = "link"
    BY DEF CopySymlink, Copying, CopyPcs
<1>2. ret = "call" /\ top \in Frames /\ IsTree(fs) /\ IsTree(fs')
    BY <1>1, CallingNow, CFacts DEF IInv
<1>3. d = top.dst /\ d \in Seq(Name)  BY <1>1, <1>2, CopyFacts
<1>4. \/ UNCHANGED fs /\ Become(f)
      \/ fs' = Without(fs, d) /\ Become(g)
    BY DEF CopySymlink
<1>5. ASSUME top.src \in DOMAIN job.tree
      PROVE  job.tree[top.src].kind = "link" /\ x = job.tree[top.src].body
    BY <1>1, <1>2, <1>5, SourceIs DEF Source, Kind
<1>6. x \in Seq(Name)  BY <1>1, <1>2 DEF IsTree, Object, Kind
<1> HIDE DEF d, x
<1>7. CASE UNCHANGED fs /\ Become(f)
    <2>1. /\ f \in Frames /\ f.pc = "follow" /\ f.src = top.src /\ f.dst = top.dst
          /\ f.off = top.off /\ f.seen = top.seen
        BY <1>2 DEF Frames, Pcs
    <2> HIDE DEF f
    <2>2. ChangedAt(fs, fs', top.dst)  BY <1>7, ChangedNothing
    <2> QED  BY <1>1, <1>2, <1>5, <1>7, <2>1, <2>2, CopyGoesOn
<1>8. CASE fs' = Without(fs, d) /\ Become(g)
    <2>1. d \in Seq(Node)  BY <1>3, NameIsNode
    <2>2. /\ g \in Frames /\ g.pc = "symlink" /\ g.src = top.src /\ g.dst = top.dst
          /\ g.off = top.off /\ g.seen = top.seen /\ g.text = x
        BY <1>2, <1>6, <2>1 DEF Frames, Pcs
    <2> HIDE DEF g
    <2>3. ChangedAt(fs, fs', top.dst)  BY <1>3, <1>8, WithoutAt
    <2> QED  BY <1>1, <1>2, <1>5, <1>8, <2>2, <2>3, CopyGoesOn
<1> QED  BY <1>4, <1>7, <1>8

LEMMA CCopySymlinkFails == IInv /\ IInv' /\ PInv /\ SInv /\ CInv /\ CopySymlinkFails => CInv'
<1> SUFFICES ASSUME IInv, IInv', PInv, SInv, CInv, CopySymlinkFails PROVE CInv'
    OBVIOUS
<1> DEFINE f == [top EXCEPT !.pc = "follow"]
<1>1. /\ stack # <<>> /\ UNCHANGED <<job, arg, final, fs>> /\ top.pc \in {"copy", "symlink"}
      /\ top.pc \in CopyPcs /\ Become(f) /\ (top.pc = "copy" => Kind(fs, Source) = "link")
    BY DEF CopySymlinkFails, Copying, At, CopyPcs
<1>2. ret = "call" /\ top \in Frames /\ IsTree(fs)  BY <1>1, CallingNow, CFacts
<1>3. /\ f \in Frames /\ f.pc = "follow" /\ f.src = top.src /\ f.dst = top.dst
      /\ f.off = top.off /\ f.seen = top.seen
    BY <1>2 DEF Frames, Pcs
<1> HIDE DEF f
<1>4. ASSUME top.src \in DOMAIN job.tree PROVE job.tree[top.src].kind = "link"
    <2>1. CASE top.pc = "copy"  BY <1>1, <1>2, <1>4, <2>1, SourceIs DEF Source, Kind
    <2>2. CASE top.pc = "symlink"  BY <1>1, <1>2, <1>4, <2>2, SourceIs DEF Progress
    <2> QED  BY <1>1, <2>1, <2>2
<1>5. ChangedAt(fs, fs', top.dst)  BY <1>1, ChangedNothing
<1> QED  BY <1>1, <1>2, <1>3, <1>4, <1>5, CopyGoesOn

LEMMA CSymlink == IInv /\ IInv' /\ PInv /\ SInv /\ CInv /\ Symlink => CInv'
<1> SUFFICES ASSUME IInv, IInv', PInv, SInv, CInv, Symlink PROVE CInv'
    OBVIOUS
<1> DEFINE g == [top EXCEPT !.pc = "follow"]
           o == [kind |-> "link", body |-> top.text]
           s == top.src
           d == top.dst
<1>1. /\ stack # <<>> /\ UNCHANGED <<job, arg, final>> /\ top.pc = "symlink" /\ top.pc \in CopyPcs
    BY DEF Symlink, At, CopyPcs
<1>2. /\ ret = "call" /\ top \in Frames /\ IsTree(fs) /\ IsTree(fs') /\ IsTree(job.tree)
      /\ s \in Seq(Name) /\ d \in Seq(Name)
    BY <1>1, CallingNow, CFacts, CopyFacts DEF IInv
<1>3. top.out = d  BY <1>1, PFacts DEF OnCourse
<1>4. \/ fs' = Put(fs, top.out, o) /\ Return("ok")
      \/ Become(g) /\ UNCHANGED fs
    BY DEF Symlink
<1>5. ASSUME s \in DOMAIN job.tree PROVE job.tree[s].kind = "link" /\ job.tree[s] = o
    <2>1. Progress(job, fs, top) /\ job.tree[s] \in Object  BY <1>1, <1>2, <1>5, SourceIs
    <2>2. job.tree[s].kind = "link" /\ job.tree[s].body = top.text  BY <1>1, <2>1 DEF Progress
    <2>3. job.tree[s] \in [kind : {"link"}, body : Seq(Name)]  BY <2>1, <2>2 DEF Object
    <2> QED  BY <2>2, <2>3
<1> HIDE DEF o
<1>6. CASE fs' = Put(fs, top.out, o) /\ Return("ok")
    <2>1. ChangedAt(fs, fs', top.dst)  BY <1>3, <1>6, PutAt
    <2>2. d \in DOMAIN fs' /\ fs'[d] = o  BY <1>3, <1>6 DEF Put
    <2> HIDE DEF s, d
    <2>3. Good(job, fs', s, d)
        <3>1. CASE s \in DOMAIN job.tree
            <4>1. Kind(job.tree, s) # "dir" /\ Same(job, job.tree[s], fs', d)
                BY <1>5, <2>2, <3>1 DEF Kind, Same
            <4> QED  BY <1>2, <4>1, GoodLeaf
        <3>2. CASE s \notin DOMAIN job.tree  BY <1>2, <3>2, GoodNothing
        <3> QED  BY <3>1, <3>2
    <2>4. Good(job, fs', top.src, top.dst)  BY <2>3 DEF s, d
    <2> QED  BY <1>1, <1>2, <1>6, <2>1, <2>4, CopyReturns
<1>7. CASE Become(g) /\ UNCHANGED fs
    <2>1. /\ g \in Frames /\ g.pc = "follow" /\ g.src = top.src /\ g.dst = top.dst
          /\ g.off = top.off /\ g.seen = top.seen
        BY <1>2 DEF Frames, Pcs
    <2> HIDE DEF g
    <2>2. ChangedAt(fs, fs', top.dst)  BY <1>7, ChangedNothing
    <2> QED  BY <1>1, <1>2, <1>5, <1>7, <2>1, <2>2, CopyGoesOn
<1> QED  BY <1>4, <1>6, <1>7

\* The entries of a directory are those of what is below it.
LEMMA EntriesAre ==
    ASSUME NEW t, NEW u, NEW p,
           \A q \in DOMAIN t \cup DOMAIN u : IsPrefix(p, q) => (q \in DOMAIN t <=> q \in DOMAIN u)
    PROVE  Entries(t, p) = Entries(u, p)
<1>1. {q \in DOMAIN t : Len(q) = Len(p) + 1 /\ IsPrefix(p, q)}
          = {q \in DOMAIN u : Len(q) = Len(p) + 1 /\ IsPrefix(p, q)}
    OBVIOUS
<1> QED  BY <1>1 DEF Entries

LEMMA CCopyDirectory == IInv /\ IInv' /\ PInv /\ SInv /\ CInv /\ CopyDirectory => CInv'
<1> SUFFICES ASSUME IInv, IInv', PInv, SInv, CInv, CopyDirectory PROVE CInv'
    OBVIOUS
<1> DEFINE d == Walk(fs, top.dst)
           new == IF Kind(fs, d) = "none" THEN Put(fs, d, Dir) ELSE fs
           m == Entries(new, Source)
           f == [top EXCEPT !.pc = "list", !.in = Source, !.must = m]
           s == top.src
<1>1. /\ stack # <<>> /\ UNCHANGED <<job, arg, final>> /\ top.pc \in CopyPcs
      /\ top.pc \in {"copy", "follow"} /\ Kind(fs, Source) = "dir"
    BY DEF CopyDirectory, Copying, CopyPcs
<1>2. /\ ret = "call" /\ top \in Frames /\ IsTree(fs) /\ IsTree(fs') /\ IsTree(job.tree)
      /\ Source \in Seq(Node) /\ s \in Seq(Name) /\ IsPrefix(Source1, s)
      /\ FrameOK(job, fs, Source1, top) /\ Source1 \in Seq(Name) /\ arg \in DOMAIN job.args
    BY <1>1, CallingNow, CFacts, SourceType, CopyFacts DEF IInv
<1>3. \/ \E v : v \notin {"call", "ok"} /\ Reject(v)
      \/ fs' = new /\ Become(f)
    BY DEF CopyDirectory
<1>4. CASE \E v : v \notin {"call", "ok"} /\ Reject(v)  BY <1>1, <1>4, CFails
<1>5. CASE fs' = new /\ Become(f)
    <2>1. d = top.dst  BY <1>1, <1>2, CopyFacts
    <2>2. ChangedAt(fs, fs', top.dst)
        <3> HIDE DEF d
        <3>1. CASE fs' = Put(fs, d, Dir)  BY <2>1, <3>1, PutAt
        <3>2. CASE UNCHANGED fs  BY <3>2, ChangedNothing
        <3> QED  BY <1>5, <3>1, <3>2
    <2>3. m = Entries(fs', Source) /\ m \in SUBSET Name
        BY <1>2, <1>5, EntriesType
    <2> HIDE DEF m
    <2>4. /\ f \in Frames /\ f.pc = "list" /\ f.dst = top.dst /\ f.src = s
          /\ f.in = Source /\ f.must = m /\ f.seen = top.seen
        BY <1>2, <2>3 DEF Frames, Pcs
    <2>5. f.seen = {}  BY <1>1, <1>2, <2>4 DEF FrameOK
    <2> HIDE DEF f
    <2>6. ASSUME s \in DOMAIN job.tree PROVE Progress(job, fs', f)
        <3>1. Progress(job, fs, top) /\ Walk(fs, s) = s /\ fs[s] = job.tree[s]
            BY <1>1, <1>2, <2>6, SourceIs
        <3>2. CASE top.pc = "copy"
            <4>1. Source = s  BY <3>1, <3>2 DEF Source
            <4>2. job.tree[s].kind = "dir"  BY <1>1, <3>1, <4>1 DEF Kind
            <4>3. Untouched(job, fs', arg)
                <5>1. Untouched(job, fs, arg)  BY <1>1, <1>2, CopyFacts
                <5>2. ~IsPrefix(job.args[arg], top.dst)
                    <6>1. ~Under(job, top.dst)  BY <1>1, PlaceApart
                    <6> QED  BY <1>2, <6>1 DEF Under
                <5> QED  BY <2>2, <5>1, <5>2 DEF Untouched, ChangedAt
            <4>4. Entries(fs', s) = Entries(job.tree, s)
                <5>1. ASSUME NEW q \in DOMAIN fs' \cup DOMAIN job.tree, IsPrefix(s, q)
                      PROVE  q \in DOMAIN fs' <=> q \in DOMAIN job.tree
                    <6>1. q \in Seq(Name)  BY <1>2 DEF IsTree
                    <6>2. IsPrefix(Source1, q)  BY <1>2, <5>1, <6>1, PrefixTransitive
                    <6> QED  BY <4>3, <6>2 DEF Untouched, Source1
                <5> QED  BY <5>1, EntriesAre
            <4> QED  BY <2>3, <2>4, <4>1, <4>2, <4>4 DEF Progress
        <3>3. CASE top.pc = "follow"
            <4>1. job.tree[s].kind = "link"  BY <3>1, <3>3 DEF Progress
            <4>2. Source = job.tree[s].body
                BY <1>1, <1>2, <2>6, <3>3, <4>1, LinkLeads DEF Source
            <4>3. Kind(job.tree, job.tree[s].body) = "dir"
                BY <1>1, <1>2, <2>6, <4>1, <4>2, LinkLeads
            <4> QED  BY <2>4, <4>1, <4>3 DEF Progress
        <3> QED  BY <1>1, <3>2, <3>3
    <2>7. FrameOK(job, fs', Source1, f)  BY <1>2, <2>4, <2>6 DEF FrameOK
    <2>8. Ready(job, fs', f, top.dst)  BY <2>5 DEF Ready
    <2> QED  BY <1>1, <1>2, <1>5, <2>2, <2>4, <2>7, <2>8, CopyBecomes
<1> QED  BY <1>3, <1>4, <1>5

\* What has been read of a directory and is not being copied is copied.
LEMMA SeenIsCopied ==
    ASSUME IInv, PInv, SInv, CInv, stack # <<>>, top.pc = "list", ret \in {"call", "ok"},
           NEW m \in top.seen
    PROVE  Good(job, fs, Append(top.src, m), Append(top.dst, m))
<1>1. top.pc \in CopyPcs  BY DEF CopyPcs
<1>2. Ready(job, fs, top, top.dst) /\ top.dst \in Seq(Name) /\ top \in Frames
    BY <1>1, CopyFacts, CFacts
<1>3. m \in Name  BY <1>2 DEF Frames
<1> DEFINE d == top.dst
           q == Append(d, m)
<1>4. q \in Seq(Name) /\ Len(q) = Len(d) + 1  BY <1>2, <1>3, PrefixOfAppend
<1>5. d \in Seq(Name)  BY <1>2
<1> HIDE DEF d, q
<1>6. ~IsPrefix(q, d)  BY <1>4, <1>5, PrefixShort
<1>7. ~IsPrefix(Append(top.dst, m), top.dst)  BY <1>6 DEF q, d
<1> QED  BY <1>2, <1>7 DEF Ready

LEMMA CCopyEntry == IInv /\ PInv /\ SInv /\ CInv /\ CopyEntry => CInv'
<1> SUFFICES ASSUME IInv, PInv, SInv, CInv, CopyEntry PROVE CInv'
    OBVIOUS
<1>1. /\ stack # <<>> /\ top.pc = "list" /\ top.pc \in CopyPcs /\ ret = "call"
      /\ UNCHANGED <<job, arg, final>>
    BY DEF CopyEntry, At, CopyPcs
<1>2. /\ top \in Frames /\ IsTree(fs) /\ FrameOK(job, fs, Source1, top)
      /\ top.src \in Seq(Name) /\ top.dst \in Seq(Name) /\ IsPrefix(Source1, top.src)
      /\ Source1 \in Seq(Name)
    BY <1>1, CFacts, CopyFacts
<1>3. PICK n \in Entries(fs, top.in) \ top.seen :
          IF TooLong(top.src) \/ TooLong(top.dst) THEN Reject("ENAMETOOLONG")
          ELSE /\ Call([top EXCEPT !.seen = @ \cup {n}],
                       Frame("copy", Append(top.src, n), Append(top.dst, n)))
               /\ UNCHANGED fs
    BY DEF CopyEntry
<1>4. n \in Name
    <2>1. top.in \in Seq(Node)  BY <1>2 DEF Frames
    <2> QED  BY <1>2, <1>3, <2>1, EntriesType
<1>5. CASE Reject("ENAMETOOLONG")  BY <1>1, <1>5, CFails
<1>6. CASE ~Reject("ENAMETOOLONG")
    <2> DEFINE w == top.seen \cup {n}
               f == [top EXCEPT !.seen = w]
               s == Append(top.src, n)
               d == Append(top.dst, n)
               g == Frame("copy", s, d)
    <2>1. Call(f, g) /\ UNCHANGED fs  BY <1>3, <1>6
    <2>2. w \in SUBSET Name /\ n \in w /\ \A m \in w : m = n \/ m \in top.seen
        BY <1>2, <1>4 DEF Frames
    <2> HIDE DEF w
    <2>3. /\ f \in Frames /\ f.dst = top.dst /\ f.src = top.src /\ f.pc = "list" /\ f.seen = w
          /\ f.in = top.in /\ f.must = top.must
        BY <1>1, <1>2, <2>2 DEF Frames
    <2>4. /\ s \in Seq(Name) /\ d \in Seq(Name) /\ IsPrefix(top.dst, d) /\ IsPrefix(d, d)
          /\ IsPrefix(top.src, s)
        BY <1>2, <1>4, PrefixOfAppend, PrefixSelf
    <2>5. IsPrefix(Source1, s)  BY <1>2, <2>4, PrefixTransitive
    <2>6. s = Append(top.src, n) /\ d = Append(top.dst, n)  OBVIOUS
    <2> HIDE DEF s, d
    <2>7. s \in Seq(Node) /\ d \in Seq(Node)  BY <2>4, NameIsNode
    <2>8. g \in Frames /\ g.dst = d /\ g.src = s /\ g.pc = "copy"  BY <2>7, FrameIs DEF Pcs
    <2>9. g.off = 0 /\ g.seen = {}  BY DEF Frame
    <2> HIDE DEF f, g
    <2>10. FrameOK(job, fs, Source1, f)
        BY <1>1, <1>2, <2>3 DEF FrameOK, Progress
    <2>11. FrameOK(job, fs, Source1, g)
        BY <2>4, <2>5, <2>8, <2>9 DEF FrameOK, Progress
    <2>12. Ready(job, fs, f, g.dst)
        <3> SUFFICES ASSUME NEW m \in w, m # n
                     PROVE  Good(job, fs, Append(top.src, m), Append(top.dst, m))
            BY <2>3, <2>4, <2>6, <2>8 DEF Ready
        <3>1. m \in top.seen  BY <2>2
        <3> QED  BY <1>1, <3>1, SeenIsCopied
    <2>13. CalledFor(g, f)  BY <2>2, <2>3, <2>6, <2>8 DEF CalledFor
    <2> QED  BY <1>1, <2>1, <2>3, <2>4, <2>8, <2>10, <2>11, <2>12, <2>13, CopyCalls
<1> QED  BY <1>5, <1>6

LEMMA CEntryDone == IInv /\ PInv /\ SInv /\ CInv /\ (EntryCopied \/ EntryRemoved) => CInv'
<1> SUFFICES ASSUME IInv, PInv, SInv, CInv, EntryCopied \/ EntryRemoved PROVE CInv'
    OBVIOUS
<1>1. stack # <<>> /\ UNCHANGED <<job, arg, final>> /\ ret # "call" /\ top.pc \in {"list", "scan"}
    BY DEF EntryCopied, EntryRemoved, At
<1>2. \/ ret # "ok" /\ Reject(ret)
      \/ ret = "ok" /\ ret' = "call" /\ UNCHANGED <<stack, fs>>
    BY DEF EntryCopied, EntryRemoved
<1>3. CASE ret # "ok" /\ Reject(ret)
    <2>1. ret \notin {"call", "ok"} /\ Reject(ret)  BY <1>1, <1>3
    <2> DEFINE v == ret
    <2>2. v \notin {"call", "ok"} /\ Reject(v)  BY <2>1
    <2> QED  BY <1>1, <2>2, CFails
<1>4. CASE ret = "ok" /\ ret' = "call" /\ UNCHANGED <<stack, fs>>
    <2>1. COthers  BY <1>1, <1>4, SameKept
    <2>2. InProgress  BY <1>1, CFacts
    <2>3. top' = top  BY <1>4 DEF top
    <2>4. InProgress'
        BY <1>1, <1>4, <2>2, <2>3 DEF InProgress, Source1
    <2> QED  BY <1>1, <1>4, <2>1, <2>4, CAfter
<1> QED  BY <1>2, <1>3, <1>4

LEMMA CDirectoryCopied == IInv /\ IInv' /\ PInv /\ SInv /\ CInv /\ DirectoryCopied => CInv'
<1> SUFFICES ASSUME IInv, IInv', PInv, SInv, CInv, DirectoryCopied PROVE CInv'
    OBVIOUS
<1> DEFINE s == top.src
           d == top.dst
           o == job.tree[s]
<1>1. /\ stack # <<>> /\ UNCHANGED <<job, arg, final, fs>> /\ top.pc = "list" /\ ret = "call"
      /\ Return("ok") /\ top.pc \in CopyPcs /\ top.must \subseteq top.seen
    BY DEF DirectoryCopied, At, CopyPcs, Reject
<1>2. /\ s \in Seq(Name) /\ d \in Seq(Name) /\ IsTree(fs) /\ IsTree(fs') /\ IsTree(job.tree)
    BY <1>1, CopyFacts, CFacts DEF IInv
<1>3. Kind(fs, d) = "dir"  BY <1>1, PFacts DEF OnCourse
<1>4. d \in DOMAIN fs /\ fs[d].kind = "dir" /\ fs[d] = Dir
    <2>1. d \in DOMAIN fs /\ fs[d].kind = "dir" /\ fs[d] \in Object  BY <1>2, <1>3 DEF Kind, IsTree
    <2>2. fs[d] \in [kind : {"dir", "dev"}, body : {<<>>}]  BY <2>1 DEF Object
    <2> QED  BY <2>1, <2>2 DEF Dir
<1>5. \A m \in top.seen : Good(job, fs, Append(s, m), Append(d, m))  BY <1>1, SeenIsCopied
<1>6. ASSUME s \in DOMAIN job.tree PROVE Good(job, fs, s, d)
    <2>1. Progress(job, fs, top) /\ o \in Object  BY <1>1, <1>6, SourceIs
    <2>2. CASE o.kind = "link" /\ Kind(job.tree, o.body) = "dir"
        <3>1. Kind(job.tree, s) # "dir" /\ Same(job, o, fs, d)
            BY <1>4, <1>6, <2>2 DEF Same, Kind
        <3> HIDE DEF s, d
        <3> QED  BY <1>2, <3>1, GoodLeaf DEF o
    <2>3. CASE o.kind = "dir" /\ top.in = s /\ top.must = Entries(job.tree, s)
        <3>1. o = Dir
            <4>1. o \in [kind : {"dir", "dev"}, body : {<<>>}]  BY <2>1, <2>3 DEF Object
            <4> QED  BY <2>3, <4>1 DEF Dir
        <3>2. Same(job, o, fs, d)  BY <1>4, <3>1 DEF Same
        <3>3. \A m \in Entries(job.tree, s) : Good(job, fs, Append(s, m), Append(d, m))
            BY <1>1, <1>5, <2>3
        <3> HIDE DEF s, d
        <3> QED  BY <1>2, <3>2, <3>3, GoodDir DEF o
    <2> QED  BY <1>1, <2>1, <2>2, <2>3 DEF Progress
<1> HIDE DEF s, d
<1>7. Good(job, fs, s, d)  BY <1>2, <1>6, GoodNothing
<1>8. Good(job, fs', top.src, top.dst)  BY <1>1, <1>7 DEF s, d
<1>9. ChangedAt(fs, fs', top.dst)  BY <1>1, ChangedNothing
<1> QED  BY <1>1, <1>2, <1>8, <1>9, CopyReturns

-----------------------------------------------------------------------------
(* Each step of a removal and of a move *)

\* A call that removes has made its copy, and is called by removals only.
LEMMA RemovalFacts ==
    ASSUME IInv, PInv, SInv, CInv, stack # <<>>,
           top.pc \in RemovePcs \/ (top.pc = "copied" /\ ret = "ok")
    PROVE  /\ Good(job, fs, Source1, final)
           /\ \A i \in 2 .. Len(stack) : stack[i].pc = "scan" /\ top.pc \in RemovePcs
           /\ ret \in {"call", "ok"} => Chain(job, fs, Source1, final, stack)
<1>1. InProgress  BY CFacts
<1>2. ASSUME NEW i \in 2 .. Len(stack) PROVE stack[i].pc = "scan" /\ top.pc \in RemovePcs
    <2>1. Inside(top, stack[i])  BY PFacts
    <2> QED  BY <2>1 DEF Inside
<1> QED  BY <1>1, <1>2 DEF InProgress

LEMMA RemovalKeeps ==
    ASSUME IInv, PInv, SInv, CInv, stack # <<>>,
           top.pc \in RemovePcs \/ (top.pc = "copied" /\ ret = "ok"), IsTree(fs'),
           UNCHANGED job,
           NEW p \in Seq(Name), IsPrefix(Source1, p), fs' = Without(fs, p)
    PROVE  COthers /\ Good(job, fs', Source1, final)
<1>1. Good(job, fs, Source1, final)  BY RemovalFacts
<1>2. /\ arg \in DOMAIN job.args /\ final \in Places(job, arg) /\ final \in Seq(Name)
      /\ Source1 \in Seq(Name)
    BY CFacts
<1>3. ChangedAt(fs, fs', p)  BY WithoutAt
<1>4. Good(job, fs', Source1, final)
    <2>1. ~IsPrefix(final, p)  BY <1>2, FinalApart DEF Under, Source1
    <2> DEFINE s == Source1
    <2>2. Good(job, fs, s, final)  BY <1>1
    <2> HIDE DEF s
    <2>3. Good(job, fs', s, final)  BY <1>2, <1>3, <2>1, <2>2, GoodAt
    <2> QED  BY <2>3 DEF s
<1>5. Fresh(job, fs')  BY DEF CInv, Fresh, Without
<1>6. ASSUME NEW k \in DOMAIN job.args PROVE Kept(job, fs', k)
    <2>1. CASE k = arg  BY <1>2, <1>4, <2>1 DEF Kept, Source1
    <2>2. CASE k # arg
        <3>1. Nearby(fs, fs')  BY <1>3 DEF Nearby, ChangedAt
        <3> QED  BY <2>2, <3>1, OthersKept
    <2> QED  BY <2>1, <2>2
<1> QED  BY <1>4, <1>5, <1>6 DEF COthers

\* Something of the operand is gone, and with the first call all of it.
LEMMA RemovalReturns ==
    ASSUME IInv, PInv, SInv, CInv, stack # <<>>,
           top.pc \in RemovePcs \/ (top.pc = "copied" /\ ret = "ok"), ret \in {"call", "ok"},
           IsTree(fs'), NEW p \in Seq(Name), fs' = Without(fs, p),
           p = top.src, IsPrefix(Source1, p), Return("ok"), UNCHANGED <<job, arg, final>>
    PROVE  CInv'
<1>1. COthers /\ Good(job, fs', Source1, final)  BY RemovalKeeps
<1>2. stack' = Tail(stack) /\ ret' = "ok"  BY DEF Return
<1>3. /\ Chain(job, fs, Source1, final, stack)
      /\ \A i \in 2 .. Len(stack) : stack[i].pc = "scan" /\ top.pc \in RemovePcs
    BY RemovalFacts
<1>4. stack \in Seq(Frames) /\ Len(stack) \in Nat /\ Len(stack) >= 1 /\ top = stack[1]
    BY CFacts
<1>5. ASSUME stack' = <<>> PROVE Source1 \notin DOMAIN fs'
    <2>1. Len(stack) = 1 /\ 1 \in 1 .. Len(stack)
        <3> DEFINE n == Len(stack)
                   k == Len(Tail(stack))
        <3>1. k = n - 1 /\ n \in Nat  BY <1>4, TailIs
        <3>2. k = 0  BY <1>2, <1>5, EmptySeq
        <3> HIDE DEF n, k
        <3>3. n = 1  BY <3>1, <3>2
        <3> QED  BY <3>3 DEF n
    <2>2. Begun(job.cmd, Source1, final, top)  BY <1>3, <1>4, <2>1 DEF Chain
    <2>3. p = Source1  BY <2>2 DEF Begun
    <2> QED  BY <2>3 DEF Without
<1>6. ASSUME stack' # <<>> PROVE InProgress'
    <2>1. /\ top'.pc \in {"list", "scan", "copied"}
          /\ \A i \in 2 .. Len(stack') : stack'[i].pc \in RemovePcs => top'.pc \in RemovePcs
        BY <1>2, <1>6, CallerWaits
    <2>2. Chain(job, fs', Source1, final, Tail(stack))
        <3>1. \A i \in 2 .. Len(stack) : /\ FrameOK(job, fs', Source1, stack[i])
                                         /\ Ready(job, fs', stack[i], stack[2].dst)
            BY <1>3 DEF FrameOK, Ready, CopyPcs
        <3> QED  BY <1>3, <1>4, <3>1, ChainReturn
    <2> QED  BY <1>1, <1>2, <2>1, <2>2 DEF InProgress, Source1
<1> QED  BY <1>1, <1>2, <1>5, <1>6, CAfter

\* A removal goes on or is called.
LEMMA RemovalGoesOn ==
    ASSUME IInv, PInv, SInv, CInv, stack # <<>>, UNCHANGED <<job, fs, arg, final>>,
           top.pc \in RemovePcs \/ (top.pc = "copied" /\ ret = "ok"),
           stack' # <<>>, top'.pc \in RemovePcs, ret' = "call",
           Chain(job, fs, Source1, final, stack')
    PROVE  CInv'
<1>1. COthers  BY SameKept
<1>2. Good(job, fs, Source1, final)  BY RemovalFacts
<1>3. InProgress'  BY <1>2 DEF InProgress, Source1, RemovePcs
<1> QED  BY <1>1, <1>3, CAfter

LEMMA CRemoveLeaf == IInv /\ IInv' /\ PInv /\ SInv /\ CInv /\ RemoveLeaf => CInv'
<1> SUFFICES ASSUME IInv, IInv', PInv, SInv, CInv, RemoveLeaf PROVE CInv'
    OBVIOUS
<1> DEFINE p == Walk(fs, top.src)
           f == [top EXCEPT !.pc = "scan", !.in = p]
<1>1. stack # <<>> /\ UNCHANGED <<job, arg, final>> /\ top.pc = "remove" /\ top.pc \in RemovePcs
    BY DEF RemoveLeaf, At, RemovePcs
<1>2. /\ ret = "call" /\ top \in Frames /\ IsTree(fs) /\ IsTree(fs') /\ job.cmd # "rm"
      /\ stack \in Seq(Frames) /\ top = stack[1]
    BY <1>1, CallingNow, CFacts DEF IInv
<1>3. Direct(fs, top.src) /\ IsPrefix(Source1, top.src)
    BY <1>1, PFacts DEF OnCourse, RemovePcs
<1>4. p = top.src /\ p \in Seq(Name)  BY <1>2, <1>3, DirectWalk DEF Direct
<1>5. \/ \E v : v \notin {"call", "ok"} /\ Reject(v)
      \/ fs' = Without(fs, p) /\ Return("ok")
      \/ Become(f) /\ UNCHANGED fs
    BY <1>2 DEF RemoveLeaf, Lookup, Forced
<1>6. CASE \E v : v \notin {"call", "ok"} /\ Reject(v)  BY <1>1, <1>6, CFails
<1>7. CASE fs' = Without(fs, p) /\ Return("ok")
    <2> HIDE DEF p
    <2> QED  BY <1>1, <1>2, <1>3, <1>4, <1>7, RemovalReturns
<1>8. CASE Become(f) /\ UNCHANGED fs
    <2>1. p \in Seq(Node)  BY <1>4, NameIsNode
    <2> HIDE DEF p
    <2>2. f \in Frames /\ f.pc = "scan" /\ f.src = top.src /\ f.dst = top.dst
        BY <1>2, <2>1 DEF Frames, Pcs
    <2> HIDE DEF f
    <2> DEFINE z == <<f>> \o Tail(stack)
    <2>3. stack' = z /\ ret' = "call"  BY <1>2, <1>8 DEF Become
    <2>4. Chain(job, fs, Source1, final, z)
        <3>1. Chain(job, fs, Source1, final, stack)  BY <1>1, <1>2, RemovalFacts
        <3>2. FrameOK(job, fs, Source1, f) /\ Ready(job, fs, f, f.dst)
            BY <2>2 DEF FrameOK, Ready, CopyPcs
        <3>3. \A i \in 2 .. Len(stack) : /\ FrameOK(job, fs, Source1, stack[i])
                                         /\ Ready(job, fs, stack[i], f.dst)
            BY <1>1, RemovalFacts DEF FrameOK, Ready, CopyPcs
        <3>4. f.pc \notin CopyPcs  BY <2>2 DEF CopyPcs
        <3> QED  BY <1>1, <1>2, <2>2, <3>1, <3>2, <3>3, <3>4, ChainBecome
    <2> HIDE DEF z
    <2>5. stack' # <<>> /\ top' = f  BY <1>1, <1>8, <2>2, TopBecomes
    <2>6. top'.pc \in RemovePcs  BY <2>2, <2>5 DEF RemovePcs
    <2> QED  BY <1>1, <1>8, <2>3, <2>4, <2>5, <2>6, RemovalGoesOn
<1> QED  BY <1>5, <1>6, <1>7, <1>8

LEMMA CRemoveEntry == IInv /\ PInv /\ SInv /\ CInv /\ RemoveEntry => CInv'
<1> SUFFICES ASSUME IInv, PInv, SInv, CInv, RemoveEntry PROVE CInv'
    OBVIOUS
<1>1. /\ stack # <<>> /\ UNCHANGED <<job, arg, final>> /\ top.pc = "scan" /\ top.pc \in RemovePcs
      /\ ret = "call"
    BY DEF RemoveEntry, At, RemovePcs
<1>2. top \in Frames /\ IsTree(fs) /\ stack \in Seq(Frames) /\ top = stack[1]
    BY <1>1, CFacts
<1>3. PICK n \in Entries(fs, top.in) :
          IF TooLong(top.src) THEN Reject("ENAMETOOLONG")
          ELSE Call(top, Frame("remove", Append(top.src, n), <<>>)) /\ UNCHANGED fs
    BY DEF RemoveEntry
<1>4. n \in Node
    <2>1. top.in \in Seq(Node)  BY <1>2 DEF Frames
    <2> QED  BY <1>2, <2>1, EntriesType DEF Node
<1>5. CASE Reject("ENAMETOOLONG")  BY <1>1, <1>5, CFails
<1>6. CASE ~Reject("ENAMETOOLONG")
    <2> DEFINE s == Append(top.src, n)
               g == Frame("remove", s, <<>>)
               z == <<g, top>> \o Tail(stack)
    <2>1. Call(top, g) /\ UNCHANGED fs  BY <1>3, <1>6
    <2>2. s \in Seq(Node)  BY <1>2, <1>4, AppendProperties DEF Frames
    <2> HIDE DEF s
    <2>3. g \in Frames /\ g.pc = "remove"  BY <2>2, RemovalIs
    <2> HIDE DEF g
    <2>4. stack' = z /\ ret' = "call"  BY <1>1, <2>1 DEF Call
    <2>5. Chain(job, fs, Source1, final, z)
        <3>1. Chain(job, fs, Source1, final, stack)  BY <1>1, RemovalFacts
        <3>2. /\ FrameOK(job, fs, Source1, g) /\ Ready(job, fs, g, g.dst)
              /\ FrameOK(job, fs, Source1, top) /\ Ready(job, fs, top, g.dst)
            BY <1>1, <2>3 DEF FrameOK, Ready, CopyPcs
        <3>3. \A i \in 2 .. Len(stack) : /\ FrameOK(job, fs, Source1, stack[i])
                                         /\ Ready(job, fs, stack[i], g.dst)
            BY <1>1, RemovalFacts DEF FrameOK, Ready, CopyPcs
        <3>4. CalledFor(g, top)  BY <1>1 DEF CalledFor
        <3>5. top.pc \in CopyPcs => stack[1].pc \in CopyPcs  BY <1>2
        <3>6. top.src = stack[1].src /\ top.dst = stack[1].dst  BY <1>2
        <3> DEFINE f == top
        <3>7. /\ f \in Frames /\ f.src = stack[1].src /\ f.dst = stack[1].dst
              /\ (f.pc \in CopyPcs => stack[1].pc \in CopyPcs)
              /\ FrameOK(job, fs, Source1, f) /\ Ready(job, fs, f, g.dst) /\ CalledFor(g, f)
            BY <1>2, <3>2, <3>4, <3>5, <3>6
        <3> HIDE DEF f
        <3>8. Chain(job, fs, Source1, final, <<g, f>> \o Tail(stack))
            BY <1>1, <1>2, <2>3, <3>1, <3>2, <3>3, <3>7, ChainCall
        <3> QED  BY <3>8 DEF f
    <2> HIDE DEF z
    <2>6. stack' # <<>> /\ top' = g  BY <1>1, <1>2, <2>1, <2>3, TopCalls
    <2>7. top'.pc \in RemovePcs  BY <2>3, <2>6 DEF RemovePcs
    <2> QED  BY <1>1, <2>1, <2>4, <2>5, <2>6, <2>7, RemovalGoesOn
<1> QED  BY <1>5, <1>6

LEMMA CDirectoryRemoved == IInv /\ IInv' /\ PInv /\ SInv /\ CInv /\ DirectoryRemoved => CInv'
<1> SUFFICES ASSUME IInv, IInv', PInv, SInv, CInv, DirectoryRemoved PROVE CInv'
    OBVIOUS
<1> DEFINE p == top.in
<1>1. /\ stack # <<>> /\ UNCHANGED <<job, arg, final>> /\ top.pc = "scan" /\ top.pc \in RemovePcs
      /\ ret = "call"
    BY DEF DirectoryRemoved, At, RemovePcs
<1>2. IsTree(fs')  BY DEF IInv
<1>3. p = top.src /\ p \in Seq(Name) /\ IsPrefix(Source1, p)
    BY <1>1, PFacts DEF OnCourse, RemovePcs, Direct
<1>4. \/ Reject("EBUSY")
      \/ fs' = Without(fs, p) /\ Return("ok")
    BY DEF DirectoryRemoved
<1>5. CASE Reject("EBUSY")  BY <1>1, <1>5, CFails
<1>6. CASE fs' = Without(fs, p) /\ Return("ok")
    <2> HIDE DEF p
    <2> QED  BY <1>1, <1>2, <1>3, <1>6, RemovalReturns
<1> QED  BY <1>4, <1>5, <1>6

\* A call of main's is the only one.
LEMMA MoveIsAlone ==
    ASSUME IInv, PInv, SInv, CInv, stack # <<>>, top.pc \in {"move", "copied"}
    PROVE  /\ Len(stack) = 1 /\ Tail(stack) = <<>> /\ top.src = Source1 /\ top.dst = final
           /\ job.cmd = "mv" /\ Walk(fs, Source1) = Source1
<1>1. Len(stack) = 1
    <2>1. CASE top.pc = "move"  BY <2>1, TopIs DEF OnTop
    <2>2. CASE top.pc = "copied"
        <3>1. ~(2 \in 2 .. Len(stack))  BY <2>2, PFacts DEF Inside
        <3> DEFINE n == Len(stack)
        <3>2. n \in Nat /\ n >= 1 /\ ~(2 \in 2 .. n)  BY <3>1, CFacts
        <3> HIDE DEF n
        <3>3. n = 1  BY <3>2
        <3> QED  BY <3>3 DEF n
    <2> QED  BY <2>1, <2>2
<1>2. Tail(stack) = <<>>
    <2>1. Len(Tail(stack)) = 0 /\ Tail(stack) \in Seq(Frames)  BY <1>1, CFacts, TailIs
    <2> QED  BY <2>1, EmptySeq
<1> QED  BY <1>1, <1>2, PFacts DEF OnCourse

LEMMA CRemoveSource == IInv /\ IInv' /\ PInv /\ SInv /\ CInv /\ RemoveSource => CInv'
<1> SUFFICES ASSUME IInv, IInv', PInv, SInv, CInv, RemoveSource PROVE CInv'
    OBVIOUS
<1> DEFINE f == Frame("remove", top.src, <<>>)
           p == top.in
<1>1. stack # <<>> /\ top.pc = "copied" /\ UNCHANGED <<job, arg, final>> /\ ret # "call"
    BY DEF RemoveSource, At, SInv
<1>2. /\ top.in = Source1 /\ top.src = Source1 /\ Source1 \in Seq(Name) /\ IsTree(fs')
      /\ Tail(stack) = <<>> /\ stack \in Seq(Frames)
    BY <1>1, MoveIsAlone, PFacts, CFacts DEF OnCourse, IInv
<1>3. \/ ret # "ok" /\ Reject(ret)
      \/ ret = "ok" /\ stack' = <<f>> \o Tail(stack) /\ ret' = "call" /\ UNCHANGED fs
      \/ ret = "ok" /\ fs' = Without(fs, p) /\ Return("ok")
    BY DEF RemoveSource
<1>4. CASE ret # "ok" /\ Reject(ret)
    <2> DEFINE v == ret
    <2>1. v \notin {"call", "ok"} /\ Reject(v)  BY <1>1, <1>4
    <2> QED  BY <1>1, <2>1, CFails
<1>5. CASE ret = "ok" /\ stack' = <<f>> \o Tail(stack) /\ ret' = "call" /\ UNCHANGED fs
    <2>1. top.src \in Seq(Node)  BY <1>2, NameIsNode
    <2>2. f \in Frames /\ f.pc = "remove" /\ f.src = Source1  BY <1>2, <2>1, RemovalIs
    <2> DEFINE z == <<f>> \o Tail(stack)
    <2> HIDE DEF f
    <2>3. Len(z) = 1 /\ z[1] = f /\ z \in Seq(Frames)
        <3>1. Len(z) = Len(stack) /\ z[1] = f /\ z \in Seq(Frames)
            BY <1>1, <1>2, <2>2, BecomeIs
        <3>2. Len(stack) = 1  BY <1>1, MoveIsAlone
        <3> QED  BY <3>1, <3>2
    <2>4. stack' = z  BY <1>5
    <2> HIDE DEF z
    <2>5. stack' # <<>>  BY <2>3, <2>4, EmptySeq
    <2>6. top'.pc \in RemovePcs  BY <2>2, <2>3, <2>4 DEF top, RemovePcs
    <2>7. Chain(job, fs, Source1, final, z)
        <3>1. FrameOK(job, fs, Source1, f) /\ Ready(job, fs, f, f.dst)
            BY <2>2 DEF FrameOK, Ready, CopyPcs
        <3>2. Begun(job.cmd, Source1, final, f)  BY <2>2 DEF Begun, CopyPcs
        <3>3. \A i \in 1 .. Len(z) : i = 1  BY <2>3
        <3>4. \A i, k \in 1 .. Len(z) : k # i + 1  BY <2>3
        <3> QED  BY <2>3, <3>1, <3>2, <3>3, <3>4 DEF Chain
    <2> QED  BY <1>1, <1>5, <2>4, <2>5, <2>6, <2>7, RemovalGoesOn
<1>6. CASE ret = "ok" /\ fs' = Without(fs, p) /\ Return("ok")
    <2>1. p = top.src /\ p \in Seq(Name) /\ IsPrefix(Source1, p)  BY <1>2, PrefixSelf
    <2> HIDE DEF p
    <2> QED  BY <1>1, <1>2, <1>6, <2>1, RemovalReturns
<1> QED  BY <1>3, <1>4, <1>5, <1>6

\* rename() has moved all of the operand.
LEMMA RenameMoves ==
    ASSUME IInv, IInv', PInv, SInv, CInv, stack # <<>>, top.pc = "move", UNCHANGED <<job, arg, final>>,
           Return("ok"), fs' = Moved(fs, Source1, final)
    PROVE  CInv'
<1> DEFINE s == Source1
           u == Moved(fs, s, final)
           P(q) == q \in DOMAIN fs /\ ~IsPrefix(s, q) /\ ~IsPrefix(final, q)
<1>1. /\ IsTree(fs) /\ IsTree(fs') /\ s \in Seq(Name) /\ final \in Seq(Name)
      /\ final \in Places(job, arg) /\ arg \in DOMAIN job.args /\ Clear(job)
    BY CFacts DEF IInv
<1>2. Untouched(job, fs, arg)
    <2>1. Intact(arg)  BY DEF Intact, RemovePcs
    <2> QED  BY <1>1, <2>1 DEF SInv
<1>3. ~IsPrefix(final, s) /\ IsPrefix(s, s)
    BY <1>1, PrefixSelf DEF Clear, Apart, Source1
<1>4. fs' = u  OBVIOUS
<1>5. Untouched(job, fs, arg) => \A q \in DOMAIN job.tree : IsPrefix(s, q) =>
          q \in DOMAIN fs /\ fs[q] = job.tree[q]
    BY DEF Untouched, Source1
<1>6. /\ \A q \in DOMAIN fs \cup DOMAIN u :
              \/ q \in DOMAIN fs \cap DOMAIN u /\ fs[q] = u[q]
              \/ IsPrefix(s, q) \/ IsPrefix(final, q)
      /\ \A q : P(q) => q \in DOMAIN u /\ u[q] = fs[q]
      /\ \A r \in Seq(Name) : s \o r \in DOMAIN fs =>
            final \o r \in DOMAIN u /\ u[final \o r] = fs[s \o r]
      /\ \A q \in DOMAIN u : P(q) \/ \E r \in Seq(Name) : q = final \o r /\ s \o r \in DOMAIN fs
    <2> HIDE DEF s
    <2> QED  BY <1>1, MovedOnly, MovedIs
<1> HIDE DEF u
<1>7. Nearby(fs, fs')  BY <1>4, <1>6 DEF Nearby
<1>8. Good(job, fs', s, final)
    <2> SUFFICES ASSUME NEW r \in Seq(Name), s \o r \in DOMAIN job.tree
                 PROVE  Same(job, job.tree[s \o r], fs', final \o r)
        BY DEF Good
    <2>1. IsPrefix(s, s \o r)  BY <1>1, OnwardIs
    <2>2. s \o r \in DOMAIN fs /\ fs[s \o r] = job.tree[s \o r]  BY <1>2, <1>5, <2>1
    <2>3. final \o r \in DOMAIN fs' /\ fs'[final \o r] = job.tree[s \o r]
        BY <1>4, <1>6, <2>2
    <2> QED  BY <2>3 DEF Same
<1>9. s \notin DOMAIN fs'
    <2> SUFFICES ASSUME s \in DOMAIN u PROVE FALSE
        BY <1>4
    <2>1. ~P(s)  BY <1>3
    <2>2. PICK r \in Seq(Name) : s = final \o r  BY <1>6, <2>1
    <2>3. IsPrefix(final, final \o r)  BY <1>1, OnwardIs
    <2> QED  BY <1>3, <2>2, <2>3
<1>10. Fresh(job, fs')
    <2> SUFFICES ASSUME NEW q \in DOMAIN u, ~InPlace(job, q)
                 PROVE  q \in DOMAIN job.tree /\ u[q] = job.tree[q]
        BY <1>4 DEF Fresh
    <2>1. ~IsPrefix(final, q)  BY <1>1 DEF InPlace
    <2>2. \A r \in Seq(Name) : q # final \o r
        <3> SUFFICES ASSUME NEW r \in Seq(Name), q = final \o r PROVE FALSE
            OBVIOUS
        <3>1. IsPrefix(final, final \o r)  BY <1>1, OnwardIs
        <3> QED  BY <2>1, <3>1
    <2>3. P(q)  BY <1>6, <2>2
    <2>4. u[q] = fs[q] /\ q \in DOMAIN fs  BY <1>6, <2>3
    <2> QED  BY <2>4 DEF CInv, Fresh
<1>11. ASSUME NEW k \in DOMAIN job.args PROVE Kept(job, fs', k)
    <2>1. CASE k = arg  BY <1>1, <1>8, <2>1 DEF Kept, Source1
    <2>2. CASE k # arg  BY <1>1, <1>7, <2>2, OthersKept
    <2> QED  BY <2>1, <2>2
<1>12. COthers  BY <1>10, <1>11 DEF COthers
<1>13. stack' = <<>>  BY MoveIsAlone DEF Return
<1> QED  BY <1>8, <1>9, <1>12, <1>13, CAfter

LEMMA CRename == IInv /\ IInv' /\ PInv /\ SInv /\ CInv /\ Rename => CInv'
<1> SUFFICES ASSUME IInv, IInv', PInv, SInv, CInv, Rename PROVE CInv'
    OBVIOUS
<1> DEFINE s == Walk(fs, top.src)
           d == Walk(fs, top.dst)
           e == RenameError(s, d)
           f == [top EXCEPT !.pc = "copied", !.in = s]
           g == Frame("copy", top.src, top.dst)
           z == <<g, f>> \o Tail(stack)
<1>1. stack # <<>> /\ top.pc = "move" /\ UNCHANGED <<job, arg, final>>  BY DEF Rename, At
<1>2. /\ ret = "call" /\ top \in Frames /\ stack \in Seq(Frames) /\ top = stack[1]
      /\ IsTree(fs) /\ InProgress /\ Clear(job) /\ final \in Places(job, arg)
      /\ arg \in DOMAIN job.args /\ Source1 \in Seq(Name) /\ final \in Seq(Name)
    BY <1>1, CallingNow, CFacts
<1>3. /\ Len(stack) = 1 /\ top.src = Source1 /\ top.dst = final /\ Walk(fs, Source1) = Source1
      /\ Direct(fs, final) /\ job.cmd = "mv"
    BY <1>1, MoveIsAlone, PFacts DEF OnCourse
<1>4. s = Source1 /\ d = final  BY <1>2, <1>3, DirectWalk
<1>5. \/ \E v : v \notin {"call", "ok"} /\ Reject(v)
      \/ fs' = (IF s = d THEN fs ELSE Moved(fs, s, d)) /\ Return("ok")
      \/ Call(f, g) /\ UNCHANGED fs
    <2>1. CASE e = "ok"  BY <2>1 DEF Rename
    <2>2. CASE e = "EXDEV"  BY <2>2 DEF Rename
    <2>3. CASE e # "ok" /\ e # "EXDEV"
        <3>1. Reject(e)  BY <2>3 DEF Rename
        <3>2. e # "call"  BY DEF RenameError
        <3> QED  BY <2>3, <3>1, <3>2
    <2> QED  BY <2>1, <2>2, <2>3
<1>6. s # d
    <2>1. ~IsPrefix(final, Source1)  BY <1>2 DEF Clear, Apart, Source1
    <2>2. IsPrefix(final, final)  BY <1>2, PrefixSelf
    <2> QED  BY <1>4, <2>1, <2>2
<1> HIDE DEF s, d
<1>7. CASE \E v : v \notin {"call", "ok"} /\ Reject(v)  BY <1>1, <1>7, CFails
<1>8. CASE fs' = (IF s = d THEN fs ELSE Moved(fs, s, d)) /\ Return("ok")
    <2>1. fs' = Moved(fs, Source1, final)  BY <1>4, <1>6, <1>8
    <2> QED  BY <1>1, <1>8, <2>1, RenameMoves
<1>9. CASE Call(f, g) /\ UNCHANGED fs
    <2>1. top.src \in Seq(Node) /\ top.dst \in Seq(Node) /\ s \in Seq(Node)
        BY <1>2, <1>4, NameIsNode DEF Frames
    <2>2. g \in Frames /\ g.dst = final /\ g.src = Source1 /\ g.pc = "copy"
        BY <1>3, <2>1, FrameIs DEF Pcs
    <2>3. g.off = 0 /\ g.seen = {}  BY DEF Frame
    <2> HIDE DEF g
    <2>4. f \in Frames /\ f.pc = "copied" /\ f.src = top.src /\ f.dst = top.dst
        BY <1>2, <2>1 DEF Frames, Pcs
    <2> HIDE DEF f
    <2>5. stack' = z /\ ret' = "call"  BY <1>2, <1>9 DEF Call
    <2>6. Chain(job, fs, Source1, final, z)
        <3>1. Chain(job, fs, Source1, final, stack)  BY <1>2 DEF InProgress
        <3>2. FrameOK(job, fs, Source1, f) /\ Ready(job, fs, f, g.dst) /\ f.pc \notin CopyPcs
            BY <2>4 DEF FrameOK, Ready, CopyPcs
        <3>3. FrameOK(job, fs, Source1, g) /\ Ready(job, fs, g, g.dst)
            <4>1. IsPrefix(Source1, Source1)  BY <1>2, PrefixSelf
            <4> QED  BY <1>2, <2>2, <2>3, <4>1 DEF FrameOK, Ready, Progress
        <3>4. CalledFor(g, f)  BY <1>3, <2>2, <2>4 DEF CalledFor
        <3>5. \A i \in 2 .. Len(stack) : FALSE  BY <1>3
        <3> QED  BY <1>1, <1>2, <2>2, <2>4, <3>1, <3>2, <3>3, <3>4, <3>5, ChainCall
    <2>7. Len(z) = 2 /\ z[1] = g /\ z[2] = f
        <3>1. Len(z) = Len(stack) + 1 /\ z[1] = g /\ z[2] = f  BY <1>1, <1>2, <2>2, <2>4, CallIs
        <3> QED  BY <1>3, <3>1
    <2> HIDE DEF z
    <2>8. stack' # <<>> /\ top' = g  BY <1>1, <1>2, <1>9, <2>2, <2>4, TopCalls
    <2>9. \A i \in 2 .. Len(stack') : stack'[i].pc \notin RemovePcs
        <3>1. \A i \in 2 .. Len(z) : i = 2  BY <2>7
        <3> QED  BY <2>4, <2>5, <2>7, <3>1 DEF RemovePcs
    <2>10. top'.pc = "copy"  BY <2>2, <2>8
    <2>11. InProgress'  BY <1>1, <1>9, <2>5, <2>6, <2>9, <2>10 DEF InProgress, Source1, RemovePcs
    <2>12. COthers  BY <1>1, <1>9, SameKept
    <2> QED  BY <1>1, <2>8, <2>11, <2>12, CAfter
<1> QED  BY <1>5, <1>7, <1>8, <1>9

LEMMA CCallFails == IInv /\ PInv /\ SInv /\ CInv /\ CallFails => CInv'
<1> SUFFICES ASSUME IInv, PInv, SInv, CInv, CallFails PROVE CInv'
    OBVIOUS
<1>1. stack # <<>> /\ UNCHANGED <<job, arg, final>> /\ Reject("EIO")  BY DEF CallFails
<1> QED  BY <1>1, CFails

LEMMA CBegin ==
    ASSUME IInv, PInv, SInv, CInv, NEW seen \in BOOLEAN, Begin(seen)
    PROVE  CInv'
<1> DEFINE d == Target(seen /\ Kind(fs, Walk(fs, job.dst)) = "dir")
           f == Frame(IF job.cmd = "mv" THEN "move" ELSE "copy", Source1, d)
<1>1. stack = <<>> /\ ~Done /\ ret = "call" /\ UNCHANGED <<job, fs, arg>>  BY DEF Begin
<1>2. job.cmd # "rm"  BY DEF SInv
<1>3. \/ ret' = "ENOTDIR" /\ stack' = <<>> /\ UNCHANGED final
      \/ ret' = "call" /\ final' = d /\ stack' = <<f>>
    BY <1>1, <1>2 DEF Begin, d
<1>4. CASE ret' = "ENOTDIR" /\ stack' = <<>> /\ UNCHANGED final
    BY <1>1, <1>4, SameKept, CAfter
<1>5. CASE ret' = "call" /\ final' = d /\ stack' = <<f>>
    <2>1. /\ f.pc = (IF job.cmd = "mv" THEN "move" ELSE "copy") /\ f.dst = d /\ f.src = Source1
          /\ f.off = 0 /\ f.seen = {}
        BY DEF Frame
    <2>2. job.cmd \in {"cp", "mv", "rm"}  BY FsAssumption DEF IInv
    <2>3. Source1 \in Seq(Name) /\ IsPrefix(Source1, Source1)
        <3>1. Source1 \in Seq(Name)  BY <1>1, NextArg
        <3> QED  BY <3>1, PrefixSelf
    <2> HIDE DEF f, d
    <2>4. FrameOK(job, fs, Source1, f) /\ Ready(job, fs, f, f.dst)
        BY <2>1, <2>3 DEF FrameOK, Ready, Progress
    <2>5. Begun(job.cmd, Source1, d, f)  BY <1>2, <2>1, <2>2 DEF Begun, CopyPcs
    <2> DEFINE z == <<f>>
    <2>6. Len(z) = 1 /\ z[1] = f /\ z # <<>>  OBVIOUS
    <2>7. stack' = z  BY <1>5
    <2> HIDE DEF z
    <2>8. Chain(job, fs, Source1, d, z)
        <3>1. \A i \in 1 .. Len(z) : i = 1  BY <2>6
        <3>2. \A i, k \in 1 .. Len(z) : k # i + 1  BY <2>6
        <3> QED  BY <2>4, <2>5, <2>6, <3>1, <3>2 DEF Chain
    <2>9. top' = f  BY <2>6, <2>7 DEF top
    <2>10. \A i \in 2 .. Len(stack') : FALSE
        <3>1. \A i \in 2 .. Len(z) : FALSE  BY <2>6
        <3> QED  BY <2>7, <3>1
    <2>11. top'.pc \in {"move", "copy"}  BY <2>1, <2>9
    <2>12. Chain(job', fs', Source1', final', stack')
        BY <1>1, <1>5, <2>7, <2>8 DEF Source1
    <2>13. InProgress'  BY <1>5, <2>10, <2>11, <2>12 DEF InProgress, RemovePcs
    <2> QED  BY <1>1, <2>6, <2>7, <2>13 DEF CInv
<1> QED  BY <1>3, <1>4, <1>5

LEMMA CArgDone == CInv /\ ArgDone => CInv'
<1> SUFFICES ASSUME CInv, ArgDone PROVE CInv'
    OBVIOUS
<1>1. stack' = <<>> /\ UNCHANGED <<job, fs>> /\ ret' = "call"  BY DEF ArgDone, Answered
<1> QED  BY <1>1 DEF CInv

LEMMA CStep == IInv /\ IInv' /\ PInv /\ SInv /\ CInv /\ [Next]_vars => CInv'
<1> SUFFICES ASSUME IInv, IInv', PInv, SInv, CInv, [Next]_vars PROVE CInv'
    OBVIOUS
<1>1. CASE UNCHANGED vars
    <2>1. UNCHANGED <<job, fs, arg, final, stack, ret>>  BY <1>1 DEF vars
    <2>2. InProgress => InProgress'  BY <2>1 DEF InProgress, Source1, top
    <2> QED  BY <2>1, <2>2 DEF CInv, Source1
<1>2. CASE CopyStep
    BY <1>2, CCopyNothing, CCopyRegular, CCopyChunk, CCopyEof, CCopySymlink, CSymlink,
       CCopyDirectory, CCopyEntry, CEntryDone, CDirectoryCopied
    DEF CopyStep
<1>3. CASE RemoveStep \/ Rename \/ RemoveSource
    BY <1>3, CRemoveLeaf, CRemoveEntry, CEntryDone, CDirectoryRemoved, CRename, CRemoveSource
    DEF RemoveStep
<1>4. CASE CallFails \/ CopySymlinkFails \/ ArgDone
    BY <1>4, CCallFails, CCopySymlinkFails, CArgDone
<1>5. CASE BeginArg \/ BeginBlind  BY <1>5, CBegin DEF BeginArg, BeginBlind
<1> QED  BY <1>1, <1>2, <1>3, <1>4, <1>5 DEF Next

LEMMA CInit == Init /\ Clear(job) => CInv
<1> SUFFICES ASSUME Init, Clear(job) PROVE CInv
    OBVIOUS
<1>1. fs = job.tree /\ stack = <<>> /\ ret = "call"  BY DEF Init
<1>2. \A k : Untouched(job, fs, k)  BY <1>1 DEF Untouched
<1> QED  BY <1>1, <1>2 DEF CInv, Fresh, Kept

-----------------------------------------------------------------------------
(* Removals that are complete *)

\* rm: the first call is for the operand.
RInv ==
    /\ job.cmd = "rm" /\ PlainJob(job)
    /\ stack # <<>> => stack[Len(stack)].src = Source1
    /\ stack = <<>> /\ ret = "ok" => Source1 \notin DOMAIN fs

LEMMA RFacts ==
    ASSUME IInv, PInv, RInv, stack # <<>>
    PROVE  /\ stack \in Seq(Frames) /\ Len(stack) \in Nat /\ Len(stack) >= 1 /\ top = stack[1]
           /\ top \in Frames /\ top.pc \in RemovePcs /\ IsTree(fs) /\ Walk(fs, top.src) = top.src
           /\ top.pc = "scan" => top.in = top.src
<1>1. /\ stack \in Seq(Frames) /\ Len(stack) \in Nat /\ Len(stack) >= 1 /\ top = stack[1]
      /\ top \in Frames /\ IsTree(fs) /\ OnCourse(job.cmd, fs, Source1, final, top)
    BY PFacts, TopIs
<1>2. top.pc \in RemovePcs  BY <1>1 DEF RInv, OnCourse, Frames, Pcs, CopyPcs, RemovePcs
<1>3. Walk(fs, top.src) = top.src  BY <1>1, <1>2, DirectWalk DEF OnCourse
<1> QED  BY <1>1, <1>2, <1>3 DEF OnCourse

LEMMA RReturns ==
    ASSUME IInv, PInv, RInv, stack # <<>>, NEW v, Return(v), UNCHANGED <<job, arg>>,
           v = "ok" => top.src \notin DOMAIN fs'
    PROVE  RInv'
<1>1. stack' = Tail(stack) /\ ret' = v  BY DEF Return
<1> DEFINE n == Len(stack)
           r == Tail(stack)
           k == Len(r)
<1>2. /\ k = n - 1 /\ n \in Nat /\ n >= 1 /\ r \in Seq(Frames) /\ top = stack[1]
      /\ \A i \in 1 .. (n - 1) : r[i] = stack[i + 1]
    BY RFacts, TailIs
<1>3. stack[n].src = Source1  BY DEF RInv
<1>4. stack' = r  BY <1>1
<1>5. r = <<>> => k = 0  BY EmptySeq
<1>6. k = 0 => r = <<>>  BY <1>2, EmptySeq
<1>7. stack' # <<>> => stack'[Len(stack')] = stack[n]
    <2> SUFFICES ASSUME r # <<>> PROVE r[k] = stack[n]
        BY <1>4
    <2> HIDE DEF n, r
    <2>1. k # 0 /\ k \in 1 .. (n - 1) /\ k + 1 = n
        <3>1. k # 0  BY <1>6
        <3> HIDE DEF k
        <3> QED  BY <1>2, <3>1
    <2> HIDE DEF k
    <2>2. r[k] = stack[k + 1]  BY <1>2, <2>1
    <2> QED  BY <2>1, <2>2
<1>8. stack' = <<>> => top.src = Source1
    <2> SUFFICES ASSUME r = <<>> PROVE top.src = Source1
        BY <1>4
    <2> HIDE DEF n, r, k
    <2>1. n = 1  BY <1>2, <1>5
    <2> QED  BY <1>2, <1>3, <2>1
<1> QED  BY <1>1, <1>3, <1>7, <1>8 DEF RInv, Source1

LEMMA RRemoveLeaf == IInv /\ PInv /\ RInv /\ RemoveLeaf => RInv'
<1> SUFFICES ASSUME IInv, PInv, RInv, RemoveLeaf PROVE RInv'
    OBVIOUS
<1> DEFINE p == Walk(fs, top.src)
           f == [top EXCEPT !.pc = "scan", !.in = p]
<1>1. stack # <<>> /\ UNCHANGED <<job, arg>> /\ top.pc = "remove"  BY DEF RemoveLeaf, At
<1>2. p = top.src /\ IsTree(fs) /\ top \in Frames /\ stack \in Seq(Frames)
      /\ Len(stack) \in Nat /\ Len(stack) >= 1 /\ top = stack[1]
    BY <1>1, RFacts
<1>3. \/ Kind(fs, p) = "none" /\ UNCHANGED fs /\ \E v : Return(v)
      \/ \E v : v # "ok" /\ Return(v)
      \/ fs' = Without(fs, p) /\ Return("ok")
      \/ Become(f) /\ UNCHANGED fs
    BY DEF RemoveLeaf, Lookup, Reject
<1> HIDE DEF p
<1>4. CASE Kind(fs, p) = "none" /\ UNCHANGED fs /\ \E v : Return(v)
    <2>1. p \notin DOMAIN fs  BY <1>2, <1>4 DEF Kind, IsTree, Object
    <2> QED  BY <1>1, <1>2, <1>4, <2>1, RReturns
<1>5. CASE \E v : v # "ok" /\ Return(v)  BY <1>1, <1>5, RReturns
<1>6. CASE fs' = Without(fs, p) /\ Return("ok")
    <2>1. top.src \notin DOMAIN fs'  BY <1>2, <1>6 DEF Without
    <2> QED  BY <1>1, <1>6, <2>1, RReturns
<1>7. CASE Become(f) /\ UNCHANGED fs
    <2>1. p \in Seq(Node)  BY <1>2 DEF Frames
    <2>2. f \in Frames /\ f.src = top.src  BY <1>2, <2>1 DEF Frames, Pcs
    <2> HIDE DEF f
    <2> DEFINE z == <<f>> \o Tail(stack)
               n == Len(stack)
    <2>3. z \in Seq(Frames) /\ Len(z) = n /\ z[1] = f /\ \A i \in 2 .. n : z[i] = stack[i]
        BY <1>1, <1>2, <2>2, BecomeIs
    <2>4. stack' = z  BY <1>7 DEF Become
    <2> HIDE DEF z
    <2>5. z # <<>>  BY <1>2, <2>3, EmptySeq
    <2>6. stack[n].src = Source1  BY <1>1 DEF RInv
    <2>7. z[n].src = Source1
        <3>1. n = 1 \/ n \in 2 .. n  BY <1>2
        <3> HIDE DEF n
        <3> QED  BY <1>2, <2>2, <2>3, <2>6, <3>1
    <2> QED  BY <1>1, <2>3, <2>4, <2>5, <2>7 DEF RInv, Source1
<1> QED  BY <1>3, <1>4, <1>5, <1>6, <1>7

LEMMA RRemoveEntry == IInv /\ PInv /\ RInv /\ RemoveEntry => RInv'
<1> SUFFICES ASSUME IInv, PInv, RInv, RemoveEntry PROVE RInv'
    OBVIOUS
<1>1. stack # <<>> /\ UNCHANGED <<job, arg>> /\ top.pc = "scan"  BY DEF RemoveEntry, At
<1>2. /\ IsTree(fs) /\ top \in Frames /\ stack \in Seq(Frames)
      /\ Len(stack) \in Nat /\ Len(stack) >= 1 /\ top = stack[1]
    BY <1>1, RFacts
<1>3. PICK n \in Entries(fs, top.in) :
          \/ Return("ENAMETOOLONG")
          \/ Call(top, Frame("remove", Append(top.src, n), <<>>)) /\ UNCHANGED fs
    BY DEF RemoveEntry, Reject
<1>4. CASE Return("ENAMETOOLONG")  BY <1>1, <1>4, RReturns
<1>5. CASE Call(top, Frame("remove", Append(top.src, n), <<>>)) /\ UNCHANGED fs
    <2> DEFINE s == Append(top.src, n)
               g == Frame("remove", s, <<>>)
               f == top
               z == <<g, f>> \o Tail(stack)
               m == Len(stack)
               k == m + 1
    <2>1. n \in Node
        <3>1. top.in \in Seq(Node)  BY <1>2 DEF Frames
        <3> QED  BY <1>2, <3>1, EntriesType DEF Node
    <2>2. s \in Seq(Node)  BY <1>2, <2>1, AppendProperties DEF Frames
    <2> HIDE DEF s
    <2>3. g \in Frames  BY <2>2, RemovalIs
    <2>4. stack' = z  BY <1>5 DEF Call, s
    <2>5. f \in Frames /\ f = stack[1]  BY <1>2
    <2> HIDE DEF f, g
    <2>6. /\ z \in Seq(Frames) /\ Len(z) = k /\ z[2] = f
          /\ \A i \in 3 .. (m + 1) : z[i] = stack[i - 1]
        BY <1>1, <1>2, <2>3, <2>5, CallIs
    <2> HIDE DEF z
    <2>7. z # <<>>  BY <1>2, <2>6, EmptySeq
    <2>8. stack[m].src = Source1  BY <1>1 DEF RInv
    <2>9. z[k] = stack[m]
        <3>1. m \in Nat /\ m >= 1  BY <1>2
        <3> HIDE DEF m
        <3>2. (k = 2 /\ m = 1) \/ k \in 3 .. (m + 1)  BY <3>1
        <3>3. k - 1 = m  BY <3>1
        <3> HIDE DEF k
        <3> QED  BY <2>5, <2>6, <3>2, <3>3
    <2> QED  BY <1>1, <2>4, <2>6, <2>7, <2>8, <2>9 DEF RInv, Source1
<1> QED  BY <1>3, <1>4, <1>5

LEMMA RStep == IInv /\ PInv /\ RInv /\ [Next]_vars => RInv'
<1> SUFFICES ASSUME IInv, PInv, RInv, [Next]_vars PROVE RInv'
    OBVIOUS
<1>1. job.cmd = "rm"  BY DEF RInv
<1>2. stack # <<>> => top.pc \in RemovePcs  BY RFacts
<1>3. CASE UNCHANGED vars
    <2>1. UNCHANGED <<job, fs, arg, stack, ret>>  BY <1>3 DEF vars
    <2> QED  BY <2>1 DEF RInv, Source1
<1>4. CASE CopyStep \/ Rename \/ RemoveSource \/ CopySymlinkFails
    <2>1. stack # <<>> /\ top.pc \in CopyPcs \cup {"move", "copied"}
        BY <1>4 DEF CopyStep, CopyNothing, CopyRegular, CopyChunk, CopyEof, CopySymlink, Symlink,
           CopyDirectory, CopyEntry, EntryCopied, DirectoryCopied, Rename, RemoveSource,
           CopySymlinkFails, Copying, At, CopyPcs
    <2> QED  BY <1>2, <2>1 DEF CopyPcs, RemovePcs
<1>5. CASE RemoveLeaf \/ RemoveEntry  BY <1>5, RRemoveLeaf, RRemoveEntry
<1>6. CASE EntryRemoved
    <2>1. stack # <<>> /\ UNCHANGED <<job, arg>> /\ ret # "call"  BY <1>6 DEF EntryRemoved, At
    <2>2. CASE ret = "ok"
        <3>1. ret' = "call" /\ UNCHANGED <<stack, fs>>  BY <1>6, <2>2 DEF EntryRemoved
        <3> QED  BY <2>1, <3>1 DEF RInv, Source1
    <2>3. CASE ret # "ok"
        <3> DEFINE v == ret
        <3>1. v # "ok" /\ Return(v)  BY <1>6, <2>3 DEF EntryRemoved, Reject
        <3> HIDE DEF v
        <3> QED  BY <2>1, <3>1, RReturns
    <2> QED  BY <2>2, <2>3
<1>7. CASE DirectoryRemoved
    <2>1. stack # <<>> /\ UNCHANGED <<job, arg>> /\ top.pc = "scan"
        BY <1>7 DEF DirectoryRemoved, At
    <2>2. \/ Return("EBUSY")
          \/ fs' = Without(fs, top.in) /\ Return("ok")
        BY <1>7 DEF DirectoryRemoved, Reject
    <2>3. top.in = top.src  BY <2>1, RFacts
    <2>4. CASE Return("EBUSY")  BY <2>1, <2>4, RReturns
    <2>5. CASE fs' = Without(fs, top.in) /\ Return("ok")
        <3>1. top.src \notin DOMAIN fs'  BY <2>3, <2>5 DEF Without
        <3> QED  BY <2>1, <2>5, <3>1, RReturns
    <2> QED  BY <2>2, <2>4, <2>5
<1>8. CASE CallFails
    <2>1. stack # <<>> /\ UNCHANGED <<job, arg>> /\ Return("EIO")  BY <1>8 DEF CallFails, Reject
    <2> QED  BY <2>1, RReturns
<1>9. CASE BeginArg
    <2> DEFINE f == Frame("remove", Source1, <<>>)
               z == <<f>>
    <2>1. UNCHANGED <<job, arg>> /\ stack' = z  BY <1>1, <1>9 DEF BeginArg, Begin
    <2>2. f.src = Source1  BY DEF Frame
    <2> HIDE DEF f
    <2>3. Len(z) = 1 /\ z[1] = f /\ z # <<>>  OBVIOUS
    <2> HIDE DEF z
    <2> QED  BY <2>1, <2>2, <2>3 DEF RInv, Source1
<1>10. CASE BeginBlind  BY <1>1, <1>10 DEF BeginBlind
<1>11. CASE ArgDone
    <2>1. stack' = <<>> /\ ret' = "call" /\ UNCHANGED job  BY <1>11 DEF ArgDone, Answered
    <2> QED  BY <2>1 DEF RInv
<1> QED  BY <1>3, <1>4, <1>5, <1>6, <1>7, <1>8, <1>9, <1>10, <1>11 DEF Next, RemoveStep

LEMMA RInit == Init /\ PlainJob(job) /\ job.cmd = "rm" => RInv
    BY DEF Init, RInv

-----------------------------------------------------------------------------
(* What mv keeps and what success means *)

\* What is good is copied, as SuccessIsComplete has it.
LEMMA GoodIsCopied ==
    ASSUME IsTree(job.tree), NEW s \in Seq(Name), NEW d \in Seq(Name), Good(job, fs, s, d),
           NEW p \in DOMAIN job.tree, IsPrefix(s, p)
    PROVE  Copied(p, d \o Rest(p, s))
<1> DEFINE r == SubSeq(p, Len(s) + 1, Len(p))
           q == d \o r
<1>1. p \in Seq(Name)  BY DEF IsTree
<1>2. r \in Seq(Name) /\ p = s \o r  BY <1>1, RestIs
<1>3. q = d \o Rest(p, s)  BY DEF Rest
<1> HIDE DEF r
<1>4. Same(job, job.tree[p], fs, q)  BY <1>2 DEF Good
<1> HIDE DEF q
<1> DEFINE o == job.tree[p]
<1>5. o \in Object  BY DEF IsTree
<1>6. CASE fs[q] = o
    <2>1. q \in DOMAIN fs  BY <1>4 DEF Same
    <2>2. o.kind # "link" => Follow(fs, q) = q  BY <1>6, <2>1 DEF Follow, Kind
    <2> QED  BY <1>3, <1>6, <2>1, <2>2 DEF Copied, Kind
<1>7. CASE fs[q] # o
    <2>1. q \in DOMAIN fs /\ o.kind = "link" /\ fs[q].kind # "link" /\ fs[q].kind = Kind(job.tree, o.body)
        BY <1>4, <1>7 DEF Same
    <2>2. Follow(fs, q) = q /\ Kind(fs, q) = fs[q].kind  BY <2>1 DEF Follow, Kind
    <2> QED  BY <1>3, <2>1, <2>2 DEF Copied
<1> QED  BY <1>6, <1>7

\* At every step of mv, whichever call of fsutil_copy_path() or fsutil_remove_path()
\* under fsutil_move_path() fails, each file of the sources is whole in the source
\* or at the destination, unless a link stands where something is put or a link in
\* a source leads there.
THEOREM MovedOrKept == Spec /\ Clear(job) /\ job.cmd = "mv" => []SourceSafe
<1>1. Init /\ Clear(job) /\ job.cmd = "mv" => PInv /\ SInv /\ CInv
    BY PInit, SInit, CInit DEF Clear, Apart
<1>2. IInv /\ IInv' /\ PInv /\ SInv /\ CInv /\ [Next]_vars => PInv' /\ SInv' /\ CInv'
    BY PStep, SStep, CStep
<1>3. job.cmd = "mv" /\ [Next]_vars => (job.cmd = "mv")'
    BY DEF Next, vars, CopyStep, RemoveStep, CopyNothing, CopyRegular, CopyChunk, CopyEof,
           CopySymlink, Symlink, CopyDirectory, CopyEntry, EntryCopied, DirectoryCopied,
           RemoveLeaf, RemoveEntry, EntryRemoved, DirectoryRemoved, Rename, RemoveSource,
           CallFails, CopySymlinkFails, BeginArg, BeginBlind, Begin, ArgDone
<1>4. IInv /\ PInv /\ SInv /\ CInv /\ job.cmd = "mv" => SourceSafe
    <2> SUFFICES ASSUME IInv, PInv, SInv, CInv, job.cmd = "mv", NEW i \in DOMAIN job.args,
                        NEW p \in Below(job.tree, Walk(job.tree, job.args[i])),
                        job.tree[p].kind = "file"
                 PROVE  \E q \in DOMAIN fs : fs[q] = job.tree[p]
        BY DEF SourceSafe
    <2> DEFINE s == job.args[i]
    <2>1. IsTree(job.tree) /\ Direct(job.tree, s)  BY FsAssumption DEF IInv, PInv, PlainJob
    <2>2. Walk(job.tree, s) = s /\ s \in Seq(Name)  BY <2>1, DirectWalk DEF Direct
    <2>3. p \in DOMAIN job.tree /\ IsPrefix(s, p) /\ p \in Seq(Name)
        BY <2>1, <2>2 DEF Below, IsTree
    <2>4. CASE Untouched(job, fs, i)  BY <2>3, <2>4 DEF Untouched
    <2>5. ASSUME NEW d \in Places(job, i), Good(job, fs, s, d)
          PROVE  \E q \in DOMAIN fs : fs[q] = job.tree[p]
        <3> DEFINE r == SubSeq(p, Len(s) + 1, Len(p))
        <3> HIDE DEF s
        <3>1. r \in Seq(Name) /\ p = s \o r  BY <2>2, <2>3, RestIs
        <3> HIDE DEF r
        <3>2. Same(job, job.tree[p], fs, d \o r)  BY <2>3, <2>5, <3>1 DEF Good
        <3> QED  BY <3>2 DEF Same
    <2> QED  BY <2>4, <2>5 DEF CInv, Kept
<1> QED  BY <1>1, <1>2, <1>3, <1>4, Invariance, PTL DEF Spec

\* When fsutil_copy_path() or fsutil_move_path() returns success for an operand, all
\* of it is where it was to be put with all its contents, unless links stand
\* there or lead there from a source; when fsutil_move_path() or
\* fsutil_remove_path() does, nothing of it is left where it was.
THEOREM SuccessComplete ==
    Spec /\ (IF job.cmd = "rm" THEN PlainJob(job) ELSE Clear(job)) => []SuccessIsComplete
<1> DEFINE Copy == PInv /\ SInv /\ CInv
           Removal == PInv /\ RInv
           Given == IF job.cmd = "rm" THEN PlainJob(job) ELSE Clear(job)
<1>1. Init /\ Given => Copy \/ Removal
    <2>1. Init /\ Clear(job) /\ job.cmd # "rm" => Copy  BY PInit, SInit, CInit DEF Clear, Apart
    <2>2. Init /\ PlainJob(job) /\ job.cmd = "rm" => Removal  BY PInit, RInit
    <2> QED  BY <2>1, <2>2
<1>2. IInv /\ IInv' /\ (Copy \/ Removal) /\ [Next]_vars => Copy' \/ Removal'
    BY PStep, SStep, CStep, RStep
<1>3. IInv /\ (Copy \/ Removal) => SuccessIsComplete
    <2> SUFFICES ASSUME IInv, Copy \/ Removal, Answered, ret = "ok",
                        NEW p \in Below(job.tree, Walk(job.tree, Source1))
                 PROVE  /\ job.cmd # "rm" => Copied(p, Walk(fs, final)
                                                           \o Rest(p, Walk(job.tree, Source1)))
                        /\ job.cmd = "rm" \/ (job.cmd = "mv" /\ Walk(fs, final) # Walk(job.tree, Source1))
                               => p \notin DOMAIN fs
        BY DEF SuccessIsComplete
    <2> DEFINE s == Source1
    <2>1. stack = <<>> /\ IsTree(fs) /\ IsTree(job.tree) /\ arg \in DOMAIN job.args
        <3>1. job.args \in Seq(Seq(Node) \ {<<>>})  BY FsAssumption DEF IInv, Node
        <3>2. arg \in 1 .. Len(job.args)  BY <3>1, LenProperties DEF IInv, Answered
        <3> QED  BY <3>1, <3>2, FsAssumption, LenProperties DEF IInv, Answered
    <2>2. Direct(job.tree, s) /\ s \in Seq(Name) /\ PInv
        BY <2>1 DEF PInv, PlainJob, Source1, Direct
    <2>3. Walk(job.tree, Source1) = s  BY <2>1, <2>2, DirectWalk
    <2>4. p \in DOMAIN job.tree /\ IsPrefix(s, p)  BY <2>3 DEF Below
    <2>5. s \notin DOMAIN fs => p \notin DOMAIN fs  BY <2>1, <2>2, <2>4, AboveIsDir
    <2>6. CASE Removal  BY <2>1, <2>5, <2>6 DEF RInv
    <2>7. CASE Copy
        <3>1. /\ Good(job, fs, s, final) /\ final \in Seq(Name)
              /\ job.cmd = "mv" => s \notin DOMAIN fs
            BY <2>1, <2>7 DEF CInv, PInv
        <3>2. final \in DOMAIN fs
            <4>1. s \in DOMAIN job.tree  BY <2>1, <2>2, <2>4, AboveIsDir
            <4> HIDE DEF s
            <4> DEFINE r == <<>>
            <4>2. r \in Seq(Name) /\ s \o r = s /\ final \o r = final
                BY <2>2, <3>1, OnwardNothing
            <4> HIDE DEF r
            <4>3. Same(job, job.tree[s], fs, final)  BY <3>1, <4>1, <4>2 DEF Good
            <4> QED  BY <4>3 DEF Same
        <3>3. Walk(fs, final) = final
            <4>1. Direct(fs, final)  BY <2>1, <3>1, <3>2 DEF Direct, IsTree
            <4> QED  BY <2>1, <4>1, DirectWalk
        <3>4. job.cmd # "rm"  BY <2>7 DEF SInv
        <3> HIDE DEF s
        <3>5. Copied(p, final \o Rest(p, s))  BY <2>1, <2>2, <2>4, <3>1, GoodIsCopied
        <3> QED  BY <2>3, <2>5, <3>1, <3>3, <3>4, <3>5
    <2> QED  BY <2>6, <2>7
<1> HIDE DEF Copy, Removal
<1> QED  BY <1>1, <1>2, <1>3, Invariance, PTL DEF Spec
=============================================================================
