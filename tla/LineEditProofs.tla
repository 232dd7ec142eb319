---------------------------- MODULE LineEditProofs ----------------------------
(* That the row always shows the line, that completion adds only what the     *)
(* matches agree on, and that LineEdit implements EditSpec, proved.           *)
EXTENDS LineEdit, SequenceTheorems, WellFoundedInduction, TLAPS

-----------------------------------------------------------------------------
(* Induction over the length of what is typed. *)

LEMMA Induction ==
    ASSUME NEW S \in SUBSET Nat, 0 \in S, \A n \in S : n + 1 \in S
    PROVE  S = Nat
<1> DEFINE less == OpToRel(<, Nat)
           left == Nat \ S
<1>1. SUFFICES ASSUME S # Nat PROVE FALSE
    OBVIOUS
<1>2. IsWellFoundedOn(less, Nat)  BY NatLessThanWellFounded
<1>3. left \subseteq Nat /\ left # {}  BY <1>1
<1>4. \A x, y \in Nat : <<y, x>> \in less <=> y < x  BY DEF OpToRel
<1> HIDE DEF less, left
<1>5. PICK x \in left : \A y \in left : ~(<<y, x>> \in less)  BY <1>2, <1>3, WFMin
<1>6. x \in Nat /\ x # 0  BY <1>3 DEF left
<1>7. x - 1 \in Nat /\ x - 1 < x /\ (x - 1) + 1 = x  BY <1>6
<1>8. <<x - 1, x>> \in less  BY <1>4, <1>6, <1>7
<1>9. x - 1 \in S  BY <1>5, <1>7, <1>8 DEF left
<1> QED  BY <1>6, <1>7, <1>9 DEF left

-----------------------------------------------------------------------------
(* The line, cut at the cursor *)

Text == {l \in Seq(Char) : Len(l) < LineBufSize}

LEMMA Cut ==
    ASSUME NEW l \in Seq(Char), NEW n \in 0 .. Len(l)
    PROVE  LET b == SubSeq(l, 1, n)
               a == SubSeq(l, n + 1, Len(l))
           IN  /\ b \in Seq(Char) /\ Len(b) = n /\ \A i \in 1 .. n : b[i] = l[i]
               /\ a \in Seq(Char) /\ Len(a) = Len(l) - n
               /\ \A i \in 1 .. (Len(l) - n) : a[i] = l[n + i]
               /\ b \o a = l
<1>1. Len(l) \in Nat /\ n \in Nat  BY LenProperties
<1>2. \A i \in 1 .. Len(l) : l[i] \in Char  BY ElementOfSeq
<1> DEFINE b == SubSeq(l, 1, n)
           a == SubSeq(l, n + 1, Len(l))
<1>3. b \in Seq(Char) /\ Len(b) = n /\ \A i \in 1 .. n : b[i] = l[i]
    BY <1>1, <1>2, SubSeqProperties
<1>4. /\ a \in Seq(Char) /\ Len(a) = Len(l) - n
      /\ \A i \in 1 .. (Len(l) - n) : a[i] = l[n + i]
    BY <1>1, <1>2, SubSeqProperties
<1>5. b \o a = l
    <2>1. /\ 1 \in Int /\ 1 \in 1 .. (Len(l) + 1) /\ n \in (1 - 1) .. Len(l)
          /\ Len(l) \in n .. Len(l)
        BY <1>1
    <2>2. b \o a = SubSeq(l, 1, Len(l))  BY <2>1, ConcatAdjacentSubSeq
    <2> QED  BY <2>2, SubSeqFull
<1> QED  BY <1>3, <1>4, <1>5

LEMMA CutAt ==
    ASSUME NEW l \in Seq(Char), NEW n \in 0 .. Len(l), NEW k, k = n + 1
    PROVE  /\ SubSeq(l, 1, n) \in Seq(Char) /\ Len(SubSeq(l, 1, n)) = n
           /\ \A i \in 1 .. n : SubSeq(l, 1, n)[i] = l[i]
           /\ SubSeq(l, k, Len(l)) \in Seq(Char) /\ Len(SubSeq(l, k, Len(l))) = Len(l) - n
           /\ \A i \in 1 .. (Len(l) - n) : SubSeq(l, k, Len(l))[i] = l[n + i]
    BY Cut

LEMMA Joined ==
    ASSUME NEW s \in Seq(Char), NEW t \in Seq(Char)
    PROVE  /\ s \o t \in Seq(Char) /\ Len(s \o t) = Len(s) + Len(t)
           /\ \A i \in 1 .. Len(s) : (s \o t)[i] = s[i]
           /\ \A i \in 1 .. Len(t) : (s \o t)[Len(s) + i] = t[i]
           /\ \A i \in (Len(s) + 1) .. (Len(s) + Len(t)) : (s \o t)[i] = t[i - Len(s)]
<1>1. Len(s) \in Nat /\ Len(t) \in Nat  BY LenProperties
<1>2. /\ s \o t \in Seq(Char) /\ Len(s \o t) = Len(s) + Len(t)
      /\ \A i \in 1 .. (Len(s) + Len(t)) :
            (s \o t)[i] = IF i <= Len(s) THEN s[i] ELSE t[i - Len(s)]
    BY ConcatProperties
<1> DEFINE u == s \o t
<1> HIDE DEF u
<1>3. \A i \in 1 .. Len(s) : u[i] = s[i]  BY <1>1, <1>2 DEF u
<1>4. \A i \in (Len(s) + 1) .. (Len(s) + Len(t)) : u[i] = t[i - Len(s)]
    BY <1>1, <1>2 DEF u
<1>5. ASSUME NEW i \in 1 .. Len(t) PROVE u[Len(s) + i] = t[i]
    <2>1. /\ Len(s) + i \in (Len(s) + 1) .. (Len(s) + Len(t))
          /\ (Len(s) + i) - Len(s) = i
        BY <1>1
    <2> QED  BY <1>4, <2>1
<1> QED  BY <1>2, <1>3, <1>4, <1>5 DEF u

\* A character between the two parts; one taken out.
LEMMA Inserted ==
    ASSUME NEW l \in Seq(Char), NEW n \in 0 .. Len(l), NEW c \in Char
    PROVE  LET m == SubSeq(l, 1, n) \o <<c>> \o SubSeq(l, n + 1, Len(l))
           IN  /\ m \in Seq(Char) /\ Len(m) = Len(l) + 1
               /\ \A i \in 1 .. n : m[i] = l[i]
               /\ m[n + 1] = c
               /\ \A i \in (n + 2) .. (Len(l) + 1) : m[i] = l[i - 1]
               /\ SubSeq(m, 1, n + 1) = SubSeq(l, 1, n) \o <<c>>
               /\ SubSeq(m, n + 2, Len(m)) = SubSeq(l, n + 1, Len(l))
<1> DEFINE b == SubSeq(l, 1, n)
           a == SubSeq(l, n + 1, Len(l))
           bc == b \o <<c>>
           m == bc \o a
<1>1. Len(l) \in Nat /\ n \in Nat  BY LenProperties
<1>2. /\ b \in Seq(Char) /\ Len(b) = n /\ \A i \in 1 .. n : b[i] = l[i]
      /\ a \in Seq(Char) /\ Len(a) = Len(l) - n
      /\ \A i \in 1 .. (Len(l) - n) : a[i] = l[n + i]
    BY Cut
<1>3. <<c>> \in Seq(Char) /\ Len(<<c>>) = 1 /\ <<c>>[1] = c
    OBVIOUS
<1> HIDE DEF a, b
<1>4. /\ bc \in Seq(Char) /\ Len(bc) = n + 1
      /\ \A i \in 1 .. n : bc[i] = b[i]
      /\ bc[n + 1] = c
    <2>1. /\ bc \in Seq(Char) /\ Len(bc) = n + 1
          /\ \A i \in 1 .. n : bc[i] = b[i]
          /\ \A i \in 1 .. 1 : bc[n + i] = <<c>>[i]
        BY <1>2, <1>3, Joined
    <2> QED  BY <1>3, <2>1
<1> HIDE DEF bc
<1>5. /\ m \in Seq(Char) /\ Len(m) = (n + 1) + (Len(l) - n)
      /\ \A i \in 1 .. (n + 1) : m[i] = bc[i]
      /\ \A i \in 1 .. (Len(l) - n) : m[(n + 1) + i] = a[i]
    BY <1>2, <1>4, Joined, SMTT(20)
<1> HIDE DEF m
<1>6. /\ \A i \in 1 .. n : m[i] = l[i]
      /\ m[n + 1] = c /\ Len(m) = Len(l) + 1
      /\ \A i \in (n + 2) .. (Len(l) + 1) : m[i] = l[i - 1]
    <2>1. ASSUME NEW i \in 1 .. n PROVE m[i] = l[i]
        BY <1>1, <1>2, <1>4, <1>5
    <2>2. m[n + 1] = c /\ Len(m) = Len(l) + 1
        BY <1>1, <1>4, <1>5
    <2>3. ASSUME NEW i \in (n + 2) .. (Len(l) + 1) PROVE m[i] = l[i - 1]
        <3> DEFINE k == i - n - 1
        <3>1. k \in 1 .. (Len(l) - n) /\ (n + 1) + k = i /\ n + k = i - 1
            BY <1>1
        <3> HIDE DEF k
        <3>2. m[(n + 1) + k] = a[k] /\ a[k] = l[n + k]  BY <1>2, <1>5, <3>1
        <3> QED  BY <3>1, <3>2
    <2> QED  BY <2>1, <2>2, <2>3
<1>7. /\ SubSeq(m, 1, n + 1) \in Seq(Char) /\ Len(SubSeq(m, 1, n + 1)) = n + 1
      /\ \A i \in 1 .. (n + 1) : SubSeq(m, 1, n + 1)[i] = m[i]
      /\ SubSeq(m, n + 2, Len(m)) \in Seq(Char) /\ Len(SubSeq(m, n + 2, Len(m))) = Len(l) - n
      /\ \A i \in 1 .. (Len(l) - n) : SubSeq(m, n + 2, Len(m))[i] = m[(n + 1) + i]
    <2> DEFINE k == n + 1
               j == n + 2
    <2>1. k \in 0 .. Len(m) /\ j = k + 1 /\ Len(m) - k = Len(l) - n
        BY <1>1, <1>6
    <2> HIDE DEF k, j
    <2>2. /\ SubSeq(m, 1, k) \in Seq(Char) /\ Len(SubSeq(m, 1, k)) = k
          /\ \A i \in 1 .. k : SubSeq(m, 1, k)[i] = m[i]
          /\ SubSeq(m, j, Len(m)) \in Seq(Char)
          /\ Len(SubSeq(m, j, Len(m))) = Len(m) - k
          /\ \A i \in 1 .. (Len(m) - k) : SubSeq(m, j, Len(m))[i] = m[k + i]
        <3>1. m \in Seq(Char)  BY <1>5
        <3>2. k \in 0 .. Len(m) /\ j = k + 1  BY <2>1
        <3> QED  BY <3>1, <3>2, CutAt, ZenonT(20)
    <2> QED  BY <2>1, <2>2 DEF k, j
<1>8. SubSeq(m, 1, n + 1) = bc
    BY <1>1, <1>4, <1>5, <1>7, SeqEqual
<1>9. SubSeq(m, n + 2, Len(m)) = a
    BY <1>2, <1>5, <1>7, SeqEqual
<1> QED  BY <1>5, <1>6, <1>8, <1>9 DEF m, bc, a, b

LEMMA Removed ==
    ASSUME NEW l \in Seq(Char), NEW n \in 1 .. Len(l)
    PROVE  LET m == RemoveAt(l, n)
           IN  /\ m \in Seq(Char) /\ Len(m) = Len(l) - 1
               /\ \A i \in 1 .. (n - 1) : m[i] = l[i]
               /\ \A i \in n .. (Len(l) - 1) : m[i] = l[i + 1]
               /\ SubSeq(m, 1, n - 1) = SubSeq(l, 1, n - 1)
               /\ SubSeq(m, n, Len(m)) = SubSeq(l, n + 1, Len(l))
<1> DEFINE b == SubSeq(l, 1, n - 1)
           a == SubSeq(l, n + 1, Len(l))
           m == b \o a
<1>1. Len(l) \in Nat /\ n \in Nat /\ n - 1 \in 0 .. Len(l) /\ n \in 0 .. Len(l)
    BY LenProperties
<1>2. /\ b \in Seq(Char) /\ Len(b) = n - 1 /\ \A i \in 1 .. (n - 1) : b[i] = l[i]
    BY <1>1, Cut
<1>3. /\ a \in Seq(Char) /\ Len(a) = Len(l) - n
      /\ \A i \in 1 .. (Len(l) - n) : a[i] = l[n + i]
    BY <1>1, Cut
<1> HIDE DEF a, b
<1>4. /\ m \in Seq(Char) /\ Len(m) = (n - 1) + (Len(l) - n)
      /\ \A i \in 1 .. (n - 1) : m[i] = b[i]
      /\ \A i \in 1 .. (Len(l) - n) : m[(n - 1) + i] = a[i]
    <2>1. /\ m \in Seq(Char) /\ Len(m) = Len(b) + Len(a)
          /\ \A i \in 1 .. Len(b) : m[i] = b[i]
          /\ \A i \in 1 .. Len(a) : m[Len(b) + i] = a[i]
        BY <1>2, <1>3, Joined
    <2> QED  BY <1>2, <1>3, <2>1
<1> HIDE DEF m
<1>5. /\ \A i \in 1 .. (n - 1) : m[i] = l[i]
      /\ \A i \in n .. (Len(l) - 1) : m[i] = l[i + 1]
      /\ Len(m) = Len(l) - 1
    <2>1. ASSUME NEW i \in n .. (Len(l) - 1) PROVE m[i] = l[i + 1]
        <3> DEFINE k == i - (n - 1)
        <3>1. k \in 1 .. (Len(l) - n) /\ (n - 1) + k = i /\ n + k = i + 1
            BY <1>1
        <3> HIDE DEF k
        <3>2. m[(n - 1) + k] = a[k] /\ a[k] = l[n + k]  BY <1>3, <1>4, <3>1
        <3> QED  BY <3>1, <3>2
    <2>2. ASSUME NEW i \in 1 .. (n - 1) PROVE m[i] = l[i]
        BY <1>2, <1>4
    <2>3. Len(m) = Len(l) - 1  BY <1>1, <1>4
    <2> QED  BY <2>1, <2>2, <2>3
<1>6. /\ SubSeq(m, 1, n - 1) \in Seq(Char) /\ Len(SubSeq(m, 1, n - 1)) = n - 1
      /\ \A i \in 1 .. (n - 1) : SubSeq(m, 1, n - 1)[i] = m[i]
      /\ SubSeq(m, n, Len(m)) \in Seq(Char) /\ Len(SubSeq(m, n, Len(m))) = Len(l) - n
      /\ \A i \in 1 .. (Len(l) - n) : SubSeq(m, n, Len(m))[i] = m[(n - 1) + i]
    <2> DEFINE k == n - 1
    <2>1. k \in 0 .. Len(m) /\ n = k + 1 /\ Len(m) - k = Len(l) - n
        BY <1>1, <1>5
    <2> HIDE DEF k
    <2>2. /\ SubSeq(m, 1, k) \in Seq(Char) /\ Len(SubSeq(m, 1, k)) = k
          /\ \A i \in 1 .. k : SubSeq(m, 1, k)[i] = m[i]
          /\ SubSeq(m, n, Len(m)) \in Seq(Char)
          /\ Len(SubSeq(m, n, Len(m))) = Len(m) - k
          /\ \A i \in 1 .. (Len(m) - k) : SubSeq(m, n, Len(m))[i] = m[k + i]
        <3>1. m \in Seq(Char)  BY <1>4
        <3>2. k \in 0 .. Len(m) /\ n = k + 1  BY <2>1
        <3> QED  BY <3>1, <3>2, CutAt, SMTT(20)
    <2> QED  BY <2>1, <2>2 DEF k
<1>7. SubSeq(m, 1, n - 1) = b
    BY <1>1, <1>2, <1>5, <1>6, SeqEqual
<1>8. SubSeq(m, n, Len(m)) = a
    BY <1>3, <1>4, <1>6, SeqEqual
<1>9. RemoveAt(l, n) = m  BY DEF RemoveAt, m, a, b
<1> QED  BY <1>4, <1>5, <1>7, <1>8, <1>9 DEF a, b

-----------------------------------------------------------------------------
(* What is on the row while a line is edited, and what each operation makes   *)
(* of it.                                                                     *)

Row(l) == [i \in Cells |-> IF i < Len(l) THEN l[i + 1] ELSE Space]
Picture(l, n) == [row |-> Row(l), col |-> n]
Shown(l, n) == [line |-> l, cur |-> n, term |-> Picture(l, n)]

LEMMA ShownFields ==
    ASSUME NEW l, NEW n
    PROVE  /\ Shown(l, n) = [line |-> l, cur |-> n, term |-> Picture(l, n)]
           /\ Shown(l, n).line = l /\ Shown(l, n).cur = n /\ Shown(l, n).term = Picture(l, n)
           /\ Before(Shown(l, n)) = SubSeq(l, 1, n)
           /\ After(Shown(l, n)) = SubSeq(l, n + 1, Len(l))
    BY DEF Shown, Before, After

LEMMA Sizes ==
    /\ LineBufSize \in Nat /\ LineBufSize > 1 /\ Cells = 0 .. (LineBufSize - 1)
    /\ \A l \in Text : l \in Seq(Char) /\ Len(l) \in Nat /\ Len(l) < LineBufSize
    BY LineEditAssumption, LenProperties DEF Cells, Text

\* Writing the rest of the line and going back to the cursor (line_refresh).
LEMMA Repainted ==
    ASSUME NEW t, t = [row |-> t.row, col |-> t.col], t.row \in [Cells -> Char],
           NEW l \in Text, NEW n \in 0 .. Len(l), t.col = n,
           \A i \in Cells : i < n => t.row[i] = l[i + 1],
           \A i \in Cells : i >= Len(l) => t.row[i] = Space
    PROVE  LET u == SubSeq(l, n + 1, Len(l))
           IN  CursorLeft(Put(t, u), Len(u)) = [row |-> Row(l), col |-> n]
<1> DEFINE u == SubSeq(l, n + 1, Len(l))
<1>1. /\ l \in Seq(Char) /\ Len(l) \in Nat /\ n \in Nat /\ n <= Len(l)
    BY Sizes
<1>2. Len(u) = Len(l) - n /\ \A i \in 1 .. (Len(l) - n) : u[i] = l[n + i]
    BY <1>1, Cut
<1> HIDE DEF u
<1>3. Put(t, u) = [row |-> [i \in Cells |-> IF n <= i /\ i < n + Len(u)
                                            THEN u[i - n + 1] ELSE t.row[i]],
                   col |-> n + Len(u)]
    BY DEF Put
<1>4. [i \in Cells |-> IF n <= i /\ i < n + Len(u) THEN u[i - n + 1] ELSE t.row[i]] = Row(l)
    <2>1. ASSUME NEW i \in Cells
          PROVE  (IF n <= i /\ i < n + Len(u) THEN u[i - n + 1] ELSE t.row[i])
                    = (IF i < Len(l) THEN l[i + 1] ELSE Space)
        <3>1. i \in Nat  BY Sizes
        <3>2. CASE i < n  BY <1>1, <3>1, <3>2
        <3>3. CASE i >= n + Len(u)  BY <1>1, <1>2, <3>1, <3>3
        <3>4. CASE n <= i /\ i < n + Len(u)
            <4> DEFINE k == i - n + 1
            <4>1. k \in 1 .. (Len(l) - n) /\ n + k = i + 1 /\ i < Len(l)
                BY <1>1, <1>2, <3>1, <3>4
            <4> HIDE DEF k
            <4>2. u[k] = l[i + 1]  BY <1>2, <4>1
            <4> QED  BY <3>4, <4>1, <4>2 DEF k
        <3> QED  BY <1>1, <1>2, <3>1, <3>2, <3>3, <3>4
    <2> QED  BY <2>1 DEF Row
<1>5. CursorLeft([row |-> Row(l), col |-> n + Len(u)], Len(u)) = [row |-> Row(l), col |-> n]
    BY <1>1, <1>2 DEF CursorLeft
<1> QED  BY <1>3, <1>4, <1>5 DEF u

LEMMA RepaintedToEol ==
    ASSUME NEW t, t = [row |-> t.row, col |-> t.col], t.row \in [Cells -> Char],
           NEW l \in Text, NEW n \in 0 .. Len(l), t.col = n,
           \A i \in Cells : i < n => t.row[i] = l[i + 1]
    PROVE  LET u == SubSeq(l, n + 1, Len(l))
           IN  CursorLeft(ClearToEol(Put(t, u)), Len(u)) = [row |-> Row(l), col |-> n]
<1> DEFINE u == SubSeq(l, n + 1, Len(l))
<1>1. /\ l \in Seq(Char) /\ Len(l) \in Nat /\ n \in Nat /\ n <= Len(l)
    BY Sizes
<1>2. Len(u) = Len(l) - n /\ \A i \in 1 .. (Len(l) - n) : u[i] = l[n + i]
    BY <1>1, Cut
<1> HIDE DEF u
<1> DEFINE r == [i \in Cells |-> IF n <= i /\ i < n + Len(u) THEN u[i - n + 1] ELSE t.row[i]]
<1>3. ClearToEol(Put(t, u)) =
        [row |-> [i \in Cells |-> IF i < n + Len(u) THEN r[i] ELSE Space],
         col |-> n + Len(u)]
    <2>1. Put(t, u) = [row |-> r, col |-> n + Len(u)]  BY DEF Put
    <2> HIDE DEF r
    <2>2. ClearToEol([row |-> r, col |-> n + Len(u)]) =
            [row |-> [i \in Cells |-> IF i < n + Len(u) THEN r[i] ELSE Space],
             col |-> n + Len(u)]
        BY DEF ClearToEol
    <2> QED  BY <2>1, <2>2
<1>4. [i \in Cells |-> IF i < n + Len(u) THEN r[i] ELSE Space] = Row(l)
    <2>1. ASSUME NEW i \in Cells
          PROVE  (IF i < n + Len(u) THEN r[i] ELSE Space)
                    = (IF i < Len(l) THEN l[i + 1] ELSE Space)
        <3>1. i \in Nat  BY Sizes
        <3>2. CASE i < n  BY <1>1, <1>2, <3>1, <3>2
        <3>3. CASE i >= n + Len(u)  BY <1>1, <1>2, <3>1, <3>3
        <3>4. CASE n <= i /\ i < n + Len(u)
            <4> DEFINE k == i - n + 1
            <4>1. k \in 1 .. (Len(l) - n) /\ n + k = i + 1 /\ i < Len(l)
                BY <1>1, <1>2, <3>1, <3>4
            <4> HIDE DEF k
            <4>2. u[k] = l[i + 1]  BY <1>2, <4>1
            <4> QED  BY <3>4, <4>1, <4>2 DEF k
        <3> QED  BY <1>1, <1>2, <3>1, <3>2, <3>3, <3>4
    <2> HIDE DEF r
    <2> QED  BY <2>1 DEF Row
<1> HIDE DEF r
<1>5. CursorLeft([row |-> Row(l), col |-> n + Len(u)], Len(u)) = [row |-> Row(l), col |-> n]
    BY <1>1, <1>2 DEF CursorLeft
<1> QED  BY <1>3, <1>4, <1>5 DEF u

LEMMA RowIsChars ==
    ASSUME NEW l \in Text
    PROVE  /\ Row(l) \in [Cells -> Char]
           /\ \A i \in Cells : Row(l)[i] = IF i < Len(l) THEN l[i + 1] ELSE Space
<1>1. ASSUME NEW i \in Cells, i < Len(l) PROVE l[i + 1] \in Char
    <2>1. i + 1 \in 1 .. Len(l)  BY <1>1, Sizes
    <2> QED  BY <2>1, Sizes, ElementOfSeq
<1>2. Space \in Char  BY DEF Char
<1> QED  BY <1>1, <1>2 DEF Row

With(l, n, c) == SubSeq(l, 1, n) \o <<c>> \o SubSeq(l, n + 1, Len(l))

LEMMA InsertShows ==
    ASSUME NEW l \in Text, NEW n \in 0 .. Len(l), NEW c \in Char
    PROVE  LineInsertChar(Shown(l, n), c) =
              IF Len(l) >= LineBufSize - 1 THEN Shown(l, n) ELSE Shown(With(l, n, c), n + 1)
<1>1. CASE Len(l) >= LineBufSize - 1
    BY <1>1 DEF LineInsertChar, Shown
<1>2. CASE Len(l) < LineBufSize - 1
    <2> DEFINE m == With(l, n, c)
               t == Put([row |-> Row(l), col |-> n], <<c>>)
    <2>1. l \in Seq(Char) /\ Len(l) \in Nat /\ n \in Nat /\ n <= Len(l)
        BY Sizes
    <2>2. /\ m \in Seq(Char) /\ Len(m) = Len(l) + 1
          /\ \A i \in 1 .. n : m[i] = l[i]
          /\ m[n + 1] = c
        BY <2>1, Inserted DEF With
    <2>3. m \in Text  BY <1>2, <2>1, <2>2, Sizes DEF Text
    <2>4. LineInsertChar(Shown(l, n), c) =
            [line |-> m, cur |-> n + 1,
             term |-> CursorLeft(Put(t, SubSeq(m, n + 2, Len(m))), Len(SubSeq(m, n + 2, Len(m))))]
        <3> DEFINE e == Shown(l, n)
                   f == [e EXCEPT !.line = Before(e) \o <<c>> \o After(e), !.cur = @ + 1]
                   k == n + 1
        <3>1. Len(l) < LineBufSize - 1 /\ ~(Len(l) >= LineBufSize - 1)
            BY <1>2, <2>1, Sizes
        <3>2. Before(e) = SubSeq(l, 1, n) /\ After(e) = SubSeq(l, n + 1, Len(l)) /\ e.line = l
            BY ShownFields
        <3>3. LineInsertChar(e, c) = [f EXCEPT !.term = Repaint(Put(e.term, <<c>>), f)]
            BY <3>1, <3>2 DEF LineInsertChar
        <3>4. f = [e EXCEPT !.line = m, !.cur = k]  BY <3>2, ShownFields DEF With
        <3>5. Put(e.term, <<c>>) = t  BY ShownFields DEF Picture
        <3>8. e = [line |-> l, cur |-> n, term |-> e.term]  BY ShownFields
        <3> HIDE DEF e, f, m, t, k
        <3>9. f = [line |-> m, cur |-> k, term |-> e.term]  BY <3>4, <3>8
        <3>6. Repaint(t, f) = CursorLeft(Put(t, SubSeq(m, k + 1, Len(m))), Len(SubSeq(m, k + 1, Len(m))))
            <4>1. f.line = m /\ f.cur = k  BY <3>9
            <4>2. After(f) = SubSeq(m, k + 1, Len(m))  BY <4>1 DEF After
            <4> QED  BY <4>2 DEF Repaint
        <3>7. k + 1 = n + 2 /\ k = n + 1  BY <2>1 DEF k
        <3> QED  BY <3>3, <3>9, <3>5, <3>6, <3>7 DEF e
    <2>5. t = [row |-> [i \in Cells |-> IF i = n THEN c ELSE Row(l)[i]], col |-> n + 1]
        <3>1. Len(<<c>>) = 1 /\ <<c>>[1] = c  OBVIOUS
        <3>2. ASSUME NEW i \in Cells
              PROVE  (IF n <= i /\ i < n + 1 THEN <<c>>[i - n + 1] ELSE Row(l)[i])
                        = (IF i = n THEN c ELSE Row(l)[i])
            <4>1. i \in Nat  BY Sizes
            <4>2. CASE i = n  BY <2>1, <3>1, <4>1, <4>2
            <4>3. CASE i # n  BY <2>1, <4>1, <4>3
            <4> QED  BY <4>2, <4>3
        <3> QED  BY <2>1, <3>1, <3>2 DEF Put
    <2> HIDE DEF m, t
    <2>6. t.row \in [Cells -> Char]  BY <2>5, RowIsChars
    <2>7. \A i \in Cells : i < n + 1 => t.row[i] = m[i + 1]
        <3>1. ASSUME NEW i \in Cells, i < n + 1 PROVE t.row[i] = m[i + 1]
            <4>1. i \in Nat  BY Sizes
            <4>2. CASE i = n  BY <2>2, <2>5, <4>2
            <4>3. CASE i < n
                <5>1. i + 1 \in 1 .. n  BY <2>1, <4>1, <4>3
                <5> QED  BY <2>1, <2>2, <2>5, <4>1, <4>3, <5>1, RowIsChars
            <4> QED  BY <2>1, <3>1, <4>1, <4>2, <4>3
        <3> QED  BY <3>1
    <2>8. \A i \in Cells : i >= Len(m) => t.row[i] = Space
        BY <2>1, <2>2, <2>5, Sizes, RowIsChars
    <2> DEFINE k == n + 1
               j == n + 2
    <2>9. k \in 0 .. Len(m) /\ j = k + 1  BY <2>1, <2>2
    <2>10. t.col = k /\ t = [row |-> t.row, col |-> t.col]  BY <2>5
    <2> HIDE DEF k, j
    <2>11. CursorLeft(Put(t, SubSeq(m, j, Len(m))), Len(SubSeq(m, j, Len(m))))
             = [row |-> Row(m), col |-> k]
        <3>1. \A i \in Cells : i < k => t.row[i] = m[i + 1]  BY <2>7 DEF k
        <3> QED  BY <2>3, <2>6, <3>1, <2>8, <2>9, <2>10, Repainted
    <2>12. LineInsertChar(Shown(l, n), c) = Shown(m, n + 1)
        BY <2>4, <2>11 DEF Shown, Picture, k, j
    <2> QED  BY <1>2, <2>1, <2>12, Sizes DEF m
<1> QED  BY <1>1, <1>2, Sizes

LEMMA DeleteShows ==
    ASSUME NEW l \in Text, NEW n \in 0 .. Len(l)
    PROVE  LineDeleteChar(Shown(l, n)) =
              IF n = 0 THEN Shown(l, n) ELSE Shown(RemoveAt(l, n), n - 1)
<1>1. CASE n = 0
    BY <1>1 DEF LineDeleteChar, Shown
<1>2. CASE n # 0
    <2> DEFINE m == RemoveAt(l, n)
               k == n - 1
               e == Shown(l, n)
               f == [e EXCEPT !.line = RemoveAt(e.line, e.cur), !.cur = @ - 1]
               t == CursorLeft(e.term, 1)
    <2>1. /\ l \in Seq(Char) /\ Len(l) \in Nat /\ n \in 1 .. Len(l)
          /\ k \in Nat /\ k + 1 = n
        BY <1>2, Sizes
    <2>2. /\ m \in Seq(Char) /\ Len(m) = Len(l) - 1
          /\ \A i \in 1 .. (n - 1) : m[i] = l[i]
        BY <2>1, Removed
    <2>3. m \in Text /\ k \in 0 .. Len(m)  BY <2>1, <2>2, Sizes DEF Text
    <2>4. f = [line |-> m, cur |-> k, term |-> e.term] /\ e.cur # 0
        <3>1. f = [e EXCEPT !.line = m, !.cur = k] /\ e.cur # 0  BY <1>2, ShownFields
        <3>2. e = [line |-> l, cur |-> n, term |-> e.term]  BY ShownFields
        <3> HIDE DEF e, f, m, k
        <3> QED  BY <3>1, <3>2
    <2>5. t = [row |-> Row(l), col |-> k]
        <3>1. e.term = [row |-> Row(l), col |-> n]  BY ShownFields DEF Picture
        <3> HIDE DEF e
        <3> QED  BY <2>1, <3>1 DEF CursorLeft
    <2>6. LineDeleteChar(e) =
            [f EXCEPT !.term = CursorLeft(ClearToEol(Put(t, After(f))), Len(After(f)))]
        BY <2>4 DEF LineDeleteChar
    <2>7. \A i \in Cells : i < k => t.row[i] = m[i + 1]
        <3>1. ASSUME NEW i \in Cells, i < k PROVE t.row[i] = m[i + 1]
            <4>1. i \in Nat /\ i + 1 \in 1 .. (n - 1) /\ i < Len(l)
                BY <2>1, <3>1, Sizes
            <4> QED  BY <2>2, <2>5, <4>1, RowIsChars
        <3> QED  BY <3>1
    <2> HIDE DEF m, k, e, f, t
    <2>8. After(f) = SubSeq(m, k + 1, Len(m))
        <3>1. f.line = m /\ f.cur = k  BY <2>4
        <3> QED  BY <3>1 DEF After
    <2>9. CursorLeft(ClearToEol(Put(t, After(f))), Len(After(f)))
             = [row |-> Row(m), col |-> k]
        <3>1. t.row \in [Cells -> Char] /\ t.col = k /\ t = [row |-> t.row, col |-> t.col]
            BY <2>5, RowIsChars
        <3> DEFINE u == SubSeq(m, k + 1, Len(m))
        <3>2. CursorLeft(ClearToEol(Put(t, u)), Len(u)) = [row |-> Row(m), col |-> k]
            BY <2>3, <2>7, <3>1, RepaintedToEol, SMTT(20)
        <3> QED  BY <2>8, <3>2
    <2>10. LineDeleteChar(e) = Shown(m, k)
        BY <2>4, <2>6, <2>9 DEF Shown, Picture
    <2> QED  BY <1>2, <2>10 DEF e, m, k
<1> QED  BY <1>1, <1>2

LEMMA ForwardShows ==
    ASSUME NEW l \in Text, NEW n \in 0 .. Len(l)
    PROVE  LineDeleteForward(Shown(l, n)) =
              IF n = Len(l) THEN Shown(l, n) ELSE Shown(RemoveAt(l, n + 1), n)
<1>0. l \in Seq(Char) /\ Len(l) \in Nat /\ n \in Nat /\ n <= Len(l)
    BY Sizes
<1>1. CASE n = Len(l)
    BY <1>0, <1>1 DEF LineDeleteForward, Shown
<1>2. CASE n < Len(l)
    <2> DEFINE k == n + 1
               m == RemoveAt(l, k)
               e == Shown(l, n)
               f == [e EXCEPT !.line = RemoveAt(e.line, e.cur + 1)]
    <2>1. k \in 1 .. Len(l) /\ k - 1 = n
        BY <1>0, <1>2
    <2>2. f = [line |-> RemoveAt(l, n + 1), cur |-> n, term |-> e.term] /\ ~(e.cur >= Len(e.line))
        <3>1. f = [e EXCEPT !.line = RemoveAt(l, n + 1)] /\ ~(e.cur >= Len(e.line))
            BY <1>0, <1>2, ShownFields
        <3>2. e = [line |-> l, cur |-> n, term |-> e.term]  BY ShownFields
        <3> HIDE DEF e, f
        <3> QED  BY <3>1, <3>2
    <2>3. LineDeleteForward(e) =
            [f EXCEPT !.term = CursorLeft(ClearToEol(Put(e.term, After(f))), Len(After(f)))]
        BY <2>2 DEF LineDeleteForward
    <2>4. f.line = m /\ f.cur = n  BY <2>2
    <2> HIDE DEF k
    <2>5. /\ m \in Seq(Char) /\ Len(m) = Len(l) - 1
          /\ \A i \in 1 .. (k - 1) : m[i] = l[i]
        BY <1>0, <2>1, Removed
    <2>6. m \in Text /\ n \in 0 .. Len(m)  BY <1>0, <1>2, <2>5, Sizes DEF Text
    <2>7. e.term = [row |-> Row(l), col |-> n]  BY ShownFields DEF Picture
    <2>8. \A i \in Cells : i < n => Row(l)[i] = m[i + 1]
        <3>1. ASSUME NEW i \in Cells, i < n PROVE Row(l)[i] = m[i + 1]
            <4>1. i \in Nat /\ i + 1 \in 1 .. (k - 1) /\ i < Len(l)
                BY <1>0, <2>1, <3>1, Sizes
            <4> QED  BY <2>5, <4>1, RowIsChars
        <3> QED  BY <3>1
    <2> HIDE DEF m, e, f
    <2>9. After(f) = SubSeq(m, n + 1, Len(m))
        BY <2>4 DEF After
    <2>10. CursorLeft(ClearToEol(Put(e.term, After(f))), Len(After(f)))
             = [row |-> Row(m), col |-> n]
        <3> DEFINE t == e.term
        <3>1. /\ t.row = Row(l) /\ t.row \in [Cells -> Char] /\ t.col = n
              /\ t = [row |-> t.row, col |-> t.col]
            BY <2>7, RowIsChars
        <3>2. \A i \in Cells : i < n => t.row[i] = m[i + 1]
            BY <2>8, <3>1
        <3> HIDE DEF t
        <3> DEFINE u == SubSeq(m, n + 1, Len(m))
        <3>3. CursorLeft(ClearToEol(Put(t, u)), Len(u)) = [row |-> Row(m), col |-> n]
            BY <2>6, <3>1, <3>2, RepaintedToEol, SMTT(20)
        <3> QED  BY <2>9, <3>3 DEF t
    <2>11. LineDeleteForward(e) = Shown(m, n)
        <3>1. f = [line |-> m, cur |-> n, term |-> e.term]  BY <2>2 DEF m, k
        <3> QED  BY <2>3, <2>10, <3>1 DEF Shown, Picture
    <2> QED  BY <1>0, <1>2, <2>11 DEF e, m, k
<1> QED  BY <1>0, <1>1, <1>2

LEMMA MoveShows ==
    ASSUME NEW l \in Text, NEW n \in 0 .. Len(l), NEW k \in 0 .. Len(l)
    PROVE  LineMoveTo(Shown(l, n), k) = Shown(l, k)
<1> DEFINE e == Shown(l, n)
           f == LineMoveTo(e, k)
           t == IF k < e.cur THEN CursorLeft(e.term, e.cur - k) ELSE CursorRight(e.term, k - e.cur)
<1>1. n \in Nat /\ k \in Nat  BY Sizes
<1>2. e.cur = n /\ e.term = Picture(l, n) /\ e = [line |-> l, cur |-> n, term |-> Picture(l, n)]
    BY ShownFields
<1>3. f = [e EXCEPT !.cur = k, !.term = t]  BY DEF LineMoveTo
<1> HIDE DEF e, f
<1>4. t = Picture(l, k)
    <2>1. CASE k < n
        <3>1. CursorLeft(Picture(l, n), n - k) = Picture(l, k)
            BY <1>1, <2>1 DEF CursorLeft, Picture
        <3> QED  BY <1>2, <2>1, <3>1
    <2>2. CASE ~(k < n)
        <3>1. CursorRight(Picture(l, n), k - n) = Picture(l, k)
            BY <1>1, <2>2 DEF CursorRight, Picture
        <3> QED  BY <1>2, <2>2, <3>1
    <2> QED  BY <2>1, <2>2
<1> HIDE DEF t
<1>5. e = [line |-> l, cur |-> n, term |-> Picture(l, n)]  BY <1>2
<1>6. f = [line |-> l, cur |-> k, term |-> t]  BY <1>3, <1>5
<1> QED  BY <1>4, <1>6 DEF f, e, Shown

LEMMA KillToEndShows ==
    ASSUME NEW l \in Text, NEW n \in 0 .. Len(l)
    PROVE  LineKillToEnd(Shown(l, n)) = Shown(SubSeq(l, 1, n), n)
<1> DEFINE b == SubSeq(l, 1, n)
<1>1. l \in Seq(Char) /\ Len(l) \in Nat /\ n \in Nat /\ n <= Len(l)
    BY Sizes
<1>2. Len(b) = n /\ \A i \in 1 .. n : b[i] = l[i]  BY <1>1, Cut
<1>3. LineKillToEnd(Shown(l, n)) =
        [line |-> b, cur |-> n,
         term |-> [row |-> [i \in Cells |-> IF i < n THEN Row(l)[i] ELSE Space], col |-> n]]
    <2>1. ClearToEol(Picture(l, n)) =
            [row |-> [i \in Cells |-> IF i < n THEN Row(l)[i] ELSE Space], col |-> n]
        BY DEF ClearToEol, Picture
    <2> DEFINE t == [row |-> [i \in Cells |-> IF i < n THEN Row(l)[i] ELSE Space], col |-> n]
               e == Shown(l, n)
               f == LineKillToEnd(e)
    <2>2. e = [line |-> l, cur |-> n, term |-> Picture(l, n)] /\ Before(e) = b
        BY ShownFields
    <2> HIDE DEF t, e, b
    <2>3. f = [e EXCEPT !.term = t, !.line = b]
        BY <2>1, <2>2 DEF LineKillToEnd, t
    <2> HIDE DEF f
    <2>4. f = [line |-> b, cur |-> n, term |-> t]  BY <2>2, <2>3
    <2> QED  BY <2>4 DEF f, t, e, b
<1> HIDE DEF b
<1>4. ASSUME NEW i \in Cells
      PROVE  (IF i < n THEN Row(l)[i] ELSE Space) = (IF i < Len(b) THEN b[i + 1] ELSE Space)
    <2>1. i \in Nat  BY Sizes
    <2>2. CASE i < n
        <3>1. i + 1 \in 1 .. n /\ i < Len(l)  BY <1>1, <2>1, <2>2
        <3> QED  BY <1>2, <2>2, <3>1, RowIsChars
    <2>3. CASE ~(i < n)  BY <1>2, <2>3
    <2> QED  BY <2>2, <2>3
<1> QED  BY <1>3, <1>4 DEF Row, Picture, Shown, b

LEMMA EmptyText ==
    <<>> \in Text /\ Len(<<>>) = 0 /\ Row(<<>>) = [i \in Cells |-> Space]
    BY Sizes, EmptySeq DEF Text, Row

LEMMA ClearsAll ==
    ASSUME NEW l \in Text
    PROVE  ClearToEol(Picture(l, 0)) = Picture(<<>>, 0)
<1>1. ClearToEol(Picture(l, 0)) =
        [row |-> [i \in Cells |-> IF i < 0 THEN Row(l)[i] ELSE Space], col |-> 0]
    BY DEF ClearToEol, Picture
<1>2. [i \in Cells |-> IF i < 0 THEN Row(l)[i] ELSE Space] = [i \in Cells |-> Space]
    BY Sizes
<1> QED  BY <1>1, <1>2, EmptyText DEF Picture

LEMMA WriteAll ==
    ASSUME NEW s \in Text
    PROVE  Put(Picture(<<>>, 0), s) = Picture(s, Len(s))
<1>1. Len(s) \in Nat  BY Sizes
<1>2. Put(Picture(<<>>, 0), s) =
        [row |-> [i \in Cells |-> IF 0 <= i /\ i < 0 + Len(s) THEN s[i - 0 + 1]
                                  ELSE Row(<<>>)[i]],
         col |-> 0 + Len(s)]
    BY DEF Put, Picture
<1>3. ASSUME NEW i \in Cells
      PROVE  (IF 0 <= i /\ i < 0 + Len(s) THEN s[i - 0 + 1] ELSE Row(<<>>)[i])
                = (IF i < Len(s) THEN s[i + 1] ELSE Space)
    <2>1. i \in Nat /\ i - 0 + 1 = i + 1 /\ Row(<<>>)[i] = Space
        BY Sizes, EmptyText
    <2> QED  BY <1>1, <2>1
<1> QED  BY <1>1, <1>2, <1>3 DEF Picture, Row

LEMMA KillAllShows ==
    ASSUME NEW l \in Text, NEW n \in 0 .. Len(l)
    PROVE  LineKillAll(Shown(l, n)) = Shown(<<>>, 0)
<1>1. n \in Nat  BY Sizes
<1>2. CursorLeft(Picture(l, n), n) = Picture(l, 0)
    BY <1>1 DEF CursorLeft, Picture
<1>3. ClearToEol(Picture(l, 0)) = Picture(<<>>, 0)
    BY ClearsAll
<1> DEFINE e == Shown(l, n)
           f == [e EXCEPT !.term = ClearToEol(CursorLeft(@, e.cur))]
           g == LineClear(f)
<1>4. f = [e EXCEPT !.term = Picture(<<>>, 0)]
    BY <1>2, <1>3, ShownFields
<1>5. e = [line |-> l, cur |-> n, term |-> Picture(l, n)]  BY ShownFields
<1>6. LineKillAll(e) = g  BY DEF LineKillAll
<1>7. g = [f EXCEPT !.line = <<>>, !.cur = 0]  BY DEF LineClear
<1> HIDE DEF e, f, g
<1>8. f = [line |-> l, cur |-> n, term |-> Picture(<<>>, 0)]  BY <1>4, <1>5
<1>9. g = [line |-> <<>>, cur |-> 0, term |-> Picture(<<>>, 0)]  BY <1>7, <1>8
<1> QED  BY <1>6, <1>9 DEF e, Shown

LEMMA SetShows ==
    ASSUME NEW l \in Text, NEW n \in 0 .. Len(l), NEW s \in Text
    PROVE  LineSet(Shown(l, n), s) = Shown(s, Len(s))
<1>1. n \in Nat /\ Len(s) \in Nat /\ s \in Seq(Char)  BY Sizes
<1>2. CursorLeft(Picture(l, n), n) = Picture(l, 0)
    BY <1>1 DEF CursorLeft, Picture
<1> QED  BY <1>2, ClearsAll, WriteAll, ShownFields DEF LineSet, Shown

LEMMA BlankIsEmpty == Blank = Picture(<<>>, 0)
    BY EmptyText DEF Blank, Picture

LEMMA RedisplayShows ==
    ASSUME NEW l \in Text, NEW n \in 0 .. Len(l)
    PROVE  Redisplay(Shown(l, n)) = Shown(l, n)
<1>1. /\ l \in Seq(Char) /\ Len(l) \in Nat /\ n \in Nat /\ n <= Len(l)
      /\ Len(SubSeq(l, n + 1, Len(l))) = Len(l) - n
    BY Sizes, Cut
<1>2. Put(Blank, l) = Picture(l, Len(l))
    BY WriteAll, BlankIsEmpty
<1>3. CursorLeft(Picture(l, Len(l)), Len(l) - n) = Picture(l, n)
    BY <1>1 DEF CursorLeft, Picture
<1> DEFINE e == Shown(l, n)
           f == Redisplay(e)
<1>4. e = [line |-> l, cur |-> n, term |-> Picture(l, n)]  BY ShownFields
<1>5. f = [e EXCEPT !.term = Picture(l, n)]
    BY <1>1, <1>2, <1>3, ShownFields DEF Redisplay
<1> HIDE DEF e, f
<1>6. f = [line |-> l, cur |-> n, term |-> Picture(l, n)]  BY <1>4, <1>5
<1> QED  BY <1>4, <1>6 DEF e, f

LEMMA PromptShows ==
    ASSUME NEW e, e = [line |-> e.line, cur |-> e.cur, term |-> e.term]
    PROVE  [LineClear(e) EXCEPT !.term = Blank] = Shown(<<>>, 0)
<1> DEFINE f == LineClear(e)
           g == [f EXCEPT !.term = Blank]
<1>1. f = [e EXCEPT !.line = <<>>, !.cur = 0]  BY DEF LineClear
<1>2. g = [f EXCEPT !.term = Picture(<<>>, 0)]  BY BlankIsEmpty
<1> HIDE DEF f, g
<1>3. f = [line |-> <<>>, cur |-> 0, term |-> e.term]  BY <1>1
<1>4. g = [line |-> <<>>, cur |-> 0, term |-> Picture(<<>>, 0)]  BY <1>2, <1>3
<1> QED  BY <1>4 DEF f, g, Shown

-----------------------------------------------------------------------------
(* Several characters, one after another *)

\* f[i] is e with the first i characters of s typed.
TypesInto(f, e, s, n) == f = [i \in 0 .. n |-> IF i = 0 THEN e ELSE LineInsertChar(f[i - 1], s[i])]

LEMMA TypedExists ==
    ASSUME NEW e, NEW s, NEW n \in Nat
    PROVE  \E f : TypesInto(f, e, s, n)
<1> DEFINE Typed(f, k) == f = [i \in 0 .. k |-> IF i = 0 THEN e ELSE LineInsertChar(f[i - 1], s[i])]
           S == {k \in Nat : \E f : Typed(f, k)}
<1>1. 0 \in S
    <2> DEFINE f == [i \in 0 .. 0 |-> e]
    <2>1. Typed(f, 0)  OBVIOUS
    <2> QED  BY <2>1
<1>2. ASSUME NEW k \in S PROVE k + 1 \in S
    <2>1. k \in Nat /\ k + 1 \in Nat  OBVIOUS
    <2>2. PICK f : Typed(f, k)  OBVIOUS
    <2>3. /\ \A i \in 0 .. k : f[i] = IF i = 0 THEN e ELSE LineInsertChar(f[i - 1], s[i])
        BY <2>2
    <2> DEFINE g == [i \in 0 .. (k + 1) |-> IF i = k + 1 THEN LineInsertChar(f[k], s[k + 1]) ELSE f[i]]
    <2>4. ASSUME NEW i \in 0 .. (k + 1)
          PROVE  g[i] = IF i = 0 THEN e ELSE LineInsertChar(g[i - 1], s[i])
        <3>1. CASE i = k + 1
            <4>1. i # 0 /\ i - 1 \in 0 .. (k + 1) /\ i - 1 = k /\ i - 1 # k + 1
                BY <2>1, <3>1
            <4>2. g[i - 1] = f[k]  BY <4>1
            <4>3. g[i] = LineInsertChar(f[k], s[k + 1])  BY <3>1
            <4> QED  BY <3>1, <4>1, <4>2, <4>3
        <3>2. CASE i # k + 1
            <4>1. i \in 0 .. k /\ g[i] = f[i]  BY <2>1, <3>2
            <4>2. CASE i = 0  BY <2>3, <4>1, <4>2
            <4>3. CASE i # 0
                <5>1. i - 1 \in 0 .. (k + 1) /\ i - 1 # k + 1  BY <2>1, <4>1, <4>3
                <5>2. g[i - 1] = f[i - 1]  BY <5>1
                <5> QED  BY <2>3, <4>1, <4>3, <5>2
            <4> QED  BY <4>2, <4>3
        <3> QED  BY <3>1, <3>2
    <2>5. g = [i \in 0 .. (k + 1) |-> g[i]]  OBVIOUS
    <2> HIDE DEF g
    <2>6. Typed(g, k + 1)  BY <2>4, <2>5
    <2> QED  BY <2>1, <2>6
<1> HIDE DEF S
<1>3. S = Nat
    <2>1. S \in SUBSET Nat  BY DEF S
    <2> QED  BY <1>1, <1>2, <2>1, Induction
<1> QED  BY <1>3 DEF S, TypesInto

\* l with the first k characters of s typed at n: all so far, or the line is full.
Grown(l, n, s, i, e) ==
    \E k \in 0 .. i, m \in Text :
        /\ e = Shown(m, n + k)
        /\ n + k <= Len(m)
        /\ SubSeq(m, 1, n + k) = SubSeq(l, 1, n) \o SubSeq(s, 1, k)
        /\ SubSeq(m, n + k + 1, Len(m)) = SubSeq(l, n + 1, Len(l))
        /\ k = i \/ Len(m) >= LineBufSize - 1

LEMMA GrownStarts ==
    ASSUME NEW l \in Text, NEW n \in 0 .. Len(l), NEW s \in Seq(Char)
    PROVE  Grown(l, n, s, 0, Shown(l, n))
<1>1. /\ l \in Seq(Char) /\ Len(l) \in Nat /\ n \in Nat /\ n <= Len(l) /\ n + 0 = n
    BY Sizes
<1>2. SubSeq(s, 1, 0) = <<>>  BY SubSeqEmpty
<1>3. SubSeq(l, 1, n) \o <<>> = SubSeq(l, 1, n)  BY <1>1, Cut, ConcatEmptySeq
<1> QED  BY <1>1, <1>2, <1>3 DEF Grown

LEMMA GrownGoesOn ==
    ASSUME NEW l \in Text, NEW n \in 0 .. Len(l), NEW s \in Seq(Char),
           NEW i \in Nat, i < Len(s), NEW e, Grown(l, n, s, i, e)
    PROVE  Grown(l, n, s, i + 1, LineInsertChar(e, s[i + 1]))
<1> DEFINE c == s[i + 1]
<1>1. PICK k \in 0 .. i, m \in Text :
        /\ e = Shown(m, n + k)
        /\ n + k <= Len(m)
        /\ SubSeq(m, 1, n + k) = SubSeq(l, 1, n) \o SubSeq(s, 1, k)
        /\ SubSeq(m, n + k + 1, Len(m)) = SubSeq(l, n + 1, Len(l))
        /\ k = i \/ Len(m) >= LineBufSize - 1
    BY DEF Grown
<1>2. /\ n \in Nat /\ k \in Nat /\ n + k \in 0 .. Len(m) /\ m \in Seq(Char) /\ Len(m) \in Nat
      /\ l \in Seq(Char) /\ Len(s) \in Nat
    BY <1>1, Sizes, LenProperties
<1>3. i + 1 \in 1 .. Len(s) /\ c \in Char
    BY <1>2, ElementOfSeq
<1> HIDE DEF c
<1>4. LineInsertChar(e, c) = IF Len(m) >= LineBufSize - 1 THEN e
                             ELSE Shown(With(m, n + k, c), n + k + 1)
    BY <1>1, <1>2, <1>3, InsertShows
<1>5. CASE Len(m) >= LineBufSize - 1
    <2>1. k \in 0 .. (i + 1)  BY <1>2
    <2>2. LineInsertChar(e, c) = Shown(m, n + k)  BY <1>1, <1>4, <1>5
    <2> QED  BY <1>1, <1>5, <2>1, <2>2 DEF Grown, c
<1>6. CASE ~(Len(m) >= LineBufSize - 1)
    <2> DEFINE w == With(m, n + k, c)
    <2>1. k = i /\ Len(m) < LineBufSize - 1  BY <1>1, <1>2, <1>6, Sizes
    <2>2. /\ w \in Seq(Char) /\ Len(w) = Len(m) + 1
          /\ SubSeq(w, 1, n + k + 1) = SubSeq(m, 1, n + k) \o <<c>>
          /\ SubSeq(w, n + k + 2, Len(w)) = SubSeq(m, n + k + 1, Len(m))
        BY <1>2, <1>3, Inserted DEF With
    <2> HIDE DEF w
    <2>3. w \in Text  BY <1>2, <2>1, <2>2, Sizes DEF Text
    <2>4. SubSeq(s, 1, i + 1) = SubSeq(s, 1, i) \o <<c>>
        <3> DEFINE j == i + 1
        <3>1. j \in 1 .. Len(s) /\ 1 \in 1 .. Len(s) /\ j - 1 = i  BY <1>2, <1>3
        <3> HIDE DEF j
        <3>2. SubSeq(s, 1, j) = SubSeq(s, 1, j - 1) \o <<s[j]>>
            <4>1. j \in 1 .. Len(s) /\ 1 \in 1 .. Len(s)  BY <3>1
            <4> QED  BY <4>1, SubSeqRecursiveSecond
        <3> QED  BY <3>1, <3>2 DEF j, c
    <2>5. /\ SubSeq(l, 1, n) \in Seq(Char) /\ SubSeq(s, 1, i) \in Seq(Char)
          /\ <<c>> \in Seq(Char)
        <3>1. i \in 0 .. Len(s)  BY <1>2
        <3> QED  BY <1>2, <1>3, <3>1, Cut
    <2>6. SubSeq(w, 1, n + k + 1) = SubSeq(l, 1, n) \o SubSeq(s, 1, i + 1)
        <3> DEFINE b == SubSeq(l, 1, n)
                   t == SubSeq(s, 1, i)
        <3>1. SubSeq(m, 1, n + k) = b \o t  BY <1>1, <2>1
        <3> HIDE DEF b, t
        <3>2. (b \o t) \o <<c>> = b \o (t \o <<c>>)
            BY <2>5, ConcatAssociative DEF b, t
        <3>3. SubSeq(w, 1, n + k + 1) = (b \o t) \o <<c>>  BY <2>2, <3>1
        <3>4. SubSeq(s, 1, i + 1) = t \o <<c>>  BY <2>4 DEF t
        <3> QED  BY <3>2, <3>3, <3>4 DEF b
    <2>7. LineInsertChar(e, c) = Shown(w, n + k + 1)
        BY <1>4, <1>6 DEF w
    <2> DEFINE j == i + 1
    <2>8. j \in 0 .. j /\ n + j = n + k + 1 /\ n + j + 1 = n + k + 2 /\ n + j <= Len(w)
        BY <1>2, <2>1, <2>2
    <2>9. /\ SubSeq(w, 1, n + j) = SubSeq(l, 1, n) \o SubSeq(s, 1, j)
          /\ SubSeq(w, n + j + 1, Len(w)) = SubSeq(l, n + 1, Len(l))
          /\ LineInsertChar(e, c) = Shown(w, n + j)
        BY <1>1, <2>2, <2>6, <2>7, <2>8
    <2> HIDE DEF j
    <2>10. Grown(l, n, s, j, LineInsertChar(e, c))
        BY <2>3, <2>8, <2>9 DEF Grown
    <2> QED  BY <2>10 DEF j, c
<1> QED  BY <1>5, <1>6

\* Whatever is typed, what is left of the cursor grows by a prefix of it, the
\* rest of the line stays, and the row shows the line (sh.c:1171, 1188).
LEMMA InsertAllShows ==
    ASSUME NEW l \in Text, NEW n \in 0 .. Len(l), NEW s \in Seq(Char)
    PROVE  Grown(l, n, s, Len(s), InsertAll(Shown(l, n), s))
<1> DEFINE e == Shown(l, n)
           f == CHOOSE f : TypesInto(f, e, s, Len(s))
           S == {i \in Nat : i <= Len(s) => Grown(l, n, s, i, f[i])}
<1>1. Len(s) \in Nat  BY LenProperties
<1>2. InsertAll(e, s) = f[Len(s)]  BY DEF InsertAll, TypesInto
<1>3. TypesInto(f, e, s, Len(s))
    <2> HIDE DEF e
    <2>1. \E g : TypesInto(g, e, s, Len(s))  BY <1>1, TypedExists
    <2> QED  BY <2>1
<1>4. \A i \in 0 .. Len(s) : f[i] = IF i = 0 THEN e ELSE LineInsertChar(f[i - 1], s[i])
    <2> DEFINE g == f
    <2>1. TypesInto(g, e, s, Len(s))  BY <1>3
    <2> HIDE DEF f
    <2>2. \A i \in 0 .. Len(s) : g[i] = IF i = 0 THEN e ELSE LineInsertChar(g[i - 1], s[i])
        BY <2>1 DEF TypesInto
    <2> QED  BY <2>2
<1> HIDE DEF f, e
<1>5. 0 \in S
    <2>1. f[0] = e  BY <1>1, <1>4
    <2> QED  BY <2>1, GrownStarts DEF e
<1>6. ASSUME NEW i \in S PROVE i + 1 \in S
    <2>1. i \in Nat /\ i + 1 \in Nat  OBVIOUS
    <2>2. ASSUME i + 1 <= Len(s) PROVE Grown(l, n, s, i + 1, f[i + 1])
        <3>1. /\ i < Len(s) /\ i <= Len(s) /\ i + 1 \in 0 .. Len(s)
              /\ i + 1 # 0 /\ (i + 1) - 1 = i
            BY <1>1, <2>1, <2>2
        <3>2. Grown(l, n, s, i, f[i])  BY <3>1
        <3>3. f[i + 1] = LineInsertChar(f[i], s[i + 1])  BY <1>4, <3>1
        <3> QED  BY <2>1, <3>1, <3>2, <3>3, GrownGoesOn
    <2> QED  BY <2>1, <2>2
<1>7. S = Nat
    <2> HIDE DEF S
    <2>1. S \in SUBSET Nat  BY DEF S
    <2> QED  BY <1>5, <1>6, <2>1, Induction
<1>8. Len(s) \in S  BY <1>1, <1>7
<1>9. Grown(l, n, s, Len(s), f[Len(s)])  BY <1>1, <1>8
<1> QED  BY <1>2, <1>9 DEF e

-----------------------------------------------------------------------------
(* Completion *)

LEMMA PrefixIs ==
    ASSUME NEW s \in Seq(Char), NEW t \in Seq(Char)
    PROVE  IsPrefix(s, t) <=> Len(s) <= Len(t) /\ \A i \in 1 .. Len(s) : s[i] = t[i]
<1>1. Len(s) \in Nat /\ Len(t) \in Nat  BY LenProperties
<1>2. SubSeq(s, 1, Len(s)) = s  BY SubSeqFull
<1>3. ASSUME Len(s) <= Len(t)
      PROVE  SubSeq(t, 1, Len(s)) = s <=> \A i \in 1 .. Len(s) : s[i] = t[i]
    <2> DEFINE u == SubSeq(t, 1, Len(s))
    <2>1. Len(s) \in 0 .. Len(t)  BY <1>1, <1>3
    <2>2. u \in Seq(Char) /\ Len(u) = Len(s) /\ \A i \in 1 .. Len(s) : u[i] = t[i]
        BY <2>1, Cut
    <2> HIDE DEF u
    <2>3. ASSUME \A i \in 1 .. Len(s) : s[i] = t[i] PROVE u = s
        BY <2>2, <2>3, SeqEqual
    <2> QED  BY <2>2, <2>3 DEF u
<1> QED  BY <1>1, <1>2, <1>3 DEF IsPrefix

\* A word ends at most one boundary character before it.
LEMMA LastBoundary ==
    ASSUME NEW b, NEW n \in Nat
    PROVE  \E i \in 0 .. n : /\ i = 0 \/ b[i] \in {Space, Slash}
                             /\ \A j \in (i + 1) .. n : b[j] \notin {Space, Slash}
<1> DEFINE Cutting(k, i) == /\ i = 0 \/ b[i] \in {Space, Slash}
                            /\ \A j \in (i + 1) .. k : b[j] \notin {Space, Slash}
           S == {k \in Nat : \E i \in 0 .. k : Cutting(k, i)}
<1>1. 0 \in S
    <2>1. Cutting(0, 0)  OBVIOUS
    <2> QED  BY <2>1
<1>2. ASSUME NEW k \in S PROVE k + 1 \in S
    <2>1. k \in Nat /\ k + 1 \in Nat  OBVIOUS
    <2>2. PICK i \in 0 .. k : Cutting(k, i)  OBVIOUS
    <2>3. CASE b[k + 1] \in {Space, Slash}
        <3>1. Cutting(k + 1, k + 1)  BY <2>1, <2>3
        <3>2. k + 1 \in 0 .. (k + 1)  BY <2>1
        <3> QED  BY <2>1, <3>1, <3>2
    <2>4. CASE b[k + 1] \notin {Space, Slash}
        <3>1. Cutting(k + 1, i)
            <4>1. ASSUME NEW j \in (i + 1) .. (k + 1) PROVE b[j] \notin {Space, Slash}
                <5>1. CASE j = k + 1  BY <2>4, <5>1
                <5>2. CASE j # k + 1
                    <6>1. j \in (i + 1) .. k  BY <2>1, <2>2, <5>2
                    <6> QED  BY <2>2, <6>1
                <5> QED  BY <5>1, <5>2
            <4> QED  BY <2>2, <4>1
        <3>2. i \in 0 .. (k + 1)  BY <2>1, <2>2
        <3> QED  BY <2>1, <3>1, <3>2
    <2> QED  BY <2>3, <2>4
<1> HIDE DEF S
<1>3. S = Nat
    <2>1. S \in SUBSET Nat  BY DEF S
    <2> QED  BY <1>1, <1>2, <2>1, Induction
<1> QED  BY <1>3 DEF S

LEMMA CompletionPrefixType ==
    ASSUME NEW l \in Text, NEW n \in 0 .. Len(l)
    PROVE  CompletionPrefix(Shown(l, n)) \in Seq(Char)
<1> DEFINE e == Shown(l, n)
           b == Before(e)
           Cutting(i) == /\ i = 0 \/ b[i] \in {Space, Slash}
                         /\ \A j \in (i + 1) .. e.cur : b[j] \notin {Space, Slash}
           from == CHOOSE i \in 0 .. e.cur : Cutting(i)
<1>1. l \in Seq(Char) /\ Len(l) \in Nat /\ n \in Nat /\ n <= Len(l)
    BY Sizes
<1>2. b \in Seq(Char) /\ Len(b) = n /\ e.cur = n
    <2>1. b = SubSeq(l, 1, n) /\ e.cur = n  BY ShownFields
    <2>2. SubSeq(l, 1, n) \in Seq(Char) /\ Len(SubSeq(l, 1, n)) = n  BY <1>1, Cut
    <2> HIDE DEF b, e
    <2> QED  BY <2>1, <2>2
<1>3. CompletionPrefix(e) = SubSeq(b, from + 1, e.cur)
    BY DEF CompletionPrefix
<1>4. from \in 0 .. e.cur
    <2> HIDE DEF b, e
    <2>1. \E i \in 0 .. e.cur : Cutting(i)  BY <1>1, <1>2, LastBoundary
    <2> QED  BY <2>1
<1> HIDE DEF from, b
<1>5. SubSeq(b, from + 1, e.cur) \in Seq(Char)
    <2>1. SubSeq(b, from + 1, Len(b)) \in Seq(Char)  BY <1>2, <1>4, Cut
    <2> QED  BY <1>2, <2>1
<1> QED  BY <1>3, <1>5 DEF e

LEMMA NamesAreTexts ==
    ASSUME NEW n \in Names
    PROVE  n \in Seq(Char)
<1>1. n \in Seq(Letter) /\ Letter \subseteq Char  BY LineEditAssumption DEF Char
<1> QED  BY <1>1, SeqMonotonic

\* What the matches share is a prefix of each, and all of it if there is one.
LEMMA CommonPrefixShared ==
    ASSUME NEW found \in SUBSET Names, found # {}
    PROVE  /\ CommonPrefix(found) \in Seq(Char)
           /\ \A n \in found : IsPrefix(CommonPrefix(found), n)
           /\ \A n \in found : found = {n} => CommonPrefix(found) = n
<1> DEFINE m == CHOOSE m \in found : TRUE
           shared(k) == \A n \in found : IsPrefix(SubSeq(m, 1, k), n)
           Longest(k) == shared(k) /\ (k = Len(m) \/ ~shared(k + 1))
           len == CHOOSE k \in 0 .. Len(m) : Longest(k)
<1>1. CommonPrefix(found) = SubSeq(m, 1, len)
    BY DEF CommonPrefix
<1>2. m \in found  OBVIOUS
<1> HIDE DEF m
<1>3. \A n \in found : n \in Seq(Char) /\ Len(n) \in Nat
    BY NamesAreTexts, LenProperties
<1>4. m \in Seq(Char) /\ Len(m) \in Nat  BY <1>2, <1>3
<1>5. shared(0)
    <2>1. SubSeq(m, 1, 0) = <<>> /\ SubSeq(<<>>, 1, 0) = <<>> /\ Len(<<>>) = 0
        BY SubSeqEmpty, EmptySeq
    <2>2. ASSUME NEW n \in found PROVE IsPrefix(<<>>, n)
        <3>1. SubSeq(n, 1, 0) = <<>>  BY SubSeqEmpty
        <3> QED  BY <1>3, <2>1, <3>1 DEF IsPrefix
    <2> QED  BY <2>1, <2>2
<1>6. \E k \in 0 .. Len(m) : Longest(k)
    <2>1. SUFFICES ASSUME \A k \in 0 .. Len(m) : ~Longest(k) PROVE FALSE
        OBVIOUS
    <2> DEFINE S == {k \in Nat : k <= Len(m) => shared(k)}
    <2> HIDE DEF shared
    <2>2. 0 \in S  BY <1>5
    <2>3. ASSUME NEW k \in S PROVE k + 1 \in S
        BY <1>4, <2>1
    <2>4. S = Nat
        <3> HIDE DEF S
        <3>1. S \in SUBSET Nat  BY DEF S
        <3> QED  BY <2>2, <2>3, <3>1, Induction
    <2>5. shared(Len(m))  BY <1>4, <2>4
    <2> QED  BY <1>4, <2>1, <2>5
<1>7. len \in 0 .. Len(m) /\ Longest(len)
    <2> HIDE DEF shared
    <2> QED  BY <1>6
<1> HIDE DEF len
<1>8. SubSeq(m, 1, len) \in Seq(Char)  BY <1>4, <1>7, Cut
<1>9. ASSUME NEW n \in found, found = {n} PROVE SubSeq(m, 1, len) = n
    <2>1. m = n  BY <1>2, <1>9
    <2>2. ASSUME len # Len(m) PROVE FALSE
        <3> DEFINE k == len + 1
        <3>1. k \in 0 .. Len(m)  BY <1>4, <1>7, <2>2
        <3>2. PICK x \in found : ~IsPrefix(SubSeq(m, 1, k), x)  BY <1>7, <2>2
        <3>3. x = m  BY <1>9, <2>1
        <3> HIDE DEF k
        <3>4. IsPrefix(SubSeq(m, 1, k), m)
            <4>1. /\ SubSeq(m, 1, k) \in Seq(Char) /\ Len(SubSeq(m, 1, k)) = k
                  /\ \A i \in 1 .. k : SubSeq(m, 1, k)[i] = m[i]
                BY <1>4, <3>1, Cut
            <4>2. k <= Len(m)  BY <3>1
            <4> QED  BY <1>4, <4>1, <4>2, PrefixIs
        <3> QED  BY <3>2, <3>3, <3>4
    <2>3. SubSeq(m, 1, Len(m)) = m  BY <1>4, SubSeqFull
    <2> QED  BY <2>1, <2>2, <2>3
<1> QED  BY <1>1, <1>7, <1>8, <1>9

-----------------------------------------------------------------------------
(* The invariant *)

\* The editor's record is a line on the row.
Drawn(e) == /\ e.line \in Text /\ e.cur \in 0 .. Len(e.line)
            /\ e = Shown(e.line, e.cur)

Edits == [line : Text, cur : Cells, term : [row : [Cells -> Char], col : Cells]]

IInv ==
    /\ TypeOK
    /\ ed \in Edits /\ history \in [Slots -> Text]
    /\ Reading => Drawn(ed)
    /\ history_count < HistorySize => history_start = 0

LEMMA DrawnIs ==
    ASSUME NEW l \in Text, NEW n \in 0 .. Len(l)
    PROVE  /\ Drawn(Shown(l, n)) /\ Shown(l, n) \in Edits
           /\ Shown(l, n).line \in Seq(Char) /\ Len(Shown(l, n).line) < LineBufSize
           /\ Shown(l, n).cur \in 0 .. Len(Shown(l, n).line)
           /\ Shown(l, n).term.row \in [Cells -> Char] /\ Shown(l, n).term.col \in Cells
<1>1. /\ l \in Seq(Char) /\ Len(l) \in Nat /\ n \in Nat /\ n <= Len(l) /\ Len(l) < LineBufSize
      /\ n \in Cells
    BY Sizes
<1>2. /\ Picture(l, n) \in [row : [Cells -> Char], col : Cells]
      /\ Picture(l, n).row \in [Cells -> Char] /\ Picture(l, n).col \in Cells
    BY <1>1, RowIsChars DEF Picture
<1> DEFINE e == Shown(l, n)
<1>3. e.line = l /\ e.cur = n /\ e.term = Picture(l, n) /\ e = [line |-> l, cur |-> n, term |-> Picture(l, n)]
    BY ShownFields
<1>4. Drawn(e)  BY <1>3 DEF Drawn
<1> HIDE DEF e
<1>5. e \in Edits  BY <1>1, <1>2, <1>3 DEF Edits
<1> QED  BY <1>1, <1>2, <1>3, <1>4, <1>5 DEF e

\* The operations keep the line on the row.
LEMMA EditsDraw ==
    ASSUME NEW e, Drawn(e)
    PROVE  /\ \A c \in Char : Drawn(LineInsertChar(e, c))
           /\ Drawn(LineDeleteChar(e)) /\ Drawn(LineDeleteForward(e))
           /\ \A k \in 0 .. Len(e.line) : Drawn(LineMoveTo(e, k))
           /\ Drawn(LineKillToEnd(e)) /\ Drawn(LineKillAll(e)) /\ Drawn(Redisplay(e))
           /\ \A s \in Text : Drawn(LineSet(e, s))
<1> DEFINE l == e.line
           n == e.cur
<1>1. l \in Text /\ n \in 0 .. Len(l) /\ e = Shown(l, n)  BY DEF Drawn
<1> HIDE DEF l, n
<1>2. l \in Seq(Char) /\ Len(l) \in Nat /\ n \in Nat /\ n <= Len(l) /\ Len(l) < LineBufSize
    BY <1>1, Sizes
<1>3. ASSUME NEW c \in Char PROVE Drawn(LineInsertChar(e, c))
    <2>1. CASE Len(l) >= LineBufSize - 1
        BY <1>1, <2>1, InsertShows, DrawnIs
    <2>2. CASE ~(Len(l) >= LineBufSize - 1)
        <3> DEFINE m == With(l, n, c)
                   k == n + 1
        <3>1. LineInsertChar(e, c) = Shown(m, k)  BY <1>1, <2>2, InsertShows
        <3>2. m \in Seq(Char) /\ Len(m) = Len(l) + 1  BY <1>1, <1>2, Inserted DEF With
        <3>3. m \in Text /\ k \in 0 .. Len(m)
            BY <1>2, <2>2, <3>2, Sizes DEF Text
        <3> HIDE DEF m, k
        <3> QED  BY <3>1, <3>3, DrawnIs
    <2> QED  BY <2>1, <2>2
<1>4. Drawn(LineDeleteChar(e))
    <2>1. CASE n = 0  BY <1>1, <2>1, DeleteShows, DrawnIs
    <2>2. CASE n # 0
        <3> DEFINE m == RemoveAt(l, n)
                   k == n - 1
        <3>1. LineDeleteChar(e) = Shown(m, k)  BY <1>1, <2>2, DeleteShows
        <3>2. n \in 1 .. Len(l)  BY <1>1, <1>2, <2>2
        <3>3. m \in Seq(Char) /\ Len(m) = Len(l) - 1  BY <1>2, <3>2, Removed
        <3>4. m \in Text /\ k \in 0 .. Len(m)
            BY <1>2, <3>2, <3>3, Sizes DEF Text
        <3> HIDE DEF m, k
        <3> QED  BY <3>1, <3>4, DrawnIs
    <2> QED  BY <2>1, <2>2
<1>5. Drawn(LineDeleteForward(e))
    <2>1. CASE n = Len(l)  BY <1>1, <2>1, ForwardShows, DrawnIs
    <2>2. CASE n # Len(l)
        <3> DEFINE k == n + 1
                   m == RemoveAt(l, k)
        <3>1. LineDeleteForward(e) = Shown(m, n)  BY <1>1, <2>2, ForwardShows
        <3>2. k \in 1 .. Len(l)  BY <1>2, <2>2
        <3> HIDE DEF k
        <3>3. m \in Seq(Char) /\ Len(m) = Len(l) - 1  BY <1>2, <3>2, Removed
        <3>4. m \in Text /\ n \in 0 .. Len(m)
            BY <1>2, <2>2, <3>3, Sizes DEF Text
        <3> HIDE DEF m
        <3> QED  BY <3>1, <3>4, DrawnIs
    <2> QED  BY <2>1, <2>2
<1>6. \A k \in 0 .. Len(l) : Drawn(LineMoveTo(e, k))
    BY <1>1, MoveShows, DrawnIs
<1>7. Drawn(LineKillToEnd(e))
    <2> DEFINE b == SubSeq(l, 1, n)
    <2>1. LineKillToEnd(e) = Shown(b, n)  BY <1>1, KillToEndShows
    <2>2. b \in Seq(Char) /\ Len(b) = n  BY <1>1, <1>2, Cut
    <2>3. b \in Text /\ n \in 0 .. Len(b)  BY <1>2, <2>2, Sizes DEF Text
    <2> HIDE DEF b
    <2> QED  BY <2>1, <2>3, DrawnIs
<1>8. Drawn(LineKillAll(e))
    <2>1. LineKillAll(e) = Shown(<<>>, 0) /\ 0 \in 0 .. Len(<<>>)
        BY <1>1, KillAllShows, EmptyText
    <2> QED  BY <2>1, EmptyText, DrawnIs
<1>9. Drawn(Redisplay(e))  BY <1>1, RedisplayShows, DrawnIs
<1>10. ASSUME NEW s \in Text PROVE Drawn(LineSet(e, s))
    <2>1. LineSet(e, s) = Shown(s, Len(s)) /\ Len(s) \in 0 .. Len(s)
        BY <1>1, SetShows, Sizes
    <2> QED  BY <2>1, DrawnIs
<1> QED  BY <1>3, <1>4, <1>5, <1>6, <1>7, <1>8, <1>9, <1>10 DEF l

\* So does completion.
LEMMA RestIs ==
    ASSUME NEW e, Drawn(e), NEW found \in SUBSET Names, found # {}
    PROVE  LET rest == SubSeq(CommonPrefix(found), Len(CompletionPrefix(e)) + 1,
                              Len(CommonPrefix(found)))
           IN  rest \in Seq(Char) /\ \A end \in {Space, Slash} : Append(rest, end) \in Seq(Char)
<1> DEFINE c == CommonPrefix(found)
           p == CompletionPrefix(e)
           rest == SubSeq(c, Len(p) + 1, Len(c))
<1>1. c \in Seq(Char) /\ Len(c) \in Nat  BY CommonPrefixShared, LenProperties
<1>2. p \in Seq(Char) /\ Len(p) \in Nat
    <2>1. p \in Seq(Char)  BY CompletionPrefixType DEF Drawn
    <2> QED  BY <2>1, LenProperties
<1> HIDE DEF c, p
<1>3. \A i \in (Len(p) + 1) .. Len(c) : c[i] \in Char
    <2>1. \A i \in (Len(p) + 1) .. Len(c) : i \in 1 .. Len(c)  BY <1>1, <1>2
    <2> QED  BY <1>1, <2>1, ElementOfSeq
<1>4. rest \in Seq(Char)  BY <1>1, <1>2, <1>3, SubSeqProperties
<1> HIDE DEF rest
<1>5. ASSUME NEW end \in {Space, Slash} PROVE Append(rest, end) \in Seq(Char)
    <2>1. end \in Char  BY DEF Char
    <2> QED  BY <1>4, <2>1, AppendProperties
<1> QED  BY <1>4, <1>5 DEF rest, c, p

LEMMA InsertAllDraws ==
    ASSUME NEW e, Drawn(e), NEW s \in Seq(Char)
    PROVE  Drawn(InsertAll(e, s))
<1> DEFINE l == e.line
           n == e.cur
           f == InsertAll(e, s)
<1>1. l \in Text /\ n \in 0 .. Len(l) /\ e = Shown(l, n)  BY DEF Drawn
<1>2. Grown(l, n, s, Len(s), f)  BY <1>1, InsertAllShows
<1> HIDE DEF l, n, f
<1>3. PICK k \in 0 .. Len(s), m \in Text : f = Shown(m, n + k) /\ n + k <= Len(m)
    BY <1>2 DEF Grown
<1>4. n + k \in 0 .. Len(m)
    BY <1>1, <1>3, Sizes, LenProperties
<1> QED  BY <1>3, <1>4, DrawnIs DEF f

LEMMA CompletedDraws ==
    ASSUME NEW e, Drawn(e), NEW found \in SUBSET Names, NEW end \in {Space, Slash}
    PROVE  Drawn(Completed(e, found, end))
<1> DEFINE rest == SubSeq(CommonPrefix(found), Len(CompletionPrefix(e)) + 1,
                          Len(CommonPrefix(found)))
<1>1. Completed(e, found, end) \in
        {e, InsertAll(e, Append(rest, end)), InsertAll(e, rest), Redisplay(e)}
    BY DEF Completed
<1>2. found = {} => Completed(e, found, end) = e  BY DEF Completed
<1> HIDE DEF rest
<1>3. found # {} => rest \in Seq(Char) /\ Append(rest, end) \in Seq(Char)
    BY RestIs DEF rest
<1> QED  BY <1>1, <1>2, <1>3, InsertAllDraws, EditsDraw

-----------------------------------------------------------------------------
(* The ring *)

\* An index that is at most once around.
LEMMA Around ==
    ASSUME NEW x \in Nat, x < 2 * HistorySize
    PROVE  /\ x % HistorySize = IF x < HistorySize THEN x ELSE x - HistorySize
           /\ x % HistorySize \in Slots
<1> DEFINE h == HistorySize
<1>1. h \in Nat /\ h > 0 /\ Slots = 0 .. (h - 1)
    BY LineEditAssumption DEF Slots
<1> HIDE DEF h
<1>2. x < 2 * h  BY DEF h
<1>3. x % h = IF x < h THEN x ELSE x - h
    BY <1>1, <1>2
<1>4. (IF x < h THEN x ELSE x - h) \in 0 .. (h - 1)
    BY <1>1, <1>2
<1> QED  BY <1>1, <1>3, <1>4 DEF h

LEMMA EntryIs ==
    ASSUME IInv, NEW i \in 0 .. HistorySize
    PROVE  (history_start + i) % HistorySize \in Slots /\ Entry(i) \in Text
<1>1. history_start \in Slots /\ history \in [Slots -> Text]  BY DEF IInv, TypeOK
<1>2. HistorySize \in Nat /\ HistorySize > 0  BY LineEditAssumption
<1>3. history_start + i \in Nat /\ history_start + i < 2 * HistorySize
    BY <1>1, <1>2 DEF Slots
<1>4. (history_start + i) % HistorySize \in Slots  BY <1>3, Around
<1> QED  BY <1>1, <1>4 DEF Entry

-----------------------------------------------------------------------------
(* Each key keeps the invariant *)

LEMMA DrawnTypes ==
    ASSUME NEW e, Drawn(e)
    PROVE  /\ e \in Edits /\ e.line \in Seq(Char) /\ Len(e.line) < LineBufSize
           /\ e.cur \in 0 .. Len(e.line)
           /\ e.term.row \in [Cells -> Char] /\ e.term.col \in Cells
    BY DrawnIs DEF Drawn

LEMMA EditKeeps ==
    ASSUME IInv, NEW e, Drawn(e), Edit(e)
    PROVE  IInv'
<1>1. /\ ed' = e /\ history' = history /\ history_start' = history_start
      /\ history_count' = history_count /\ history_idx' = history_idx /\ pc' = pc
    BY DEF Edit, ring
<1>2. Drawn(ed')  BY <1>1
<1>3. TypeOK'  BY <1>1, DrawnTypes DEF IInv, TypeOK
<1>4. ed' \in Edits  BY <1>1, DrawnTypes
<1> QED  BY <1>1, <1>2, <1>3, <1>4 DEF IInv

LEMMA ReadlineKeeps ==
    ASSUME IInv, Readline
    PROVE  IInv' /\ ed' = Shown(<<>>, 0)
<1>1. ed = [line |-> ed.line, cur |-> ed.cur, term |-> ed.term]
    BY DEF IInv, Edits
<1>2. ed' = Shown(<<>>, 0)  BY <1>1, PromptShows DEF Readline
<1>3. Drawn(ed')  BY <1>2, EmptyText, DrawnIs
<1>4. /\ history' = history /\ history_start' = history_start /\ pc' = "readline"
      /\ history_count' = history_count /\ history_idx' = history_count
    BY DEF Readline, ring
<1>5. history_count \in Nat  BY LineEditAssumption DEF IInv, TypeOK
<1>6. TypeOK'
    <2> DEFINE e == ed'
    <2>1. Drawn(e)  BY <1>3
    <2> HIDE DEF e
    <2>2. /\ e.line \in Seq(Char) /\ Len(e.line) < LineBufSize
          /\ e.cur \in 0 .. Len(e.line)
          /\ e.term.row \in [Cells -> Char] /\ e.term.col \in Cells
        BY <2>1, DrawnTypes
    <2> QED  BY <1>4, <1>5, <2>2 DEF e, IInv, TypeOK
<1>7. ed' \in Edits  BY <1>3, DrawnTypes
<1> QED  BY <1>2, <1>3, <1>4, <1>6, <1>7 DEF IInv

LEMMA CtrlCKeeps ==
    ASSUME IInv, CtrlC
    PROVE  IInv' /\ ed' = Shown(<<>>, 0)
<1> DEFINE e == [LineClear(ed) EXCEPT !.term = Blank]
<1>1. ed = [line |-> ed.line, cur |-> ed.cur, term |-> ed.term]
    BY DEF IInv, Edits
<1>2. e = Shown(<<>>, 0)  BY <1>1, PromptShows
<1>3. Edit(e)  BY DEF CtrlC
<1> HIDE DEF e
<1>4. Drawn(e)  BY <1>2, EmptyText, DrawnIs
<1>5. ed' = e  BY <1>3 DEF Edit
<1> QED  BY <1>2, <1>3, <1>4, <1>5, EditKeeps

LEMMA HistoryKeeps ==
    ASSUME IInv, HistoryPrev \/ HistoryNext
    PROVE  IInv'
<1>1. /\ history_count \in 0 .. HistorySize /\ history_idx \in 0 .. history_count
      /\ HistorySize \in Nat
    BY LineEditAssumption DEF IInv, TypeOK
<1>2. Drawn(ed) /\ Reading  BY DEF IInv, HistoryPrev, HistoryNext
<1>3. /\ Drawn(ed') /\ history_idx' \in 0 .. history_count
    <2>1. CASE HistoryPrev
        <3>1. CASE history_count = 0 \/ history_idx <= 0
            BY <1>1, <1>2, <2>1, <3>1 DEF HistoryPrev
        <3>2. CASE ~(history_count = 0 \/ history_idx <= 0)
            <4> DEFINE s == Entry(history_idx - 1)
            <4>1. history_idx' = history_idx - 1 /\ ed' = LineSet(ed, s)
                BY <2>1, <3>2 DEF HistoryPrev
            <4>2. history_idx - 1 \in 0 .. HistorySize /\ history_idx - 1 \in 0 .. history_count
                BY <1>1, <3>2
            <4>3. s \in Text  BY <4>2, EntryIs
            <4> HIDE DEF s
            <4> QED  BY <1>2, <4>1, <4>2, <4>3, EditsDraw
        <3> QED  BY <3>1, <3>2
    <2>2. CASE HistoryNext
        <3>1. CASE history_idx < history_count - 1
            <4> DEFINE s == Entry(history_idx + 1)
            <4>1. history_idx' = history_idx + 1 /\ ed' = LineSet(ed, s)
                BY <1>1, <2>2, <3>1 DEF HistoryNext
            <4>2. history_idx + 1 \in 0 .. HistorySize /\ history_idx + 1 \in 0 .. history_count
                BY <1>1, <3>1
            <4>3. s \in Text  BY <4>2, EntryIs
            <4> HIDE DEF s
            <4> QED  BY <1>2, <4>1, <4>2, <4>3, EditsDraw
        <3>2. CASE history_idx = history_count - 1
            <4>1. history_idx' = history_count /\ ed' = LineSet(ed, <<>>)
                BY <1>1, <2>2, <3>2 DEF HistoryNext
            <4>2. history_count \in 0 .. history_count  BY <1>1
            <4> QED  BY <1>2, <4>1, <4>2, EmptyText, EditsDraw
        <3>3. CASE ~(history_idx < history_count - 1) /\ history_idx # history_count - 1
            <4>1. history_idx' = history_idx /\ ed' = ed
                BY <1>1, <2>2, <3>3 DEF HistoryNext
            <4> QED  BY <1>1, <1>2, <4>1
        <3> QED  BY <3>1, <3>2, <3>3
    <2> QED  BY <2>1, <2>2
<1>4. /\ history' = history /\ history_start' = history_start
      /\ history_count' = history_count /\ pc' = pc
    BY DEF HistoryPrev, HistoryNext, ring
<1>5. TypeOK' /\ ed' \in Edits
    <2> DEFINE e == ed'
    <2>1. Drawn(e)  BY <1>3
    <2> HIDE DEF e
    <2>2. /\ e \in Edits /\ e.line \in Seq(Char) /\ Len(e.line) < LineBufSize
          /\ e.cur \in 0 .. Len(e.line)
          /\ e.term.row \in [Cells -> Char] /\ e.term.col \in Cells
        BY <2>1, DrawnTypes
    <2> QED  BY <1>3, <1>4, <2>2 DEF e, IInv, TypeOK
<1> QED  BY <1>3, <1>4, <1>5 DEF IInv

\* What a line added does to the ring.
LEMMA Added ==
    ASSUME IInv, NEW l \in Text, HistoryAdd(l)
    PROVE  /\ history' \in [Slots -> Text] /\ history_start' \in Slots
           /\ history_count' \in 0 .. HistorySize /\ history_count <= history_count'
           /\ history_count' < HistorySize => history_start' = 0
<1>1. /\ history \in [Slots -> Text] /\ history_start \in Slots
      /\ history_count \in 0 .. HistorySize /\ HistorySize \in Nat /\ HistorySize > 0
      /\ Slots = 0 .. (HistorySize - 1)
      /\ history_count < HistorySize => history_start = 0
    BY LineEditAssumption DEF IInv, TypeOK, Slots
<1>2. CASE UNCHANGED ring
    BY <1>1, <1>2 DEF ring
<1>3. CASE /\ history_count < HistorySize
           /\ history' = [history EXCEPT ![history_count] = l]
           /\ history_count' = history_count + 1 /\ UNCHANGED history_start
    BY <1>1, <1>3
<1>4. CASE /\ ~(history_count < HistorySize)
           /\ history' = [history EXCEPT ![history_start] = l]
           /\ history_start' = (history_start + 1) % HistorySize
           /\ UNCHANGED history_count
    <2>1. history_start + 1 \in Nat /\ history_start + 1 < 2 * HistorySize
        BY <1>1
    <2>2. history_start' \in Slots  BY <1>4, <2>1, Around
    <2> QED  BY <1>1, <1>4, <2>2
<1> QED  BY <1>2, <1>3, <1>4 DEF HistoryAdd

LEMMA EnterKeeps ==
    ASSUME IInv, Enter
    PROVE  IInv'
<1>1. ed' = ed /\ history_idx' = history_idx /\ pc' = "shell" /\ HistoryAdd(ed.line)
    BY DEF Enter
<1>2. ed.line \in Text  BY DEF Enter, IInv, Drawn
<1> DEFINE l == ed.line
<1>3. /\ history' \in [Slots -> Text] /\ history_start' \in Slots
      /\ history_count' \in 0 .. HistorySize /\ history_count <= history_count'
      /\ history_count' < HistorySize => history_start' = 0
    <2> HIDE DEF l
    <2>1. l \in Text /\ HistoryAdd(l)  BY <1>1, <1>2 DEF l
    <2> QED  BY <2>1, Added
<1>4. history' \in [Slots -> Seq(Char)]  BY <1>3 DEF Text
<1>5. history_idx' \in 0 .. history_count'
    BY <1>1, <1>3, LineEditAssumption DEF IInv, TypeOK
<1> QED  BY <1>1, <1>3, <1>4, <1>5 DEF IInv, TypeOK, Reading

LEMMA EndKeeps ==
    ASSUME IInv, EndOfInput
    PROVE  IInv'
    BY DEF IInv, TypeOK, EndOfInput, Reading, ring

LEMMA Invariant ==
    ASSUME IInv, [Next]_vars
    PROVE  IInv'
<1>1. CASE UNCHANGED vars
    BY <1>1 DEF vars, ring, IInv, TypeOK, Reading
<1>2. CASE Readline  BY <1>2, ReadlineKeeps
<1>3. CASE Enter  BY <1>3, EnterKeeps
<1>4. CASE CtrlC  BY <1>4, CtrlCKeeps
<1>5. ASSUME Reading PROVE Drawn(ed)  BY <1>5 DEF IInv
<1>6. CASE DeleteKey
    BY <1>5, <1>6, EditsDraw, EditKeeps DEF DeleteKey, Edit
<1>7. CASE CtrlD
    <2>1. CASE DeleteKey  BY <1>6, <2>1
    <2>2. CASE Reading /\ pc' = "eof" /\ UNCHANGED <<ed, ring, history_idx>>
        BY <2>2, EndKeeps DEF EndOfInput
    <2> QED  BY <1>7, <2>1, <2>2 DEF CtrlD
<1>8. CASE EndOfInput  BY <1>8, EndKeeps
<1>9. ASSUME NEW c \in Char, TypeChar(c) PROVE IInv'
    BY <1>5, <1>9, EditsDraw, EditKeeps DEF TypeChar, Edit
<1>10. CASE Backspace \/ KillToEnd \/ KillAll \/ ClearScreen
    BY <1>5, <1>10, EditsDraw, EditKeeps DEF Backspace, KillToEnd, KillAll, ClearScreen, Edit
<1>11. CASE Left \/ Right \/ Home \/ End
    <2> DEFINE k == IF Left THEN IF ed.cur > 0 THEN ed.cur - 1 ELSE 0
                    ELSE IF Right THEN IF ed.cur < Len(ed.line) THEN ed.cur + 1 ELSE ed.cur
                    ELSE IF Home THEN 0 ELSE Len(ed.line)
    <2>1. Edit(LineMoveTo(ed, k)) /\ Reading
        BY <1>11 DEF Left, Right, Home, End, Edit
    <2>2. ed.cur \in 0 .. Len(ed.line) /\ Len(ed.line) \in Nat
        BY LenProperties DEF IInv, TypeOK
    <2>3. k \in 0 .. Len(ed.line)  BY <2>2
    <2> HIDE DEF k
    <2> QED  BY <1>5, <2>1, <2>3, EditsDraw, EditKeeps
<1>12. CASE HistoryPrev \/ HistoryNext  BY <1>12, HistoryKeeps
<1>13. ASSUME NEW found \in SUBSET Names, NEW end \in {Space, Slash}, Tab(found, end)
       PROVE  IInv'
    BY <1>5, <1>13, CompletedDraws, EditKeeps DEF Tab, Edit
<1> QED  BY <1>1, <1>2, <1>3, <1>4, <1>6, <1>7, <1>8, <1>9, <1>10, <1>11, <1>12, <1>13 DEF Next

LEMMA InitInvariant == Init => IInv
<1> SUFFICES ASSUME Init PROVE IInv
    OBVIOUS
<1>1. HistorySize \in Nat /\ HistorySize > 0 /\ 0 \in Slots /\ 0 \in Cells
    BY LineEditAssumption, Sizes DEF Slots
<1>2. <<>> \in Text /\ <<>> \in Seq(Char) /\ Len(<<>>) = 0  BY EmptyText, EmptySeq
<1>3. history \in [Slots -> Text] /\ history \in [Slots -> Seq(Char)]
    BY <1>2 DEF Init
<1>4. Blank \in [row : [Cells -> Char], col : Cells] /\ Blank.row \in [Cells -> Char] /\ Blank.col \in Cells
    BY <1>1 DEF Blank, Char
<1>5. /\ ed = [line |-> <<>>, cur |-> 0, term |-> Blank]
      /\ history_start = 0 /\ history_count = 0 /\ history_idx = 0 /\ pc = "shell"
    BY DEF Init
<1>6. ed \in Edits  BY <1>1, <1>2, <1>4, <1>5 DEF Edits
<1>7. TypeOK
    BY <1>1, <1>2, <1>3, <1>4, <1>5, Sizes DEF TypeOK
<1> QED  BY <1>3, <1>5, <1>6, <1>7 DEF IInv, Reading

(* Between two keys the row and its cursor are the picture of the line, every *)
(* slot of the ring holds a line that was accepted or nothing, and the oldest *)
(* is in slot 0 until the ring is full (sh.c:794-961, 1234-1455).             *)
THEOREM Invariance == Spec => []IInv
    BY InitInvariant, Invariant, PTL DEF Spec

-----------------------------------------------------------------------------
(* The line buffer, the cursor and the indices of the ring stay within their  *)
(* arrays, whatever keys are pressed (sh.c:794-961).                          *)
THEOREM TypeCorrect == Spec => []TypeOK
<1>1. IInv => TypeOK  BY DEF IInv
<1> QED  BY <1>1, Invariance, PTL

(* Between two keys the row shows the line and nothing after it, and the      *)
(* cursor stands where the next character goes, for any sequence of edits,    *)
(* recalls and completions (sh.c:794-908, 1351-1455).                         *)
THEOREM RowShowsLine == Spec => []ScreenMatches
<1>1. IInv => ScreenMatches
    <2> SUFFICES ASSUME IInv, Reading PROVE /\ ed.term.col = ed.cur
               /\ ed.term.row = [i \in Cells |-> IF i < Len(ed.line) THEN ed.line[i + 1]
                                                 ELSE Space]
        BY DEF ScreenMatches
    <2>1. ed = Shown(ed.line, ed.cur)  BY DEF IInv, Drawn
    <2>2. ed.term = Picture(ed.line, ed.cur)  BY <2>1, ShownFields
    <2> QED  BY <2>2 DEF Picture, Row
<1> QED  BY <1>1, Invariance, PTL

-----------------------------------------------------------------------------
(* What completion inserts *)

\* The word is what was there and the first k characters that follow it in c.
LEMMA WordIs ==
    ASSUME NEW p \in Seq(Char), NEW c \in Seq(Char), NEW x \in Seq(Char),
           IsPrefix(p, x), IsPrefix(c, x), Len(p) < Len(c),
           NEW k \in 0 .. (Len(c) - Len(p)), NEW u \in Seq(Char), Len(u) = k,
           \A i \in 1 .. k : u[i] = c[Len(p) + i]
    PROVE  IsPrefix(p \o u, x)
<1> DEFINE w == p \o u
<1>1. Len(p) \in Nat /\ Len(c) \in Nat /\ Len(x) \in Nat  BY LenProperties
<1>2. /\ Len(p) <= Len(x) /\ \A i \in 1 .. Len(p) : p[i] = x[i]
      /\ Len(c) <= Len(x) /\ \A i \in 1 .. Len(c) : c[i] = x[i]
    BY PrefixIs
<1>3. /\ w \in Seq(Char) /\ Len(w) = Len(p) + k
      /\ \A i \in 1 .. Len(p) : w[i] = p[i]
      /\ \A i \in 1 .. k : w[Len(p) + i] = u[i]
    BY Joined
<1> HIDE DEF w
<1>4. ASSUME NEW i \in 1 .. Len(w) PROVE w[i] = x[i]
    <2>1. CASE i <= Len(p)
        <3>1. i \in 1 .. Len(p)  BY <1>1, <2>1
        <3> QED  BY <1>2, <1>3, <3>1
    <2>2. CASE i > Len(p)
        <3> DEFINE j == i - Len(p)
        <3>1. j \in 1 .. k /\ Len(p) + j = i /\ i \in 1 .. Len(c)  BY <1>1, <1>3, <2>2
        <3> HIDE DEF j
        <3>2. w[Len(p) + j] = u[j] /\ u[j] = c[Len(p) + j] /\ c[i] = x[i]
            BY <1>2, <1>3, <3>1
        <3> QED  BY <3>1, <3>2
    <2> QED  BY <1>1, <2>1, <2>2
<1>5. Len(w) <= Len(x)  BY <1>1, <1>2, <1>3
<1> QED  BY <1>3, <1>4, <1>5, PrefixIs DEF w

LEMMA WholeWordIs ==
    ASSUME NEW p \in Seq(Char), NEW x \in Seq(Char), IsPrefix(p, x), NEW end \in Char
    PROVE  p \o Append(SubSeq(x, Len(p) + 1, Len(x)), end) = Append(x, end)
<1> DEFINE a == SubSeq(x, Len(p) + 1, Len(x))
           b == SubSeq(x, 1, Len(p))
<1>1. Len(p) \in 0 .. Len(x) /\ p = b
    <2>1. Len(p) \in Nat /\ Len(x) \in Nat /\ Len(p) <= Len(x)
        BY LenProperties, PrefixIs
    <2>2. SubSeq(p, 1, Len(p)) = p  BY SubSeqFull
    <2> QED  BY <2>1, <2>2 DEF IsPrefix
<1>2. a \in Seq(Char) /\ b \in Seq(Char) /\ b \o a = x  BY <1>1, Cut
<1> HIDE DEF a, b
<1>3. Append(a, end) = a \o <<end>> /\ Append(x, end) = x \o <<end>> /\ <<end>> \in Seq(Char)
    BY <1>2, AppendIsConcat
<1>4. (b \o a) \o <<end>> = b \o (a \o <<end>>)  BY <1>2, <1>3, ConcatAssociative, SMTT(20)
<1> QED  BY <1>1, <1>2, <1>3, <1>4 DEF a

Word(e, f) == CompletionPrefix(e) \o SubSeq(Before(f), e.cur + 1, f.cur)

LEMMA TabAdds ==
    ASSUME IInv, NEW found \in SUBSET Names, NEW end \in {Space, Slash},
           Tab(found, end), ed'.cur > ed.cur
    PROVE  \/ \A n \in found : IsPrefix(Word(ed, ed'), n)
           \/ \E n \in found : found = {n} /\ Word(ed, ed') = Append(n, end)
<1> DEFINE e == ed
           f == ed'
           l == e.line
           n == e.cur
           p == CompletionPrefix(e)
           c == CommonPrefix(found)
           rest == SubSeq(c, Len(p) + 1, Len(c))
           single == \E x \in found : found = {x}
           t == IF single THEN Append(rest, end) ELSE rest
<1>1. /\ Drawn(e) /\ f = Completed(e, found, end)
      /\ \A x \in found : IsPrefix(p, x)
    BY DEF Tab, Edit, IInv
<1>2. l \in Text /\ n \in 0 .. Len(l) /\ e = Shown(l, n)  BY <1>1 DEF Drawn
<1>3. l \in Seq(Char) /\ Len(l) \in Nat /\ n \in Nat /\ n <= Len(l)  BY <1>2, Sizes
<1>4. p \in Seq(Char) /\ Len(p) \in Nat
    <2>1. p \in Seq(Char)  BY <1>2, CompletionPrefixType
    <2> QED  BY <2>1, LenProperties
<1>5. f.cur > n  OBVIOUS
<1>6. found # {} /\ rest # <<>> /\ f = InsertAll(e, t)
    <2>1. found = {} => f = e  BY <1>1 DEF Completed
    <2>2. found # {} /\ rest = <<>> => f \in {e, Redisplay(e)}  BY <1>1 DEF Completed
    <2>3. Redisplay(e) = e  BY <1>2, RedisplayShows
    <2>4. f # e  BY <1>3, <1>5
    <2>5. found # {} /\ rest # <<>>  BY <2>1, <2>2, <2>3, <2>4
    <2>6. f = InsertAll(e, t)  BY <1>1, <2>5 DEF Completed
    <2> QED  BY <2>5, <2>6
<1>7. /\ c \in Seq(Char) /\ Len(c) \in Nat
      /\ \A x \in found : IsPrefix(c, x)
      /\ \A x \in found : found = {x} => c = x
    BY <1>6, CommonPrefixShared, LenProperties
<1>8. rest \in Seq(Char) /\ Append(rest, end) \in Seq(Char)
    BY <1>1, <1>6, RestIs
<1>9. \A x \in found : x \in Seq(Char)  BY NamesAreTexts
<1> HIDE DEF e, f, l, n, p, c
<1>10. Len(p) < Len(c) /\ Len(rest) = Len(c) - Len(p)
       /\ \A i \in 1 .. (Len(c) - Len(p)) : rest[i] = c[Len(p) + i]
    <2>1. Len(p) < Len(c)
        <3>1. CASE Len(c) < Len(p) + 1
            <4>1. rest = <<>>  BY <1>4, <1>7, <3>1, SubSeqEmpty
            <4> QED  BY <1>6, <4>1
        <3> QED  BY <1>4, <1>7, <3>1
    <2>2. Len(p) \in 0 .. Len(c)  BY <1>4, <1>7, <2>1
    <2> QED  BY <1>7, <2>1, <2>2, Cut
<1>11. t \in Seq(Char) /\ Len(t) \in Nat
    <2>1. t \in Seq(Char)  BY <1>8
    <2> QED  BY <2>1, LenProperties
<1> HIDE DEF rest, single
<1>12. Grown(l, n, t, Len(t), f)  BY <1>2, <1>6, <1>11, InsertAllShows
<1>13. PICK k \in 0 .. Len(t), m \in Text :
        f = Shown(m, n + k) /\ SubSeq(m, 1, n + k) = SubSeq(l, 1, n) \o SubSeq(t, 1, k)
    BY <1>12 DEF Grown
<1> DEFINE u == SubSeq(t, 1, k)
           typed == SubSeq(Before(f), n + 1, f.cur)
<1>14. u \in Seq(Char) /\ Len(u) = k /\ \A i \in 1 .. k : u[i] = t[i]
    BY <1>11, <1>13, Cut
<1>15. typed = u
    <2> DEFINE a == SubSeq(l, 1, n)
               b == a \o u
    <2>1. Before(f) = b /\ f.cur = n + k  BY <1>13, ShownFields
    <2>2. a \in Seq(Char) /\ Len(a) = n  BY <1>2, <1>3, Cut
    <2> HIDE DEF a, u
    <2>3. /\ b \in Seq(Char) /\ Len(b) = n + k
          /\ \A i \in 1 .. k : b[n + i] = u[i]
        BY <1>14, <2>2, Joined
    <2> HIDE DEF b
    <2>4. n \in 0 .. Len(b) /\ Len(b) - n = k  BY <1>3, <1>13, <2>3
    <2> DEFINE v == SubSeq(b, n + 1, Len(b))
    <2>5. v \in Seq(Char) /\ Len(v) = k /\ \A i \in 1 .. k : v[i] = b[n + i]
        BY <2>3, <2>4, Cut
    <2>6. typed = v  BY <2>1, <2>3
    <2> HIDE DEF v, typed
    <2>7. v = u  BY <1>14, <2>3, <2>5, SeqEqual
    <2> QED  BY <2>6, <2>7
<1>16. Word(ed, ed') = p \o u  BY <1>15 DEF Word, p, e, f, n
<1> HIDE DEF u, t
<1>19. Len(c) \in Nat /\ Len(p) \in Nat /\ k \in Nat /\ k <= Len(t) /\ Len(t) \in Nat
    BY <1>4, <1>7, <1>11
<1>17. CASE k <= Len(c) - Len(p)
    <2>1. ASSUME NEW i \in 1 .. k PROVE u[i] = c[Len(p) + i]
        <3>1. i \in 1 .. (Len(c) - Len(p))  BY <1>4, <1>7, <1>13, <1>17
        <3>2. t[i] = rest[i]
            <4>1. i \in 1 .. Len(rest)  BY <1>10, <3>1
            <4>2. Append(rest, end)[i] = rest[i]
                <5>1. end \in Char  BY DEF Char
                <5> QED  BY <1>8, <4>1, <5>1, AppendProperties
            <4> QED  BY <4>2 DEF t
        <3> QED  BY <1>10, <1>14, <3>1, <3>2
    <2>2. k \in 0 .. (Len(c) - Len(p))  BY <1>4, <1>7, <1>13, <1>17
    <2>3. ASSUME NEW x \in found PROVE IsPrefix(p \o u, x)
        BY <1>1, <1>4, <1>7, <1>9, <1>10, <1>14, <2>1, <2>2, WordIs DEF p
    <2> QED  BY <1>16, <2>3
<1>18. CASE k > Len(c) - Len(p)
    <2>1. end \in Char  BY DEF Char
    <2>2. single /\ t = Append(rest, end) /\ Len(t) = Len(rest) + 1
        <3>1. CASE ~single
            <4>1. t = rest  BY <3>1 DEF t
            <4> QED  BY <1>4, <1>7, <1>10, <1>13, <1>18, <4>1
        <3>2. CASE single
            <4>1. t = Append(rest, end)  BY <3>2 DEF t
            <4> QED  BY <1>8, <2>1, <3>2, <4>1, AppendProperties
        <3> QED  BY <3>1, <3>2
    <2>3. k = Len(t)
        <3>1. Len(rest) = Len(c) - Len(p) /\ Len(t) = Len(rest) + 1  BY <1>10, <2>2
        <3> QED  BY <1>18, <1>19, <3>1
    <2>4. u = t  BY <1>11, <2>3, SubSeqFull DEF u
    <2>5. PICK x \in found : found = {x}  BY <2>2 DEF single
    <2>6. c = x  BY <1>7, <2>5
    <2>7. p \o u = Append(x, end)
        <3>1. p \o Append(SubSeq(x, Len(p) + 1, Len(x)), end) = Append(x, end)
            BY <1>1, <1>4, <1>9, <2>1, WholeWordIs DEF p
        <3> QED  BY <2>2, <2>4, <2>6, <3>1 DEF rest
    <2> QED  BY <1>16, <2>5, <2>7
<1>20. k <= Len(c) - Len(p) \/ k > Len(c) - Len(p)  BY <1>19
<1> QED  BY <1>17, <1>18, <1>20

(* Completion inserts nothing that a match would not go on with, and a space  *)
(* or a slash only after the one match there is, wherever the cursor stands   *)
(* and however full the line (sh.c:1126-1193).                                *)
THEOREM TabAddsShared == Spec => TabCompletes
<1>1. ASSUME IInv PROVE TabInserts
    <2> SUFFICES ASSUME ed'.cur > ed.cur, NEW found \in SUBSET Names,
                        NEW end \in {Space, Slash}, Tab(found, end)
                 PROVE  \/ \A n \in found : IsPrefix(Word(ed, ed'), n)
                        \/ \E n \in found : found = {n} /\ Word(ed, ed') = Append(n, end)
        BY DEF Word, TabInserts
    <2> QED  BY <1>1, TabAdds
<1>2. IInv /\ [Next]_vars => [TabInserts]_vars  BY <1>1
<1> QED  BY <1>2, Invariance, PTL DEF Spec, TabCompletes

-----------------------------------------------------------------------------
(* The ring, read from its oldest entry, is the list of EditSpec *)

\* Oldest first, from slot s of a ring with c lines.
Oldest(ringed, s, c) == [i \in 1 .. c |-> ringed[(s + (i - 1)) % HistorySize]]

LEMMA OldestIs ==
    ASSUME NEW ringed \in [Slots -> Text], NEW s \in Slots, NEW c \in 0 .. HistorySize
    PROVE  /\ Oldest(ringed, s, c) \in Seq(Text) /\ Len(Oldest(ringed, s, c)) = c
           /\ Oldest(ringed, s, c) = <<>> <=> c = 0
<1>1. c \in Nat /\ HistorySize \in Nat /\ HistorySize > 0  BY LineEditAssumption
<1>2. ASSUME NEW i \in 1 .. c PROVE ringed[(s + (i - 1)) % HistorySize] \in Text
    <2>1. s + (i - 1) \in Nat /\ s + (i - 1) < 2 * HistorySize  BY <1>1 DEF Slots
    <2>2. (s + (i - 1)) % HistorySize \in Slots  BY <2>1, Around
    <2> QED  BY <2>2
<1>3. Oldest(ringed, s, c) \in [1 .. c -> Text]  BY <1>2 DEF Oldest
<1>4. Oldest(ringed, s, c) \in Seq(Text) /\ Len(Oldest(ringed, s, c)) = c
    BY <1>1, <1>3
<1>5. Oldest(ringed, s, c) = <<>> <=> c = 0  BY <1>1, <1>4, EmptySeq
<1> QED  BY <1>4, <1>5

LEMMA Listed ==
    ASSUME IInv
    PROVE  /\ entriesBar \in Seq(Text) /\ Len(entriesBar) = history_count
           /\ history_count \in Nat /\ history_count <= HistorySize
           /\ \A i \in 1 .. history_count : entriesBar[i] = Entry(i - 1)
           /\ entriesBar = <<>> <=> history_count = 0
<1>1. history_count \in 0 .. HistorySize /\ HistorySize \in Nat /\ HistorySize > 0
    BY LineEditAssumption DEF IInv, TypeOK
<1>2. entriesBar = Oldest(history, history_start, history_count)
    BY DEF entriesBar, Entry, Oldest
<1>3. history \in [Slots -> Text] /\ history_start \in Slots  BY DEF IInv, TypeOK
<1>4. \A i \in 1 .. history_count : entriesBar[i] = Entry(i - 1)
    BY DEF entriesBar
<1> QED  BY <1>1, <1>2, <1>3, <1>4, OldestIs

LEMMA ListedNext ==
    ASSUME IInv'
    PROVE  entriesBar' \in Seq(Text) /\ Len(entriesBar') = history_count'
<1>1. entriesBar' = Oldest(history', history_start', history_count')
    BY DEF entriesBar, Entry, Oldest
<1>2. history' \in [Slots -> Text] /\ history_start' \in Slots /\ history_count' \in 0 .. HistorySize
    BY DEF IInv, TypeOK
<1> QED  BY <1>1, <1>2, OldestIs

LEMMA ListKeeps ==
    ASSUME UNCHANGED ring
    PROVE  entriesBar' = entriesBar
    BY DEF ring, entriesBar, Entry

\* A line added to a ring that is not full, and to a full one.
LEMMA ListGrows ==
    ASSUME IInv, IInv', NEW l \in Text, history_count < HistorySize,
           history' = [history EXCEPT ![history_count] = l],
           history_count' = history_count + 1, history_start' = history_start
    PROVE  entriesBar' = Append(entriesBar, l)
<1> DEFINE es == entriesBar
           fs == entriesBar'
           k == history_count
<1>1. /\ es \in Seq(Text) /\ Len(es) = k /\ k \in Nat
      /\ \A i \in 1 .. k : es[i] = Entry(i - 1)
    BY Listed
<1>2. /\ fs \in Seq(Text) /\ Len(fs) = k + 1
    <2>1. entriesBar' \in Seq(Text) /\ Len(entriesBar') = history_count'
        BY ListedNext
    <2> QED  BY <2>1
<1>3. /\ history_start = 0 /\ history \in [Slots -> Text] /\ HistorySize \in Nat
      /\ Slots = 0 .. (HistorySize - 1)
    BY LineEditAssumption DEF IInv, Slots
<1>4. ASSUME NEW j \in 0 .. k PROVE (0 + j) % HistorySize = j /\ j \in Slots
    <2>1. 0 + j = j /\ j \in Nat /\ j < HistorySize /\ j < 2 * HistorySize
        BY <1>1, <1>3
    <2> QED  BY <1>3, <2>1, Around
<1>5. ASSUME NEW i \in 1 .. (k + 1) PROVE fs[i] = history'[i - 1] /\ i - 1 \in 0 .. k
    <2> DEFINE j == i - 1
    <2>1. j \in 0 .. k  BY <1>1
    <2>2. fs[i] = history'[(0 + j) % HistorySize]
        BY <1>3 DEF entriesBar, Entry
    <2> HIDE DEF j, fs
    <2>3. fs[i] = history'[j]  BY <1>4, <2>1, <2>2
    <2> QED  BY <2>1, <2>3 DEF j
<1>6. ASSUME NEW i \in 1 .. k PROVE es[i] = history[i - 1]
    <2> DEFINE j == i - 1
    <2>1. j \in 0 .. k  BY <1>1
    <2>2. es[i] = history[(0 + j) % HistorySize]  BY <1>1, <1>3 DEF Entry
    <2> HIDE DEF j, es
    <2>3. es[i] = history[j]  BY <1>4, <2>1, <2>2
    <2> QED  BY <2>3 DEF j
<1> HIDE DEF es, fs
<1>7. /\ Append(es, l) \in Seq(Text) /\ Len(Append(es, l)) = k + 1
      /\ \A i \in 1 .. k : Append(es, l)[i] = es[i]
      /\ Append(es, l)[k + 1] = l
    BY <1>1, AppendProperties
<1>8. ASSUME NEW i \in 1 .. (k + 1) PROVE fs[i] = Append(es, l)[i]
    <2>1. CASE i = k + 1
        <3>1. i - 1 = k /\ k \in Slots  BY <1>1, <1>3, <2>1
        <3> QED  BY <1>3, <1>5, <1>7, <2>1, <3>1
    <2>2. CASE i # k + 1
        <3>1. i \in 1 .. k /\ i - 1 # k /\ i - 1 \in Slots  BY <1>1, <1>3, <2>2
        <3> QED  BY <1>3, <1>5, <1>6, <1>7, <3>1
    <2> QED  BY <2>1, <2>2
<1> HIDE DEF k
<1>9. fs = Append(es, l)  BY <1>1, <1>2, <1>7, <1>8, SeqEqual
<1> QED  BY <1>9 DEF es, fs

LEMMA ListShifts ==
    ASSUME IInv, IInv', NEW l \in Text, ~(history_count < HistorySize),
           history' = [history EXCEPT ![history_start] = l],
           history_start' = (history_start + 1) % HistorySize,
           history_count' = history_count
    PROVE  entriesBar' = Append(Tail(entriesBar), l)
<1> DEFINE es == entriesBar
           fs == entriesBar'
           h == HistorySize
           s == history_start
<1>1. /\ history \in [Slots -> Text] /\ h \in Nat /\ h > 0
      /\ Slots = 0 .. (h - 1) /\ s \in 0 .. (h - 1) /\ history_count = h
    BY LineEditAssumption DEF IInv, TypeOK, Slots
<1>2. /\ es \in Seq(Text) /\ Len(es) = h
      /\ \A i \in 1 .. h : es[i] = history[(s + (i - 1)) % h]
    BY <1>1, Listed DEF Entry
<1>3. /\ fs \in Seq(Text) /\ Len(fs) = h
    <2>1. entriesBar' \in Seq(Text) /\ Len(entriesBar') = history_count'
        BY ListedNext
    <2> QED  BY <1>1, <2>1
<1>4. \A i \in 1 .. h : fs[i] = history'[(history_start' + (i - 1)) % h]
    BY <1>1 DEF entriesBar, Entry
<1> HIDE DEF es, fs
<1> DEFINE t == Tail(es)
<1>5. /\ t \in Seq(Text) /\ Len(t) = h - 1 /\ \A i \in 1 .. (h - 1) : t[i] = es[i + 1]
    <2>1. es # <<>>  BY <1>1, <1>2, EmptySeq
    <2> QED  BY <1>2, <2>1, HeadTailProperties
<1> HIDE DEF t
<1>6. /\ Append(t, l) \in Seq(Text) /\ Len(Append(t, l)) = h
      /\ \A i \in 1 .. (h - 1) : Append(t, l)[i] = t[i]
      /\ Append(t, l)[h] = l
    <2>1. /\ Append(t, l) \in Seq(Text) /\ Len(Append(t, l)) = Len(t) + 1
          /\ \A i \in 1 .. Len(t) : Append(t, l)[i] = t[i]
          /\ Append(t, l)[Len(t) + 1] = l
        BY <1>5, AppendProperties
    <2> QED  BY <1>1, <1>5, <2>1
<1>7. history_start' = IF s + 1 = h THEN 0 ELSE s + 1
    <2>1. s + 1 \in Nat /\ s + 1 < 2 * h  BY <1>1
    <2> QED  BY <1>1, <2>1, Around
<1>8. ASSUME NEW i \in 1 .. h PROVE fs[i] = Append(t, l)[i]
    <2> DEFINE x == history_start' + (i - 1)
    <2>1. x \in Nat /\ x < 2 * h  BY <1>1, <1>7
    <2>2. x % h = IF x < h THEN x ELSE x - h  BY <2>1, Around
    <2>3. CASE i = h
        <3>1. (IF x < h THEN x ELSE x - h) = s  BY <1>1, <1>7, <2>3
        <3>2. fs[i] = history'[s]  BY <1>4, <2>2, <3>1
        <3> QED  BY <1>1, <1>6, <2>3, <3>2
    <2>4. CASE i # h
        <3> DEFINE j == i + 1
                   y == s + (j - 1)
        <3>1. j \in 1 .. h /\ i \in 1 .. (h - 1) /\ y \in Nat /\ y < 2 * h
            BY <1>1, <2>4
        <3>2. y % h = IF y < h THEN y ELSE y - h  BY <3>1, Around
        <3>3. (IF x < h THEN x ELSE x - h) = (IF y < h THEN y ELSE y - h)
              /\ (IF y < h THEN y ELSE y - h) \in Slots \ {s}
            BY <1>1, <1>7, <2>4
        <3>4. es[j] = history[y % h]  BY <1>2, <3>1
        <3>5. fs[i] = history'[x % h]  BY <1>4
        <3> HIDE DEF x, y
        <3>6. fs[i] = es[j]  BY <1>1, <2>2, <3>2, <3>3, <3>4, <3>5
        <3> QED  BY <1>5, <1>6, <3>1, <3>6
    <2> QED  BY <2>3, <2>4
<1> HIDE DEF h
<1>9. fs = Append(t, l)  BY <1>3, <1>6, <1>8, SeqEqual
<1> QED  BY <1>9 DEF es, fs, t

LEMMA Remembered ==
    ASSUME IInv, IInv', NEW l \in Text, HistoryAdd(l)
    PROVE  entriesBar' = Editor!Remember(l)
<1>1. /\ entriesBar \in Seq(Text) /\ Len(entriesBar) = history_count /\ history_count \in Nat
      /\ \A i \in 1 .. history_count : entriesBar[i] = Entry(i - 1)
      /\ entriesBar = <<>> <=> history_count = 0
    BY Listed
<1>2. history_count > 0 => Editor!Last(entriesBar) = Entry(history_count - 1)
    BY <1>1 DEF Editor!Last
<1>3. CASE l = <<>> \/ (history_count > 0 /\ Entry(history_count - 1) = l)
    <2>1. entriesBar' = entriesBar  BY <1>3, ListKeeps DEF HistoryAdd
    <2>2. l = <<>> \/ (entriesBar # <<>> /\ Editor!Last(entriesBar) = l)  BY <1>1, <1>2, <1>3
    <2> QED  BY <2>1, <2>2 DEF Editor!Remember
<1>4. CASE ~(l = <<>> \/ (history_count > 0 /\ Entry(history_count - 1) = l))
    <2>1. ~(l = <<>> \/ (entriesBar # <<>> /\ Editor!Last(entriesBar) = l))  BY <1>1, <1>2, <1>4
    <2>2. CASE history_count < HistorySize
        <3>1. entriesBar' = Append(entriesBar, l)
            BY <1>4, <2>2, ListGrows DEF HistoryAdd
        <3> QED  BY <1>1, <2>1, <2>2, <3>1 DEF Editor!Remember
    <2>3. CASE ~(history_count < HistorySize)
        <3>1. entriesBar' = Append(Tail(entriesBar), l)
            BY <1>4, <2>3, ListShifts DEF HistoryAdd
        <3> QED  BY <1>1, <2>1, <2>3, <3>1 DEF Editor!Remember
    <2> QED  BY <2>2, <2>3
<1> QED  BY <1>3, <1>4

-----------------------------------------------------------------------------
(* Each key is an operation of EditSpec, or changes nothing it shows *)

LEMMA DrawnParts ==
    ASSUME IInv, Reading
    PROVE  /\ ed.line \in Text /\ ed.cur \in 0 .. Len(ed.line)
           /\ ed = Shown(ed.line, ed.cur)
    BY DEF IInv, Drawn

LEMMA EditSeen ==
    ASSUME NEW e, Edit(e)
    PROVE  /\ Reading /\ Reading' /\ UNCHANGED Reading
           /\ Before(ed)' = Before(e) /\ After(ed)' = After(e)
           /\ entriesBar' = entriesBar
           /\ history_idx' = history_idx /\ (history_idx + 1)' = history_idx + 1
<1>1. entriesBar' = entriesBar  BY ListKeeps DEF Edit
<1> QED  BY <1>1 DEF Edit, Reading, Before, After

LEMMA Unseen ==
    ASSUME ed' = ed, UNCHANGED ring, history_idx' = history_idx, pc' = pc
    PROVE  UNCHANGED Editor!evars
<1>1. entriesBar' = entriesBar  BY ListKeeps
<1> QED  BY <1>1 DEF Editor!evars, Reading, Before, After

LEMMA EditUnseen ==
    ASSUME Edit(ed)
    PROVE  UNCHANGED Editor!evars
    BY Unseen DEF Edit

LEMMA EmptyParts ==
    Before(Shown(<<>>, 0)) = <<>> /\ After(Shown(<<>>, 0)) = <<>>
<1>1. SubSeq(<<>>, 1, 0) = <<>> /\ Len(<<>>) = 0 /\ 0 + 1 = 1
    BY SubSeqEmpty, EmptySeq
<1> QED  BY <1>1, ShownFields

\* Typing and completion.
LEMMA TypeRefines ==
    ASSUME IInv, NEW s \in Seq(Char), NEW i \in Nat, i <= Len(s), NEW e, Edit(e),
           Grown(ed.line, ed.cur, s, i, e)
    PROVE  Editor!Type
<1> DEFINE l == ed.line
           n == ed.cur
<1>1. l \in Text /\ n \in 0 .. Len(l) /\ ed = Shown(l, n)  BY EditSeen, DrawnParts
<1>2. Before(ed) = SubSeq(l, 1, n) /\ After(ed) = SubSeq(l, n + 1, Len(l))
    BY DEF Before, After
<1> HIDE DEF l, n
<1>3. PICK k \in 0 .. i, m \in Text :
        /\ e = Shown(m, n + k) /\ n + k <= Len(m)
        /\ SubSeq(m, 1, n + k) = SubSeq(l, 1, n) \o SubSeq(s, 1, k)
        /\ SubSeq(m, n + k + 1, Len(m)) = SubSeq(l, n + 1, Len(l))
    BY DEF Grown, l, n
<1>4. /\ l \in Seq(Char) /\ Len(l) \in Nat /\ n \in Nat /\ n <= Len(l)
      /\ m \in Seq(Char) /\ Len(m) \in Nat /\ Len(m) < LineBufSize /\ LineBufSize \in Nat
      /\ k \in Nat /\ k <= Len(s) /\ Len(s) \in Nat
    BY <1>1, <1>3, Sizes, LenProperties
<1> DEFINE j == n + k
           b == SubSeq(l, 1, n)
           u == SubSeq(s, 1, k)
           bm == SubSeq(m, 1, j)
           am == SubSeq(m, j + 1, Len(m))
<1>5. j \in 0 .. Len(m) /\ k \in 0 .. Len(s)  BY <1>3, <1>4
<1>6. Before(e) = bm /\ After(e) = am  BY <1>3, ShownFields
<1>7. bm = b \o u /\ am = After(ed) /\ Before(ed) = b  BY <1>2, <1>3
<1> HIDE DEF j
<1>8. bm \in Seq(Char) /\ Len(bm) = j /\ Len(am) = Len(m) - j
    BY <1>4, <1>5, CutAt
<1>9. b \in Seq(Char) /\ Len(b) = n /\ u \in Seq(Char)  BY <1>1, <1>4, <1>5, Cut
<1> HIDE DEF b, u, bm, am
<1>10. IsPrefix(b, bm)
    <2>1. Len(bm) = Len(b) + Len(u) /\ \A x \in 1 .. Len(b) : bm[x] = b[x]
        <3>1. /\ Len(b \o u) = Len(b) + Len(u)
              /\ \A x \in 1 .. Len(b) : (b \o u)[x] = b[x]
            BY <1>9, Joined, ZenonT(20)
        <3> QED  BY <1>7, <3>1
    <2>2. Len(u) \in Nat /\ Len(b) \in Nat  BY <1>9, LenProperties
    <2> QED  BY <1>8, <1>9, <2>1, <2>2, PrefixIs, SMTT(20)
<1>11. Editor!IsPrefix(b, bm)  BY <1>10 DEF IsPrefix, Editor!IsPrefix
<1>12. Len(bm) + Len(am) <= LineBufSize - 1  BY <1>4, <1>5, <1>8
<1> QED  BY <1>6, <1>7, <1>8, <1>11, <1>12, EditSeen DEF Editor!Type

LEMMA TypeCharRefines ==
    ASSUME IInv, NEW c \in Char, TypeChar(c)
    PROVE  Editor!Type
<1> DEFINE l == ed.line
           n == ed.cur
           s == <<c>>
<1>1. l \in Text /\ n \in 0 .. Len(l) /\ ed = Shown(l, n)  BY DrawnParts DEF TypeChar, Edit
<1>2. s \in Seq(Char) /\ Len(s) = 1 /\ s[0 + 1] = c  OBVIOUS
<1>3. Edit(LineInsertChar(ed, c))  BY DEF TypeChar
<1>4. Grown(l, n, s, 0, ed)  BY <1>1, <1>2, GrownStarts
<1> HIDE DEF l, n, s
<1>5. 0 \in Nat /\ 0 < Len(s) /\ 0 + 1 = 1 /\ 1 \in Nat /\ 1 <= Len(s)  BY <1>2
<1>6. Grown(l, n, s, 0 + 1, LineInsertChar(ed, s[0 + 1]))
    BY <1>1, <1>2, <1>4, <1>5, GrownGoesOn
<1>7. Grown(l, n, s, 1, LineInsertChar(ed, c))  BY <1>2, <1>5, <1>6
<1> QED  BY <1>2, <1>3, <1>5, <1>7, TypeRefines DEF l, n

LEMMA TabRefines ==
    ASSUME IInv, NEW found \in SUBSET Names, NEW end \in {Space, Slash}, Tab(found, end)
    PROVE  Editor!Type \/ UNCHANGED Editor!evars
<1> DEFINE e == Completed(ed, found, end)
           p == CompletionPrefix(ed)
           c == CommonPrefix(found)
           rest == SubSeq(c, Len(p) + 1, Len(c))
           t == IF \E x \in found : found = {x} THEN Append(rest, end) ELSE rest
<1>1. Edit(e) /\ Drawn(ed)  BY DEF Tab, Edit, IInv
<1>2. ed.line \in Text /\ ed.cur \in 0 .. Len(ed.line) /\ ed = Shown(ed.line, ed.cur)
    BY <1>1 DEF Drawn
<1>3. Redisplay(ed) = ed  BY <1>2, RedisplayShows
<1>4. CASE found # {} /\ rest # <<>>
    <2>1. e = InsertAll(ed, t)  BY <1>4 DEF Completed
    <2>2. rest \in Seq(Char) /\ Append(rest, end) \in Seq(Char)  BY <1>1, <1>4, RestIs
    <2>3. t \in Seq(Char)  BY <2>2
    <2> HIDE DEF t, e
    <2>4. Len(t) \in Nat /\ Len(t) <= Len(t)  BY <2>3, LenProperties
    <2>5. Grown(ed.line, ed.cur, t, Len(t), InsertAll(ed, t))
        BY <1>2, <2>3, InsertAllShows
    <2> QED  BY <1>1, <2>1, <2>3, <2>4, <2>5, TypeRefines
<1>5. CASE ~(found # {} /\ rest # <<>>)
    <2>1. e = ed  BY <1>3, <1>5 DEF Completed
    <2> QED  BY <1>1, <2>1, EditUnseen
<1> QED  BY <1>4, <1>5

LEMMA BackspaceRefines ==
    ASSUME IInv, Backspace
    PROVE  Editor!Rubout \/ UNCHANGED Editor!evars
<1> DEFINE l == ed.line
           n == ed.cur
           e == LineDeleteChar(ed)
<1>1. Edit(e) /\ Reading  BY DEF Backspace, Edit
<1>2. l \in Text /\ n \in 0 .. Len(l) /\ ed = Shown(l, n)  BY <1>1, DrawnParts
<1>3. Before(ed) = SubSeq(l, 1, n) /\ After(ed) = SubSeq(l, n + 1, Len(l))
    BY DEF Before, After
<1> HIDE DEF l, n
<1>4. l \in Seq(Char) /\ Len(l) \in Nat /\ n \in Nat  BY <1>2, Sizes
<1>5. e = IF n = 0 THEN Shown(l, n) ELSE Shown(RemoveAt(l, n), n - 1)
    BY <1>2, DeleteShows
<1>6. CASE n = 0
    <2>1. e = ed  BY <1>2, <1>5, <1>6
    <2> QED  BY <1>1, <2>1, EditUnseen
<1>7. CASE n # 0
    <2> DEFINE m == RemoveAt(l, n)
               k == n - 1
               b == SubSeq(l, 1, n)
    <2>1. n \in 1 .. Len(l) /\ k + 1 = n /\ k \in 1 - 1 .. n /\ k < n
        BY <1>2, <1>4, <1>7
    <2>2. /\ SubSeq(m, 1, n - 1) = SubSeq(l, 1, n - 1)
          /\ SubSeq(m, n, Len(m)) = SubSeq(l, n + 1, Len(l))
        BY <1>4, <2>1, Removed
    <2>3. e = Shown(m, k)  BY <1>5, <1>7
    <2>4. Before(e) = SubSeq(m, 1, k) /\ After(e) = SubSeq(m, k + 1, Len(m))
        BY <2>3, ShownFields
    <2>5. Before(e) = SubSeq(l, 1, n - 1) /\ After(e) = After(ed)
        BY <1>3, <2>1, <2>2, <2>4
    <2>6. b \in Seq(Char) /\ Len(b) = n /\ \A i \in 1 .. n : b[i] = l[i]
        BY <1>2, <1>4, Cut
    <2> HIDE DEF b, m, e
    <2>7. b # <<>>  BY <1>7, <2>6, EmptySeq
    <2>8. SubSeq(b, 1, n - 1) = SubSeq(l, 1, n - 1)
        <3> DEFINE x == SubSeq(b, 1, k)
                   y == SubSeq(l, 1, k)
        <3>1. k \in 0 .. Len(b) /\ k \in 0 .. Len(l) /\ k \in Nat /\ k <= n
            BY <1>4, <2>1, <2>6
        <3>2. x \in Seq(Char) /\ Len(x) = k /\ \A i \in 1 .. k : x[i] = b[i]
            BY <2>6, <3>1, Cut
        <3>3. y \in Seq(Char) /\ Len(y) = k /\ \A i \in 1 .. k : y[i] = l[i]
            BY <1>4, <3>1, Cut
        <3> HIDE DEF x, y, k
        <3>4. \A i \in 1 .. k : i \in 1 .. n  BY <1>4, <3>1
        <3>5. \A i \in 1 .. k : x[i] = y[i]  BY <2>6, <3>2, <3>3, <3>4
        <3>6. x = y  BY <3>2, <3>3, <3>5, SeqEqual
        <3> QED  BY <3>6 DEF x, y, k
    <2>9. Editor!Front(b) = SubSeq(l, 1, n - 1)  BY <2>6, <2>8 DEF Editor!Front
    <2>10. Before(ed) = b  BY <1>3 DEF b
    <2> QED  BY <1>1, <2>5, <2>7, <2>9, <2>10, EditSeen DEF Editor!Rubout
<1> QED  BY <1>6, <1>7

LEMMA DeleteRefines ==
    ASSUME IInv, DeleteKey
    PROVE  Editor!Delete \/ UNCHANGED Editor!evars
<1> DEFINE l == ed.line
           n == ed.cur
           e == LineDeleteForward(ed)
<1>1. Edit(e) /\ Reading  BY DEF DeleteKey, Edit
<1>2. l \in Text /\ n \in 0 .. Len(l) /\ ed = Shown(l, n)  BY <1>1, DrawnParts
<1>3. Before(ed) = SubSeq(l, 1, n) /\ After(ed) = SubSeq(l, n + 1, Len(l))
    BY DEF Before, After
<1> HIDE DEF l, n
<1>4. l \in Seq(Char) /\ Len(l) \in Nat /\ n \in Nat  BY <1>2, Sizes
<1>5. e = IF n = Len(l) THEN Shown(l, n) ELSE Shown(RemoveAt(l, n + 1), n)
    BY <1>2, ForwardShows
<1>6. CASE n = Len(l)
    <2>1. e = ed  BY <1>2, <1>5, <1>6
    <2> QED  BY <1>1, <2>1, EditUnseen
<1>7. CASE n # Len(l)
    <2> DEFINE k == n + 1
               m == RemoveAt(l, k)
               a == SubSeq(l, k, Len(l))
    <2>1. k \in 1 .. Len(l) /\ k - 1 = n /\ Len(l) \in k .. Len(l) /\ Len(l) - n \in Nat
          /\ Len(l) - n # 0
        BY <1>2, <1>4, <1>7
    <2>2. e = Shown(m, n)  BY <1>5, <1>7
    <2>3. Before(e) = SubSeq(m, 1, n) /\ After(e) = SubSeq(m, k, Len(m))
        BY <2>2, ShownFields
    <2>4. a \in Seq(Char) /\ Len(a) = Len(l) - n  BY <1>2, <1>4, Cut
    <2>5. Before(ed) = SubSeq(l, 1, n) /\ After(ed) = a  BY <1>3
    <2> HIDE DEF k, e
    <2>6. /\ SubSeq(m, 1, k - 1) = SubSeq(l, 1, k - 1)
          /\ SubSeq(m, k, Len(m)) = SubSeq(l, k + 1, Len(l))
        BY <1>4, <2>1, Removed
    <2>7. Tail(a) = SubSeq(l, k + 1, Len(l))  BY <1>4, <2>1, HeadTailOfSubSeq
    <2> HIDE DEF m, a
    <2>8. a # <<>>  BY <2>1, <2>4, EmptySeq
    <2>9. Before(e) = Before(ed) /\ After(e) = Tail(a)
        BY <2>1, <2>3, <2>5, <2>6, <2>7
    <2> QED  BY <1>1, <2>5, <2>8, <2>9, EditSeen DEF Editor!Delete
<1> QED  BY <1>6, <1>7

LEMMA MoveRefines ==
    ASSUME IInv, Left \/ Right \/ Home \/ End
    PROVE  Editor!Move
<1> DEFINE l == ed.line
           n == ed.cur
           k == IF Left THEN IF n > 0 THEN n - 1 ELSE 0
                ELSE IF Right THEN IF n < Len(l) THEN n + 1 ELSE n
                ELSE IF Home THEN 0 ELSE Len(l)
           e == LineMoveTo(ed, k)
<1>1. Edit(e) /\ Reading  BY DEF Left, Right, Home, End, Edit
<1>2. l \in Text /\ n \in 0 .. Len(l) /\ ed = Shown(l, n)  BY <1>1, DrawnParts
<1>3. Before(ed) = SubSeq(l, 1, n) /\ After(ed) = SubSeq(l, n + 1, Len(l))
    BY DEF Before, After
<1>4. l \in Seq(Char) /\ Len(l) \in Nat  BY <1>2, Sizes
<1>5. k \in 0 .. Len(l)  BY <1>2, <1>4
<1> HIDE DEF l, n, k
<1>6. e = Shown(l, k)  BY <1>2, <1>5, MoveShows
<1>7. Before(e) = SubSeq(l, 1, k) /\ After(e) = SubSeq(l, k + 1, Len(l))
    BY <1>6, ShownFields
<1> HIDE DEF e
<1>8. SubSeq(l, 1, n) \o SubSeq(l, n + 1, Len(l)) = l  BY <1>2, <1>4, Cut
<1>9. SubSeq(l, 1, k) \o SubSeq(l, k + 1, Len(l)) = l  BY <1>4, <1>5, Cut
<1>10. Before(ed) \o After(ed) = l /\ Before(e) \o After(e) = l
    BY <1>3, <1>7, <1>8, <1>9
<1> QED  BY <1>1, <1>10, EditSeen DEF Editor!Move, Editor!Line

LEMMA KillRefines ==
    ASSUME IInv, KillToEnd \/ KillAll
    PROVE  Editor!Kill
<1> DEFINE l == ed.line
           n == ed.cur
<1>1. Reading /\ Edit(IF KillToEnd THEN LineKillToEnd(ed) ELSE LineKillAll(ed))
    BY DEF KillToEnd, KillAll, Edit
<1>2. l \in Text /\ n \in 0 .. Len(l) /\ ed = Shown(l, n)  BY <1>1, DrawnParts
<1>3. Before(ed) = SubSeq(l, 1, n)  BY DEF Before
<1> HIDE DEF l, n
<1>4. l \in Seq(Char) /\ Len(l) \in Nat /\ n \in Nat  BY <1>2, Sizes
<1>5. CASE KillToEnd
    <2> DEFINE b == SubSeq(l, 1, n)
               e == Shown(b, n)
    <2>1. Edit(e)  BY <1>1, <1>2, <1>5, KillToEndShows
    <2>2. b \in Seq(Char) /\ Len(b) = n  BY <1>2, <1>4, Cut
    <2>3. Before(e) = SubSeq(b, 1, n) /\ After(e) = SubSeq(b, n + 1, Len(b))
        BY ShownFields
    <2> HIDE DEF b
    <2>4. SubSeq(b, 1, n) = b  BY <2>2, SubSeqFull
    <2>5. SubSeq(b, n + 1, Len(b)) = <<>>
        <3>1. n + 1 \in Int /\ n \in Int /\ n < n + 1  BY <1>4
        <3> QED  BY <2>2, <3>1, SubSeqEmpty
    <2>6. Before(e) = Before(ed) /\ After(e) = <<>>
        BY <1>3, <2>3, <2>4, <2>5 DEF b
    <2> HIDE DEF e
    <2> QED  BY <2>1, <2>6, EditSeen DEF Editor!Kill
<1>6. CASE ~KillToEnd
    <2> DEFINE e == Shown(<<>>, 0)
    <2>1. Edit(e)  BY <1>1, <1>2, <1>6, KillAllShows
    <2>2. Before(e) = <<>> /\ After(e) = <<>>  BY EmptyParts
    <2> HIDE DEF e
    <2> QED  BY <2>1, <2>2, EditSeen DEF Editor!Kill
<1> QED  BY <1>5, <1>6

LEMMA ReadlineRefines ==
    ASSUME IInv, Readline
    PROVE  Editor!Prompt
<1>1. ed' = Shown(<<>>, 0)  BY ReadlineKeeps
<1>2. Before(ed)' = <<>> /\ After(ed)' = <<>>
    <2>1. Before(ed)' = Before(ed') /\ After(ed)' = After(ed')  BY DEF Before, After
    <2> QED  BY <1>1, <2>1, EmptyParts
<1>3. entriesBar' = entriesBar  BY ListKeeps DEF Readline
<1>4. Len(entriesBar) = history_count  BY Listed
<1>5. (history_idx + 1)' = Len(entriesBar) + 1  BY <1>4 DEF Readline
<1>6. ~Reading /\ Reading'  BY DEF Readline, Reading
<1> QED  BY <1>2, <1>3, <1>5, <1>6 DEF Editor!Prompt

LEMMA CtrlCRefines ==
    ASSUME IInv, CtrlC
    PROVE  Editor!Cancel
<1> DEFINE e == [LineClear(ed) EXCEPT !.term = Blank]
<1>1. Edit(e) /\ ed' = e /\ e = Shown(<<>>, 0)  BY CtrlCKeeps DEF CtrlC, Edit
<1>2. Before(e) = <<>> /\ After(e) = <<>>  BY <1>1, EmptyParts
<1> HIDE DEF e
<1> QED  BY <1>1, <1>2, EditSeen DEF Editor!Cancel

LEMMA QuitRefines ==
    ASSUME Reading, pc' = "eof", UNCHANGED <<ed, ring, history_idx>>
    PROVE  Editor!Quit
<1>1. entriesBar' = entriesBar  BY ListKeeps
<1>2. ~Reading'  BY DEF Reading
<1> QED  BY <1>1, <1>2 DEF Editor!Quit, Reading, Before, After

LEMMA EnterRefines ==
    ASSUME IInv, IInv', Enter
    PROVE  Editor!Accept
<1>1. Reading /\ HistoryAdd(ed.line) /\ ed' = ed /\ history_idx' = history_idx /\ pc' = "shell"
    BY DEF Enter
<1>2. ed.line \in Text /\ ed.cur \in 0 .. Len(ed.line) /\ ed.line \in Seq(Char)
    BY <1>1, DrawnParts, Sizes
<1>3. entriesBar' = Editor!Remember(ed.line)  BY <1>1, <1>2, Remembered
<1>4. Before(ed) \o After(ed) = ed.line
    <2>1. SubSeq(ed.line, 1, ed.cur) \o SubSeq(ed.line, ed.cur + 1, Len(ed.line)) = ed.line
        BY <1>2, Cut
    <2> QED  BY <2>1 DEF Before, After
<1>5. Before(ed)' = Before(ed) /\ After(ed)' = After(ed)  BY <1>1 DEF Before, After
<1>6. Reading' = FALSE  BY <1>1 DEF Reading
<1>7. entriesBar' = Editor!Remember(Before(ed) \o After(ed))  BY <1>3, <1>4
<1> QED  BY <1>1, <1>5, <1>6, <1>7 DEF Editor!Accept, Editor!Line

\* A line of the ring, or an empty one, in place of the line.
LEMMA SetSeen ==
    ASSUME IInv, Reading, NEW s \in Text, ed' = LineSet(ed, s)
    PROVE  Before(ed)' = s /\ After(ed)' = <<>>
<1>1. ed' = Shown(s, Len(s))  BY DrawnParts, SetShows
<1>2. s \in Seq(Char) /\ Len(s) \in Nat  BY Sizes
<1>3. Before(ed)' = SubSeq(s, 1, Len(s)) /\ After(ed)' = SubSeq(s, Len(s) + 1, Len(s))
    <2>1. Before(ed)' = Before(ed') /\ After(ed)' = After(ed')  BY DEF Before, After
    <2> QED  BY <1>1, <2>1, ShownFields
<1>4. SubSeq(s, 1, Len(s)) = s  BY <1>2, SubSeqFull
<1>5. SubSeq(s, Len(s) + 1, Len(s)) = <<>>
    <2>1. Len(s) + 1 \in Int /\ Len(s) \in Int /\ Len(s) < Len(s) + 1  BY <1>2
    <2> QED  BY <2>1, SubSeqEmpty
<1> QED  BY <1>3, <1>4, <1>5

LEMMA PrevRefines ==
    ASSUME IInv, HistoryPrev
    PROVE  Editor!Older \/ UNCHANGED Editor!evars
<1>1. /\ history_count \in 0 .. HistorySize /\ history_idx \in 0 .. history_count
      /\ HistorySize \in Nat
    BY LineEditAssumption DEF IInv, TypeOK
<1>2. CASE history_count = 0 \/ history_idx <= 0
    BY <1>2, Unseen DEF HistoryPrev
<1>3. CASE ~(history_count = 0 \/ history_idx <= 0)
    <2> DEFINE k == history_idx
               s == Entry(k - 1)
    <2>1. /\ k' = k - 1 /\ ed' = LineSet(ed, s) /\ Reading /\ UNCHANGED <<ring, pc>>
        BY <1>3 DEF HistoryPrev
    <2>2. k - 1 \in 0 .. HistorySize /\ k \in 1 .. history_count  BY <1>1, <1>3
    <2>3. s \in Text  BY <2>2, EntryIs
    <2>4. entriesBar[k] = s  BY <2>2, Listed
    <2> HIDE DEF s
    <2>5. Before(ed)' = s /\ After(ed)' = <<>>  BY <2>1, <2>3, SetSeen
    <2>6. entriesBar' = entriesBar /\ UNCHANGED Reading  BY <2>1, ListKeeps DEF Reading
    <2>7. /\ k + 1 > 1 /\ (k + 1)' = (k + 1) - 1 /\ (k + 1)' = k
        BY <1>1, <2>1, <2>2
    <2> QED  BY <2>1, <2>4, <2>5, <2>6, <2>7 DEF Editor!Older
<1> QED  BY <1>2, <1>3

LEMMA NextRefines ==
    ASSUME IInv, HistoryNext
    PROVE  Editor!Newer \/ UNCHANGED Editor!evars
<1>1. /\ history_count \in 0 .. HistorySize /\ history_idx \in 0 .. history_count
      /\ HistorySize \in Nat
    BY LineEditAssumption DEF IInv, TypeOK
<1>2. Reading /\ UNCHANGED <<ring, pc>>  BY DEF HistoryNext
<1>3. entriesBar' = entriesBar /\ UNCHANGED Reading  BY <1>2, ListKeeps DEF Reading
<1>4. Len(entriesBar) = history_count  BY Listed
<1> DEFINE k == history_idx
<1>5. CASE k < history_count - 1
    <2> DEFINE s == Entry(k + 1)
               v == k + 2
    <2>1. k' = k + 1 /\ ed' = LineSet(ed, s)  BY <1>1, <1>5 DEF HistoryNext
    <2>2. k + 1 \in 0 .. HistorySize /\ v \in 1 .. history_count /\ v - 1 = k + 1
        BY <1>1, <1>5
    <2>3. s \in Text  BY <2>2, EntryIs
    <2>4. (k + 1)' = v /\ (k + 1)' = (k + 1) + 1 /\ k + 1 <= history_count /\ v <= history_count
        BY <1>1, <1>5, <2>1
    <2> HIDE DEF v
    <2>5. entriesBar[v] = s  BY <2>2, Listed
    <2> HIDE DEF s
    <2>6. Before(ed)' = s /\ After(ed)' = <<>>  BY <1>2, <2>1, <2>3, SetSeen
    <2> QED  BY <1>2, <1>3, <1>4, <2>4, <2>5, <2>6 DEF Editor!Newer
<1>6. CASE k = history_count - 1
    <2>1. k' = history_count /\ ed' = LineSet(ed, <<>>)  BY <1>1, <1>6 DEF HistoryNext
    <2>2. Before(ed)' = <<>> /\ After(ed)' = <<>>  BY <1>2, <2>1, EmptyText, SetSeen
    <2>3. (k + 1)' = (k + 1) + 1 /\ k + 1 <= history_count /\ ~((k + 1)' <= history_count)
        BY <1>1, <1>6, <2>1
    <2> QED  BY <1>2, <1>3, <1>4, <2>2, <2>3 DEF Editor!Newer
<1>7. CASE ~(k < history_count - 1) /\ k # history_count - 1
    <2>1. history_idx' = history_idx /\ ed' = ed  BY <1>1, <1>7 DEF HistoryNext
    <2> QED  BY <1>2, <2>1, Unseen
<1> QED  BY <1>5, <1>6, <1>7

LEMMA InitRefines == Init => Editor!EInit
<1> SUFFICES ASSUME Init PROVE Editor!EInit
    OBVIOUS
<1>1. ed.line = <<>> /\ ed.cur = 0  BY DEF Init
<1>2. Before(ed) = <<>> /\ After(ed) = <<>>
    <2>1. SubSeq(<<>>, 1, 0) = <<>> /\ Len(<<>>) = 0 /\ 0 + 1 = 1
        BY SubSeqEmpty, EmptySeq
    <2> QED  BY <1>1, <2>1 DEF Before, After
<1>3. IInv /\ history_count = 0 /\ history_idx + 1 = 1 /\ ~Reading
    BY InitInvariant DEF Init, Reading
<1>4. entriesBar = <<>>  BY <1>3, Listed
<1> QED  BY <1>2, <1>3, <1>4 DEF Editor!EInit, Reading

LEMMA StepRefines ==
    ASSUME IInv, IInv', [Next]_vars
    PROVE  [Editor!ENext]_(Editor!evars)
<1>1. CASE UNCHANGED vars  BY <1>1, Unseen DEF vars, ring
<1>2. CASE Readline  BY <1>2, ReadlineRefines DEF Editor!ENext
<1>3. CASE Enter  BY <1>3, EnterRefines DEF Editor!ENext
<1>4. CASE CtrlC  BY <1>4, CtrlCRefines DEF Editor!ENext
<1>5. CASE DeleteKey  BY <1>5, DeleteRefines DEF Editor!ENext
<1>6. CASE CtrlD
    <2>1. CASE DeleteKey  BY <1>5, <2>1
    <2>2. CASE Reading /\ pc' = "eof" /\ UNCHANGED <<ed, ring, history_idx>>
        BY <2>2, QuitRefines DEF Editor!ENext
    <2> QED  BY <1>6, <2>1, <2>2 DEF CtrlD
<1>7. CASE EndOfInput  BY <1>7, QuitRefines DEF EndOfInput, Editor!ENext
<1>8. ASSUME NEW c \in Char, TypeChar(c) PROVE Editor!ENext
    BY <1>8, TypeCharRefines DEF Editor!ENext
<1>9. CASE Backspace  BY <1>9, BackspaceRefines DEF Editor!ENext
<1>10. CASE Left \/ Right \/ Home \/ End  BY <1>10, MoveRefines DEF Editor!ENext
<1>11. CASE KillToEnd \/ KillAll  BY <1>11, KillRefines DEF Editor!ENext
<1>12. CASE ClearScreen
    <2>1. Edit(Redisplay(ed)) /\ Reading  BY <1>12 DEF ClearScreen, Edit
    <2>2. Redisplay(ed) = ed  BY <2>1, DrawnParts, RedisplayShows
    <2> QED  BY <2>1, <2>2, EditUnseen
<1>13. CASE HistoryPrev  BY <1>13, PrevRefines DEF Editor!ENext
<1>14. CASE HistoryNext  BY <1>14, NextRefines DEF Editor!ENext
<1>15. ASSUME NEW found \in SUBSET Names, NEW end \in {Space, Slash}, Tab(found, end)
       PROVE  [Editor!ENext]_(Editor!evars)
    BY <1>15, TabRefines DEF Editor!ENext
<1> QED
    BY <1>1, <1>2, <1>3, <1>4, <1>5, <1>6, <1>7, <1>8, <1>9, <1>10, <1>11, <1>12,
       <1>13, <1>14, <1>15
    DEF Next

(* The shifted array with its partial repaints, the ring with its wrap-around *)
(* and completion are, for the user, a line with a cursor and the last        *)
(* HISTORY_SIZE lines accepted: recall walks them newest first and never      *)
(* shows one that was overwritten (sh.c:794-961, 1126-1193, 1234-1455).       *)
THEOREM Implements == Spec => ImplementsEditSpec
<1>1. IInv /\ IInv' /\ [Next]_vars => [Editor!ENext]_(Editor!evars)
    BY StepRefines
<1> QED  BY <1>1, InitRefines, Invariance, PTL DEF Spec, ImplementsEditSpec, Editor!ESpec
=============================================================================
