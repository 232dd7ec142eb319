--------------------------- MODULE ShellParseProofs ---------------------------
(***************************************************************************)
(* What the scans of the parser find and what the recursive descent builds *)
(* from it, for every line whatever is typed and however long it is.  The  *)
(* reference's reading of the line is the common measure: each scan is     *)
(* compared with it, character by character, and each parse function with  *)
(* the grammar, word by word.                                              *)
(***************************************************************************)
EXTENDS ShellParse, SequenceTheorems, WellFoundedInduction, TLAPS

Char == {NL} \cup UNION {k.keys : k \in Keyboards}

\* What run_line() passes on: it ends with a newline.
IsLine(t) == t \in Seq(Char) /\ t # <<>> /\ t[Len(t)] = NL

-----------------------------------------------------------------------------
\* Induction, as the well-foundedness of the naturals gives it for a set.
LEMMA Induction ==
    ASSUME NEW S \in SUBSET Nat, 0 \in S, \A n \in S : n + 1 \in S
    PROVE  S = Nat
<1> DEFINE less == OpToRel(<, Nat)
           left == Nat \ S
<1>1. SUFFICES ASSUME S # Nat PROVE FALSE
    OBVIOUS
<1>2. IsWellFoundedOn(less, Nat)  BY NatLessThanWellFounded
<1>3. left \subseteq Nat /\ left # {}  BY <1>1
<1>4. \A x, y \in Nat : <<y, x>> \in less <=> y < x  BY DEF OpToRel
<1> HIDE DEF less, left
<1>5. PICK x \in left : \A y \in left : ~(<<y, x>> \in less)  BY <1>2, <1>3, WFMin
<1>6. x \in Nat /\ x # 0  BY <1>3 DEF left
<1>7. x - 1 \in Nat /\ x - 1 < x /\ (x - 1) + 1 = x  BY <1>6
<1>8. <<x - 1, x>> \in less  BY <1>4, <1>6, <1>7
<1>9. x - 1 \in S  BY <1>5, <1>7, <1>8 DEF left
<1> QED  BY <1>6, <1>7, <1>9 DEF left

\* A line has at least its newline, which is neither a symbol nor an escape.
LEMMA LineIs ==
    ASSUME NEW t, IsLine(t)
    PROVE  /\ Len(t) \in Nat /\ Len(t) >= 1 /\ End(t) \in Nat /\ End(t) = Len(t) + 1
           /\ \A i \in 1 .. Len(t) : t[i] \in Char
           /\ t[Len(t)] = NL /\ NL \in Blank /\ NL # Esc
    BY LenProperties, EmptySeq, ElementOfSeq DEF IsLine, End, NL, Blank, Esc

\* An escape is never the last character.
LEMMA EscapeInside ==
    ASSUME NEW t, IsLine(t), NEW i \in 1 .. Len(t), t[i] = Esc
    PROVE  i + 1 < End(t)
    BY LineIs

-----------------------------------------------------------------------------
(* The recursive functions of the scans are there: each place is defined from *)
(* those after it.                                                           *)

Skips(t, q, i) == t[i] = Esc /\ i + 1 < End(t) /\ (q = Single => t[i + 1] = Single)
Closing(e, t, q, k) ==
    e = [i \in k .. End(t) |-> IF i = End(t) \/ t[i] = q THEN i
                               ELSE IF Skips(t, q, i) THEN e[i + 2] ELSE e[i + 1]]

\* What the scan for a closing quote computes, from the end of the line backwards.
LEMMA ClosingExists ==
    ASSUME NEW t, IsLine(t), NEW q
    PROVE  \E e : Closing(e, t, q, 1)
<1> DEFINE n == End(t)
           S == {m \in Nat : m < n => \E e : Closing(e, t, q, n - m)}
<1>1. n \in Nat /\ n >= 1  BY LineIs
<1> HIDE DEF n
<1>2. 0 \in S
    <2> DEFINE e == [i \in n .. n |-> i]
    <2>1. \A i \in n .. n : i = n  BY <1>1
    <2>2. Closing(e, t, q, n)  BY <2>1 DEF Closing, n
    <2> QED  BY <1>1, <2>2
<1>3. ASSUME NEW m \in S PROVE m + 1 \in S
    <2> SUFFICES ASSUME m + 1 < n PROVE \E e : Closing(e, t, q, n - (m + 1))
        OBVIOUS
    <2> DEFINE k == n - (m + 1)
    <2>1. m \in Nat /\ m < n /\ k \in Nat /\ k + 1 = n - m /\ k >= 1 /\ k < n  BY <1>1
    <2>2. PICK e : Closing(e, t, q, k + 1)  BY <2>1
    <2> HIDE DEF k
    <2> DEFINE V(f, i) == IF i = n \/ t[i] = q THEN i ELSE IF Skips(t, q, i) THEN f[i + 2] ELSE f[i + 1]
               g == [i \in k .. n |-> IF i = k THEN V(e, k) ELSE e[i]]
    <2>3. \A i \in (k + 1) .. n : e[i] = V(e, i)  BY <2>2 DEF Closing, n
    <2>4. \A i \in (k + 1) .. n : g[i] = e[i]  BY <2>1
    <2>5. ASSUME NEW i \in k .. n PROVE g[i] = V(g, i)
        <3>1. i # n => i + 1 \in (k + 1) .. n  BY <1>1, <2>1
        <3>2. Skips(t, q, i) => i + 2 \in (k + 1) .. n  BY <1>1, <2>1 DEF Skips, n
        <3> QED  BY <2>3, <2>4, <3>1, <3>2, <2>1
    <2>6. g = [i \in k .. n |-> g[i]]  OBVIOUS
    <2> HIDE DEF g
    <2>7. g = [i \in k .. n |-> V(g, i)]  BY <2>5, <2>6
    <2>8. Closing(g, t, q, k)  BY <2>7 DEF Closing, n
    <2> QED  BY <2>8 DEF k
<1> HIDE DEF S
<1>4. S = Nat
    <2>1. S \in SUBSET Nat  BY DEF S
    <2> QED  BY <1>2, <1>3, <2>1, Induction
<1>5. n - 1 \in S /\ n - 1 < n /\ n - (n - 1) = 1  BY <1>1, <1>4
<1> QED  BY <1>5 DEF S

\* One step of the scan for a closing quote.
LEMMA QuoteEndIs ==
    ASSUME NEW t, IsLine(t), NEW q, NEW i \in 1 .. End(t)
    PROVE  QuoteEnd(t, i, q) = IF i = End(t) \/ t[i] = q THEN i
                               ELSE IF Skips(t, q, i) THEN QuoteEnd(t, i + 2, q)
                               ELSE QuoteEnd(t, i + 1, q)
<1> DEFINE e == CHOOSE e : Closing(e, t, q, 1)
<1>1. \A s : QuoteEnd(t, s, q) = e[s]  BY DEF QuoteEnd, Closing, Skips
<1>2. Closing(e, t, q, 1)  BY ClosingExists
<1> HIDE DEF e
<1> QED  BY <1>1, <1>2 DEF Closing

\* The scan for a closing quote stays within the line.
LEMMA QuoteEndRange ==
    ASSUME NEW t, IsLine(t), NEW q, NEW i \in 1 .. End(t)
    PROVE  QuoteEnd(t, i, q) \in i .. End(t)
<1> DEFINE n == End(t)
           S == {m \in Nat : \A k \in 1 .. n : k >= n - m => QuoteEnd(t, k, q) \in k .. n}
<1>1. n \in Nat /\ n >= 1  BY LineIs
<1>2. 0 \in S
    <2>1. QuoteEnd(t, n, q) = n  BY <1>1, QuoteEndIs
    <2> HIDE DEF n
    <2> QED  BY <1>1, <2>1
<1>3. ASSUME NEW m \in S PROVE m + 1 \in S
    <2> SUFFICES ASSUME NEW k \in 1 .. n, k >= n - (m + 1) PROVE QuoteEnd(t, k, q) \in k .. n
        OBVIOUS
    <2>1. \A j \in 1 .. n : j >= n - m => QuoteEnd(t, j, q) \in j .. n  OBVIOUS
    <2>2. Skips(t, q, k) => k + 2 \in 1 .. n  BY <1>1 DEF Skips
    <2>3. k # n => k + 1 \in 1 .. n  BY <1>1
    <2>4. QuoteEnd(t, k, q) = IF k = n \/ t[k] = q THEN k
                              ELSE IF Skips(t, q, k) THEN QuoteEnd(t, k + 2, q)
                              ELSE QuoteEnd(t, k + 1, q)
        BY QuoteEndIs
    <2> HIDE DEF n
    <2>5. m \in Nat  OBVIOUS
    <2> QED  BY <1>1, <2>1, <2>2, <2>3, <2>4, <2>5
<1> HIDE DEF S
<1>4. S = Nat
    <2>1. S \in SUBSET Nat  BY DEF S
    <2> QED  BY <1>2, <1>3, <2>1, Induction
<1>5. n - i \in S  BY <1>1, <1>4
<1> QED  BY <1>1, <1>5 DEF S

Quote == {Single, Double}
\* Where the scan of a word goes on after the quote that opens at i.
PastQuote(t, i) == LET e == QuoteEnd(t, i + 1, t[i]) IN IF e < End(t) THEN e + 1 ELSE e
Scanning(w, t, k) ==
    w = [i \in k .. End(t) |-> IF i = End(t) \/ t[i] \in Blank \cup Symbol THEN i
                               ELSE IF t[i] = Esc /\ i + 1 < End(t) THEN w[i + 2]
                               ELSE IF t[i] \in Quote THEN w[PastQuote(t, i)]
                               ELSE w[i + 1]]

\* A quote is passed by at least itself, and within the line.
LEMMA PastQuoteRange ==
    ASSUME NEW t, IsLine(t), NEW i \in 1 .. Len(t)
    PROVE  PastQuote(t, i) \in (i + 1) .. End(t)
<1>1. i + 1 \in 1 .. End(t) /\ End(t) \in Nat  BY LineIs
<1>2. QuoteEnd(t, i + 1, t[i]) \in (i + 1) .. End(t)  BY <1>1, QuoteEndRange
<1> QED  BY <1>1, <1>2 DEF PastQuote

\* What the scan for the end of a word computes, from the end of the line backwards.
LEMMA ScanningExists ==
    ASSUME NEW t, IsLine(t)
    PROVE  \E w : Scanning(w, t, 1)
<1> DEFINE n == End(t)
           S == {m \in Nat : m < n => \E w : Scanning(w, t, n - m)}
<1>1. n \in Nat /\ n >= 1 /\ n = Len(t) + 1 /\ Len(t) \in Nat  BY LineIs
<1> HIDE DEF n
<1>2. 0 \in S
    <2> DEFINE w == [i \in n .. n |-> i]
    <2>1. \A i \in n .. n : i = n  BY <1>1
    <2>2. Scanning(w, t, n)  BY <2>1 DEF Scanning, n
    <2> QED  BY <1>1, <2>2
<1>3. ASSUME NEW m \in S PROVE m + 1 \in S
    <2> SUFFICES ASSUME m + 1 < n PROVE \E w : Scanning(w, t, n - (m + 1))
        OBVIOUS
    <2> DEFINE k == n - (m + 1)
    <2>1. m \in Nat /\ m < n /\ k \in Nat /\ k + 1 = n - m /\ k >= 1 /\ k < n  BY <1>1
    <2>2. PICK w : Scanning(w, t, k + 1)  BY <2>1
    <2> HIDE DEF k
    <2> DEFINE V(f, i) == IF i = n \/ t[i] \in Blank \cup Symbol THEN i
                          ELSE IF t[i] = Esc /\ i + 1 < n THEN f[i + 2]
                          ELSE IF t[i] \in Quote THEN f[PastQuote(t, i)]
                          ELSE f[i + 1]
               g == [i \in k .. n |-> IF i = k THEN V(w, k) ELSE w[i]]
    <2>3. \A i \in (k + 1) .. n : w[i] = V(w, i)  BY <2>2 DEF Scanning, n
    <2>4. \A i \in (k + 1) .. n : g[i] = w[i]  BY <2>1
    <2>5. ASSUME NEW i \in k .. n PROVE g[i] = V(g, i)
        <3>1. i # n => i + 1 \in (k + 1) .. n  BY <1>1, <2>1
        <3>2. i + 1 < n => i + 2 \in (k + 1) .. n  BY <1>1, <2>1
        <3>3. i # n => PastQuote(t, i) \in (k + 1) .. n
            <4>1. i # n => i \in 1 .. Len(t)  BY <1>1, <2>1
            <4>2. i # n => PastQuote(t, i) \in (i + 1) .. n  BY <4>1, PastQuoteRange DEF n
            <4> QED  BY <1>1, <2>1, <4>2
        <3> QED  BY <2>3, <2>4, <3>1, <3>2, <3>3, <2>1
    <2>6. g = [i \in k .. n |-> g[i]]  OBVIOUS
    <2> HIDE DEF g
    <2>7. g = [i \in k .. n |-> V(g, i)]  BY <2>5, <2>6
    <2>8. Scanning(g, t, k)  BY <2>7 DEF Scanning, n
    <2> QED  BY <2>8 DEF k
<1> HIDE DEF S
<1>4. S = Nat
    <2>1. S \in SUBSET Nat  BY DEF S
    <2> QED  BY <1>2, <1>3, <2>1, Induction
<1>5. n - 1 \in S /\ n - 1 < n /\ n - (n - 1) = 1  BY <1>1, <1>4
<1> QED  BY <1>5 DEF S

\* One step of the scan for the end of a word.
LEMMA WordEndIs ==
    ASSUME NEW t, IsLine(t), NEW i \in 1 .. End(t)
    PROVE  WordEnd(t, i) = IF i = End(t) \/ t[i] \in Blank \cup Symbol THEN i
                           ELSE IF t[i] = Esc THEN WordEnd(t, i + 2)
                           ELSE IF t[i] \in Quote THEN WordEnd(t, PastQuote(t, i))
                           ELSE WordEnd(t, i + 1)
<1> DEFINE w == CHOOSE w : Scanning(w, t, 1)
<1>1. \A s : WordEnd(t, s) = w[s]  BY DEF WordEnd, Scanning, PastQuote, Quote
<1>2. Scanning(w, t, 1)  BY ScanningExists
<1> HIDE DEF w
<1>3. t[i] = Esc /\ i # End(t) => i + 1 < End(t)  BY EscapeInside, LineIs
<1> QED  BY <1>1, <1>2, <1>3 DEF Scanning

\* The scan for the end of a word stays within the line.
LEMMA WordEndRange ==
    ASSUME NEW t, IsLine(t), NEW i \in 1 .. End(t)
    PROVE  WordEnd(t, i) \in i .. End(t)
<1> DEFINE n == End(t)
           S == {m \in Nat : \A k \in 1 .. n : k >= n - m => WordEnd(t, k) \in k .. n}
<1>1. n \in Nat /\ n >= 1 /\ n = Len(t) + 1 /\ Len(t) \in Nat  BY LineIs
<1>2. 0 \in S
    <2>1. WordEnd(t, n) = n  BY <1>1, WordEndIs
    <2> HIDE DEF n
    <2> QED  BY <1>1, <2>1
<1>3. ASSUME NEW m \in S PROVE m + 1 \in S
    <2> SUFFICES ASSUME NEW k \in 1 .. n, k >= n - (m + 1) PROVE WordEnd(t, k) \in k .. n
        OBVIOUS
    <2>1. \A j \in 1 .. n : j >= n - m => WordEnd(t, j) \in j .. n  OBVIOUS
    <2>2. k # n /\ t[k] = Esc => k + 2 \in 1 .. n  BY <1>1, EscapeInside
    <2>3. k # n => k + 1 \in 1 .. n /\ PastQuote(t, k) \in (k + 1) .. n
        <3>1. k # n => k \in 1 .. Len(t)  BY <1>1
        <3> QED  BY <1>1, <3>1, PastQuoteRange
    <2>4. WordEnd(t, k) = IF k = n \/ t[k] \in Blank \cup Symbol THEN k
                           ELSE IF t[k] = Esc THEN WordEnd(t, k + 2)
                           ELSE IF t[k] \in Quote THEN WordEnd(t, PastQuote(t, k))
                           ELSE WordEnd(t, k + 1)
        BY WordEndIs
    <2> HIDE DEF n
    <2>5. m \in Nat  OBVIOUS
    <2> QED  BY <1>1, <2>1, <2>2, <2>3, <2>4, <2>5
<1> HIDE DEF S
<1>4. S = Nat
    <2>1. S \in SUBSET Nat  BY DEF S
    <2> QED  BY <1>2, <1>3, <2>1, Induction
<1>5. n - i \in S  BY <1>1, <1>4
<1> QED  BY <1>1, <1>5 DEF S

Modes == {"none", Single, Double}
Controlling(h, t, k) ==
    h = [i \in k .. End(t) |-> [quote \in Modes |->
            IF i = End(t) THEN FALSE
            ELSE IF t[i] = Esc /\ i + 1 < End(t) THEN h[i + 2][quote]
            ELSE IF quote # "none" THEN h[i + 1][IF t[i] = quote THEN "none" ELSE quote]
            ELSE IF t[i] \in Quote THEN h[i + 1][t[i]]
            ELSE t[i] \in Symbol \/ h[i + 1][quote]]]

\* What has_control_operator() computes, from the end of the line backwards.
LEMMA ControllingExists ==
    ASSUME NEW t, IsLine(t)
    PROVE  \E h : Controlling(h, t, 1)
<1> DEFINE n == End(t)
           S == {m \in Nat : m < n => \E h : Controlling(h, t, n - m)}
<1>1. n \in Nat /\ n >= 1 /\ n = Len(t) + 1 /\ Len(t) \in Nat  BY LineIs
<1> HIDE DEF n
<1>2. 0 \in S
    <2> DEFINE h == [i \in n .. n |-> [quote \in Modes |-> FALSE]]
    <2>1. \A i \in n .. n : i = n  BY <1>1
    <2>2. Controlling(h, t, n)  BY <2>1 DEF Controlling, n
    <2> QED  BY <1>1, <2>2
<1>3. ASSUME NEW m \in S PROVE m + 1 \in S
    <2> SUFFICES ASSUME m + 1 < n PROVE \E h : Controlling(h, t, n - (m + 1))
        OBVIOUS
    <2> DEFINE k == n - (m + 1)
    <2>1. m \in Nat /\ m < n /\ k \in Nat /\ k + 1 = n - m /\ k >= 1 /\ k < n  BY <1>1
    <2>2. PICK h : Controlling(h, t, k + 1)  BY <2>1
    <2> HIDE DEF k
    <2> DEFINE U(i, next, second, quote) ==
                   IF i = n THEN FALSE
                   ELSE IF t[i] = Esc /\ i + 1 < n THEN second[quote]
                   ELSE IF quote # "none" THEN next[IF t[i] = quote THEN "none" ELSE quote]
                   ELSE IF t[i] \in Quote THEN next[t[i]]
                   ELSE t[i] \in Symbol \/ next[quote]
               V(f, i) == [quote \in Modes |-> U(i, f[i + 1], f[i + 2], quote)]
               g == [i \in k .. n |-> IF i = k THEN V(h, k) ELSE h[i]]
    <2>3. \A i \in (k + 1) .. n : h[i] = V(h, i)  BY <2>2 DEF Controlling, n
    <2>4. \A i \in (k + 1) .. n : g[i] = h[i]  BY <2>1
    <2>5. ASSUME NEW i \in k .. n PROVE g[i] = V(g, i)
        <3>1. i # n => g[i + 1] = h[i + 1]  BY <1>1, <2>1, <2>4
        <3>2. i + 1 < n => g[i + 2] = h[i + 2]  BY <1>1, <2>1, <2>4
        <3>3. g[i] = V(h, i)
            <4>1. CASE i = k  BY <4>1
            <4>2. CASE i # k
                <5>1. i \in (k + 1) .. n  BY <2>1, <4>2
                <5>2. g[i] = h[i] /\ h[i] = V(h, i)  BY <2>3, <2>4, <5>1
                <5> QED  BY <5>2
            <4> QED  BY <4>1, <4>2
        <3> HIDE DEF g
        <3>4. ASSUME NEW quote \in Modes
              PROVE  U(i, g[i + 1], g[i + 2], quote) = U(i, h[i + 1], h[i + 2], quote)
            <4>1. CASE i = n  BY <4>1
            <4>2. CASE i # n /\ i + 1 < n
                <5>1. g[i + 1] = h[i + 1] /\ g[i + 2] = h[i + 2]  BY <3>1, <3>2, <4>2
                <5> QED  BY <5>1
            <4>3. CASE i # n /\ ~(i + 1 < n)
                <5>1. g[i + 1] = h[i + 1]  BY <3>1, <4>3
                <5> QED  BY <4>3, <5>1
            <4> QED  BY <4>1, <4>2, <4>3
        <3> HIDE DEF U
        <3>5. V(g, i) = V(h, i)  BY <3>4
        <3> QED  BY <3>3, <3>5
    <2>6. g = [i \in k .. n |-> g[i]]  OBVIOUS
    <2> HIDE DEF g
    <2>7. g = [i \in k .. n |-> V(g, i)]  BY <2>5, <2>6
    <2>8. Controlling(g, t, k)  BY <2>7 DEF Controlling, n
    <2> QED  BY <2>8 DEF k
<1> HIDE DEF S
<1>4. S = Nat
    <2>1. S \in SUBSET Nat  BY DEF S
    <2> QED  BY <1>2, <1>3, <2>1, Induction
<1>5. n - 1 \in S /\ n - 1 < n /\ n - (n - 1) = 1  BY <1>1, <1>4
<1> QED  BY <1>5 DEF S

Controls(h, t) ==
    \A i \in 1 .. End(t) : \A quote \in Modes : h[i][quote] =
        IF i = End(t) THEN FALSE
        ELSE IF t[i] = Esc THEN h[i + 2][quote]
        ELSE IF quote # "none" THEN h[i + 1][IF t[i] = quote THEN "none" ELSE quote]
        ELSE IF t[i] \in Quote THEN h[i + 1][t[i]]
        ELSE t[i] \in Symbol \/ h[i + 1][quote]

\* has_control_operator() starts at the first character, out of quotes.
LEMMA HasControlIs ==
    ASSUME NEW t, IsLine(t)
    PROVE  \E h : HasControl(t) = h[1]["none"] /\ Controls(h, t)
<1> DEFINE h == CHOOSE h : Controlling(h, t, 1)
<1>1. HasControl(t) = h[1]["none"]  BY DEF HasControl, Controlling, Modes, Quote
<1>2. Controlling(h, t, 1)  BY ControllingExists
<1> HIDE DEF h
<1>3. \A i \in 1 .. End(t) : t[i] = Esc /\ i # End(t) => i + 1 < End(t)  BY EscapeInside, LineIs
<1> DEFINE U(i, quote) ==
               IF i = End(t) THEN FALSE
               ELSE IF t[i] = Esc /\ i + 1 < End(t) THEN h[i + 2][quote]
               ELSE IF quote # "none" THEN h[i + 1][IF t[i] = quote THEN "none" ELSE quote]
               ELSE IF t[i] \in Quote THEN h[i + 1][t[i]]
               ELSE t[i] \in Symbol \/ h[i + 1][quote]
<1>4. h = [i \in 1 .. End(t) |-> [quote \in Modes |-> U(i, quote)]]  BY <1>2 DEF Controlling
<1> HIDE DEF U
<1>5. \A i \in 1 .. End(t) : \A quote \in Modes : h[i][quote] = U(i, quote)  BY <1>4
<1> DEFINE R(i, quote) ==
               IF i = End(t) THEN FALSE
               ELSE IF t[i] = Esc THEN h[i + 2][quote]
               ELSE IF quote # "none" THEN h[i + 1][IF t[i] = quote THEN "none" ELSE quote]
               ELSE IF t[i] \in Quote THEN h[i + 1][t[i]]
               ELSE t[i] \in Symbol \/ h[i + 1][quote]
<1>6. ASSUME NEW i \in 1 .. End(t), NEW quote \in Modes PROVE U(i, quote) = R(i, quote)
    BY <1>3, Zenon DEF U
<1> HIDE DEF R
<1>7. \A i \in 1 .. End(t) : \A quote \in Modes : h[i][quote] = R(i, quote)  BY <1>5, <1>6
<1>8. Controls(h, t)  BY <1>7, Zenon DEF Controls, R
<1> QED  BY <1>1, <1>8

\* A set of numbers that is not empty has a least one.
LEMMA MinIs ==
    ASSUME NEW S \in SUBSET Nat, S # {}
    PROVE  Min(S) \in S /\ \A y \in S : Min(S) <= y
<1> DEFINE less == OpToRel(<, Nat)
<1>1. IsWellFoundedOn(less, Nat)  BY NatLessThanWellFounded
<1>2. \A x, y \in Nat : <<y, x>> \in less <=> y < x  BY DEF OpToRel
<1> HIDE DEF less
<1>3. PICK x \in S : \A y \in S : ~(<<y, x>> \in less)  BY <1>1, WFMin
<1>4. ASSUME NEW y \in S PROVE x <= y
    <2>1. x \in Nat /\ y \in Nat  OBVIOUS
    <2>2. ~(y < x)  BY <1>2, <1>3, <2>1
    <2> QED  BY <2>1, <2>2
<1> QED  BY <1>4 DEF Min

\* Blanks are skipped, and only they.
LEMMA SkipIs ==
    ASSUME NEW t, IsLine(t), NEW s \in 1 .. End(t)
    PROVE  /\ Skip(t, s) \in s .. End(t)
           /\ Skip(t, s) = End(t) \/ t[Skip(t, s)] \notin Blank
           /\ \A i \in s .. (Skip(t, s) - 1) : t[i] \in Blank
<1> DEFINE S == {i \in s .. End(t) : i = End(t) \/ t[i] \notin Blank}
<1>1. End(t) \in Nat /\ S \in SUBSET Nat /\ End(t) \in S  BY LineIs
<1>2. Min(S) \in S /\ \A y \in S : Min(S) <= y  BY <1>1, MinIs
<1>3. Skip(t, s) = Min(S)  BY DEF Skip
<1>4. Skip(t, s) \in S /\ \A y \in S : Skip(t, s) <= y  BY <1>2, <1>3
<1>5. ASSUME NEW i \in s .. (Skip(t, s) - 1) PROVE t[i] \in Blank
    <2>1. i \in s .. End(t) /\ i \in Nat /\ ~(Skip(t, s) <= i)  BY <1>1, <1>4
    <2>2. i \notin S  BY <1>4, <2>1
    <2> QED  BY <2>1, <2>2
<1> QED  BY <1>4, <1>5

\* Nothing is skipped where no blank is.
LEMMA SkipAgain ==
    ASSUME NEW t, IsLine(t), NEW s \in 1 .. End(t), s = End(t) \/ t[s] \notin Blank
    PROVE  Skip(t, s) = s
<1>1. End(t) \in Nat  BY LineIs
<1> QED  BY <1>1, SkipIs

\* What gettoken() leaves its pointers at.
LEMMA TokenRange ==
    ASSUME NEW t, IsLine(t), NEW s \in 1 .. End(t)
    PROVE  LET q == Skip(t, s)
               g == GetToken(t, s)
           IN /\ g.tok = "eof" <=> q = End(t)
              /\ g.tok = "a" <=> q # End(t) /\ t[q] \notin Symbol
              /\ g.q = q /\ g.eq \in q .. End(t) /\ g.s \in g.eq .. End(t)
              /\ g.s = End(t) \/ t[g.s] \notin Blank
              /\ \A i \in g.eq .. (g.s - 1) : t[i] \in Blank
              /\ q # End(t) => g.eq > q
<1> DEFINE q == Skip(t, s)
           g == GetToken(t, s)
<1>1. q \in s .. End(t) /\ (q = End(t) \/ t[q] \notin Blank) /\ End(t) \in Nat  BY SkipIs, LineIs
<1>2. q \in 1 .. End(t)  BY <1>1
<1>3. g = TokenAt(t, q)  BY DEF GetToken
<1> HIDE DEF q, g
<1>4. ASSUME NEW tok, NEW eq \in q .. End(t), g = Answer(t, tok, q, eq)
      PROVE  /\ g.tok = tok /\ g.q = q /\ g.eq = eq /\ g.s \in g.eq .. End(t)
             /\ g.s = End(t) \/ t[g.s] \notin Blank
             /\ \A i \in g.eq .. (g.s - 1) : t[i] \in Blank
    <2>1. eq \in 1 .. End(t)  BY <1>1, <1>2
    <2>2. g.tok = tok /\ g.q = q /\ g.eq = eq /\ g.s = Skip(t, eq)  BY <1>4 DEF Answer
    <2> QED  BY <2>1, <2>2, SkipIs
<1>5. CASE q = End(t)
    <2>1. g = Answer(t, "eof", q, q)  BY <1>3, <1>5 DEF TokenAt
    <2>2. q \in q .. End(t)  BY <1>1
    <2> QED  BY <1>4, <1>5, <2>1, <2>2 DEF q, g
<1>6. CASE q # End(t) /\ t[q] \in Symbol
    <2>1. \/ g = Answer(t, "+", q, q + 2) /\ q + 1 < End(t)
          \/ g = Answer(t, t[q], q, q + 1)
        BY <1>3, <1>6 DEF TokenAt
    <2>2. q + 1 \in q .. End(t) /\ (q + 1 < End(t) => q + 2 \in q .. End(t))  BY <1>1, <1>6
    <2>3. t[q] # "a" /\ t[q] # "eof"  BY <1>6 DEF Symbol
    <2>4. \A eq \in Int : eq = q + 1 \/ eq = q + 2 => eq > q  BY <1>1
    <2> QED  BY <1>1, <1>4, <1>6, <2>1, <2>2, <2>3, <2>4 DEF q, g
<1>7. CASE q # End(t) /\ t[q] \notin Symbol
    <2>1. g = Answer(t, "a", q, WordEnd(t, q))  BY <1>3, <1>7 DEF TokenAt, Symbol
    <2>2. WordEnd(t, q) \in q .. End(t)  BY <1>2, WordEndRange
    <2>3. WordEnd(t, q) > q
        <3>1. q \in 1 .. Len(t) /\ q + 1 \in 1 .. End(t) /\ Len(t) \in Nat  BY <1>1, <1>2, <1>7, LineIs
        <3>2. CASE t[q] = Esc
            <4>1. q + 2 \in 1 .. End(t)  BY <1>1, <3>1, <3>2, EscapeInside
            <4>2. WordEnd(t, q) = WordEnd(t, q + 2)  BY <1>1, <1>2, <1>7, <3>2, WordEndIs
            <4> QED  BY <1>1, <4>1, <4>2, WordEndRange
        <3>3. CASE t[q] # Esc /\ t[q] \in Quote
            <4>1. PastQuote(t, q) \in (q + 1) .. End(t)  BY <3>1, PastQuoteRange
            <4>2. WordEnd(t, q) = WordEnd(t, PastQuote(t, q))  BY <1>1, <1>2, <1>7, <3>3, WordEndIs
            <4>3. PastQuote(t, q) \in 1 .. End(t)  BY <3>1, <4>1
            <4> QED  BY <1>1, <4>1, <4>2, <4>3, WordEndRange
        <3>4. CASE t[q] # Esc /\ t[q] \notin Quote
            <4>1. WordEnd(t, q) = WordEnd(t, q + 1)  BY <1>1, <1>2, <1>7, <3>4, WordEndIs
            <4> QED  BY <1>1, <3>1, <4>1, WordEndRange
        <3> QED  BY <3>2, <3>3, <3>4
    <2> QED  BY <1>1, <1>4, <1>7, <2>1, <2>2, <2>3 DEF q, g
<1> QED  BY <1>5, <1>6, <1>7

\* A token takes at least one character.
LEMMA TokenGoesOn ==
    ASSUME NEW t, IsLine(t), NEW s \in 1 .. End(t), GetToken(t, s).tok # "eof"
    PROVE  GetToken(t, s).s \in (s + 1) .. End(t) /\ s # End(t)
<1>1. /\ Skip(t, s) \in s .. End(t) /\ Skip(t, s) # End(t) /\ End(t) \in Nat
      /\ GetToken(t, s).eq > Skip(t, s) /\ GetToken(t, s).eq \in Skip(t, s) .. End(t)
      /\ GetToken(t, s).s \in GetToken(t, s).eq .. End(t)
    BY SkipIs, TokenRange, LineIs
<1> QED  BY <1>1

Seeing(f, t, k) ==
    f = [s \in k .. End(t) |-> LET g == GetToken(t, s)
                               IN g.tok # "eof" /\ (g.tok # "a" \/ f[g.s])]

\* What a scan of the line by gettoken() sees, from the end of the line backwards.
LEMMA SeeingExists ==
    ASSUME NEW t, IsLine(t)
    PROVE  \E f : Seeing(f, t, 1)
<1> DEFINE n == End(t)
           S == {m \in Nat : m < n => \E f : Seeing(f, t, n - m)}
<1>1. n \in Nat /\ n >= 1  BY LineIs
<1> HIDE DEF n
<1>2. 0 \in S
    <2> DEFINE f == [i \in n .. n |-> FALSE]
    <2>1. \A i \in n .. n : i = n  BY <1>1
    <2>2. Skip(t, n) = n  BY <1>1, SkipAgain DEF n
    <2>3. GetToken(t, n).tok = "eof"  BY <1>1, <2>2, TokenRange DEF n
    <2>4. Seeing(f, t, n)  BY <2>1, <2>3 DEF Seeing, n
    <2> QED  BY <1>1, <2>4
<1>3. ASSUME NEW m \in S PROVE m + 1 \in S
    <2> SUFFICES ASSUME m + 1 < n PROVE \E f : Seeing(f, t, n - (m + 1))
        OBVIOUS
    <2> DEFINE k == n - (m + 1)
    <2>1. m \in Nat /\ m < n /\ k \in Nat /\ k + 1 = n - m /\ k >= 1 /\ k < n  BY <1>1
    <2>2. PICK f : Seeing(f, t, k + 1)  BY <2>1
    <2> HIDE DEF k
    <2> DEFINE V(h, i) == GetToken(t, i).tok # "eof" /\ (GetToken(t, i).tok # "a" \/ h[GetToken(t, i).s])
               g == [i \in k .. n |-> IF i = k THEN V(f, k) ELSE f[i]]
    <2>3. \A i \in (k + 1) .. n : f[i] = V(f, i)  BY <2>2 DEF Seeing, n
    <2>4. \A i \in (k + 1) .. n : g[i] = f[i]  BY <2>1
    <2>5. ASSUME NEW i \in k .. n PROVE g[i] = V(g, i)
        <3>1. g[i] = V(f, i)
            <4>1. CASE i = k  BY <4>1
            <4>2. CASE i # k
                <5>1. i \in (k + 1) .. n  BY <2>1, <4>2
                <5> QED  BY <2>3, <2>4, <5>1
            <4> QED  BY <4>1, <4>2
        <3>2. CASE GetToken(t, i).tok = "eof"  BY <3>1, <3>2
        <3>3. CASE GetToken(t, i).tok # "eof"
            <4>1. GetToken(t, i).s \in (i + 1) .. n  BY <1>1, <2>1, <3>3, TokenGoesOn DEF n
            <4>2. GetToken(t, i).s \in (k + 1) .. n  BY <1>1, <2>1, <4>1
            <4>3. g[GetToken(t, i).s] = f[GetToken(t, i).s]  BY <2>4, <4>2
            <4> QED  BY <3>1, <4>3
        <3> QED  BY <3>2, <3>3
    <2>6. g = [i \in k .. n |-> g[i]]  OBVIOUS
    <2> HIDE DEF g
    <2>7. g = [i \in k .. n |-> V(g, i)]  BY <2>5, <2>6
    <2>8. Seeing(g, t, k)  BY <2>7 DEF Seeing, n
    <2> QED  BY <2>8 DEF k
<1> HIDE DEF S
<1>4. S = Nat
    <2>1. S \in SUBSET Nat  BY DEF S
    <2> QED  BY <1>2, <1>3, <2>1, Induction
<1>5. n - 1 \in S /\ n - 1 < n /\ n - (n - 1) = 1  BY <1>1, <1>4
<1> QED  BY <1>5 DEF S

\* Such a scan, one token at a time.
LEMMA SeesOperatorIs ==
    ASSUME NEW t, IsLine(t)
    PROVE  \E f : /\ SeesOperator(t) = f[1]
                  /\ \A s \in 1 .. End(t) : f[s] =
                        (GetToken(t, s).tok # "eof" /\ (GetToken(t, s).tok # "a" \/ f[GetToken(t, s).s]))
<1> DEFINE f == CHOOSE f : Seeing(f, t, 1)
<1>1. SeesOperator(t) = f[1]  BY DEF SeesOperator, Seeing
<1>2. Seeing(f, t, 1)  BY SeeingExists
<1> HIDE DEF f
<1>3. \A s \in 1 .. End(t) : f[s] =
          (GetToken(t, s).tok # "eof" /\ (GetToken(t, s).tok # "a" \/ f[GetToken(t, s).s]))
    BY <1>2 DEF Seeing
<1> QED  BY <1>1, <1>3

-----------------------------------------------------------------------------
(* The reference reads the line from left to right. *)

Reads(r, t, k) == r = [i \in 0 .. k |-> IF i = 0 THEN Start ELSE Read(r[i - 1], t[i])]

\* The reading of the reference, one character at a time.
LEMMA ReadsExists ==
    ASSUME NEW t, NEW n \in Nat
    PROVE  \E r : Reads(r, t, n)
<1> DEFINE S == {k \in Nat : \E r : Reads(r, t, k)}
<1>1. 0 \in S
    <2> DEFINE r == [i \in 0 .. 0 |-> Start]
    <2>1. Reads(r, t, 0)  BY DEF Reads
    <2> QED  BY <2>1
<1>2. ASSUME NEW k \in S PROVE k + 1 \in S
    <2>1. k \in Nat /\ k + 1 \in Nat  OBVIOUS
    <2>2. PICK r : Reads(r, t, k)  OBVIOUS
    <2> DEFINE V(f, i) == IF i = 0 THEN Start ELSE Read(f[i - 1], t[i])
               g == [i \in 0 .. (k + 1) |-> IF i = k + 1 THEN V(r, i) ELSE r[i]]
    <2>3. \A i \in 0 .. k : r[i] = V(r, i)  BY <2>2 DEF Reads
    <2>4. \A i \in 0 .. k : g[i] = r[i]  BY <2>1
    <2>5. ASSUME NEW i \in 0 .. (k + 1) PROVE g[i] = V(g, i)
        <3>1. g[i] = V(r, i)
            <4>1. CASE i = k + 1  BY <4>1
            <4>2. CASE i # k + 1
                <5>1. i \in 0 .. k  BY <2>1, <4>2
                <5> QED  BY <2>3, <2>4, <5>1
            <4> QED  BY <4>1, <4>2
        <3>2. CASE i = 0  BY <3>1, <3>2
        <3>3. CASE i # 0
            <4>1. i - 1 \in 0 .. k  BY <2>1, <3>3
            <4>2. g[i - 1] = r[i - 1]  BY <2>4, <4>1
            <4> QED  BY <3>1, <3>3, <4>2
        <3> QED  BY <3>2, <3>3
    <2>6. g = [i \in 0 .. (k + 1) |-> g[i]]  OBVIOUS
    <2> HIDE DEF g
    <2>7. Reads(g, t, k + 1)  BY <2>5, <2>6 DEF Reads
    <2> QED  BY <2>1, <2>7
<1> HIDE DEF S
<1>3. S = Nat
    <2>1. S \in SUBSET Nat  BY DEF S
    <2> QED  BY <1>1, <1>2, <2>1, Induction
<1> QED  BY <1>3 DEF S

\* It begins with nothing read.
LEMMA ReadingIs ==
    ASSUME NEW t, IsLine(t)
    PROVE  /\ Reading(t)[0] = Start
           /\ \A i \in 1 .. Len(t) : Reading(t)[i] = Read(Reading(t)[i - 1], t[i])
<1> DEFINE r == CHOOSE r : Reads(r, t, Len(t))
<1>1. Reading(t) = r  BY DEF Reading, Reads
<1>2. Reads(r, t, Len(t))  BY ReadsExists, LineIs
<1> HIDE DEF r
<1>3. Len(t) \in Nat  BY LineIs
<1>4. \A i \in 0 .. Len(t) : r[i] = IF i = 0 THEN Start ELSE Read(r[i - 1], t[i])  BY <1>2 DEF Reads
<1>5. r[0] = Start  BY <1>3, <1>4
<1>6. \A i \in 1 .. Len(t) : i \in 0 .. Len(t) /\ i # 0  BY <1>3
<1>7. \A i \in 1 .. Len(t) : r[i] = Read(r[i - 1], t[i])  BY <1>4, <1>6
<1> QED  BY <1>1, <1>5, <1>7

Letter == Char \cup {Esc}
Sign == Symbol \cup {"+"}
TokenType == [op : Sign \cup {"a"}, word : Seq(Letter)]
State == [quote : Modes, esc : BOOLEAN, open : BOOLEAN, word : Seq(Letter),
          toks : Seq(TokenType), gt : BOOLEAN, pair : BOOLEAN, odd : BOOLEAN]

\* Nothing read is a state of the reading.
LEMMA StartIs == Start \in State
    BY EmptySeq DEF Start, State, Modes

\* Characters of a word only make the word longer.
LEMMA AddIs ==
    ASSUME NEW st \in State, NEW cs \in Seq(Letter)
    PROVE  /\ Add(st, cs) \in State
           /\ Add(st, cs).quote = st.quote /\ ~Add(st, cs).esc /\ Add(st, cs).open
           /\ Add(st, cs).word = st.word \o cs /\ Add(st, cs).toks = st.toks
           /\ ~Add(st, cs).gt /\ ~Add(st, cs).pair /\ Add(st, cs).odd = st.odd
<1>1. st.word \o cs \in Seq(Letter)  BY ConcatProperties DEF State
<1> QED  BY <1>1 DEF Add, State

\* The end of a word makes it a token, and changes nothing else.
LEMMA CloseIs ==
    ASSUME NEW st \in State
    PROVE  /\ Close(st) \in State
           /\ Close(st).quote = st.quote /\ Close(st).esc = st.esc /\ ~Close(st).open
           /\ Close(st).gt = st.gt /\ Close(st).pair = st.pair /\ Close(st).odd = st.odd
           /\ Close(st).toks = IF st.open THEN Append(st.toks, [op |-> "a", word |-> st.word])
                               ELSE st.toks
           /\ Close(st).word = IF st.open THEN <<>> ELSE st.word
<1>1. st.open => Append(st.toks, [op |-> "a", word |-> st.word]) \in Seq(TokenType)
    BY AppendProperties DEF State, TokenType
<1>2. <<>> \in Seq(Letter)  BY EmptySeq
<1> QED  BY <1>1, <1>2 DEF Close, State

\* What every reading keeps to.
Sound(st) ==
    /\ st \in State
    /\ st.gt => ~st.open /\ st.toks # <<>> /\ st.toks[Len(st.toks)] = Op(">")
    /\ st.esc \/ st.quote # "none" => st.open
    /\ ~st.open => st.word = <<>>
    /\ st.pair => st.quote # "none"

Within(st, c) == st.quote # "none" \/ st.esc \/ c \notin Blank \cup Symbol
\* The characters of the word that c settles.
Piece(st, c) ==
    IF st.esc THEN IF st.quote = "none" \/ c \in {st.quote, Esc} THEN <<c>> ELSE <<Esc, c>>
    ELSE IF c = Esc \/ (IF st.quote = "none" THEN c \in Quote ELSE c = st.quote) THEN <<>> ELSE <<c>>

\* The kinds of characters are told apart.
LEMMA Characters ==
    /\ Quote \cap (Blank \cup Symbol \cup {Esc}) = {} /\ Esc \notin Blank \cup Symbol
    /\ Blank \cap Symbol = {} /\ Single # Double
    /\ Modes = Quote \cup {"none"} /\ "none" \notin Quote \cup Blank \cup Symbol \cup {Esc}
    BY DEF Quote, Blank, Symbol, Esc, NL, Single, Double, Modes

\* r is what is read when c is part of a word.
Goes(st, c, r) ==
    /\ Sound(r) /\ r.open /\ ~r.gt /\ r.toks = st.toks
    /\ r.word = st.word \o Piece(st, c)
    /\ r.quote = IF st.esc THEN st.quote
                 ELSE IF st.quote # "none" THEN IF c = st.quote THEN "none" ELSE st.quote
                 ELSE IF c \in Quote THEN c ELSE "none"
    /\ r.esc <=> ~st.esc /\ c = Esc
    /\ st.esc /\ st.quote # "none" /\ c = Esc => r.pair
    /\ r.odd <=> st.odd \/ (~st.esc /\ st.pair /\ c = Single /\ st.quote = Single)

\* A character of a word, whatever quotes it is in.
LEMMA ReadWithin ==
    ASSUME NEW st, Sound(st), NEW c \in Char, Within(st, c)
    PROVE  Goes(st, c, Read(st, c))
<1> DEFINE r == Read(st, c)
<1>1. st \in State /\ c \in Letter  BY DEF Sound, Letter
<1>2. <<c>> \in Seq(Letter) /\ <<Esc, c>> \in Seq(Letter) /\ <<>> \in Seq(Letter)
    BY <1>1, EmptySeq DEF Letter
<1>3. st.word \in Seq(Letter) /\ st.word \o <<>> = st.word
    BY <1>1, ConcatEmptySeq DEF State
<1>8. /\ st.quote \in Modes /\ st.esc \in BOOLEAN /\ st.open \in BOOLEAN /\ st.gt \in BOOLEAN
      /\ st.pair \in BOOLEAN /\ st.odd \in BOOLEAN
    BY <1>1 DEF State
<1>9. ASSUME NEW cs \in Seq(Letter), r = Add(st, cs)
      PROVE  /\ r \in State /\ r.quote = st.quote /\ ~r.esc /\ r.open
             /\ r.word = st.word \o cs /\ r.toks = st.toks /\ ~r.gt /\ ~r.pair /\ r.odd = st.odd
    BY <1>1, <1>9, AddIs
<1>4. CASE st.quote # "none" /\ st.esc
    <2>1. CASE c \in {st.quote, Esc}
        <3>1. r = [Add(st, <<c>>) EXCEPT !.pair = (c = Esc)]  BY <1>4, <2>1 DEF Read
        <3> DEFINE a == Add(st, <<c>>)
        <3>4. /\ a \in State /\ a.quote = st.quote /\ ~a.esc /\ a.open /\ a.word = st.word \o <<c>>
              /\ a.toks = st.toks /\ ~a.gt /\ a.odd = st.odd
            BY <1>1, <1>2, AddIs
        <3>5. r = [a EXCEPT !.pair = (c = Esc)] /\ (c = Esc) \in BOOLEAN  BY <3>1
        <3> HIDE DEF a, r
        <3>2. /\ r \in State /\ r.quote = st.quote /\ ~r.esc /\ r.open /\ r.word = st.word \o <<c>>
              /\ r.toks = st.toks /\ ~r.gt /\ r.odd = st.odd /\ r.pair = (c = Esc)
            BY <3>4, <3>5 DEF State
        <3>3. Piece(st, c) = <<c>>  BY <1>4, <2>1 DEF Piece
        <3> QED  BY <1>4, <1>8, <3>2, <3>3 DEF Sound, Goes, r
    <2>2. CASE c \notin {st.quote, Esc}
        <3>1. r = Add(st, <<Esc, c>>)  BY <1>4, <2>2 DEF Read
        <3>2. Piece(st, c) = <<Esc, c>>  BY <1>4, <2>2 DEF Piece
        <3> QED  BY <1>1, <1>2, <1>8, <1>9, <1>4, <2>2, <3>1, <3>2 DEF Sound, Goes
    <2> QED  BY <2>1, <2>2
<1>5. CASE st.quote # "none" /\ ~st.esc
    <2>1. CASE c = Esc
        <3>1. r = [st EXCEPT !.esc = TRUE]  BY <1>5, <2>1 DEF Read
        <3>2. Piece(st, c) = <<>>  BY <1>5, <2>1 DEF Piece
        <3>3. c # Single /\ c # st.quote  BY <1>1, <2>1, Characters DEF Quote, State
        <3> QED  BY <1>1, <1>3, <1>5, <2>1, <3>1, <3>2, <3>3 DEF Goes, Sound, State
    <2>2. CASE c = st.quote
        <3>1. c # Esc /\ c \in Quote  BY <1>1, <1>5, <2>2, Characters DEF State
        <3>2. r = [st EXCEPT !.quote = "none", !.pair = FALSE, !.odd = @ \/ (st.pair /\ c = Single)]
            BY <1>5, <2>2, <3>1 DEF Read
        <3>3. Piece(st, c) = <<>>  BY <1>5, <2>2 DEF Piece
        <3> QED  BY <1>1, <1>3, <1>5, <2>2, <3>1, <3>2, <3>3 DEF Goes, Sound, State, Modes
    <2>3. CASE c # Esc /\ c # st.quote
        <3>1. r = Add(st, <<c>>)  BY <1>5, <2>3 DEF Read
        <3>2. Piece(st, c) = <<c>>  BY <1>5, <2>3 DEF Piece
        <3> QED  BY <1>1, <1>2, <1>8, <1>9, <1>5, <2>3, <3>1, <3>2 DEF Sound, Goes
    <2> QED  BY <2>1, <2>2, <2>3
<1>6. CASE st.quote = "none" /\ st.esc
    <2>1. r = Add(st, <<c>>)  BY <1>6 DEF Read
    <2>2. Piece(st, c) = <<c>>  BY <1>6 DEF Piece
    <2> QED  BY <1>1, <1>2, <1>8, <1>9, <1>6, <2>1, <2>2 DEF Sound, Goes, Single
<1>7. CASE st.quote = "none" /\ ~st.esc
    <2>1. c \notin Blank \cup Symbol  BY <1>7 DEF Within
    <2>2. CASE c = Esc
        <3>1. r = [st EXCEPT !.esc = TRUE, !.open = TRUE, !.gt = FALSE]  BY <1>7, <2>2 DEF Read
        <3>2. Piece(st, c) = <<>>  BY <1>7, <2>2 DEF Piece
        <3>3. c \notin Quote  BY <2>2, Characters
        <3> QED  BY <1>1, <1>3, <1>7, <2>2, <3>1, <3>2, <3>3 DEF Goes, Sound, State, Single
    <2>3. CASE c \in Quote
        <3>1. c # Esc /\ c \in Modes /\ c # "none"  BY <2>3, Characters
        <3>2. r = [st EXCEPT !.quote = c, !.open = TRUE, !.gt = FALSE]
            BY <1>7, <2>3, <3>1 DEF Read, Quote
        <3>3. Piece(st, c) = <<>>  BY <1>7, <2>3 DEF Piece
        <3> QED  BY <1>1, <1>3, <1>7, <2>3, <3>1, <3>2, <3>3 DEF Goes, Sound, State, Single
    <2>4. CASE c # Esc /\ c \notin Quote
        <3>1. c # ">"  BY <2>1 DEF Symbol
        <3>2. r = Add(st, <<c>>)  BY <1>7, <2>1, <2>4, <3>1 DEF Read, Quote
        <3>3. Piece(st, c) = <<c>>  BY <1>7, <2>4 DEF Piece
        <3> QED  BY <1>1, <1>2, <1>8, <1>9, <1>7, <2>4, <3>2, <3>3 DEF Sound, Goes, Single
    <2> QED  BY <2>2, <2>3, <2>4
<1> QED  BY <1>4, <1>5, <1>6, <1>7

\* r is what is read when c ends a word or is outside of one.
Stops(st, c, r) ==
    /\ Sound(r) /\ ~r.open /\ ~r.esc /\ r.quote = "none" /\ (r.odd <=> st.odd)
    /\ r.gt <=> c = ">" /\ ~st.gt
    /\ r.toks = IF c \in Blank THEN Close(st).toks
                ELSE IF c = ">" /\ st.gt THEN [st.toks EXCEPT ![Len(st.toks)] = Op("+")]
                ELSE Append(Close(st).toks, Op(c))

\* An operator is a token without a word.
LEMMA OpIs ==
    ASSUME NEW c \in Sign
    PROVE  Op(c) \in TokenType /\ Op(c).op = c /\ Op(c).word = <<>>
    BY EmptySeq DEF Op, TokenType

\* A blank or a symbol out of quotes ends the word.
LEMMA ReadBeyond ==
    ASSUME NEW st, Sound(st), NEW c \in Char, ~Within(st, c)
    PROVE  Stops(st, c, Read(st, c))
<1> DEFINE r == Read(st, c)
           d == Close(st)
<1>1. st \in State /\ st.quote = "none" /\ ~st.esc /\ c \in Blank \cup Symbol
    BY DEF Sound, Within, State
<1>2. /\ d \in State /\ d.quote = st.quote /\ d.esc = st.esc /\ ~d.open /\ d.gt = st.gt
      /\ d.pair = st.pair /\ d.odd = st.odd /\ d.word = <<>>
      /\ st.gt => d.toks = st.toks
    BY <1>1, CloseIs DEF Sound
<1>3. c # Esc /\ c \notin Quote /\ (c \in Symbol => c \notin Blank) /\ c # Single /\ c # Double
    BY <1>1, Characters DEF Quote
<1>4. st.toks \in Seq(TokenType) /\ ~st.pair /\ st.gt \in BOOLEAN  BY <1>1 DEF State, Sound
<1> HIDE DEF d
<1>5. CASE c \in Blank
    <2>1. r = [d EXCEPT !.gt = FALSE]  BY <1>1, <1>3, <1>5 DEF Read, d
    <2>2. c # ">"  BY <1>5 DEF Blank, NL
    <2> QED  BY <1>1, <1>2, <1>4, <1>5, <2>1, <2>2 DEF Stops, Sound, State, d
<1>6. CASE c \notin Blank /\ c = ">" /\ st.gt
    <2>1. r = [st EXCEPT !.toks = [@ EXCEPT ![Len(@)] = Op("+")], !.gt = FALSE]
        BY <1>1, <1>3, <1>6 DEF Read
    <2>2. ~st.open /\ st.toks # <<>> /\ st.word = <<>>  BY <1>1, <1>6 DEF Sound
    <2>3. [st.toks EXCEPT ![Len(st.toks)] = Op("+")] \in Seq(TokenType)
        <3>1. Op("+") \in TokenType  BY OpIs DEF Sign
        <3>2. Len(st.toks) \in 1 .. Len(st.toks)  BY <1>4, <2>2, LenProperties, EmptySeq
        <3> QED  BY <1>4, <3>1, <3>2, ExceptSeq
    <2> HIDE DEF r
    <2>4. r.toks = [st.toks EXCEPT ![Len(st.toks)] = Op("+")]  BY <1>1, <2>1 DEF State
    <2> HIDE DEF State
    <2>5. r \in State  BY <1>1, <2>1, <2>3 DEF State
    <2>6. ~r.open /\ ~r.gt /\ ~r.pair /\ ~r.esc /\ r.quote = "none" /\ r.odd = st.odd /\ r.word = <<>>
        BY <1>1, <1>4, <2>1, <2>2 DEF State
    <2> QED  BY <1>1, <1>6, <2>4, <2>5, <2>6 DEF Stops, Sound, r
<1>7. CASE c \in Symbol /\ ~(c = ">" /\ st.gt)
    <2>1. r = [d EXCEPT !.toks = Append(@, Op(c)), !.gt = (c = ">")]
        BY <1>1, <1>3, <1>7 DEF Read, d
    <2>2. Op(c) \in TokenType  BY <1>7, OpIs DEF Sign
    <2>3. Append(d.toks, Op(c)) \in Seq(TokenType) /\ d.toks \in Seq(TokenType)
        BY <1>2, <2>2, AppendProperties DEF State
    <2>4. Append(d.toks, Op(c)) # <<>> /\ Append(d.toks, Op(c))[Len(Append(d.toks, Op(c)))] = Op(c)
        BY <2>2, <2>3, AppendProperties, EmptySeq
    <2>7. (c = ">") \in BOOLEAN  OBVIOUS
    <2> HIDE DEF r
    <2>5. r \in State /\ r.toks = Append(d.toks, Op(c)) /\ r.gt = (c = ">")
        BY <1>2, <2>1, <2>3, <2>7 DEF State
    <2>6. ~r.open /\ ~r.pair /\ ~r.esc /\ r.quote = "none" /\ r.odd = st.odd /\ r.word = <<>>
        BY <1>1, <1>2, <1>4, <2>1 DEF State
    <2>8. Sound(r)  BY <2>4, <2>5, <2>6 DEF Sound
    <2>9. r.gt <=> c = ">" /\ ~st.gt  BY <1>4, <1>7, <2>5
    <2> QED  BY <1>3, <1>7, <2>5, <2>6, <2>8, <2>9 DEF Stops, r, d
<1> QED  BY <1>1, <1>5, <1>6, <1>7

\* Nothing read is consistent.
LEMMA SoundStart == Sound(Start)
    BY StartIs DEF Sound, Start

\* The reading after i characters.
After(t, i) == Reading(t)[i]

\* The reading is consistent at every character of the line.
LEMMA AfterIs ==
    ASSUME NEW t, IsLine(t)
    PROVE  /\ After(t, 0) = Start
           /\ \A i \in 0 .. Len(t) : Sound(After(t, i))
           /\ \A i \in 1 .. Len(t) : i - 1 \in 0 .. Len(t) /\ t[i] \in Char
           /\ \A i \in 1 .. Len(t) : After(t, i) = Read(After(t, i - 1), t[i])
<1> DEFINE S == {i \in Nat : i <= Len(t) => Sound(After(t, i))}
<1>1. Len(t) \in Nat  BY LineIs
<1>2. After(t, 0) = Start /\ \A i \in 1 .. Len(t) : After(t, i) = Read(After(t, i - 1), t[i])
    BY ReadingIs DEF After
<1>3. 0 \in S  BY <1>2, SoundStart
<1>4. ASSUME NEW i \in S PROVE i + 1 \in S
    <2> SUFFICES ASSUME i + 1 <= Len(t) PROVE Sound(After(t, i + 1))
        OBVIOUS
    <2>1. i + 1 \in 1 .. Len(t) /\ (i + 1) - 1 = i /\ Sound(After(t, i))  BY <1>1
    <2>2. t[i + 1] \in Char  BY <2>1, LineIs
    <2>3. After(t, i + 1) = Read(After(t, i), t[i + 1])  BY <1>2, <2>1
    <2> DEFINE st == After(t, i)
               c == t[i + 1]
    <2>4. CASE Within(st, c)
        <3>1. Goes(st, c, Read(st, c))  BY <2>1, <2>2, <2>4, ReadWithin
        <3> QED  BY <2>3, <3>1 DEF Goes
    <2>5. CASE ~Within(st, c)
        <3>1. Stops(st, c, Read(st, c))  BY <2>1, <2>2, <2>5, ReadBeyond
        <3> QED  BY <2>3, <3>1 DEF Stops
    <2> QED  BY <2>4, <2>5
<1> HIDE DEF S
<1>5. S = Nat
    <2>1. S \in SUBSET Nat  BY DEF S
    <2> QED  BY <1>3, <1>4, <2>1, Induction
<1>6. \A i \in 0 .. Len(t) : Sound(After(t, i))  BY <1>1, <1>5 DEF S
<1>7. \A i \in 1 .. Len(t) : i - 1 \in 0 .. Len(t) /\ t[i] \in Char  BY <1>1, LineIs
<1> QED  BY <1>2, <1>6, <1>7

\* What one character of the line does to the quotes and the escape.
LEMMA StepIs ==
    ASSUME NEW t, IsLine(t), NEW i \in 1 .. Len(t)
    PROVE  LET st == After(t, i - 1)
               r == After(t, i)
               c == t[i]
           IN /\ st \in State /\ r \in State /\ Sound(st) /\ Sound(r)
              /\ st.quote \in Modes /\ r.quote \in Modes
              /\ r.quote = IF st.esc THEN st.quote
                           ELSE IF st.quote # "none" THEN IF c = st.quote THEN "none" ELSE st.quote
                           ELSE IF c \in Quote THEN c ELSE "none"
              /\ r.esc <=> ~st.esc /\ c = Esc
              /\ st.esc /\ st.quote # "none" /\ c = Esc => r.pair
              /\ r.odd <=> st.odd \/ (~st.esc /\ st.pair /\ c = Single /\ st.quote = Single)
<1> DEFINE st == After(t, i - 1)
           r == After(t, i)
           c == t[i]
<1>1. i - 1 \in 0 .. Len(t) /\ i \in 0 .. Len(t) /\ c \in Char  BY AfterIs, LineIs
<1>2. Sound(st) /\ Sound(r) /\ r = Read(st, c)  BY <1>1, AfterIs
<1> HIDE DEF st, r, c
<1>3. st \in State /\ r \in State /\ st.quote \in Modes /\ r.quote \in Modes
    BY <1>2 DEF Sound, State
<1>4. CASE Within(st, c)
    <2>1. Goes(st, c, r)  BY <1>1, <1>2, <1>4, ReadWithin
    <2> QED  BY <1>2, <1>3, <2>1 DEF Goes, st, r, c
<1>5. CASE ~Within(st, c)
    <2>1. Stops(st, c, r)  BY <1>1, <1>2, <1>5, ReadBeyond
    <2>2. ~st.esc /\ st.quote = "none" /\ c # Esc /\ c \notin Quote
        BY <1>3, <1>5, Characters DEF Within
    <2>3. ~r.esc /\ r.quote = "none" /\ (r.odd <=> st.odd) /\ st.quote # Single
        BY <2>1, <2>2 DEF Stops, Single
    <2> QED  BY <1>2, <1>3, <2>2, <2>3 DEF st, r, c
<1> QED  BY <1>4, <1>5

\* A backslash that is not itself escaped takes the next character with it.
LEMMA Escaped ==
    ASSUME NEW t, IsLine(t), NEW i \in 1 .. Len(t), ~After(t, i - 1).esc, t[i] = Esc
    PROVE  /\ i + 1 \in 1 .. Len(t) /\ i + 2 \in 1 .. End(t)
           /\ After(t, i).esc /\ After(t, i).quote = After(t, i - 1).quote
           /\ ~After(t, i + 1).esc /\ After(t, i + 1).quote = After(t, i - 1).quote
<1>1. i + 1 \in 1 .. Len(t) /\ i + 2 \in 1 .. End(t) /\ (i + 1) - 1 = i
    BY EscapeInside, LineIs
<1>2. After(t, i).esc /\ After(t, i).quote = After(t, i - 1).quote
    <2>1. Esc \notin Quote /\ After(t, i - 1).quote \in Modes  BY Characters, StepIs
    <2> QED  BY <2>1, StepIs, Characters
<1>3. ~After(t, i + 1).esc /\ After(t, i + 1).quote = After(t, i).quote
    BY <1>1, <1>2, StepIs
<1> QED  BY <1>1, <1>2, <1>3

\* A line does not end within an escape.
LEMMA LastIsClear ==
    ASSUME NEW t, IsLine(t)
    PROVE  ~After(t, Len(t)).esc
<1>1. Len(t) \in 1 .. Len(t) /\ t[Len(t)] # Esc  BY LineIs
<1> QED  BY <1>1, StepIs

\* The word or operator that would begin at i begins there in the reading, too.
Clear(t, i) == i = End(t) \/ (After(t, i - 1).quote = "none" /\ ~After(t, i - 1).esc)
SymbolAt(t, j) == After(t, j - 1).quote = "none" /\ ~After(t, j - 1).esc /\ t[j] \in Symbol
SymbolFrom(t, i) == \E j \in i .. Len(t) : SymbolAt(t, j)

\* has_control_operator() finds the symbols that the reference has out of quotes.
LEMMA HasControlMeans ==
    ASSUME NEW t, IsLine(t)
    PROVE  HasControl(t) = SymbolFrom(t, 1)
<1> DEFINE n == End(t)
           Q(i) == After(t, i - 1).quote
<1>1. n \in Nat /\ n >= 1 /\ n = Len(t) + 1 /\ Len(t) \in Nat  BY LineIs
<1>2. PICK h : HasControl(t) = h[1]["none"] /\ Controls(h, t)  BY HasControlIs
<1> DEFINE S == {m \in Nat : \A k \in 1 .. n : k >= n - m /\ ~After(t, k - 1).esc
                                 => h[k][Q(k)] = SymbolFrom(t, k)}
<1>3. 0 \in S
    <2>1. Q(n) \in Modes /\ n - 1 = Len(t) /\ n \in 1 .. n
        <3>1. Len(t) \in 0 .. Len(t) /\ n - 1 = Len(t)  BY <1>1
        <3>2. Sound(After(t, Len(t)))  BY <3>1, AfterIs
        <3> QED  BY <1>1, <3>1, <3>2 DEF Sound, State
    <2>2. h[n][Q(n)] = FALSE  BY <1>2, <2>1, Zenon DEF Controls
    <2>3. SymbolFrom(t, n) = FALSE  BY <1>1 DEF SymbolFrom
    <2>4. \A k \in 1 .. n : k >= n - 0 => k = n  BY <1>1
    <2> HIDE DEF Q, n
    <2> QED  BY <2>2, <2>3, <2>4
<1>4. ASSUME NEW m \in S PROVE m + 1 \in S
    <2> SUFFICES ASSUME NEW k \in 1 .. n, k >= n - (m + 1), ~After(t, k - 1).esc
                 PROVE  h[k][Q(k)] = SymbolFrom(t, k)
        OBVIOUS
    <2>1. m \in Nat /\ k \in 1 .. n /\ k >= n - (m + 1)  OBVIOUS
    <2>2. \A j \in 1 .. n : j >= n - m /\ ~After(t, j - 1).esc => h[j][Q(j)] = SymbolFrom(t, j)
        OBVIOUS
    <2>3. CASE k >= n - m  BY <2>2, <2>3
    <2>4. CASE ~(k >= n - m)
        <3>1. k \in 1 .. Len(t) /\ k # n /\ k + 1 \in 1 .. n /\ k + 1 >= n - m /\ (k + 1) - 1 = k
            BY <1>1, <2>1, <2>4
        <3>2. Q(k) \in Modes  BY <3>1, StepIs
        <3>3. h[k][Q(k)] = IF t[k] = Esc THEN h[k + 2][Q(k)]
                           ELSE IF Q(k) # "none" THEN h[k + 1][IF t[k] = Q(k) THEN "none" ELSE Q(k)]
                           ELSE IF t[k] \in Quote THEN h[k + 1][t[k]]
                           ELSE t[k] \in Symbol \/ h[k + 1][Q(k)]
            BY <1>2, <3>1, <3>2, Zenon DEF Controls
        <3>4. CASE t[k] = Esc
            <4>1. k + 2 \in 1 .. n /\ k + 2 >= n - m /\ (k + 2) - 1 = k + 1  BY <1>1, <3>1, <3>4, Escaped
            <4>2. Q(k + 2) = Q(k) /\ ~After(t, (k + 2) - 1).esc  BY <3>1, <3>4, <4>1, Escaped
            <4>3. h[k + 2][Q(k + 2)] = SymbolFrom(t, k + 2)  BY <2>2, <4>1, <4>2
            <4>4. SymbolFrom(t, k) = SymbolFrom(t, k + 2)
                <5>1. ~SymbolAt(t, k)  BY <3>4, Characters DEF SymbolAt
                <5>2. ~SymbolAt(t, k + 1)  BY <3>1, <3>4, Escaped DEF SymbolAt
                <5>3. \A j \in k .. Len(t) : j = k \/ j = k + 1 \/ j \in (k + 2) .. Len(t)
                    BY <1>1, <3>1
                <5>4. \A j \in (k + 2) .. Len(t) : j \in k .. Len(t)  BY <1>1, <3>1
                <5> QED  BY <5>1, <5>2, <5>3, <5>4 DEF SymbolFrom
            <4> HIDE DEF Q
            <4> QED  BY <3>3, <3>4, <4>2, <4>3, <4>4, Zenon
        <3>5. CASE t[k] # Esc
            <4>1. ~After(t, (k + 1) - 1).esc  BY <3>1, <3>5, StepIs
            <4>2. h[k + 1][Q(k + 1)] = SymbolFrom(t, k + 1)  BY <2>2, <3>1, <4>1
            <4>3. Q(k + 1) = IF Q(k) # "none" THEN IF t[k] = Q(k) THEN "none" ELSE Q(k)
                             ELSE IF t[k] \in Quote THEN t[k] ELSE "none"
                BY <3>1, StepIs
            <4>4. SymbolFrom(t, k) = (SymbolAt(t, k) \/ SymbolFrom(t, k + 1))
                <5>1. \A j \in k .. Len(t) : j = k \/ j \in (k + 1) .. Len(t)  BY <1>1, <3>1
                <5>2. \A j \in (k + 1) .. Len(t) : j \in k .. Len(t)  BY <1>1, <3>1
                <5>3. k \in k .. Len(t)  BY <3>1
                <5> QED  BY <5>1, <5>2, <5>3 DEF SymbolFrom
            <4>5. SymbolAt(t, k) = (Q(k) = "none" /\ t[k] \in Symbol)  BY DEF SymbolAt
            <4>6. t[k] \in Quote => t[k] \notin Symbol  BY Characters
            <4>10. ~SymbolAt(t, k) => SymbolFrom(t, k) = SymbolFrom(t, k + 1)
                <5>1. \A j \in k .. Len(t) : j = k \/ j \in (k + 1) .. Len(t)  BY <1>1, <3>1
                <5>2. \A j \in (k + 1) .. Len(t) : j \in k .. Len(t)  BY <1>1, <3>1
                <5> QED  BY <5>1, <5>2 DEF SymbolFrom
            <4> HIDE DEF Q
            <4>7. CASE Q(k) # "none"
                <5>1. Q(k + 1) = IF t[k] = Q(k) THEN "none" ELSE Q(k)  BY <4>3, <4>7
                <5>2. h[k][Q(k)] = h[k + 1][IF t[k] = Q(k) THEN "none" ELSE Q(k)]
                    BY <3>3, <3>5, <4>7, Zenon
                <5>3. SymbolFrom(t, k) = SymbolFrom(t, k + 1)
                    <6>1. ~SymbolAt(t, k)  BY <4>5, <4>7, Zenon
                    <6> QED  BY <4>10, <6>1, Zenon
                <5> QED  BY <4>2, <5>1, <5>2, <5>3, Zenon
            <4>8. CASE Q(k) = "none" /\ t[k] \in Quote
                <5>1. Q(k + 1) = t[k]  BY <4>3, <4>8
                <5>2. h[k][Q(k)] = h[k + 1][t[k]]  BY <3>3, <3>5, <4>8, Zenon
                <5>3. SymbolFrom(t, k) = SymbolFrom(t, k + 1)
                    <6>1. ~SymbolAt(t, k)  BY <4>5, <4>6, <4>8, Zenon
                    <6> QED  BY <4>10, <6>1, Zenon
                <5> QED  BY <4>2, <5>1, <5>2, <5>3, Zenon
            <4>9. CASE Q(k) = "none" /\ t[k] \notin Quote
                BY <3>3, <3>5, <4>2, <4>3, <4>4, <4>5, <4>9, Zenon
            <4> QED  BY <4>7, <4>8, <4>9
        <3> QED  BY <3>4, <3>5
    <2> QED  BY <2>3, <2>4
<1> HIDE DEF S
<1>5. S = Nat
    <2>1. S \in SUBSET Nat  BY DEF S
    <2> QED  BY <1>3, <1>4, <2>1, Induction
<1>6. n - 1 \in S /\ 1 \in 1 .. n /\ 1 >= n - (n - 1) /\ 1 - 1 = 0  BY <1>1, <1>5
<1>7. Q(1) = "none" /\ ~After(t, 1 - 1).esc  BY <1>6, AfterIs DEF Start
<1>8. h[1][Q(1)] = SymbolFrom(t, 1)  BY <1>6, <1>7 DEF S
<1> QED  BY <1>2, <1>7, <1>8

\* A reading without the case in which gettoken() and dequote() disagree.
Even(t) == IsLine(t) /\ ~After(t, Len(t)).odd

\* A line in which they do not disagree has no character after which they do.
LEMMA EvenAll ==
    ASSUME NEW t, Even(t), NEW i \in 0 .. Len(t)
    PROVE  ~After(t, i).odd
<1> DEFINE n == Len(t)
           S == {m \in Nat : \A k \in 0 .. n : k >= n - m => ~After(t, k).odd}
<1>1. n \in Nat /\ IsLine(t) /\ ~After(t, n).odd  BY LineIs DEF Even
<1>2. 0 \in S
    <2>1. \A k \in 0 .. n : k >= n - 0 => k = n  BY <1>1
    <2> QED  BY <1>1, <2>1
<1>3. ASSUME NEW m \in S PROVE m + 1 \in S
    <2> SUFFICES ASSUME NEW k \in 0 .. n, k >= n - (m + 1) PROVE ~After(t, k).odd
        OBVIOUS
    <2>1. \A j \in 0 .. n : j >= n - m => ~After(t, j).odd  OBVIOUS
    <2>2. CASE k >= n - m  BY <2>1, <2>2
    <2>3. CASE ~(k >= n - m)
        <3>1. m \in Nat  OBVIOUS
        <3>2. k + 1 \in 1 .. n /\ k + 1 \in 0 .. n /\ k + 1 >= n - m /\ (k + 1) - 1 = k
            BY <1>1, <2>3, <3>1
        <3>3. After(t, k + 1).odd <=> After(t, k).odd \/ (/\ ~After(t, k).esc /\ After(t, k).pair
                                        /\ t[k + 1] = Single /\ After(t, k).quote = Single)
            BY <1>1, <3>2, StepIs
        <3> QED  BY <2>1, <3>2, <3>3
    <2> QED  BY <2>2, <2>3
<1> HIDE DEF S
<1>4. S = Nat
    <2>1. S \in SUBSET Nat  BY DEF S
    <2> QED  BY <1>2, <1>3, <2>1, Induction
<1>5. n - i \in S /\ i >= n - (n - i)  BY <1>1, <1>4
<1> QED  BY <1>5 DEF S

\* gettoken() is inside the quote q at i.
InQuote(t, q, i) ==
    /\ After(t, i - 1).quote = q
    /\ After(t, i - 1).esc => q = Single /\ i # End(t) /\ t[i] # Single
\* It leaves the quote where the reading does.
Leaves(t, q, i, e) ==
    /\ e \in i .. End(t)
    /\ \A j \in i .. e : After(t, j - 1).quote = q
    /\ e = End(t) \/ (t[e] = q /\ ~After(t, e - 1).esc)

\* The scan for a closing quote stops where the reference leaves the quotes.
LEMMA QuoteEndMeans ==
    ASSUME NEW t, Even(t), NEW q \in Quote, NEW i \in 1 .. End(t), InQuote(t, q, i)
    PROVE  Leaves(t, q, i, QuoteEnd(t, i, q))
<1> DEFINE n == End(t)
           e(k) == QuoteEnd(t, k, q)
           S == {m \in Nat : \A k \in 1 .. n : k >= n - m /\ InQuote(t, q, k) => Leaves(t, q, k, e(k))}
<1>1. n \in Nat /\ n >= 1 /\ n = Len(t) + 1 /\ Len(t) \in Nat /\ IsLine(t)  BY LineIs DEF Even
<1>2. q # "none" /\ q # Esc  BY Characters
<1>9. \A k \in 1 .. n : e(k) \in k .. n  BY <1>1, QuoteEndRange
<1>3. ASSUME NEW k \in 1 .. n, InQuote(t, q, k), e(k) = k, k = n \/ (t[k] = q /\ ~After(t, k - 1).esc)
      PROVE  Leaves(t, q, k, e(k))
    <2>1. \A j \in k .. k : j = k  OBVIOUS
    <2>2. k \in k .. n  BY <1>1
    <2> QED  BY <1>3, <2>1, <2>2 DEF Leaves, InQuote
<1>4. ASSUME NEW k \in 1 .. n, NEW l \in {k + 1, k + 2}, l <= n, InQuote(t, q, k), e(k) = e(l),
             Leaves(t, q, l, e(l)), l = k + 2 => After(t, k).quote = q
      PROVE  Leaves(t, q, k, e(k))
    <2>1. l \in 1 .. n /\ k + 1 \in 1 .. n /\ (k + 1) - 1 = k  BY <1>1, <1>4
    <2>2. e(l) \in k .. n  BY <1>1, <1>4, <2>1, <1>9
    <2>3. ASSUME NEW j \in k .. e(l) PROVE After(t, j - 1).quote = q
        <3>1. e(l) \in Nat  BY <1>1, <2>2
        <3> HIDE DEF e, n
        <3>2. j = k \/ (j = k + 1 /\ l = k + 2) \/ j \in l .. e(l)  BY <1>1, <1>4, <3>1
        <3> QED  BY <1>4, <2>1, <3>2 DEF Leaves, InQuote
    <2> QED  BY <1>4, <2>2, <2>3 DEF Leaves
<1>5. 0 \in S
    <2>1. \A k \in 1 .. n : k >= n - 0 => k = n  BY <1>1
    <2>2. n \in 1 .. n /\ e(n) = n  BY <1>1, QuoteEndIs
    <2> HIDE DEF e, n
    <2> QED  BY <1>3, <2>1, <2>2
<1>6. ASSUME NEW m \in S PROVE m + 1 \in S
    <2> SUFFICES ASSUME NEW k \in 1 .. n, k >= n - (m + 1), InQuote(t, q, k)
                 PROVE  Leaves(t, q, k, e(k))
        OBVIOUS
    <2>1. m \in Nat /\ k \in 1 .. n /\ k >= n - (m + 1)  OBVIOUS
    <2>2. \A j \in 1 .. n : j >= n - m /\ InQuote(t, q, j) => Leaves(t, q, j, e(j))  OBVIOUS
    <2>3. e(k) = IF k = n \/ t[k] = q THEN k ELSE IF Skips(t, q, k) THEN e(k + 2) ELSE e(k + 1)
        BY <1>1, QuoteEndIs
    <2>4. CASE k >= n - m  BY <2>2, <2>4
    <2>5. CASE ~(k >= n - m)
        <3>1. /\ k \in 1 .. Len(t) /\ k # n /\ k + 1 \in 1 .. n /\ k + 1 >= n - m /\ (k + 1) - 1 = k
              /\ k + 2 >= n - m /\ (k + 2) - 1 = k + 1
            BY <1>1, <2>1, <2>5
        <3>2. After(t, k - 1).quote = q  BY DEF InQuote
        <3>3. CASE After(t, k - 1).esc
            <4>1. q = Single /\ t[k] # q  BY <3>3 DEF InQuote
            <4>2. After(t, k).quote = q /\ ~After(t, k).esc  BY <1>1, <3>1, <3>2, <3>3, StepIs
            <4>3. ~Skips(t, q, k)
                <5>1. SUFFICES ASSUME Skips(t, q, k) PROVE FALSE
                    OBVIOUS
                <5>2. t[k] = Esc /\ k + 1 < n /\ t[k + 1] = Single  BY <4>1, <5>1 DEF Skips
                <5>3. k + 1 \in 1 .. Len(t) /\ k + 1 \in 0 .. Len(t)  BY <1>1, <3>1, <5>2
                <5>4. After(t, k).pair  BY <1>1, <1>2, <3>1, <3>2, <3>3, <5>2, StepIs
                <5>5. After(t, k + 1).odd
                    BY <1>1, <3>1, <4>1, <4>2, <5>2, <5>3, <5>4, StepIs
                <5> QED  BY <5>3, <5>5, EvenAll
            <4>4. e(k) = e(k + 1)  BY <2>3, <3>1, <4>1, <4>3
            <4>5. InQuote(t, q, k + 1)  BY <3>1, <4>2 DEF InQuote
            <4>6. Leaves(t, q, k + 1, e(k + 1))  BY <2>2, <3>1, <4>5
            <4>7. k + 1 <= n /\ k + 1 # k + 2  BY <1>1, <3>1
            <4> HIDE DEF e, n
            <4> QED  BY <1>4, <4>4, <4>6, <4>7
        <3>4. CASE ~After(t, k - 1).esc /\ t[k] = q
            <4>1. e(k) = k  BY <2>3, <3>4
            <4> HIDE DEF e, n
            <4> QED  BY <1>3, <3>4, <4>1
        <3>5. CASE ~After(t, k - 1).esc /\ t[k] # q /\ t[k] = Esc
            <4>1. /\ k + 1 \in 1 .. Len(t) /\ k + 2 \in 1 .. n /\ After(t, k).esc /\ After(t, k).quote = q
                  /\ ~After(t, k + 1).esc /\ After(t, k + 1).quote = q
                BY <1>1, <3>1, <3>2, <3>5, Escaped
            <4>6. k + 1 <= n /\ k + 2 <= n /\ k + 1 # k + 2 /\ k + 1 < n /\ k + 1 # n  BY <1>1, <3>1, <4>1
            <4>2. CASE Skips(t, q, k)
                <5>1. e(k) = e(k + 2)  BY <2>3, <3>1, <3>5, <4>2
                <5>2. InQuote(t, q, k + 2)  BY <3>1, <4>1 DEF InQuote
                <5>3. Leaves(t, q, k + 2, e(k + 2))  BY <2>2, <3>1, <4>1, <5>2
                <5> HIDE DEF e, n
                <5> QED  BY <1>4, <4>1, <4>6, <5>1, <5>3
            <4>3. CASE ~Skips(t, q, k)
                <5>1. e(k) = e(k + 1)  BY <2>3, <3>1, <3>5, <4>3
                <5>2. q = Single /\ t[k + 1] # Single  BY <3>5, <4>3, <4>6 DEF Skips
                <5>3. InQuote(t, q, k + 1)  BY <3>1, <4>1, <4>6, <5>2 DEF InQuote
                <5>4. Leaves(t, q, k + 1, e(k + 1))  BY <2>2, <3>1, <5>3
                <5> HIDE DEF e, n
                <5> QED  BY <1>4, <4>6, <5>1, <5>4
            <4> QED  BY <4>2, <4>3
        <3>6. CASE ~After(t, k - 1).esc /\ t[k] # q /\ t[k] # Esc
            <4>1. e(k) = e(k + 1)  BY <2>3, <3>1, <3>6 DEF Skips
            <4>2. After(t, k).quote = q /\ ~After(t, k).esc  BY <1>1, <1>2, <3>1, <3>2, <3>6, StepIs
            <4>5. InQuote(t, q, k + 1)  BY <3>1, <4>2 DEF InQuote
            <4>6. Leaves(t, q, k + 1, e(k + 1))  BY <2>2, <3>1, <4>5
            <4>7. k + 1 <= n /\ k + 1 # k + 2  BY <1>1, <3>1
            <4> HIDE DEF e, n
            <4> QED  BY <1>4, <4>1, <4>6, <4>7
        <3> QED  BY <3>3, <3>4, <3>5, <3>6
    <2> QED  BY <2>4, <2>5
<1> HIDE DEF S
<1>7. S = Nat
    <2>1. S \in SUBSET Nat  BY DEF S
    <2> QED  BY <1>5, <1>6, <2>1, Induction
<1>8. n - i \in S /\ i >= n - (n - i)  BY <1>1, <1>7
<1> QED  BY <1>8 DEF S

\* The characters from i up to e are part of a word.
AllWithin(t, i, e) == \A j \in i .. (e - 1) : Within(After(t, j - 1), t[j])
IsWord(t, i, e) ==
    /\ e \in i .. End(t) /\ AllWithin(t, i, e) /\ Clear(t, e)
    /\ e = End(t) \/ t[e] \in Blank \cup Symbol

\* What is passed with a quote is within one word.
LEMMA PastQuoteMeans ==
    ASSUME NEW t, Even(t), NEW i \in 1 .. Len(t), Clear(t, i), t[i] \in Quote
    PROVE  LET l == PastQuote(t, i) IN l \in (i + 1) .. End(t) /\ AllWithin(t, i, l) /\ Clear(t, l)
<1> DEFINE n == End(t)
           q == t[i]
           e == QuoteEnd(t, i + 1, q)
           l == PastQuote(t, i)
<1>1. /\ n \in Nat /\ n = Len(t) + 1 /\ Len(t) \in Nat /\ IsLine(t) /\ i \in Nat /\ i # n
      /\ i + 1 \in 1 .. n /\ (i + 1) - 1 = i
    BY LineIs DEF Even
<1>2. After(t, i - 1).quote = "none" /\ ~After(t, i - 1).esc  BY <1>1 DEF Clear
<1>3. q # Esc /\ q # "none" /\ q \notin Blank \cup Symbol  BY Characters
<1>4. After(t, i).quote = q /\ ~After(t, i).esc  BY <1>1, <1>2, <1>3, StepIs
<1>5. Leaves(t, q, i + 1, e)  BY <1>1, <1>4, QuoteEndMeans DEF InQuote
<1>6. e \in (i + 1) .. n  BY <1>5 DEF Leaves
<1>7. l = IF e < n THEN e + 1 ELSE e  BY DEF PastQuote
<1>8. e - 1 \in Int /\ e \in Nat  BY <1>1, <1>6
<1> HIDE DEF l, e
<1>9. l \in (i + 1) .. n  BY <1>1, <1>6, <1>7
<1>10. AllWithin(t, i, l)
    <2> SUFFICES ASSUME NEW j \in i .. (l - 1) PROVE Within(After(t, j - 1), t[j])
        BY DEF AllWithin
    <2>1. j = i \/ j \in (i + 1) .. e  BY <1>1, <1>6, <1>7, <1>8
    <2>2. CASE j = i  BY <1>3, <2>2 DEF Within
    <2>3. CASE j \in (i + 1) .. e  BY <1>3, <1>5, <2>3 DEF Leaves, Within
    <2> QED  BY <2>1, <2>2, <2>3
<1>11. Clear(t, l)
    <2>1. CASE e = n  BY <1>1, <1>7, <2>1 DEF Clear
    <2>2. CASE e # n
        <3>1. e \in 1 .. Len(t) /\ e \in (i + 1) .. e /\ l = e + 1 /\ (e + 1) - 1 = e
            BY <1>1, <1>6, <1>7, <2>2
        <3>2. t[e] = q /\ ~After(t, e - 1).esc /\ After(t, e - 1).quote = q
            BY <1>5, <2>2, <3>1 DEF Leaves
        <3>3. After(t, e).quote = "none" /\ ~After(t, e).esc  BY <1>1, <1>3, <3>1, <3>2, StepIs
        <3> QED  BY <3>1, <3>3 DEF Clear
    <2> QED  BY <2>1, <2>2
<1> QED  BY <1>9, <1>10, <1>11 DEF l

\* The scan for the end of a word stops where the reference ends the word.
LEMMA WordEndMeans ==
    ASSUME NEW t, Even(t), NEW i \in 1 .. End(t), Clear(t, i)
    PROVE  IsWord(t, i, WordEnd(t, i))
<1> DEFINE n == End(t)
           w(k) == WordEnd(t, k)
           S == {m \in Nat : \A k \in 1 .. n : k >= n - m /\ Clear(t, k) => IsWord(t, k, w(k))}
<1>1. n \in Nat /\ n >= 1 /\ n = Len(t) + 1 /\ Len(t) \in Nat /\ IsLine(t)  BY LineIs DEF Even
<1>2. \A k \in 1 .. n : w(k) \in k .. n  BY <1>1, WordEndRange
<1>3. ASSUME NEW k \in 1 .. n, Clear(t, k), w(k) = k, k = n \/ t[k] \in Blank \cup Symbol
      PROVE  IsWord(t, k, w(k))
    <2>1. \A j \in k .. (k - 1) : FALSE  BY <1>1
    <2>2. k \in k .. n  BY <1>1
    <2> QED  BY <1>3, <2>1, <2>2 DEF IsWord, AllWithin
<1>4. ASSUME NEW k \in 1 .. n, NEW l \in (k + 1) .. n, AllWithin(t, k, l), w(k) = w(l), IsWord(t, l, w(l))
      PROVE  IsWord(t, k, w(k))
    <2>1. w(l) \in l .. n /\ l \in 1 .. n /\ w(l) \in k .. n  BY <1>1, <1>2
    <2> HIDE DEF w, n
    <2>2. \A j \in k .. (w(l) - 1) : j \in k .. (l - 1) \/ j \in l .. (w(l) - 1)  BY <1>1, <2>1
    <2> QED  BY <1>4, <2>1, <2>2 DEF IsWord, AllWithin, n
<1>5. 0 \in S
    <2>1. \A k \in 1 .. n : k >= n - 0 => k = n  BY <1>1
    <2>2. n \in 1 .. n /\ w(n) = n  BY <1>1, WordEndIs
    <2> HIDE DEF w, n
    <2> QED  BY <1>3, <2>1, <2>2
<1>6. ASSUME NEW m \in S PROVE m + 1 \in S
    <2> SUFFICES ASSUME NEW k \in 1 .. n, k >= n - (m + 1), Clear(t, k) PROVE IsWord(t, k, w(k))
        OBVIOUS
    <2>1. m \in Nat /\ k \in 1 .. n /\ k >= n - (m + 1)  OBVIOUS
    <2>2. \A j \in 1 .. n : j >= n - m /\ Clear(t, j) => IsWord(t, j, w(j))  OBVIOUS
    <2>3. w(k) = IF k = n \/ t[k] \in Blank \cup Symbol THEN k
                 ELSE IF t[k] = Esc THEN w(k + 2)
                 ELSE IF t[k] \in Quote THEN w(PastQuote(t, k)) ELSE w(k + 1)
        BY <1>1, WordEndIs
    <2>4. CASE k >= n - m  BY <2>2, <2>4
    <2>5. CASE ~(k >= n - m) /\ t[k] \in Blank \cup Symbol
        <3>1. w(k) = k  BY <2>3, <2>5
        <3> HIDE DEF w, n
        <3> QED  BY <1>3, <2>5, <3>1
    <2>6. CASE ~(k >= n - m) /\ t[k] \notin Blank \cup Symbol
        <3>1. k \in 1 .. Len(t) /\ k # n /\ k + 1 \in (k + 1) .. n /\ (k + 1) - 1 = k /\ (k + 2) - 1 = k + 1
            BY <1>1, <2>1, <2>6
        <3>2. After(t, k - 1).quote = "none" /\ ~After(t, k - 1).esc  BY <3>1 DEF Clear
        <3>3. \A l \in (k + 1) .. n : l \in 1 .. n /\ l >= n - m  BY <1>1, <2>1, <2>6
        <3>4. Within(After(t, k - 1), t[k])  BY <2>6 DEF Within
        <3>5. ASSUME NEW l \in (k + 1) .. n, AllWithin(t, k, l), w(k) = w(l), Clear(t, l)
              PROVE  IsWord(t, k, w(k))
            <4>1. IsWord(t, l, w(l))  BY <2>2, <3>3, <3>5
            <4> HIDE DEF w, n
            <4> QED  BY <1>4, <3>5, <4>1
        <3>6. CASE t[k] = Esc
            <4>1. /\ k + 2 \in 1 .. n /\ After(t, k).esc
                  /\ After(t, k + 1).quote = "none" /\ ~After(t, k + 1).esc
                BY <1>1, <3>1, <3>2, <3>6, Escaped
            <4>2. k + 2 \in (k + 1) .. n /\ \A j \in k .. ((k + 2) - 1) : j = k \/ j = k + 1  BY <1>1, <4>1
            <4>3. AllWithin(t, k, k + 2)  BY <3>1, <3>4, <4>1, <4>2 DEF AllWithin, Within
            <4>4. Clear(t, k + 2)  BY <3>1, <4>1 DEF Clear
            <4>5. w(k) = w(k + 2)  BY <2>3, <2>6, <3>1, <3>6
            <4> HIDE DEF w, n
            <4> QED  BY <3>5, <4>2, <4>3, <4>4, <4>5
        <3>7. CASE t[k] # Esc /\ t[k] \in Quote
            <4> DEFINE l == PastQuote(t, k)
            <4>1. l \in (k + 1) .. n /\ AllWithin(t, k, l) /\ Clear(t, l)  BY <3>1, <3>7, PastQuoteMeans
            <4>2. w(k) = w(l)  BY <2>3, <2>6, <3>1, <3>7
            <4> HIDE DEF w, n, l
            <4> QED  BY <3>5, <4>1, <4>2
        <3>8. CASE t[k] # Esc /\ t[k] \notin Quote
            <4>1. After(t, k).quote = "none" /\ ~After(t, k).esc  BY <1>1, <3>1, <3>2, <3>8, StepIs
            <4>2. \A j \in k .. ((k + 1) - 1) : j = k  BY <1>1
            <4>3. AllWithin(t, k, k + 1)  BY <3>4, <4>2 DEF AllWithin
            <4>4. Clear(t, k + 1)  BY <3>1, <4>1 DEF Clear
            <4>5. w(k) = w(k + 1)  BY <2>3, <2>6, <3>1, <3>8
            <4> HIDE DEF w, n
            <4> QED  BY <3>1, <3>5, <4>3, <4>4, <4>5
        <3> QED  BY <3>6, <3>7, <3>8
    <2> QED  BY <2>4, <2>5, <2>6
<1> HIDE DEF S
<1>7. S = Nat
    <2>1. S \in SUBSET Nat  BY DEF S
    <2> QED  BY <1>5, <1>6, <2>1, Induction
<1>8. n - i \in S /\ i >= n - (n - i)  BY <1>1, <1>7
<1> QED  BY <1>8 DEF S

Twice(t, q) == t[q] = ">" /\ q + 1 < End(t) /\ t[q + 1] = ">"
\* What gettoken() answers when it finds q first.
IsToken(t, q, g) ==
    /\ g.q = q /\ g.s = Skip(t, g.eq)
    /\ q # End(t) /\ Twice(t, q) => g.tok = "+" /\ g.eq = q + 2
    /\ q # End(t) /\ ~Twice(t, q) /\ t[q] \in Symbol => g.tok = t[q] /\ g.eq = q + 1
    /\ q # End(t) /\ t[q] \notin Symbol => g.tok = "a" /\ g.eq = WordEnd(t, q)

\* gettoken() by the first character after the blanks.
LEMMA TokenIs ==
    ASSUME NEW t, NEW s
    PROVE  IsToken(t, Skip(t, s), GetToken(t, s))
<1> DEFINE q == Skip(t, s)
           g == GetToken(t, s)
<1>1. g = TokenAt(t, q)  BY DEF GetToken
<1>2. ">" \in Symbol  BY DEF Symbol
<1> HIDE DEF q, g
<1>4. \/ g = Answer(t, "eof", q, q) /\ q = End(t)
      \/ g = Answer(t, "+", q, q + 2) /\ q # End(t) /\ Twice(t, q) /\ t[q] \in Symbol
      \/ g = Answer(t, t[q], q, q + 1) /\ q # End(t) /\ ~Twice(t, q) /\ t[q] \in Symbol
      \/ g = Answer(t, "a", q, WordEnd(t, q)) /\ q # End(t) /\ ~Twice(t, q) /\ t[q] \notin Symbol
    BY <1>1, <1>2 DEF TokenAt, Twice
<1>5. CASE g = Answer(t, "eof", q, q) /\ q = End(t)
    <2>1. g.q = q /\ g.s = Skip(t, g.eq)  BY <1>5 DEF Answer
    <2>2. IsToken(t, q, g)  BY <1>5, <2>1, Zenon DEF IsToken
    <2> QED  BY <2>2 DEF q, g
<1>6. CASE g = Answer(t, "+", q, q + 2) /\ q # End(t) /\ Twice(t, q) /\ t[q] \in Symbol
    <2>1. g.q = q /\ g.s = Skip(t, g.eq) /\ g.tok = "+" /\ g.eq = q + 2  BY <1>6 DEF Answer
    <2>2. IsToken(t, q, g)  BY <1>6, <2>1, Zenon DEF IsToken
    <2> QED  BY <2>2 DEF q, g
<1>7. CASE g = Answer(t, t[q], q, q + 1) /\ q # End(t) /\ ~Twice(t, q) /\ t[q] \in Symbol
    <2>1. g.q = q /\ g.s = Skip(t, g.eq) /\ g.tok = t[q] /\ g.eq = q + 1  BY <1>7 DEF Answer
    <2>2. IsToken(t, q, g)  BY <1>7, <2>1, Zenon DEF IsToken
    <2> QED  BY <2>2 DEF q, g
<1>8. CASE g = Answer(t, "a", q, WordEnd(t, q)) /\ q # End(t) /\ ~Twice(t, q) /\ t[q] \notin Symbol
    <2>1. g.q = q /\ g.s = Skip(t, g.eq) /\ g.tok = "a" /\ g.eq = WordEnd(t, q)  BY <1>8 DEF Answer
    <2>2. IsToken(t, q, g)  BY <1>8, <2>1, Zenon DEF IsToken
    <2> QED  BY <2>2 DEF q, g
<1> QED  BY <1>4, <1>5, <1>6, <1>7, <1>8

\* The words and operators before s.
Toks(t, s) == Close(After(t, s - 1)).toks

\* Blanks add no tokens.
LEMMA BlankRun ==
    ASSUME NEW t, IsLine(t), NEW s \in 1 .. End(t), NEW e \in s .. End(t), Clear(t, s),
           \A i \in s .. (e - 1) : t[i] \in Blank
    PROVE  /\ Clear(t, e) /\ Toks(t, e) = Toks(t, s)
           /\ e # s => ~After(t, e - 1).open /\ ~After(t, e - 1).gt
<1> DEFINE P(k) == /\ Clear(t, k) /\ Toks(t, k) = Toks(t, s)
                   /\ k # s => ~After(t, k - 1).open /\ ~After(t, k - 1).gt
           S == {m \in Nat : s + m <= e => P(s + m)}
<1>1. End(t) \in Nat /\ Len(t) \in Nat /\ End(t) = Len(t) + 1 /\ s \in Nat /\ e \in Nat  BY LineIs
<1>2. 0 \in S
    <2>1. s + 0 = s  BY <1>1
    <2>2. P(s)  OBVIOUS
    <2> HIDE DEF P
    <2> QED  BY <2>1, <2>2
<1>3. ASSUME NEW m \in S PROVE m + 1 \in S
    <2> SUFFICES ASSUME s + (m + 1) <= e PROVE P(s + (m + 1))
        OBVIOUS
    <2> DEFINE k == s + m
    <2>1. /\ k \in 1 .. Len(t) /\ k \in s .. (e - 1) /\ k + 1 = s + (m + 1) /\ (k + 1) - 1 = k
          /\ k # End(t) /\ k - 1 \in 0 .. Len(t) /\ s + m <= e /\ k + 1 # s
        BY <1>1
    <2>2. P(k)  BY <2>1
    <2> HIDE DEF k
    <2>3. t[k] \in Blank /\ t[k] \in Char  BY <2>1, LineIs
    <2>4. After(t, k - 1).quote = "none" /\ ~After(t, k - 1).esc  BY <2>1, <2>2 DEF Clear
    <2>5. ~Within(After(t, k - 1), t[k])  BY <2>3, <2>4 DEF Within
    <2>6. Stops(After(t, k - 1), t[k], After(t, k))  BY <2>1, <2>3, <2>5, AfterIs, ReadBeyond
    <2>7. t[k] # ">"  BY <2>3 DEF Blank, NL
    <2>8. /\ Sound(After(t, k)) /\ ~After(t, k).open /\ ~After(t, k).gt /\ ~After(t, k).esc
          /\ After(t, k).quote = "none" /\ After(t, k).toks = Close(After(t, k - 1)).toks
        BY <2>3, <2>6, <2>7 DEF Stops
    <2>9. Close(After(t, k)).toks = After(t, k).toks  BY <2>8, CloseIs DEF Sound
    <2>10. P(k + 1)  BY <2>1, <2>2, <2>8, <2>9 DEF Clear, Toks
    <2> QED  BY <2>1, <2>10
<1> HIDE DEF S
<1>4. S = Nat
    <2>1. S \in SUBSET Nat  BY DEF S
    <2> QED  BY <1>2, <1>3, <2>1, Induction
<1>5. e - s \in S /\ s + (e - s) = e /\ e <= e  BY <1>1, <1>4
<1> HIDE DEF P
<1>6. P(e)  BY <1>5 DEF S
<1> QED  BY <1>6 DEF P

\* Nor do the blanks that gettoken() and peek() skip.
LEMMA SkipMeans ==
    ASSUME NEW t, IsLine(t), NEW s \in 1 .. End(t), Clear(t, s)
    PROVE  LET q == Skip(t, s)
           IN /\ q \in 1 .. End(t) /\ Clear(t, q) /\ Toks(t, q) = Toks(t, s)
              /\ q # s => ~After(t, q - 1).open /\ ~After(t, q - 1).gt
<1>1. Skip(t, s) \in s .. End(t) /\ \A i \in s .. (Skip(t, s) - 1) : t[i] \in Blank  BY SkipIs
<1>2. Skip(t, s) \in 1 .. End(t)  BY <1>1, LineIs
<1> HIDE DEF Skip
<1> QED  BY <1>1, <1>2, BlankRun

\* No symbol counts in the words and the blanks from i up to e.
LEMMA NoSymbol ==
    ASSUME NEW t, IsLine(t), NEW i \in 1 .. End(t), NEW e \in i .. End(t),
           \A j \in i .. (e - 1) : ~SymbolAt(t, j)
    PROVE  SymbolFrom(t, i) <=> SymbolFrom(t, e)
<1>1. End(t) \in Nat /\ Len(t) \in Nat /\ End(t) = Len(t) + 1  BY LineIs
<1>2. \A j \in i .. Len(t) : j \in i .. (e - 1) \/ j \in e .. Len(t)  BY <1>1
<1>3. \A j \in e .. Len(t) : j \in i .. Len(t)  BY <1>1
<1> QED  BY <1>2, <1>3 DEF SymbolFrom

\* A scan by gettoken() sees an operator when the reference has a symbol out of quotes.
LEMMA SeesMeans ==
    ASSUME NEW t, Even(t)
    PROVE  SeesOperator(t) <=> SymbolFrom(t, 1)
<1> DEFINE n == End(t)
<1>1. n \in Nat /\ n >= 1 /\ n = Len(t) + 1 /\ Len(t) \in Nat /\ IsLine(t)  BY LineIs DEF Even
<1>2. PICK f : /\ SeesOperator(t) = f[1]
               /\ \A s \in 1 .. End(t) : f[s] =
                     (GetToken(t, s).tok # "eof" /\ (GetToken(t, s).tok # "a" \/ f[GetToken(t, s).s]))
    BY <1>1, SeesOperatorIs
<1> DEFINE S == {m \in Nat : \A k \in 1 .. n : k >= n - m /\ Clear(t, k) => (f[k] <=> SymbolFrom(t, k))}
<1>3. ASSUME NEW k \in 1 .. n, Clear(t, k),
             \A l \in (k + 1) .. n : Clear(t, l) => (f[l] <=> SymbolFrom(t, l))
      PROVE  f[k] <=> SymbolFrom(t, k)
    <2> DEFINE q == Skip(t, k)
               g == GetToken(t, k)
    <2>1. /\ q \in k .. n /\ q \in 1 .. n /\ Clear(t, q) /\ (q = n \/ t[q] \notin Blank)
          /\ \A i \in k .. (q - 1) : t[i] \in Blank
        BY <1>1, <1>3, SkipIs, SkipMeans
    <2>2. f[k] = (g.tok # "eof" /\ (g.tok # "a" \/ f[g.s]))  BY <1>2
    <2>3. /\ g.tok = "eof" <=> q = n
          /\ g.tok = "a" <=> q # n /\ t[q] \notin Symbol
          /\ g.q = q /\ g.eq \in q .. n /\ g.s \in g.eq .. n
          /\ \A i \in g.eq .. (g.s - 1) : t[i] \in Blank
        BY <1>1, TokenRange
    <2>4. q # n /\ t[q] \notin Symbol => g.eq = WordEnd(t, q)  BY TokenIs DEF IsToken
    <2>5. g.tok # "eof" => g.s \in (k + 1) .. n  BY <1>1, TokenGoesOn
    <2> HIDE DEF q, g, n
    <2>6. \A j : t[j] \in Blank => ~SymbolAt(t, j)  BY Characters DEF SymbolAt
    <2>7. SymbolFrom(t, k) <=> SymbolFrom(t, q)  BY <1>1, <2>1, <2>6, NoSymbol DEF n
    <2>8. CASE q = n
        <3>1. ~SymbolFrom(t, q)  BY <1>1, <2>8 DEF SymbolFrom
        <3> QED  BY <2>2, <2>3, <2>7, <2>8, <3>1
    <2>9. CASE q # n /\ t[q] \in Symbol
        <3>1. SymbolAt(t, q)  BY <2>1, <2>9 DEF Clear, SymbolAt, n
        <3>2. q \in q .. Len(t)  BY <1>1, <2>1, <2>9
        <3>3. SymbolFrom(t, q)  BY <3>1, <3>2 DEF SymbolFrom
        <3> QED  BY <2>2, <2>3, <2>7, <2>9, <3>3
    <2>10. CASE q # n /\ t[q] \notin Symbol
        <3>1. IsWord(t, q, g.eq)  BY <1>1, <2>1, <2>4, <2>10, WordEndMeans DEF n
        <3>2. \A j \in q .. (g.eq - 1) : ~SymbolAt(t, j)  BY <3>1 DEF IsWord, AllWithin, Within, SymbolAt
        <3>3. \A j \in g.eq .. (g.s - 1) : ~SymbolAt(t, j)  BY <2>3, <2>6
        <3>4. g.eq \in 1 .. n /\ g.s \in q .. n  BY <1>1, <2>1, <2>3
        <3>5. \A j \in q .. (g.s - 1) : j \in q .. (g.eq - 1) \/ j \in g.eq .. (g.s - 1)
            BY <1>1, <2>1, <2>3, <3>4
        <3>6. SymbolFrom(t, q) <=> SymbolFrom(t, g.s)
            BY <1>1, <2>1, <3>2, <3>3, <3>4, <3>5, NoSymbol DEF n
        <3>7. Clear(t, g.s)  BY <1>1, <2>3, <3>1, <3>4, BlankRun DEF IsWord, n
        <3>8. f[g.s] <=> SymbolFrom(t, g.s)  BY <1>3, <2>3, <2>5, <2>10, <3>7
        <3> QED  BY <2>2, <2>3, <2>7, <2>10, <3>6, <3>8
    <2> QED  BY <2>8, <2>9, <2>10
<1>4. 0 \in S
    <2> SUFFICES ASSUME NEW k \in 1 .. n, k >= n - 0, Clear(t, k) PROVE f[k] <=> SymbolFrom(t, k)
        OBVIOUS
    <2>1. \A l \in (k + 1) .. n : FALSE  BY <1>1
    <2> QED  BY <1>3, <2>1
<1>5. ASSUME NEW m \in S PROVE m + 1 \in S
    <2> SUFFICES ASSUME NEW k \in 1 .. n, k >= n - (m + 1), Clear(t, k) PROVE f[k] <=> SymbolFrom(t, k)
        OBVIOUS
    <2>1. \A l \in (k + 1) .. n : l \in 1 .. n /\ l >= n - m  BY <1>1
    <2>2. \A j \in 1 .. n : j >= n - m /\ Clear(t, j) => (f[j] <=> SymbolFrom(t, j))  OBVIOUS
    <2> HIDE DEF n
    <2> QED  BY <1>3, <2>1, <2>2
<1> HIDE DEF S
<1>6. S = Nat
    <2>1. S \in SUBSET Nat  BY DEF S
    <2> QED  BY <1>4, <1>5, <2>1, Induction
<1>7. n - 1 \in S /\ 1 \in 1 .. n /\ 1 >= n - (n - 1) /\ 1 - 1 = 0  BY <1>1, <1>6
<1>8. Clear(t, 1)  BY <1>1, <1>7, AfterIs DEF Clear, Start
<1>9. f[1] <=> SymbolFrom(t, 1)  BY <1>7, <1>8 DEF S
<1> QED  BY <1>2, <1>9

-----------------------------------------------------------------------------
(* gettoken() finds the words and operators of the reading, one after the other. *)

\* Where gettoken() may be called: no word is under way and no ">" that another would join.
Bound(t, s) ==
    /\ s \in 1 .. End(t) /\ Clear(t, s)
    /\ s # End(t) => /\ After(t, s - 1).open => t[s] \in Blank \cup Symbol
                     /\ After(t, s - 1).gt => t[s] # ">"

\* The line begins between two tokens.
LEMMA BoundStart ==
    ASSUME NEW t, IsLine(t)
    PROVE  Bound(t, 1) /\ Toks(t, 1) = <<>>
<1>1. 1 \in 1 .. End(t) /\ 1 - 1 = 0  BY LineIs
<1>2. After(t, 0) = Start  BY AfterIs
<1>3. /\ Close(Start).toks = <<>> /\ ~Start.open /\ ~Start.gt /\ ~Start.esc
      /\ Start.quote = "none"
    BY DEF Close, Start
<1>4. Toks(t, 1) = <<>>  BY <1>1, <1>2, <1>3 DEF Toks
<1>5. Clear(t, 1)  BY <1>1, <1>2, <1>3 DEF Clear
<1>6. Bound(t, 1)  BY <1>1, <1>2, <1>3, <1>5 DEF Bound
<1> QED  BY <1>4, <1>6

\* Blanks after a token lead to no other token.
LEMMA BoundSkip ==
    ASSUME NEW t, IsLine(t), NEW s, Bound(t, s)
    PROVE  Bound(t, Skip(t, s)) /\ Toks(t, Skip(t, s)) = Toks(t, s)
<1>1. s \in 1 .. End(t) /\ Clear(t, s)  BY DEF Bound
<1> DEFINE q == Skip(t, s)
<1>2. /\ q \in 1 .. End(t) /\ Clear(t, q) /\ Toks(t, q) = Toks(t, s)
      /\ q # s => ~After(t, q - 1).open /\ ~After(t, q - 1).gt
    BY <1>1, SkipMeans
<1> HIDE DEF q
<1>3. Bound(t, q)  BY <1>2 DEF Bound
<1> QED  BY <1>2, <1>3 DEF q

\* One character outside of words.
LEMMA Outside ==
    ASSUME NEW t, IsLine(t), NEW i \in 1 .. Len(t), Clear(t, i), t[i] \in Blank \cup Symbol
    PROVE  Stops(After(t, i - 1), t[i], After(t, i)) /\ Clear(t, i + 1)
<1>1. i \in 0 .. Len(t) /\ i - 1 \in 0 .. Len(t) /\ i # End(t) /\ (i + 1) - 1 = i  BY LineIs
<1>2. ~Within(After(t, i - 1), t[i])  BY <1>1 DEF Clear, Within
<1>3. Stops(After(t, i - 1), t[i], After(t, i))  BY <1>1, <1>2, AfterIs, ReadBeyond
<1>4. Clear(t, i + 1)  BY <1>1, <1>3 DEF Stops, Clear
<1> QED  BY <1>3, <1>4

\* A symbol between two tokens is a token of its own, or the beginning of ">>".
LEMMA SymbolStep ==
    ASSUME NEW t, IsLine(t), NEW q, Bound(t, q), q # End(t), t[q] \in Symbol
    PROVE  /\ q + 1 \in 1 .. End(t) /\ Clear(t, q + 1)
           /\ ~After(t, q).open
           /\ After(t, q).gt <=> t[q] = ">"
           /\ After(t, q).toks = Append(Toks(t, q), Op(t[q]))
           /\ Toks(t, q + 1) = Append(Toks(t, q), Op(t[q]))
<1>1. q \in 1 .. Len(t) /\ q + 1 \in 1 .. End(t) /\ q \in 0 .. Len(t) /\ (q + 1) - 1 = q
    BY LineIs DEF Bound
<1>2. Stops(After(t, q - 1), t[q], After(t, q)) /\ Clear(t, q + 1)
    BY <1>1, Outside DEF Bound
<1>3. After(t, q - 1).gt => t[q] # ">"  BY DEF Bound
<1>4. t[q] \notin Blank  BY Characters
<1>5. /\ ~After(t, q).open /\ (After(t, q).gt <=> t[q] = ">")
      /\ After(t, q).toks = Append(Toks(t, q), Op(t[q])) /\ After(t, q) \in State
    BY <1>2, <1>3, <1>4 DEF Stops, Toks, Sound
<1>6. Toks(t, q + 1) = After(t, q).toks  BY <1>1, <1>5, CloseIs DEF Toks
<1> QED  BY <1>1, <1>2, <1>5, <1>6

\* What has been read are tokens.
LEMMA ToksType ==
    ASSUME NEW t, IsLine(t), NEW s \in 1 .. End(t)
    PROVE  Toks(t, s) \in Seq(TokenType)
<1>1. s - 1 \in 0 .. Len(t)  BY LineIs
<1>2. After(t, s - 1) \in State  BY <1>1, AfterIs DEF Sound
<1> QED  BY <1>2, CloseIs DEF Toks, State

\* The second character of ">>" turns the first into one operator.
LEMMA TwiceStep ==
    ASSUME NEW t, IsLine(t), NEW q, Bound(t, q), q # End(t), Twice(t, q)
    PROVE  Bound(t, q + 2) /\ Toks(t, q + 2) = Append(Toks(t, q), Op("+"))
<1>1. /\ q \in 1 .. Len(t) /\ q + 1 \in 1 .. Len(t) /\ q + 2 \in 1 .. End(t) /\ q + 1 \in 0 .. Len(t)
      /\ (q + 1) - 1 = q /\ (q + 2) - 1 = q + 1 /\ q \in 0 .. Len(t) /\ (q + 1) + 1 = q + 2
    BY LineIs DEF Bound, Twice
<1>2. t[q] = ">" /\ t[q + 1] = ">" /\ ">" \in Symbol  BY DEF Twice, Symbol
<1>3. /\ Clear(t, q + 1) /\ ~After(t, q).open /\ After(t, q).gt
      /\ After(t, q).toks = Append(Toks(t, q), Op(">"))
    BY <1>2, SymbolStep
<1>4. Stops(After(t, q), ">", After(t, q + 1)) /\ Clear(t, q + 2)
    BY <1>1, <1>2, <1>3, Outside
<1> DEFINE before == Toks(t, q)
           u == Append(before, Op(">"))
<1>5. before \in Seq(TokenType) /\ Op(">") \in TokenType /\ Op("+") \in TokenType
    <2>1. q \in 1 .. End(t)  BY DEF Bound
    <2> QED  BY <2>1, ToksType, OpIs DEF Sign, Symbol
<1> HIDE DEF before
<1>6. [u EXCEPT ![Len(u)] = Op("+")] = Append(before, Op("+"))
    <2> DEFINE v == Append(before, Op("+"))
               w == [u EXCEPT ![Len(u)] = Op("+")]
    <2>1. /\ u \in Seq(TokenType) /\ Len(u) = Len(before) + 1 /\ Len(before) \in Nat
          /\ \A i \in 1 .. Len(before) : u[i] = before[i]
        BY <1>5, AppendProperties, LenProperties
    <2>2. /\ v \in Seq(TokenType) /\ Len(v) = Len(before) + 1 /\ v[Len(before) + 1] = Op("+")
          /\ \A i \in 1 .. Len(before) : v[i] = before[i]
        BY <1>5, AppendProperties, LenProperties
    <2>3. Len(u) \in 1 .. Len(u)  BY <2>1
    <2> HIDE DEF u, v
    <2>4. /\ w \in Seq(TokenType) /\ Len(w) = Len(u)
          /\ \A j \in 1 .. Len(u) : w[j] = IF j = Len(u) THEN Op("+") ELSE u[j]
        BY <1>5, <2>1, <2>3, ExceptSeq
    <2> HIDE DEF w
    <2>5. \A j \in 1 .. Len(w) : w[j] = v[j]
        <3>1. \A j \in 1 .. Len(w) : j = Len(before) + 1 \/ j \in 1 .. Len(before)  BY <2>1, <2>4
        <3> QED  BY <2>1, <2>2, <2>4, <3>1
    <2>6. w = v  BY <2>1, <2>2, <2>4, <2>5, SeqEqual
    <2> QED  BY <2>6 DEF u, v, w
<1>7. ">" \notin Blank  BY <1>2, Characters
<1>8. /\ ~After(t, q + 1).open /\ ~After(t, q + 1).gt /\ After(t, q + 1) \in State
      /\ After(t, q + 1).toks = Append(before, Op("+"))
    BY <1>3, <1>4, <1>6, <1>7 DEF Stops, Sound, before
<1>9. Toks(t, q + 2) = Append(before, Op("+"))  BY <1>1, <1>8, CloseIs DEF Toks
<1>10. Bound(t, q + 2)  BY <1>1, <1>4, <1>8 DEF Bound
<1> QED  BY <1>9, <1>10 DEF before

\* A word of the scan is one of the reading, with the text that was read.
LEMMA WordStep ==
    ASSUME NEW t, IsLine(t), NEW q, Bound(t, q), q # End(t), t[q] \notin Blank \cup Symbol,
           NEW e \in (q + 1) .. End(t), IsWord(t, q, e)
    PROVE  /\ \A j \in q .. (e - 1) : /\ Goes(After(t, j - 1), t[j], After(t, j))
                                      /\ After(t, j).toks = Toks(t, q)
           /\ After(t, q - 1).word = <<>>
           /\ Bound(t, e)
           /\ Toks(t, e) = Append(Toks(t, q), [op |-> "a", word |-> After(t, e - 1).word])
<1>1. /\ q \in Nat /\ e \in Nat /\ Len(t) \in Nat /\ End(t) = Len(t) + 1 /\ q \in 1 .. Len(t)
      /\ e - 1 \in q .. (e - 1)
    BY LineIs DEF Bound
<1>2. ASSUME NEW j \in q .. (e - 1) PROVE Goes(After(t, j - 1), t[j], After(t, j))
    <2>1. j \in 1 .. Len(t) /\ j - 1 \in 0 .. Len(t)  BY <1>1
    <2>2. Within(After(t, j - 1), t[j])  BY DEF IsWord, AllWithin
    <2> QED  BY <2>1, <2>2, AfterIs, ReadWithin
<1>3. q - 1 \in 0 .. Len(t) /\ ~After(t, q - 1).open  BY <1>1 DEF Bound
<1>4. Sound(After(t, q - 1))  BY <1>3, AfterIs
<1>5. After(t, q - 1).word = <<>> /\ Toks(t, q) = After(t, q - 1).toks
    BY <1>3, <1>4, CloseIs DEF Sound, Toks
<1> DEFINE S == {m \in Nat : q + m <= e - 1 => After(t, q + m).toks = Toks(t, q)}
<1>6. 0 \in S
    <2>1. q + 0 = q /\ q \in q .. (e - 1)  BY <1>1
    <2>2. After(t, q).toks = Toks(t, q)  BY <1>2, <1>5, <2>1 DEF Goes
    <2> QED  BY <2>1, <2>2
<1>7. ASSUME NEW m \in S PROVE m + 1 \in S
    <2> SUFFICES ASSUME q + (m + 1) <= e - 1 PROVE After(t, q + (m + 1)).toks = Toks(t, q)
        OBVIOUS
    <2>1. q + (m + 1) \in q .. (e - 1) /\ (q + (m + 1)) - 1 = q + m /\ q + m <= e - 1  BY <1>1
    <2>2. After(t, q + m).toks = Toks(t, q)  BY <2>1
    <2> DEFINE j == q + (m + 1)
    <2>3. Goes(After(t, j - 1), t[j], After(t, j))  BY <1>2, <2>1
    <2>4. After(t, j).toks = After(t, j - 1).toks  BY <2>3 DEF Goes
    <2> QED  BY <2>1, <2>2, <2>4
<1> HIDE DEF S
<1>8. S = Nat
    <2>1. S \in SUBSET Nat  BY DEF S
    <2> QED  BY <1>6, <1>7, <2>1, Induction
<1>9. \A j \in q .. (e - 1) : After(t, j).toks = Toks(t, q)
    <2> SUFFICES ASSUME NEW j \in q .. (e - 1) PROVE After(t, j).toks = Toks(t, q)
        OBVIOUS
    <2>1. j - q \in S /\ q + (j - q) = j /\ j <= e - 1  BY <1>1, <1>8
    <2> QED  BY <2>1 DEF S
<1>10. Goes(After(t, (e - 1) - 1), t[e - 1], After(t, e - 1)) /\ After(t, e - 1).toks = Toks(t, q)
    BY <1>1, <1>2, <1>9
<1>11. After(t, e - 1) \in State /\ After(t, e - 1).open /\ ~After(t, e - 1).gt
    BY <1>10 DEF Goes, Sound
<1>12. Toks(t, e) = Append(Toks(t, q), [op |-> "a", word |-> After(t, e - 1).word])
    BY <1>10, <1>11, CloseIs DEF Toks
<1>13. e \in 1 .. End(t) /\ Clear(t, e) /\ (e # End(t) => t[e] \in Blank \cup Symbol)
    BY <1>1 DEF IsWord
<1>14. Bound(t, e)  BY <1>11, <1>13 DEF Bound
<1> QED  BY <1>2, <1>5, <1>9, <1>12, <1>14

\* What dequote() takes from position i on, next and second being what it takes from the
\* two positions after it.
Taken(t, e, i, mode, next, second) ==
    IF i = e THEN <<>>
    ELSE IF mode = "none"
         THEN IF t[i] = Esc /\ i + 1 < e THEN <<t[i + 1]>> \o second[mode]
              ELSE IF t[i] \in Quote THEN next[t[i]]
              ELSE <<t[i]>> \o next[mode]
    ELSE IF t[i] = mode THEN next["none"]
    ELSE IF t[i] = Esc /\ i + 1 < e /\ Escapes(t[i + 1], mode) THEN <<t[i + 1]>> \o second[mode]
    ELSE <<t[i]>> \o next[mode]
Taking(d, t, k, e) ==
    d = [i \in k .. e |-> [mode \in Modes |-> Taken(t, e, i, mode, d[i + 1], d[i + 2])]]

\* What dequote_token() copies, from the end of the word backwards.
LEMMA TakingExists ==
    ASSUME NEW t, NEW q \in Nat, NEW e \in Nat, q <= e
    PROVE  \E d : Taking(d, t, q, e)
<1> DEFINE S == {m \in Nat : q + m <= e => \E d : Taking(d, t, e - m, e)}
<1>1. 0 \in S
    <2> DEFINE d == [i \in e .. e |-> [mode \in Modes |-> <<>>]]
    <2>1. \A i \in e .. e : i = e  OBVIOUS
    <2>2. Taking(d, t, e, e)  BY <2>1 DEF Taking, Taken
    <2> QED  BY <2>2
<1>2. ASSUME NEW m \in S PROVE m + 1 \in S
    <2> SUFFICES ASSUME q + (m + 1) <= e PROVE \E d : Taking(d, t, e - (m + 1), e)
        OBVIOUS
    <2> DEFINE k == e - (m + 1)
    <2>1. m \in Nat /\ k \in Nat /\ k + 1 = e - m /\ k < e /\ q + m <= e  OBVIOUS
    <2>2. PICK d : Taking(d, t, k + 1, e)  BY <2>1
    <2> HIDE DEF k
    <2> DEFINE V(f, i) == [mode \in Modes |-> Taken(t, e, i, mode, f[i + 1], f[i + 2])]
               g == [i \in k .. e |-> IF i = k THEN V(d, k) ELSE d[i]]
    <2>3. \A i \in (k + 1) .. e : d[i] = V(d, i)  BY <2>2 DEF Taking
    <2>4. \A i \in (k + 1) .. e : g[i] = d[i]  BY <2>1
    <2>5. ASSUME NEW i \in k .. e PROVE g[i] = V(g, i)
        <3>1. g[i] = V(d, i)
            <4>1. CASE i = k  BY <4>1
            <4>2. CASE i # k
                <5>1. i \in (k + 1) .. e  BY <2>1, <4>2
                <5> QED  BY <2>3, <2>4, <5>1
            <4> QED  BY <4>1, <4>2
        <3>2. i # e => g[i + 1] = d[i + 1]  BY <2>1, <2>4
        <3>3. i + 1 < e => g[i + 2] = d[i + 2]  BY <2>1, <2>4
        <3> HIDE DEF g
        <3>4. ASSUME NEW mode \in Modes
              PROVE  Taken(t, e, i, mode, g[i + 1], g[i + 2]) = Taken(t, e, i, mode, d[i + 1], d[i + 2])
            <4>1. CASE i = e  BY <4>1 DEF Taken
            <4>2. CASE i # e /\ i + 1 < e
                <5>1. g[i + 1] = d[i + 1] /\ g[i + 2] = d[i + 2]  BY <3>2, <3>3, <4>2
                <5> QED  BY <5>1
            <4>3. CASE i # e /\ ~(i + 1 < e)
                <5>1. g[i + 1] = d[i + 1]  BY <3>2, <4>3
                <5> QED  BY <4>3, <5>1 DEF Taken
            <4> QED  BY <4>1, <4>2, <4>3
        <3>5. V(g, i) = V(d, i)  BY <3>4
        <3> QED  BY <3>1, <3>5
    <2>6. g = [i \in k .. e |-> g[i]]  OBVIOUS
    <2> HIDE DEF g
    <2>7. g = [i \in k .. e |-> V(g, i)]  BY <2>5, <2>6
    <2>8. Taking(g, t, k, e)  BY <2>7 DEF Taking
    <2> QED  BY <2>8 DEF k
<1> HIDE DEF S
<1>3. S = Nat
    <2>1. S \in SUBSET Nat  BY DEF S
    <2> QED  BY <1>1, <1>2, <2>1, Induction
<1>4. e - q \in S /\ q + (e - q) <= e /\ e - (e - q) = q  BY <1>3
<1> QED  BY <1>4 DEF S

\* dequote_token() starts at the first character, out of quotes.
LEMMA DequoteIs ==
    ASSUME NEW t, NEW q \in Nat, NEW e \in Nat, q <= e
    PROVE  \E d : /\ Dequote(t, q, e) = d[q]["none"]
                  /\ \A i \in q .. e : \A mode \in Modes :
                        d[i][mode] = Taken(t, e, i, mode, d[i + 1], d[i + 2])
<1> DEFINE d == CHOOSE d : Taking(d, t, q, e)
<1>1. Dequote(t, q, e) = d[q]["none"]  BY DEF Dequote, Taking, Taken, Modes, Quote
<1>2. Taking(d, t, q, e)  BY TakingExists
<1> HIDE DEF d
<1>3. \A i \in q .. e : \A mode \in Modes : d[i][mode] = Taken(t, e, i, mode, d[i + 1], d[i + 2])
    BY <1>2 DEF Taking
<1> QED  BY <1>1, <1>3

\* A backslash that is no escape counts like any other character.
LEMMA TwoLetters ==
    ASSUME NEW b \in Letter, NEW c \in Letter
    PROVE  <<b>> \o <<c>> = <<b, c>>
<1> DEFINE u == <<b>>
           v == <<c>>
           x == <<b, c>>
<1>1. u \in Seq(Letter) /\ v \in Seq(Letter) /\ x \in Seq(Letter)
    OBVIOUS
<1>2. Len(u) = 1 /\ Len(v) = 1 /\ Len(x) = 2 /\ u[1] = b /\ v[1] = c /\ x[1] = b /\ x[2] = c
    OBVIOUS
<1> HIDE DEF u, v, x
<1>3. /\ u \o v \in Seq(Letter) /\ Len(u \o v) = 2
      /\ \A i \in 1 .. 2 : (u \o v)[i] = IF i <= 1 THEN u[i] ELSE v[i - 1]
    BY <1>1, <1>2, ConcatProperties
<1>4. (u \o v)[1] = b /\ (u \o v)[2] = c
    <2>1. 1 \in 1 .. 2 /\ 2 \in 1 .. 2 /\ 1 <= 1 /\ ~(2 <= 1) /\ 2 - 1 = 1
        OBVIOUS
    <2> QED  BY <1>2, <1>3, <2>1
<1>5. \A i \in 1 .. Len(x) : (u \o v)[i] = x[i]
    <2>1. \A i \in 1 .. 2 : i = 1 \/ i = 2
        OBVIOUS
    <2> QED  BY <1>2, <1>4, <2>1
<1>6. u \o v = x  BY <1>1, <1>2, <1>3, <1>5, SeqEqual
<1> QED  BY <1>6 DEF u, v, x

\* Words are put together in any order.
LEMMA ThreeParts ==
    ASSUME NEW a \in Seq(Letter), NEW b \in Seq(Letter), NEW c \in Seq(Letter)
    PROVE  b \o c \in Seq(Letter) /\ (a \o b) \o c = a \o (b \o c)
    BY ConcatProperties, ConcatAssociative

\* dequote() takes from a word what the reading put into it.
LEMMA WordText ==
    ASSUME NEW t, IsLine(t), NEW q, Bound(t, q), q # End(t), t[q] \notin Blank \cup Symbol,
           NEW e \in (q + 1) .. End(t), IsWord(t, q, e)
    PROVE  Dequote(t, q, e) = After(t, e - 1).word
<1>1. /\ q \in Nat /\ e \in Nat /\ q <= e /\ Len(t) \in Nat /\ End(t) = Len(t) + 1 /\ q \in 1 .. Len(t)
    BY LineIs DEF Bound
<1>2. PICK d : /\ Dequote(t, q, e) = d[q]["none"]
               /\ \A i \in q .. e : \A mode \in Modes :
                        d[i][mode] = Taken(t, e, i, mode, d[i + 1], d[i + 2])
    BY <1>1, DequoteIs
<1>3. /\ \A j \in q .. (e - 1) : Goes(After(t, j - 1), t[j], After(t, j))
      /\ After(t, q - 1).word = <<>>
    BY WordStep
<1>4. \A i \in q .. e : i - 1 \in 0 .. Len(t) /\ After(t, i - 1) \in State
    <2>1. \A i \in q .. e : i - 1 \in 0 .. Len(t)  BY <1>1
    <2> QED  BY <2>1, AfterIs DEF Sound
<1> DEFINE m(i) == After(t, i - 1).quote
           w(i) == After(t, i - 1).word
           r(i) == d[i][m(i)]
           p(i) == Piece(After(t, i - 1), t[i])
           C(i) == r(i) \in Seq(Letter) /\ w(e) = w(i) \o r(i)
           Esc0(i) == After(t, i - 1).esc
<1>5. \A i \in q .. e : m(i) \in Modes /\ w(i) \in Seq(Letter) /\ Esc0(i) \in BOOLEAN
    BY <1>4 DEF State
<1>6. \A i \in q .. (e - 1) : i \in q .. e /\ i + 1 \in q .. e /\ i \in 1 .. Len(t) /\ (i + 1) - 1 = i
    BY <1>1
<1>7. ASSUME NEW i \in q .. (e - 1)
      PROVE  /\ w(i + 1) = w(i) \o p(i) /\ p(i) \in Seq(Letter)
             /\ m(i + 1) = IF Esc0(i) THEN m(i)
                           ELSE IF m(i) # "none" THEN IF t[i] = m(i) THEN "none" ELSE m(i)
                           ELSE IF t[i] \in Quote THEN t[i] ELSE "none"
             /\ Esc0(i + 1) <=> ~Esc0(i) /\ t[i] = Esc
             /\ p(i) = IF Esc0(i) THEN IF m(i) = "none" \/ t[i] \in {m(i), Esc} THEN <<t[i]>> ELSE <<Esc, t[i]>>
                       ELSE IF t[i] = Esc \/ (IF m(i) = "none" THEN t[i] \in Quote ELSE t[i] = m(i)) THEN <<>>
                       ELSE <<t[i]>>
    <2>1. Goes(After(t, i - 1), t[i], After(t, i)) /\ (i + 1) - 1 = i  BY <1>3, <1>6
    <2>2. t[i] \in Letter /\ Esc \in Letter  BY <1>6, LineIs DEF Letter
    <2>3. p(i) = IF Esc0(i) THEN IF m(i) = "none" \/ t[i] \in {m(i), Esc} THEN <<t[i]>> ELSE <<Esc, t[i]>>
                 ELSE IF t[i] = Esc \/ (IF m(i) = "none" THEN t[i] \in Quote ELSE t[i] = m(i)) THEN <<>>
                 ELSE <<t[i]>>
        BY DEF Piece
    <2>4. p(i) \in Seq(Letter)
        <3>1. <<t[i]>> \in Seq(Letter) /\ <<Esc, t[i]>> \in Seq(Letter) /\ <<>> \in Seq(Letter)
            BY <2>2, EmptySeq
        <3> HIDE DEF p, m, Esc0
        <3> QED  BY <2>3, <3>1
    <2> QED  BY <2>1, <2>3, <2>4 DEF Goes
<1>8. ~Esc0(e)
    <2>1. e \in q .. e  BY <1>1
    <2>2. CASE e = End(t)  BY <1>1, <2>2, LastIsClear
    <2>3. CASE e # End(t)  BY <2>3 DEF IsWord, Clear
    <2> QED  BY <2>2, <2>3
<1>9. C(e)
    <2>1. e \in q .. e  BY <1>1
    <2>2. r(e) = Taken(t, e, e, m(e), d[e + 1], d[e + 2])  BY <1>2, <1>5, <2>1
    <2>3. r(e) = <<>>  BY <2>2 DEF Taken
    <2>4. w(e) \in Seq(Letter)  BY <1>5, <2>1
    <2> HIDE DEF r, w
    <2> QED  BY <2>3, <2>4, ConcatEmptySeq, EmptySeq
<1>10. ASSUME NEW i \in q .. (e - 1), r(i) = p(i) \o r(i + 1), C(i + 1) PROVE C(i)
    <2>1. w(i + 1) = w(i) \o p(i) /\ p(i) \in Seq(Letter)  BY <1>7
    <2>2. w(i) \in Seq(Letter)  BY <1>5, <1>6
    <2> HIDE DEF p, w, r
    <2>3. r(i + 1) \in Seq(Letter) /\ w(e) = w(i + 1) \o r(i + 1)  BY <1>10
    <2>4. p(i) \o r(i + 1) \in Seq(Letter) /\ (w(i) \o p(i)) \o r(i + 1) = w(i) \o (p(i) \o r(i + 1))
        BY <2>1, <2>2, <2>3, ThreeParts
    <2> QED  BY <1>10, <2>1, <2>3, <2>4
<1>11. ASSUME NEW i \in q .. (e - 1), i + 1 \in q .. (e - 1), p(i) = <<>>,
              r(i) = p(i + 1) \o r(i + 2), C(i + 2)
       PROVE  C(i)
    <2>1. w(i + 1) = w(i) \o p(i)  BY <1>7
    <2>2. w(i) \in Seq(Letter)  BY <1>5, <1>6
    <2>3. w(i + 1) = w(i)  BY <1>11, <2>1, <2>2, ConcatEmptySeq
    <2>4. w((i + 1) + 1) = w(i + 1) \o p(i + 1) /\ p(i + 1) \in Seq(Letter)  BY <1>7, <1>11
    <2>5. (i + 1) + 1 = i + 2  BY <1>1
    <2>6. w(i + 2) = w(i) \o p(i + 1)  BY <2>3, <2>4, <2>5
    <2> HIDE DEF p, w, r
    <2>7. r(i + 2) \in Seq(Letter) /\ w(e) = w(i + 2) \o r(i + 2)  BY <1>11
    <2>8. /\ p(i + 1) \o r(i + 2) \in Seq(Letter)
          /\ (w(i) \o p(i + 1)) \o r(i + 2) = w(i) \o (p(i + 1) \o r(i + 2))
        BY <2>2, <2>4, <2>7, ThreeParts
    <2> QED  BY <1>11, <2>6, <2>7, <2>8
<1> DEFINE S == {k \in Nat : \A i \in q .. e : i >= e - k /\ ~Esc0(i) => C(i)}
<1>12. \A i \in q .. e : r(i) = Taken(t, e, i, m(i), d[i + 1], d[i + 2])  BY <1>2, <1>5
<1>13. \A i \in q .. (e - 1) : t[i] \in Letter  BY <1>6, LineIs DEF Letter
<1> HIDE DEF C, p, r, m, w, Esc0
<1>14. 0 \in S
    <2>1. \A i \in q .. e : i >= e - 0 => i = e  BY <1>1
    <2> QED  BY <1>9, <2>1
<1>15. ASSUME NEW k \in S PROVE k + 1 \in S
    <2>1. k \in Nat /\ \A j \in q .. e : j >= e - k /\ ~Esc0(j) => C(j)
        OBVIOUS
    <2> HIDE DEF S
    <2>4. ASSUME NEW i \in q .. e, i >= e - (k + 1), ~Esc0(i) PROVE C(i)
      <3>1. CASE i >= e - k  BY <2>1, <2>4, <3>1
      <3>2. CASE ~(i >= e - k)
        <4>1. /\ i \in q .. (e - 1) /\ i + 1 \in q .. e /\ i + 1 >= e - k /\ i + 2 >= e - k /\ i \in Nat
              /\ (i + 1) + 1 = i + 2 /\ (i + 1) + 2 = i + 3 /\ i # e
            BY <1>1, <2>1, <2>4, <3>2
        <4>2. /\ m(i) \in Modes
              /\ m(i + 1) = IF m(i) # "none" THEN IF t[i] = m(i) THEN "none" ELSE m(i)
                            ELSE IF t[i] \in Quote THEN t[i] ELSE "none"
              /\ Esc0(i + 1) <=> t[i] = Esc
              /\ p(i) = IF t[i] = Esc \/ (IF m(i) = "none" THEN t[i] \in Quote ELSE t[i] = m(i)) THEN <<>>
                        ELSE <<t[i]>>
            BY <1>5, <1>7, <2>4, <4>1
        <4>3. r(i) = Taken(t, e, i, m(i), d[i + 1], d[i + 2])  BY <1>12, <2>4
        <4>4. CASE t[i] = Esc
            <5>1. Esc0(i + 1) /\ p(i) = <<>> /\ t[i] \notin Quote /\ t[i] # m(i) /\ m(i + 1) = m(i)
                BY <4>2, <4>4, Characters
            <5>2. i + 1 # e  BY <1>8, <5>1
            <5>3. i + 1 \in q .. (e - 1) /\ i + 1 < e /\ i + 2 \in q .. e  BY <1>1, <4>1, <5>2
            <5>4. /\ m(i + 2) = m(i) /\ ~Esc0(i + 2)
                  /\ p(i + 1) = IF m(i) = "none" \/ t[i + 1] \in {m(i), Esc} THEN <<t[i + 1]>> ELSE <<Esc, t[i + 1]>>
                BY <1>7, <4>1, <5>1, <5>3
            <5>5. C(i + 2)  BY <2>1, <4>1, <5>3, <5>4
            <5>6. r(i + 2) \in Seq(Letter) /\ t[i + 1] \in Letter /\ Esc \in Letter
                BY <1>13, <5>3, <5>5 DEF Letter, C
            <5>7. r(i + 2) = d[i + 2][m(i)]  BY <5>4 DEF r
            <5>8. r(i) = p(i + 1) \o r(i + 2)
                <6>1. CASE m(i) = "none" \/ t[i + 1] \in {m(i), Esc}
                    <7>1. r(i) = <<t[i + 1]>> \o d[i + 2][m(i)]
                        <8>1. CASE m(i) = "none"  BY <4>1, <4>3, <4>4, <5>3, <8>1 DEF Taken
                        <8>2. CASE m(i) # "none"
                            <9>1. Escapes(t[i + 1], m(i))  BY <6>1, <8>2 DEF Escapes
                            <9> QED  BY <4>1, <4>3, <4>4, <5>1, <5>3, <8>2, <9>1 DEF Taken
                        <8> QED  BY <8>1, <8>2
                    <7> QED  BY <5>4, <5>7, <6>1, <7>1
                <6>2. CASE m(i) # "none" /\ t[i + 1] \notin {m(i), Esc}
                    <7>1. ~Escapes(t[i + 1], m(i))  BY <6>2 DEF Escapes
                    <7>2. r(i) = <<Esc>> \o d[i + 1][m(i)]
                        BY <4>1, <4>3, <4>4, <5>1, <6>2, <7>1 DEF Taken
                    <7>3. d[i + 1][m(i)] = Taken(t, e, i + 1, m(i), d[i + 2], d[i + 3])
                        BY <1>2, <4>1, <4>2
                    <7>4. d[i + 1][m(i)] = <<t[i + 1]>> \o d[i + 2][m(i)]
                        BY <5>2, <6>2, <7>3 DEF Taken
                    <7>5. r(i) = <<Esc>> \o (<<t[i + 1]>> \o r(i + 2))  BY <5>7, <7>2, <7>4
                    <7>6. <<Esc>> \in Seq(Letter) /\ <<t[i + 1]>> \in Seq(Letter)  BY <5>6
                    <7>7. <<Esc>> \o (<<t[i + 1]>> \o r(i + 2)) = (<<Esc>> \o <<t[i + 1]>>) \o r(i + 2)
                        BY <5>6, <7>6, ConcatAssociative
                    <7>8. p(i + 1) = <<Esc>> \o <<t[i + 1]>>  BY <5>4, <5>6, <6>2, TwoLetters
                    <7> QED  BY <7>5, <7>7, <7>8
                <6> QED  BY <6>1, <6>2
            <5> QED  BY <1>11, <4>1, <5>1, <5>3, <5>5, <5>8
        <4>5. CASE t[i] # Esc
            <5>1. ~Esc0(i + 1)  BY <4>2, <4>5
            <5>2. C(i + 1)  BY <2>1, <4>1, <5>1
            <5>3. <<>> \o r(i + 1) = r(i + 1)  BY <5>2, ConcatEmptySeq DEF C
            <5>4. r(i) = p(i) \o r(i + 1)
                <6>1. CASE IF m(i) = "none" THEN t[i] \in Quote ELSE t[i] = m(i)
                    <7>1. p(i) = <<>>  BY <4>2, <6>1
                    <7>2. r(i) = d[i + 1][m(i + 1)]  BY <4>1, <4>2, <4>3, <4>5, <6>1 DEF Taken
                    <7> QED  BY <5>3, <7>1, <7>2 DEF r
                <6>2. CASE ~(IF m(i) = "none" THEN t[i] \in Quote ELSE t[i] = m(i))
                    <7>1. p(i) = <<t[i]>> /\ m(i + 1) = m(i)  BY <4>2, <4>5, <6>2
                    <7>2. r(i) = <<t[i]>> \o d[i + 1][m(i)]  BY <4>1, <4>3, <4>5, <6>2 DEF Taken
                    <7> QED  BY <7>1, <7>2 DEF r
                <6> QED  BY <6>1, <6>2
            <5> QED  BY <1>10, <4>1, <5>2, <5>4
        <4> QED  BY <4>4, <4>5
      <3> QED  BY <3>1, <3>2
    <2>5. k + 1 \in Nat  BY <2>1
    <2> QED  BY <2>4, <2>5 DEF S
<1> HIDE DEF S
<1>16. S = Nat
    <2>1. S \in SUBSET Nat  BY DEF S
    <2> QED  BY <1>14, <1>15, <2>1, Induction
<1>17. e - q \in S /\ q \in q .. e /\ q >= e - (e - q)  BY <1>1, <1>16
<1>18. ~Esc0(q) /\ m(q) = "none"  BY DEF Bound, Clear, Esc0, m
<1>19. C(q)  BY <1>17, <1>18 DEF S
<1>20. w(e) = r(q)  BY <1>3, <1>19, ConcatEmptySeq DEF C, w
<1>21. r(q) = Dequote(t, q, e)  BY <1>2, <1>18 DEF r
<1> QED  BY <1>20, <1>21 DEF w

Entry(t, g) == [op |-> g.tok, word |-> IF g.tok = "a" THEN Word(t, g) ELSE <<>>]

\* What gettoken() answers is the next word or operator of the reading.
LEMMA TokenStep ==
    ASSUME NEW t, Even(t), NEW s, Bound(t, s)
    PROVE  LET g == GetToken(t, s)
           IN /\ g.tok = "eof" => Toks(t, s) = Lexed(t).toks
              /\ g.tok # "eof" => /\ Bound(t, g.s) /\ g.s \in (s + 1) .. End(t)
                                  /\ Toks(t, g.s) = Append(Toks(t, s), Entry(t, g))
<1> DEFINE q == Skip(t, s)
           g == GetToken(t, s)
<1>1. IsLine(t) /\ s \in 1 .. End(t) /\ Clear(t, s)  BY DEF Even, Bound
<1>2. Bound(t, q) /\ Toks(t, q) = Toks(t, s) /\ q \in s .. End(t) /\ (q = End(t) \/ t[q] \notin Blank)
    BY <1>1, BoundSkip, SkipIs
<1>3. /\ g.tok = "eof" <=> q = End(t)
      /\ g.tok = "a" <=> q # End(t) /\ t[q] \notin Symbol
      /\ g.q = q /\ g.eq \in q .. End(t)
      /\ q # End(t) => g.eq > q
    BY <1>1, TokenRange
<1>4. IsToken(t, q, g)  BY TokenIs
<1>5. g.tok # "eof" => g.s \in (s + 1) .. End(t)  BY <1>1, TokenGoesOn
<1>6. End(t) \in Nat /\ Len(t) \in Nat /\ End(t) = Len(t) + 1 /\ End(t) - 1 = Len(t)  BY <1>1, LineIs
<1> HIDE DEF q, g
<1>7. ASSUME g.tok = "eof" PROVE Toks(t, s) = Lexed(t).toks
    <2>1. Toks(t, q) = Close(After(t, Len(t))).toks  BY <1>3, <1>6, <1>7 DEF Toks
    <2>2. Lexed(t).toks = Close(After(t, Len(t))).toks  BY DEF Lexed, After
    <2> QED  BY <1>2, <2>1, <2>2
<1>8. ASSUME g.tok # "eof" PROVE Bound(t, g.s) /\ Toks(t, g.s) = Append(Toks(t, s), Entry(t, g))
    <2>1. q # End(t) /\ t[q] \notin Blank  BY <1>2, <1>3, <1>8
    <2>2. SUFFICES Bound(t, g.eq) /\ Toks(t, g.eq) = Append(Toks(t, s), Entry(t, g))
        <3>1. g.s = Skip(t, g.eq)  BY <1>4 DEF IsToken
        <3> QED  BY <1>1, <3>1, BoundSkip
    <2>3. CASE Twice(t, q)
        <3>1. g.tok = "+" /\ g.eq = q + 2  BY <1>4, <2>1, <2>3 DEF IsToken
        <3>2. Entry(t, g) = Op("+")  BY <3>1 DEF Entry, Op
        <3> QED  BY <1>1, <1>2, <2>1, <2>3, <3>1, <3>2, TwiceStep
    <2>4. CASE ~Twice(t, q) /\ t[q] \in Symbol
        <3>1. g.tok = t[q] /\ g.eq = q + 1 /\ g.tok # "a"  BY <1>3, <1>4, <2>1, <2>4 DEF IsToken
        <3>2. Entry(t, g) = Op(t[q])  BY <3>1 DEF Entry, Op
        <3>3. /\ q + 1 \in 1 .. End(t) /\ Clear(t, q + 1) /\ ~After(t, q).open
              /\ After(t, q).gt <=> t[q] = ">"
              /\ Toks(t, q + 1) = Append(Toks(t, q), Op(t[q]))
            BY <1>1, <1>2, <2>1, <2>4, SymbolStep
        <3>4. q \in Nat /\ (q + 1) - 1 = q /\ (q + 1 # End(t) => q + 1 < End(t))  BY <1>1, <1>2, <1>6, <3>3
        <3>5. After(t, q).gt /\ q + 1 # End(t) => t[q + 1] # ">"  BY <2>4, <3>3, <3>4 DEF Twice
        <3>6. Bound(t, q + 1)  BY <3>3, <3>4, <3>5 DEF Bound
        <3> QED  BY <1>2, <3>1, <3>2, <3>3, <3>6
    <2>5. CASE t[q] \notin Symbol
        <3>1. g.tok = "a" /\ g.eq = WordEnd(t, q)  BY <1>4, <2>1, <2>5 DEF IsToken
        <3>2. q \in 1 .. End(t) /\ Clear(t, q)  BY <1>2 DEF Bound
        <3>3. IsWord(t, q, g.eq)  BY <3>1, <3>2, WordEndMeans
        <3>4. g.eq \in (q + 1) .. End(t) /\ t[q] \notin Blank \cup Symbol
            BY <1>3, <1>6, <2>1, <2>5, <3>2
        <3>5. /\ Bound(t, g.eq)
              /\ Toks(t, g.eq) = Append(Toks(t, q), [op |-> "a", word |-> After(t, g.eq - 1).word])
            BY <1>1, <1>2, <2>1, <3>3, <3>4, WordStep
        <3>6. Word(t, g) = After(t, g.eq - 1).word  BY <1>1, <1>2, <1>3, <2>1, <3>3, <3>4, WordText DEF Word
        <3>7. Entry(t, g) = [op |-> "a", word |-> After(t, g.eq - 1).word]  BY <3>1, <3>6 DEF Entry
        <3> QED  BY <1>2, <3>5, <3>7
    <2> QED  BY <2>3, <2>4, <2>5
<1> QED  BY <1>5, <1>7, <1>8 DEF g

Tokens(t) == Lexed(t).toks
\* The number of the word or operator that gettoken() finds at s.
At(t, s) == Len(Toks(t, s)) + 1

\* The words and operators before s are the first ones of the line.
LEMMA Beginning ==
    ASSUME NEW t, Even(t), NEW s, Bound(t, s)
    PROVE  /\ Tokens(t) \in Seq(TokenType) /\ Toks(t, s) \in Seq(TokenType)
           /\ Len(Toks(t, s)) <= Len(Tokens(t))
           /\ \A i \in 1 .. Len(Toks(t, s)) : Tokens(t)[i] = Toks(t, s)[i]
<1> DEFINE n == End(t)
           P(k) == /\ Tokens(t) \in Seq(TokenType) /\ Toks(t, k) \in Seq(TokenType)
                   /\ Len(Toks(t, k)) <= Len(Tokens(t))
                   /\ \A i \in 1 .. Len(Toks(t, k)) : Tokens(t)[i] = Toks(t, k)[i]
           S == {m \in Nat : \A k \in 1 .. n : k > n - m /\ Bound(t, k) => P(k)}
<1>1. n \in Nat /\ IsLine(t)  BY LineIs DEF Even
<1>2. 0 \in S
    <2>1. \A k \in 1 .. n : ~(k > n - 0)  BY <1>1
    <2> QED  BY <2>1
<1>3. ASSUME NEW m \in S PROVE m + 1 \in S
    <2> SUFFICES ASSUME NEW k \in 1 .. n, k > n - (m + 1), Bound(t, k) PROVE P(k)
        OBVIOUS
    <2>1. m \in Nat /\ k \in 1 .. n /\ k > n - (m + 1)  OBVIOUS
    <2>2. \A j \in 1 .. n : j > n - m /\ Bound(t, j) => P(j)  OBVIOUS
    <2> DEFINE g == GetToken(t, k)
    <2>3. Toks(t, k) \in Seq(TokenType)  BY <1>1, ToksType
    <2>4. CASE g.tok = "eof"
        <3>1. Toks(t, k) = Tokens(t)  BY <2>4, TokenStep DEF Tokens
        <3>2. Len(Toks(t, k)) \in Nat  BY <2>3, LenProperties
        <3> QED  BY <2>3, <3>1, <3>2
    <2>5. CASE g.tok # "eof"
        <3>1. /\ Bound(t, g.s) /\ g.s \in (k + 1) .. n
              /\ Toks(t, g.s) = Append(Toks(t, k), Entry(t, g))
            BY <2>5, TokenStep
        <3> HIDE DEF g, n, P
        <3>2. g.s \in 1 .. n /\ g.s > n - m  BY <1>1, <2>1, <3>1
        <3>3. P(g.s)  BY <2>2, <3>1, <3>2
        <3> DEFINE before == Toks(t, k)
                   all == Tokens(t)
                   u == Append(before, Entry(t, g))
        <3>4. /\ all \in Seq(TokenType) /\ u \in Seq(TokenType) /\ Len(u) <= Len(all)
              /\ \A i \in 1 .. Len(u) : all[i] = u[i]
            BY <3>1, <3>3 DEF P
        <3>5. before \in Seq(TokenType) /\ Len(before) \in Nat /\ Len(all) \in Nat
            BY <2>3, <3>4, LenProperties
        <3>6. Len(u) = Len(before) + 1 /\ \A i \in 1 .. Len(before) : u[i] = before[i]
            BY <3>5, AppendProperties
        <3> HIDE DEF u, before, all
        <3>7. \A i \in 1 .. Len(before) : i \in 1 .. Len(u)  BY <3>5, <3>6
        <3>8. Len(before) <= Len(all) /\ \A i \in 1 .. Len(before) : all[i] = before[i]
            BY <3>4, <3>5, <3>6, <3>7
        <3> QED  BY <2>3, <3>4, <3>8 DEF P, before, all
    <2> QED  BY <2>4, <2>5
<1> HIDE DEF S
<1>4. S = Nat
    <2>1. S \in SUBSET Nat  BY DEF S
    <2> QED  BY <1>2, <1>3, <2>1, Induction
<1>5. s \in 1 .. n  BY DEF Bound
<1>6. n \in S /\ s > n - n  BY <1>1, <1>4, <1>5
<1> HIDE DEF P
<1>7. P(s)  BY <1>5, <1>6 DEF S
<1> QED  BY <1>7 DEF P

\* gettoken() and peek(), in terms of the words and operators of the line.
LEMMA Scans ==
    ASSUME NEW t, Even(t), NEW s, Bound(t, s)
    PROVE  LET g == GetToken(t, s)
               k == At(t, s)
               w == Tokens(t)
           IN /\ w \in Seq(TokenType) /\ Len(w) \in Nat /\ k \in 1 .. (Len(w) + 1) /\ s \in 1 .. End(t)
              /\ g.tok = "eof" <=> k = Len(w) + 1
              /\ Skip(t, s) = End(t) <=> k = Len(w) + 1
              /\ k # Len(w) + 1 => /\ Bound(t, g.s) /\ g.s \in (s + 1) .. End(t) /\ At(t, g.s) = k + 1
                                   /\ k \in 1 .. Len(w) /\ w[k].op = g.tok
                                   /\ g.tok = "a" => w[k].word = Word(t, g)
              /\ \A S \in SUBSET Symbol :
                    Peek(t, s, S) <=> /\ k # Len(w) + 1
                                      /\ w[k].op \in S \/ (w[k].op = "+" /\ ">" \in S)
<1> DEFINE q == Skip(t, s)
           g == GetToken(t, s)
           k == At(t, s)
           w == Tokens(t)
           before == Toks(t, s)
<1>1. IsLine(t) /\ s \in 1 .. End(t)  BY DEF Even, Bound
<1>2. /\ w \in Seq(TokenType) /\ before \in Seq(TokenType) /\ Len(before) <= Len(w)
      /\ Len(w) \in Nat /\ Len(before) \in Nat /\ k = Len(before) + 1
    BY Beginning, LenProperties DEF At
<1>3. q \in s .. End(t) /\ q \in 1 .. End(t)  BY <1>1, SkipIs, LineIs
<1>4. /\ g.tok = "eof" <=> q = End(t)
      /\ g.tok = "a" <=> q # End(t) /\ t[q] \notin Symbol
    BY <1>1, TokenRange
<1>5. g.tok = "eof" => before = w  BY TokenStep DEF Tokens
<1>6. ASSUME g.tok # "eof"
      PROVE  /\ Bound(t, g.s) /\ g.s \in (s + 1) .. End(t) /\ At(t, g.s) = k + 1
             /\ k \in 1 .. Len(w) /\ w[k] = Entry(t, g)
    <2>1. /\ Bound(t, g.s) /\ g.s \in (s + 1) .. End(t)
          /\ Toks(t, g.s) = Append(before, Entry(t, g))
        BY <1>6, TokenStep
    <2> DEFINE u == Toks(t, g.s)
    <2>2. /\ u \in Seq(TokenType) /\ Len(u) <= Len(w) /\ Len(u) \in Nat
          /\ \A i \in 1 .. Len(u) : w[i] = u[i]
        BY <2>1, Beginning, LenProperties
    <2> HIDE DEF g, w, before
    <2>3. u = Append(before, Entry(t, g))  BY <2>1
    <2> HIDE DEF u
    <2>4. Len(u) = Len(before) + 1 /\ u[Len(before) + 1] = Entry(t, g)  BY <1>2, <2>3, AppendProperties
    <2>5. At(t, g.s) = k + 1  BY <1>2, <2>4 DEF At, u
    <2>6. k \in 1 .. Len(u) /\ k \in 1 .. Len(w)  BY <1>2, <2>2, <2>4
    <2> QED  BY <1>2, <2>1, <2>2, <2>4, <2>5, <2>6
<1>7. g.tok = "eof" <=> k = Len(w) + 1
    <2>1. g.tok = "eof" => k = Len(w) + 1  BY <1>2, <1>5
    <2>2. g.tok # "eof" => k # Len(w) + 1  BY <1>2, <1>6
    <2> QED  BY <2>1, <2>2
<1>8. g.tok # "eof" => w[k].op = g.tok /\ (g.tok = "a" => w[k].word = Word(t, g))
    BY <1>6 DEF Entry
<1>9. ASSUME NEW S \in SUBSET Symbol
      PROVE  Peek(t, s, S) <=> k # Len(w) + 1 /\ (w[k].op \in S \/ (w[k].op = "+" /\ ">" \in S))
    <2>1. Peek(t, s, S) <=> q < End(t) /\ t[q] \in S  BY DEF Peek
    <2>2. q < End(t) <=> q # End(t)  BY <1>1, <1>3, LineIs
    <2>3. IsToken(t, q, g)  BY TokenIs
    <2>4. "a" \notin Symbol /\ "+" \notin Symbol /\ "a" # "+"  BY DEF Symbol
    <2> HIDE DEF q, g, k, w
    <2>5. CASE q = End(t)  BY <1>4, <1>7, <2>1, <2>2, <2>5
    <2>6. CASE q # End(t) /\ Twice(t, q)
        <3>1. g.tok = "+" /\ t[q] = ">"  BY <2>3, <2>6 DEF IsToken, Twice
        <3> QED  BY <1>4, <1>7, <1>8, <2>1, <2>2, <2>4, <2>6, <3>1
    <2>7. CASE q # End(t) /\ ~Twice(t, q) /\ t[q] \in Symbol
        <3>1. g.tok = t[q]  BY <2>3, <2>7 DEF IsToken
        <3> QED  BY <1>4, <1>7, <1>8, <2>1, <2>2, <2>4, <2>7, <3>1
    <2>8. CASE q # End(t) /\ t[q] \notin Symbol
        <3>1. g.tok = "a"  BY <1>4, <2>8
        <3> QED  BY <1>4, <1>7, <1>8, <2>1, <2>2, <2>4, <2>8, <3>1
    <2> QED  BY <2>5, <2>6, <2>7, <2>8
<1> HIDE DEF q, g, k, w, before
<1>10. k \in 1 .. (Len(w) + 1)  BY <1>2
<1> QED  BY <1>1, <1>2, <1>4, <1>6, <1>7, <1>8, <1>9, <1>10 DEF q, g, k, w

-----------------------------------------------------------------------------
(* The recursive functions of the parser and of the grammar are there. *)

\* The nesting after the word or operator e, and the counts of it up to number k.
Deeper(d, e) == IF e.op = "(" THEN d + 1 ELSE IF e.op = ")" THEN d - 1 ELSE d
Deep(r, w, k) ==
    r = [i \in 0 .. k |-> IF i = 0 THEN 0 ELSE Deeper(r[i - 1], w[i])]

\* What the recursive functions of the parser and of the reference define, they define:
\* each is built one value at a time.
LEMMA DeepExists ==
    ASSUME NEW w, NEW n \in Nat
    PROVE  \E r : Deep(r, w, n)
<1> DEFINE S == {k \in Nat : \E r : Deep(r, w, k)}
           V(r, i) == IF i = 0 THEN 0 ELSE Deeper(r[i - 1], w[i])
<1>1. 0 \in S
    <2> DEFINE r == [i \in 0 .. 0 |-> 0]
    <2>1. Deep(r, w, 0)  BY DEF Deep
    <2> QED  BY <2>1
<1>2. ASSUME NEW m \in S PROVE m + 1 \in S
    <2> DEFINE k == m
               l == m + 1
    <2>1. m \in Nat /\ k \in Int /\ l = k + 1 /\ k >= 0 /\ l # 0  OBVIOUS
    <2>2. PICK r : Deep(r, w, k)  OBVIOUS
    <2> HIDE DEF k, l
    <2> DEFINE g == [i \in 0 .. l |-> IF i = l THEN V(r, l) ELSE r[i]]
    <2>3. \A i \in 0 .. k : r[i] = V(r, i)  BY <2>2 DEF Deep
    <2>4. \A i \in 0 .. k : g[i] = r[i] /\ i # l  BY <2>1
    <2>5. g[l] = V(r, l) /\ l - 1 \in 0 .. k  BY <2>1
    <2>6. \A i \in 0 .. l : i = l \/ (i \in 0 .. k /\ (i # 0 => i - 1 \in 0 .. k))  BY <2>1
    <2>7. g = [i \in 0 .. l |-> g[i]]  OBVIOUS
    <2> HIDE DEF g
    <2>8. ASSUME NEW i \in 0 .. l PROVE g[i] = V(g, i)
        <3>1. CASE i = l  BY <2>1, <2>4, <2>5, <3>1
        <3>2. CASE i # l
            <4>1. i \in 0 .. k /\ (i # 0 => i - 1 \in 0 .. k)  BY <2>6, <3>2
            <4> QED  BY <2>3, <2>4, <4>1
        <3> QED  BY <3>1, <3>2
    <2>9. Deep(g, w, l)  BY <2>7, <2>8 DEF Deep
    <2> QED  BY <2>1, <2>9 DEF l
<1> HIDE DEF S
<1>3. S = Nat
    <2>1. S \in SUBSET Nat  BY DEF S
    <2> QED  BY <1>1, <1>2, <2>1, Induction
<1> QED  BY <1>3 DEF S

Backs(r, cmd, k) ==
    r = [i \in 0 .. k |-> IF i = 0 THEN cmd ELSE <<"BACK", r[i - 1]>>]

LEMMA BacksExists ==
    ASSUME NEW cmd, NEW n \in Nat
    PROVE  \E r : Backs(r, cmd, n)
<1> DEFINE S == {k \in Nat : \E r : Backs(r, cmd, k)}
           V(r, i) == IF i = 0 THEN cmd ELSE <<"BACK", r[i - 1]>>
<1>1. 0 \in S
    <2> DEFINE r == [i \in 0 .. 0 |-> cmd]
    <2>1. Backs(r, cmd, 0)  BY DEF Backs
    <2> QED  BY <2>1
<1>2. ASSUME NEW m \in S PROVE m + 1 \in S
    <2> DEFINE k == m
               l == m + 1
    <2>1. m \in Nat /\ k \in Int /\ l = k + 1 /\ k >= 0 /\ l # 0  OBVIOUS
    <2>2. PICK r : Backs(r, cmd, k)  OBVIOUS
    <2> HIDE DEF k, l
    <2> DEFINE g == [i \in 0 .. l |-> IF i = l THEN V(r, l) ELSE r[i]]
    <2>3. \A i \in 0 .. k : r[i] = V(r, i)  BY <2>2 DEF Backs
    <2>4. \A i \in 0 .. k : g[i] = r[i] /\ i # l  BY <2>1
    <2>5. g[l] = V(r, l) /\ l - 1 \in 0 .. k  BY <2>1
    <2>6. \A i \in 0 .. l : i = l \/ (i \in 0 .. k /\ (i # 0 => i - 1 \in 0 .. k))  BY <2>1
    <2>7. g = [i \in 0 .. l |-> g[i]]  OBVIOUS
    <2> HIDE DEF g
    <2>8. ASSUME NEW i \in 0 .. l PROVE g[i] = V(g, i)
        <3>1. CASE i = l  BY <2>1, <2>4, <2>5, <3>1
        <3>2. CASE i # l
            <4>1. i \in 0 .. k /\ (i # 0 => i - 1 \in 0 .. k)  BY <2>6, <3>2
            <4> QED  BY <2>3, <2>4, <4>1
        <3> QED  BY <3>1, <3>2
    <2>9. Backs(g, cmd, l)  BY <2>7, <2>8 DEF Backs
    <2> QED  BY <2>1, <2>9 DEF l
<1> HIDE DEF S
<1>3. S = Nat
    <2>1. S \in SUBSET Nat  BY DEF S
    <2> QED  BY <1>1, <1>2, <2>1, Induction
<1> QED  BY <1>3 DEF S

Redirecting(r, t, x, k) ==
    r = [i \in 0 .. k |-> IF i = 0 THEN [x EXCEPT !.s = Skip(t, @)] ELSE OneRedir(t, r[i - 1])]

LEMMA RedirsExist ==
    ASSUME NEW t, NEW x, NEW n \in Nat
    PROVE  \E r : Redirecting(r, t, x, n)
<1> DEFINE S == {k \in Nat : \E r : Redirecting(r, t, x, k)}
           V(r, i) == IF i = 0 THEN [x EXCEPT !.s = Skip(t, @)] ELSE OneRedir(t, r[i - 1])
<1>1. 0 \in S
    <2> DEFINE r == [i \in 0 .. 0 |-> [x EXCEPT !.s = Skip(t, @)]]
    <2>1. Redirecting(r, t, x, 0)  BY DEF Redirecting
    <2> QED  BY <2>1
<1>2. ASSUME NEW m \in S PROVE m + 1 \in S
    <2> DEFINE k == m
               l == m + 1
    <2>1. m \in Nat /\ k \in Int /\ l = k + 1 /\ k >= 0 /\ l # 0  OBVIOUS
    <2>2. PICK r : Redirecting(r, t, x, k)  OBVIOUS
    <2> HIDE DEF k, l
    <2> DEFINE g == [i \in 0 .. l |-> IF i = l THEN V(r, l) ELSE r[i]]
    <2>3. \A i \in 0 .. k : r[i] = V(r, i)  BY <2>2 DEF Redirecting
    <2>4. \A i \in 0 .. k : g[i] = r[i] /\ i # l  BY <2>1
    <2>5. g[l] = V(r, l) /\ l - 1 \in 0 .. k  BY <2>1
    <2>6. \A i \in 0 .. l : i = l \/ (i \in 0 .. k /\ (i # 0 => i - 1 \in 0 .. k))  BY <2>1
    <2>7. g = [i \in 0 .. l |-> g[i]]  OBVIOUS
    <2> HIDE DEF g
    <2>8. ASSUME NEW i \in 0 .. l PROVE g[i] = V(g, i)
        <3>1. CASE i = l  BY <2>1, <2>4, <2>5, <3>1
        <3>2. CASE i # l
            <4>1. i \in 0 .. k /\ (i # 0 => i - 1 \in 0 .. k)  BY <2>6, <3>2
            <4> QED  BY <2>3, <2>4, <4>1
        <3> QED  BY <3>1, <3>2
    <2>9. Redirecting(g, t, x, l)  BY <2>7, <2>8 DEF Redirecting
    <2> QED  BY <2>1, <2>9 DEF l
<1> HIDE DEF S
<1>3. S = Nat
    <2>1. S \in SUBSET Nat  BY DEF S
    <2> QED  BY <1>1, <1>2, <2>1, Induction
<1> QED  BY <1>3 DEF S

Arguing(r, t, x, k) ==
    r = [i \in 0 .. k |-> IF i = 0 THEN x ELSE OneArg(t, r[i - 1])]

LEMMA ArgsExist ==
    ASSUME NEW t, NEW x, NEW n \in Nat
    PROVE  \E r : Arguing(r, t, x, n)
<1> DEFINE S == {k \in Nat : \E r : Arguing(r, t, x, k)}
           V(r, i) == IF i = 0 THEN x ELSE OneArg(t, r[i - 1])
<1>1. 0 \in S
    <2> DEFINE r == [i \in 0 .. 0 |-> x]
    <2>1. Arguing(r, t, x, 0)  BY DEF Arguing
    <2> QED  BY <2>1
<1>2. ASSUME NEW m \in S PROVE m + 1 \in S
    <2> DEFINE k == m
               l == m + 1
    <2>1. m \in Nat /\ k \in Int /\ l = k + 1 /\ k >= 0 /\ l # 0  OBVIOUS
    <2>2. PICK r : Arguing(r, t, x, k)  OBVIOUS
    <2> HIDE DEF k, l
    <2> DEFINE g == [i \in 0 .. l |-> IF i = l THEN V(r, l) ELSE r[i]]
    <2>3. \A i \in 0 .. k : r[i] = V(r, i)  BY <2>2 DEF Arguing
    <2>4. \A i \in 0 .. k : g[i] = r[i] /\ i # l  BY <2>1
    <2>5. g[l] = V(r, l) /\ l - 1 \in 0 .. k  BY <2>1
    <2>6. \A i \in 0 .. l : i = l \/ (i \in 0 .. k /\ (i # 0 => i - 1 \in 0 .. k))  BY <2>1
    <2>7. g = [i \in 0 .. l |-> g[i]]  OBVIOUS
    <2> HIDE DEF g
    <2>8. ASSUME NEW i \in 0 .. l PROVE g[i] = V(g, i)
        <3>1. CASE i = l  BY <2>1, <2>4, <2>5, <3>1
        <3>2. CASE i # l
            <4>1. i \in 0 .. k /\ (i # 0 => i - 1 \in 0 .. k)  BY <2>6, <3>2
            <4> QED  BY <2>3, <2>4, <4>1
        <3> QED  BY <3>1, <3>2
    <2>9. Arguing(g, t, x, l)  BY <2>7, <2>8 DEF Arguing
    <2> QED  BY <2>1, <2>9 DEF l
<1> HIDE DEF S
<1>3. S = Nat
    <2>1. S \in SUBSET Nat  BY DEF S
    <2> QED  BY <1>1, <1>2, <2>1, Induction
<1> QED  BY <1>3 DEF S

Amps(r, t, x, k) ==
    r = [i \in 0 .. k |-> IF i = 0 THEN x ELSE OneAmp(t, r[i - 1])]

LEMMA AmpsExist ==
    ASSUME NEW t, NEW x, NEW n \in Nat
    PROVE  \E r : Amps(r, t, x, n)
<1> DEFINE S == {k \in Nat : \E r : Amps(r, t, x, k)}
           V(r, i) == IF i = 0 THEN x ELSE OneAmp(t, r[i - 1])
<1>1. 0 \in S
    <2> DEFINE r == [i \in 0 .. 0 |-> x]
    <2>1. Amps(r, t, x, 0)  BY DEF Amps
    <2> QED  BY <2>1
<1>2. ASSUME NEW m \in S PROVE m + 1 \in S
    <2> DEFINE k == m
               l == m + 1
    <2>1. m \in Nat /\ k \in Int /\ l = k + 1 /\ k >= 0 /\ l # 0  OBVIOUS
    <2>2. PICK r : Amps(r, t, x, k)  OBVIOUS
    <2> HIDE DEF k, l
    <2> DEFINE g == [i \in 0 .. l |-> IF i = l THEN V(r, l) ELSE r[i]]
    <2>3. \A i \in 0 .. k : r[i] = V(r, i)  BY <2>2 DEF Amps
    <2>4. \A i \in 0 .. k : g[i] = r[i] /\ i # l  BY <2>1
    <2>5. g[l] = V(r, l) /\ l - 1 \in 0 .. k  BY <2>1
    <2>6. \A i \in 0 .. l : i = l \/ (i \in 0 .. k /\ (i # 0 => i - 1 \in 0 .. k))  BY <2>1
    <2>7. g = [i \in 0 .. l |-> g[i]]  OBVIOUS
    <2> HIDE DEF g
    <2>8. ASSUME NEW i \in 0 .. l PROVE g[i] = V(g, i)
        <3>1. CASE i = l  BY <2>1, <2>4, <2>5, <3>1
        <3>2. CASE i # l
            <4>1. i \in 0 .. k /\ (i # 0 => i - 1 \in 0 .. k)  BY <2>6, <3>2
            <4> QED  BY <2>3, <2>4, <4>1
        <3> QED  BY <3>1, <3>2
    <2>9. Amps(g, t, x, l)  BY <2>7, <2>8 DEF Amps
    <2> QED  BY <2>1, <2>9 DEF l
<1> HIDE DEF S
<1>3. S = Nat
    <2>1. S \in SUBSET Nat  BY DEF S
    <2> QED  BY <1>1, <1>2, <2>1, Induction
<1> QED  BY <1>3 DEF S

Gathers(r, w, i, j, k) ==
    r = [y \in (i - 1) .. k |-> IF y = (i - 1) THEN <<>> ELSE (IF y \in Args(w, i, j) THEN Append(r[y - 1], w[y].word) ELSE r[y - 1])]

LEMMA WordsExist ==
    ASSUME NEW w, NEW i \in Int, NEW j, NEW n \in Nat
    PROVE  \E r : Gathers(r, w, i, j, (i - 1) + n)
<1> DEFINE S == {m \in Nat : \E r : Gathers(r, w, i, j, (i - 1) + m)}
           V(r, y) == IF y = (i - 1) THEN <<>> ELSE (IF y \in Args(w, i, j) THEN Append(r[y - 1], w[y].word) ELSE r[y - 1])
<1>1. 0 \in S
    <2> DEFINE r == [y \in (i - 1) .. (i - 1) |-> <<>>]
    <2>1. Gathers(r, w, i, j, (i - 1))  BY DEF Gathers
    <2> QED  BY <2>1
<1>2. ASSUME NEW m \in S PROVE m + 1 \in S
    <2> DEFINE k == (i - 1) + m
               l == (i - 1) + (m + 1)
    <2>1. m \in Nat /\ k \in Int /\ l = k + 1 /\ k >= (i - 1) /\ l # (i - 1)  OBVIOUS
    <2>2. PICK r : Gathers(r, w, i, j, k)  OBVIOUS
    <2> HIDE DEF k, l
    <2> DEFINE g == [y \in (i - 1) .. l |-> IF y = l THEN V(r, l) ELSE r[y]]
    <2>3. \A y \in (i - 1) .. k : r[y] = V(r, y)  BY <2>2 DEF Gathers
    <2>4. \A y \in (i - 1) .. k : g[y] = r[y] /\ y # l  BY <2>1
    <2>5. g[l] = V(r, l) /\ l - 1 \in (i - 1) .. k  BY <2>1
    <2>6. \A y \in (i - 1) .. l : y = l \/ (y \in (i - 1) .. k /\ (y # (i - 1) => y - 1 \in (i - 1) .. k))  BY <2>1
    <2>7. g = [y \in (i - 1) .. l |-> g[y]]  OBVIOUS
    <2> HIDE DEF g
    <2>8. ASSUME NEW y \in (i - 1) .. l PROVE g[y] = V(g, y)
        <3>1. CASE y = l  BY <2>1, <2>4, <2>5, <3>1
        <3>2. CASE y # l
            <4>1. y \in (i - 1) .. k /\ (y # (i - 1) => y - 1 \in (i - 1) .. k)  BY <2>6, <3>2
            <4> QED  BY <2>3, <2>4, <4>1
        <3> QED  BY <3>1, <3>2
    <2>9. Gathers(g, w, i, j, l)  BY <2>7, <2>8 DEF Gathers
    <2> QED  BY <2>1, <2>9 DEF l
<1> HIDE DEF S
<1>3. S = Nat
    <2>1. S \in SUBSET Nat  BY DEF S
    <2> QED  BY <1>1, <1>2, <2>1, Induction
<1> QED  BY <1>3 DEF S

Collects(r, w, i, j, k) ==
    r = [y \in (i - 1) .. k |-> IF y = (i - 1) THEN <<>> ELSE (IF y \in Redirs(w, i, j) THEN Append(r[y - 1], <<w[y].op, w[y + 1].word>>) ELSE r[y - 1])]

LEMMA FilesExist ==
    ASSUME NEW w, NEW i \in Int, NEW j, NEW n \in Nat
    PROVE  \E r : Collects(r, w, i, j, (i - 1) + n)
<1> DEFINE S == {m \in Nat : \E r : Collects(r, w, i, j, (i - 1) + m)}
           V(r, y) == IF y = (i - 1) THEN <<>> ELSE (IF y \in Redirs(w, i, j) THEN Append(r[y - 1], <<w[y].op, w[y + 1].word>>) ELSE r[y - 1])
<1>1. 0 \in S
    <2> DEFINE r == [y \in (i - 1) .. (i - 1) |-> <<>>]
    <2>1. Collects(r, w, i, j, (i - 1))  BY DEF Collects
    <2> QED  BY <2>1
<1>2. ASSUME NEW m \in S PROVE m + 1 \in S
    <2> DEFINE k == (i - 1) + m
               l == (i - 1) + (m + 1)
    <2>1. m \in Nat /\ k \in Int /\ l = k + 1 /\ k >= (i - 1) /\ l # (i - 1)  OBVIOUS
    <2>2. PICK r : Collects(r, w, i, j, k)  OBVIOUS
    <2> HIDE DEF k, l
    <2> DEFINE g == [y \in (i - 1) .. l |-> IF y = l THEN V(r, l) ELSE r[y]]
    <2>3. \A y \in (i - 1) .. k : r[y] = V(r, y)  BY <2>2 DEF Collects
    <2>4. \A y \in (i - 1) .. k : g[y] = r[y] /\ y # l  BY <2>1
    <2>5. g[l] = V(r, l) /\ l - 1 \in (i - 1) .. k  BY <2>1
    <2>6. \A y \in (i - 1) .. l : y = l \/ (y \in (i - 1) .. k /\ (y # (i - 1) => y - 1 \in (i - 1) .. k))  BY <2>1
    <2>7. g = [y \in (i - 1) .. l |-> g[y]]  OBVIOUS
    <2> HIDE DEF g
    <2>8. ASSUME NEW y \in (i - 1) .. l PROVE g[y] = V(g, y)
        <3>1. CASE y = l  BY <2>1, <2>4, <2>5, <3>1
        <3>2. CASE y # l
            <4>1. y \in (i - 1) .. k /\ (y # (i - 1) => y - 1 \in (i - 1) .. k)  BY <2>6, <3>2
            <4> QED  BY <2>3, <2>4, <4>1
        <3> QED  BY <3>1, <3>2
    <2>9. Collects(g, w, i, j, l)  BY <2>7, <2>8 DEF Collects
    <2> QED  BY <2>1, <2>9 DEF l
<1> HIDE DEF S
<1>3. S = Nat
    <2>1. S \in SUBSET Nat  BY DEF S
    <2> QED  BY <1>1, <1>2, <2>1, Induction
<1> QED  BY <1>3 DEF S

NoCalls(t) == [f \in {"line", "pipe"} |-> [s \in 1 .. End(t) |-> Got(Panic, s)]]
CallsFrom(t, p) ==
    [f \in {"line", "pipe"} |-> [s \in 1 .. End(t) |->
        IF f = "line" THEN ParseLine(t, p, s) ELSE ParsePipe(t, p, s)]]
Calling(r, t, k) ==
    r = [i \in 0 .. k |-> IF i = 0 THEN NoCalls(t) ELSE CallsFrom(t, r[i - 1])]

LEMMA CallsExist ==
    ASSUME NEW t, NEW n \in Nat
    PROVE  \E r : Calling(r, t, n)
<1> DEFINE S == {k \in Nat : \E r : Calling(r, t, k)}
           V(r, i) == IF i = 0 THEN NoCalls(t) ELSE CallsFrom(t, r[i - 1])
<1>1. 0 \in S
    <2> DEFINE r == [i \in 0 .. 0 |-> NoCalls(t)]
    <2>1. Calling(r, t, 0)  BY DEF Calling
    <2> QED  BY <2>1
<1>2. ASSUME NEW m \in S PROVE m + 1 \in S
    <2> DEFINE k == m
               l == m + 1
    <2>1. m \in Nat /\ k \in Int /\ l = k + 1 /\ k >= 0 /\ l # 0  OBVIOUS
    <2>2. PICK r : Calling(r, t, k)  OBVIOUS
    <2> HIDE DEF k, l
    <2> DEFINE g == [i \in 0 .. l |-> IF i = l THEN V(r, l) ELSE r[i]]
    <2>3. \A i \in 0 .. k : r[i] = V(r, i)  BY <2>2 DEF Calling
    <2>4. \A i \in 0 .. k : g[i] = r[i] /\ i # l  BY <2>1
    <2>5. g[l] = V(r, l) /\ l - 1 \in 0 .. k  BY <2>1
    <2>6. \A i \in 0 .. l : i = l \/ (i \in 0 .. k /\ (i # 0 => i - 1 \in 0 .. k))  BY <2>1
    <2>7. g = [i \in 0 .. l |-> g[i]]  OBVIOUS
    <2> HIDE DEF g
    <2>8. ASSUME NEW i \in 0 .. l PROVE g[i] = V(g, i)
        <3>1. CASE i = l  BY <2>1, <2>4, <2>5, <3>1
        <3>2. CASE i # l
            <4>1. i \in 0 .. k /\ (i # 0 => i - 1 \in 0 .. k)  BY <2>6, <3>2
            <4> QED  BY <2>3, <2>4, <4>1
        <3> QED  BY <3>1, <3>2
    <2>9. Calling(g, t, l)  BY <2>7, <2>8 DEF Calling
    <2> QED  BY <2>1, <2>9 DEF l
<1> HIDE DEF S
<1>3. S = Nat
    <2>1. S \in SUBSET Nat  BY DEF S
    <2> QED  BY <1>1, <1>2, <2>1, Induction
<1> QED  BY <1>3 DEF S

NoTrees(w) ==
    [f \in {"line", "pipe"} |-> [i \in 1 .. Len(w) + 1 |-> [j \in 1 .. Len(w) + 1 |-> Panic]]]
TreesFrom(w, g) ==
    [f \in {"line", "pipe"} |-> [i \in 1 .. Len(w) + 1 |-> [j \in 1 .. Len(w) + 1 |->
        IF f = "line" THEN RefLine(w, g, i, j) ELSE RefPipe(w, g, i, j)]]]
Growing(r, w, k) ==
    r = [y \in 0 .. k |-> IF y = 0 THEN NoTrees(w) ELSE TreesFrom(w, r[y - 1])]

LEMMA TreesExist ==
    ASSUME NEW w, NEW n \in Nat
    PROVE  \E r : Growing(r, w, n)
<1> DEFINE S == {k \in Nat : \E r : Growing(r, w, k)}
           V(r, y) == IF y = 0 THEN NoTrees(w) ELSE TreesFrom(w, r[y - 1])
<1>1. 0 \in S
    <2> DEFINE r == [y \in 0 .. 0 |-> NoTrees(w)]
    <2>1. Growing(r, w, 0)  BY DEF Growing
    <2> QED  BY <2>1
<1>2. ASSUME NEW m \in S PROVE m + 1 \in S
    <2> DEFINE k == m
               l == m + 1
    <2>1. m \in Nat /\ k \in Int /\ l = k + 1 /\ k >= 0 /\ l # 0  OBVIOUS
    <2>2. PICK r : Growing(r, w, k)  OBVIOUS
    <2> HIDE DEF k, l
    <2> DEFINE g == [y \in 0 .. l |-> IF y = l THEN V(r, l) ELSE r[y]]
    <2>3. \A y \in 0 .. k : r[y] = V(r, y)  BY <2>2 DEF Growing
    <2>4. \A y \in 0 .. k : g[y] = r[y] /\ y # l  BY <2>1
    <2>5. g[l] = V(r, l) /\ l - 1 \in 0 .. k  BY <2>1
    <2>6. \A y \in 0 .. l : y = l \/ (y \in 0 .. k /\ (y # 0 => y - 1 \in 0 .. k))  BY <2>1
    <2>7. g = [y \in 0 .. l |-> g[y]]  OBVIOUS
    <2> HIDE DEF g
    <2>8. ASSUME NEW y \in 0 .. l PROVE g[y] = V(g, y)
        <3>1. CASE y = l  BY <2>1, <2>4, <2>5, <3>1
        <3>2. CASE y # l
            <4>1. y \in 0 .. k /\ (y # 0 => y - 1 \in 0 .. k)  BY <2>6, <3>2
            <4> QED  BY <2>3, <2>4, <4>1
        <3> QED  BY <3>1, <3>2
    <2>9. Growing(g, w, l)  BY <2>7, <2>8 DEF Growing
    <2> QED  BY <2>1, <2>9 DEF l
<1> HIDE DEF S
<1>3. S = Nat
    <2>1. S \in SUBSET Nat  BY DEF S
    <2> QED  BY <1>1, <1>2, <2>1, Induction
<1> QED  BY <1>3 DEF S

\* A call answers from the calls that are nested one less deep.
LEMMA CallsAre ==
    ASSUME NEW t, IsLine(t)
    PROVE  \E c : /\ Calls(t) = c[End(t)]
                  /\ \A n \in 1 .. End(t), s \in 1 .. End(t) :
                        /\ c[n]["line"][s] = ParseLine(t, c[n - 1], s)
                        /\ c[n]["pipe"][s] = ParsePipe(t, c[n - 1], s)
<1> DEFINE U(c, n) == [f \in {"line", "pipe"} |-> [s \in 1 .. End(t) |->
                IF n = 0 THEN Got(Panic, s)
                ELSE IF f = "line" THEN ParseLine(t, c[n - 1], s) ELSE ParsePipe(t, c[n - 1], s)]]
           V(c, n) == IF n = 0 THEN NoCalls(t) ELSE CallsFrom(t, c[n - 1])
           c == CHOOSE c : c = [n \in 0 .. End(t) |-> U(c, n)]
<1>1. Calls(t) = c[End(t)]  BY DEF Calls
<1>2. End(t) \in Nat  BY LineIs
<1>3. ASSUME NEW f, NEW n PROVE V(f, n) = U(f, n)
    <2>1. CASE n = 0  BY <2>1 DEF NoCalls
    <2>2. CASE n # 0  BY <2>2 DEF CallsFrom
    <2> QED  BY <2>1, <2>2
<1>4. PICK d : Calling(d, t, End(t))  BY <1>2, CallsExist
<1>5. d = [n \in 0 .. End(t) |-> V(d, n)]  BY <1>4 DEF Calling
<1> HIDE DEF U, V
<1>6. d = [n \in 0 .. End(t) |-> U(d, n)]  BY <1>3, <1>5
<1>7. c = [n \in 0 .. End(t) |-> U(c, n)]  BY <1>6
<1> HIDE DEF c
<1>8. ASSUME NEW n \in 1 .. End(t) PROVE c[n] = CallsFrom(t, c[n - 1])
    <2>1. n \in 0 .. End(t) /\ n # 0  BY <1>2
    <2>2. c[n] = U(c, n)  BY <1>7, <2>1
    <2>3. U(c, n) = CallsFrom(t, c[n - 1])  BY <1>3, <2>1 DEF V
    <2> QED  BY <2>2, <2>3
<1>9. ASSUME NEW n \in 1 .. End(t), NEW s \in 1 .. End(t)
      PROVE  /\ c[n]["line"][s] = ParseLine(t, c[n - 1], s)
             /\ c[n]["pipe"][s] = ParsePipe(t, c[n - 1], s)
    <2>1. ASSUME NEW p
          PROVE  /\ CallsFrom(t, p)["line"][s] = ParseLine(t, p, s)
                 /\ CallsFrom(t, p)["pipe"][s] = ParsePipe(t, p, s)
        BY Zenon DEF CallsFrom
    <2> QED  BY <1>8, <2>1
<1> QED  BY <1>1, <1>9

\* The trees of the reference, with one call of the grammar more than those within.
LEMMA TreesAre ==
    ASSUME NEW w, Len(w) \in Nat
    PROVE  \E g : /\ Trees(w) = g[Len(w) + 1]
                  /\ \A n \in 1 .. Len(w) + 1, i \in 1 .. Len(w) + 1, j \in 1 .. Len(w) + 1 :
                        /\ g[n]["line"][i][j] = RefLine(w, g[n - 1], i, j)
                        /\ g[n]["pipe"][i][j] = RefPipe(w, g[n - 1], i, j)
<1> DEFINE N == Len(w) + 1
           U(g, n) == [f \in {"line", "pipe"} |-> [i \in 1 .. Len(w) + 1 |-> [j \in 1 .. Len(w) + 1 |->
                IF n = 0 THEN Panic
                ELSE IF f = "line" THEN RefLine(w, g[n - 1], i, j) ELSE RefPipe(w, g[n - 1], i, j)]]]
           V(g, n) == IF n = 0 THEN NoTrees(w) ELSE TreesFrom(w, g[n - 1])
           g == CHOOSE g : g = [n \in 0 .. Len(w) + 1 |-> U(g, n)]
<1>1. Trees(w) = g[Len(w) + 1]  BY DEF Trees
<1>3. ASSUME NEW f, NEW n PROVE V(f, n) = U(f, n)
    <2>1. CASE n = 0  BY <2>1 DEF NoTrees
    <2>2. CASE n # 0  BY <2>2 DEF TreesFrom
    <2> QED  BY <2>1, <2>2
<1>4. PICK d : Growing(d, w, Len(w) + 1)  BY TreesExist
<1>5. d = [n \in 0 .. Len(w) + 1 |-> V(d, n)]  BY <1>4 DEF Growing
<1> HIDE DEF U, V
<1>6. d = [n \in 0 .. Len(w) + 1 |-> U(d, n)]  BY <1>3, <1>5
<1>7. g = [n \in 0 .. Len(w) + 1 |-> U(g, n)]  BY <1>6
<1> HIDE DEF g
<1>8. ASSUME NEW n \in 1 .. Len(w) + 1 PROVE g[n] = TreesFrom(w, g[n - 1])
    <2>1. n \in 0 .. Len(w) + 1 /\ n # 0  OBVIOUS
    <2>2. g[n] = U(g, n)  BY <1>7, <2>1
    <2>3. U(g, n) = TreesFrom(w, g[n - 1])  BY <1>3, <2>1 DEF V
    <2> QED  BY <2>2, <2>3
<1>9. ASSUME NEW n \in 1 .. Len(w) + 1, NEW i \in 1 .. Len(w) + 1, NEW j \in 1 .. Len(w) + 1
      PROVE  /\ g[n]["line"][i][j] = RefLine(w, g[n - 1], i, j)
             /\ g[n]["pipe"][i][j] = RefPipe(w, g[n - 1], i, j)
    <2>1. ASSUME NEW p
          PROVE  /\ TreesFrom(w, p)["line"][i][j] = RefLine(w, p, i, j)
                 /\ TreesFrom(w, p)["pipe"][i][j] = RefPipe(w, p, i, j)
        BY Zenon DEF TreesFrom
    <2> QED  BY <1>8, <2>1
<1> QED  BY <1>1, <1>9

-----------------------------------------------------------------------------
(* Where the parts of a line end, and where the grammar splits them. *)

\* How many parentheses are open before the word or operator number j.
Level(w, j) == Depth(w)[j - 1]

\* What a word or operator does to the number of open parentheses.
LEMMA LevelIs ==
    ASSUME NEW w, Len(w) \in Nat
    PROVE  /\ Level(w, 1) = 0
           /\ \A j \in 1 .. (Len(w) + 1) : Level(w, j) \in Int
           /\ \A j \in 1 .. Len(w) :
                 Level(w, j + 1) = IF w[j].op = "(" THEN Level(w, j) + 1
                                   ELSE IF w[j].op = ")" THEN Level(w, j) - 1 ELSE Level(w, j)
<1> DEFINE V(d, i) == IF i = 0 THEN 0
                      ELSE IF w[i].op = "(" THEN d[i - 1] + 1
                      ELSE IF w[i].op = ")" THEN d[i - 1] - 1 ELSE d[i - 1]
           d == CHOOSE d : d = [i \in 0 .. Len(w) |-> V(d, i)]
<1>1. Depth(w) = d  BY DEF Depth
<1>2. PICK r : Deep(r, w, Len(w))  BY DeepExists
<1>3. r = [i \in 0 .. Len(w) |-> V(r, i)]  BY <1>2 DEF Deep, Deeper
<1>4. d = [i \in 0 .. Len(w) |-> V(d, i)]  BY <1>3
<1> HIDE DEF d
<1>5. \A i \in 0 .. Len(w) : d[i] = V(d, i)  BY <1>4
<1> DEFINE S == {m \in Nat : m <= Len(w) => d[m] \in Int}
<1>6. 0 \in S  BY <1>5
<1>7. ASSUME NEW m \in S PROVE m + 1 \in S
    <2> SUFFICES ASSUME m + 1 <= Len(w) PROVE d[m + 1] \in Int
        OBVIOUS
    <2>1. m \in Nat /\ m + 1 \in 0 .. Len(w) /\ (m + 1) - 1 = m /\ m + 1 # 0 /\ d[m] \in Int
        OBVIOUS
    <2>2. d[m + 1] = V(d, m + 1)  BY <1>5, <2>1
    <2> QED  BY <2>1, <2>2
<1> HIDE DEF S
<1>8. S = Nat
    <2>1. S \in SUBSET Nat  BY DEF S
    <2> QED  BY <1>6, <1>7, <2>1, Induction
<1>9. \A j \in 1 .. (Len(w) + 1) : j - 1 \in S /\ j - 1 <= Len(w)  BY <1>8
<1>10. \A j \in 1 .. (Len(w) + 1) : Level(w, j) \in Int  BY <1>1, <1>9 DEF S, Level
<1>11. ASSUME NEW j \in 1 .. Len(w)
       PROVE  Level(w, j + 1) = IF w[j].op = "(" THEN Level(w, j) + 1
                                ELSE IF w[j].op = ")" THEN Level(w, j) - 1 ELSE Level(w, j)
    <2>1. j \in 0 .. Len(w) /\ j # 0 /\ (j + 1) - 1 = j  OBVIOUS
    <2>2. d[j] = V(d, j)  BY <1>5, <2>1
    <2> QED  BY <1>1, <2>1, <2>2 DEF Level
<1>12. Level(w, 1) = 0
    <2>1. 0 \in 0 .. Len(w) /\ 1 - 1 = 0  OBVIOUS
    <2> QED  BY <1>1, <1>5, <2>1 DEF Level
<1> QED  BY <1>10, <1>11, <1>12

\* The operators that end a line in parentheses, a pipeline and a command.
OfLine == {")"}
OfPipe == OfLine \cup {";", "&"}
OfExec == OfPipe \cup {"|"}

\* Where the part that begins at k is ended by one of cs.
Ending(w, k, cs, j) == w[j].op \in cs /\ Level(w, j) = Level(w, k)
Extent(w, k, cs) == Min({j \in k .. (Len(w) + 1) : j = Len(w) + 1 \/ Ending(w, k, cs, j)})
Extends(w, k, cs, j) ==
    /\ j \in k .. (Len(w) + 1)
    /\ j = Len(w) + 1 \/ Ending(w, k, cs, j)
    /\ \A y \in k .. (j - 1) : ~Ending(w, k, cs, y)

\* There is exactly one place where a part of the line ends.
LEMMA ExtentIs ==
    ASSUME NEW w, Len(w) \in Nat, NEW k \in 1 .. (Len(w) + 1), NEW cs
    PROVE  /\ Extends(w, k, cs, Extent(w, k, cs))
           /\ \A j : Extends(w, k, cs, j) => j = Extent(w, k, cs)
<1> DEFINE N == Len(w) + 1
           S == {j \in k .. N : j = N \/ Ending(w, k, cs, j)}
           e == Extent(w, k, cs)
<1>1. N \in Nat /\ k \in Nat /\ N \in S /\ S \in SUBSET Nat  OBVIOUS
<1>2. e = Min(S)  BY DEF Extent
<1>3. e \in S /\ \A y \in S : e <= y  BY <1>1, <1>2, MinIs
<1> HIDE DEF e
<1>4. \A y \in k .. (e - 1) : ~Ending(w, k, cs, y)
    <2> SUFFICES ASSUME NEW y \in k .. (e - 1), Ending(w, k, cs, y) PROVE FALSE
        OBVIOUS
    <2>1. e \in k .. N  BY <1>3
    <2>2. y \in k .. N /\ ~(e <= y)  BY <1>1, <2>1
    <2> QED  BY <1>3, <2>2
<1>5. Extends(w, k, cs, e)  BY <1>3, <1>4 DEF Extends
<1>6. ASSUME NEW j, Extends(w, k, cs, j) PROVE j = e
    <2>1. j \in k .. N /\ (j = N \/ Ending(w, k, cs, j)) /\ \A y \in k .. (j - 1) : ~Ending(w, k, cs, y)
        BY <1>6 DEF Extends
    <2>2. j \in S  BY <2>1
    <2>3. e <= j /\ e \in k .. N  BY <1>3, <2>2
    <2>4. e # j => e \in k .. (j - 1) /\ e # N  BY <1>1, <2>1, <2>3
    <2>5. e # N => Ending(w, k, cs, e)  BY <1>3
    <2> QED  BY <2>1, <2>4, <2>5
<1> QED  BY <1>5, <1>6 DEF e

\* Within a part no parenthesis is closed that was open before it.
LEMMA NeverBelow ==
    ASSUME NEW w, Len(w) \in Nat, NEW k \in 1 .. (Len(w) + 1), NEW cs, ")" \in cs,
           NEW j, Extends(w, k, cs, j), NEW y \in k .. j
    PROVE  Level(w, y) >= Level(w, k)
<1> DEFINE S == {m \in Nat : k + m <= j => Level(w, k + m) >= Level(w, k)}
<1>1. j \in k .. (Len(w) + 1) /\ k \in Nat /\ \A i \in k .. (j - 1) : ~Ending(w, k, cs, i)
    BY DEF Extends
<1>2. \A i \in 1 .. (Len(w) + 1) : Level(w, i) \in Int  BY LevelIs
<1>3. 0 \in S  BY <1>1, <1>2
<1>4. ASSUME NEW m \in S PROVE m + 1 \in S
    <2> SUFFICES ASSUME k + (m + 1) <= j PROVE Level(w, k + (m + 1)) >= Level(w, k)
        OBVIOUS
    <2> DEFINE i == k + m
    <2>1. /\ m \in Nat /\ i \in k .. (j - 1) /\ i \in 1 .. Len(w) /\ i + 1 = k + (m + 1) /\ k + m <= j
          /\ i \in 1 .. (Len(w) + 1) /\ i + 1 \in 1 .. (Len(w) + 1)
        BY <1>1
    <2>2. Level(w, i) >= Level(w, k)  BY <2>1
    <2> HIDE DEF i
    <2>3. w[i].op = ")" => Level(w, i) # Level(w, k)  BY <1>1, <2>1 DEF Ending
    <2>4. Level(w, i + 1) = IF w[i].op = "(" THEN Level(w, i) + 1
                            ELSE IF w[i].op = ")" THEN Level(w, i) - 1 ELSE Level(w, i)
        BY <2>1, LevelIs
    <2>5. Level(w, i + 1) >= Level(w, k)  BY <1>2, <2>1, <2>2, <2>3, <2>4
    <2> QED  BY <2>1, <2>5
<1> HIDE DEF S
<1>5. S = Nat
    <2>1. S \in SUBSET Nat  BY DEF S
    <2> QED  BY <1>3, <1>4, <2>1, Induction
<1>6. y - k \in S /\ k + (y - k) = y /\ y <= j  BY <1>1, <1>5
<1> QED  BY <1>6 DEF S

\* Without parentheses in between the level stays.
LEMMA SameLevel ==
    ASSUME NEW w, Len(w) \in Nat, NEW k \in 1 .. (Len(w) + 1), NEW j \in k .. (Len(w) + 1),
           \A y \in k .. (j - 1) : w[y].op \notin {"(", ")"}
    PROVE  Level(w, j) = Level(w, k)
<1> DEFINE S == {m \in Nat : k + m <= j => Level(w, k + m) = Level(w, k)}
<1>1. k \in Nat /\ j \in Nat  OBVIOUS
<1>2. 0 \in S  BY <1>1
<1>3. ASSUME NEW m \in S PROVE m + 1 \in S
    <2> SUFFICES ASSUME k + (m + 1) <= j PROVE Level(w, k + (m + 1)) = Level(w, k)
        OBVIOUS
    <2>1. /\ m \in Nat /\ k + m \in k .. (j - 1) /\ k + m \in 1 .. Len(w)
          /\ (k + m) + 1 = k + (m + 1) /\ k + m <= j
        BY <1>1
    <2>2. Level(w, k + m) = Level(w, k)  BY <2>1
    <2>3. Level(w, (k + m) + 1) = Level(w, k + m)  BY <2>1, LevelIs
    <2> QED  BY <2>1, <2>2, <2>3
<1> HIDE DEF S
<1>4. S = Nat
    <2>1. S \in SUBSET Nat  BY DEF S
    <2> QED  BY <1>2, <1>3, <2>1, Induction
<1>5. j - k \in S /\ k + (j - k) = j /\ j <= j  BY <1>1, <1>4
<1> QED  BY <1>5 DEF S

\* What is left of a part ends where the part does.
LEMMA RestExtends ==
    ASSUME NEW w, Len(w) \in Nat, NEW k \in 1 .. (Len(w) + 1), NEW cs,
           NEW m \in k .. Extent(w, k, cs), Level(w, m) = Level(w, k)
    PROVE  m \in 1 .. (Len(w) + 1) /\ Extent(w, m, cs) = Extent(w, k, cs)
<1> DEFINE j == Extent(w, k, cs)
<1>1. Extends(w, k, cs, j)  BY ExtentIs
<1> HIDE DEF j
<1>2. j \in k .. (Len(w) + 1) /\ m \in k .. j  BY <1>1 DEF Extends, j
<1>3. m \in 1 .. (Len(w) + 1) /\ j \in m .. (Len(w) + 1) /\ \A y \in m .. (j - 1) : y \in k .. (j - 1)
    BY <1>2
<1>4. Extends(w, m, cs, j)  BY <1>1, <1>3 DEF Extends, Ending
<1>5. j = Extent(w, m, cs)  BY <1>3, <1>4, ExtentIs
<1> QED  BY <1>3, <1>5 DEF j

\* Where the reference splits the part from k up to j: i is the first of the operators
\* es in it that is not nested, or j.
Splits(w, k, j, i, es) ==
    /\ i \in k .. j /\ j \in k .. (Len(w) + 1)
    /\ AtTop(w, k, j, es) = {} <=> i = j
    /\ i # j => /\ i = Min(AtTop(w, k, j, es)) /\ i \in 1 .. Len(w) /\ w[i].op \in es
                /\ Level(w, i) = Level(w, k) /\ Level(w, i + 1) = Level(w, k)

\* The first top-level operator of a part is where the part ends that excludes it.
LEMMA Split ==
    ASSUME NEW w, Len(w) \in Nat, NEW k \in 1 .. (Len(w) + 1), NEW cs,
           NEW es, "(" \notin es, ")" \notin es
    PROVE  Splits(w, k, Extent(w, k, cs), Extent(w, k, cs \cup es), es)
<1> DEFINE N == Len(w) + 1
           j == Extent(w, k, cs)
           i == Extent(w, k, cs \cup es)
           tops == AtTop(w, k, j, es)
           ds == cs \cup es
<1>1. Extends(w, k, cs, j) /\ Extends(w, k, ds, i)  BY ExtentIs
<1>2. \A y : Ending(w, k, ds, y) <=> Ending(w, k, cs, y) \/ Ending(w, k, es, y)  BY DEF Ending
<1> HIDE DEF j, i, ds, tops
<1>3. /\ j \in k .. N /\ i \in k .. N /\ k \in Nat /\ N \in Nat
      /\ j = N \/ Ending(w, k, cs, j)
      /\ i = N \/ Ending(w, k, ds, i)
      /\ \A y \in k .. (j - 1) : ~Ending(w, k, cs, y)
      /\ \A y \in k .. (i - 1) : ~Ending(w, k, ds, y)
    BY <1>1 DEF Extends
<1>4. i \in k .. j
    <2>1. ~(j < i)
        <3> SUFFICES ASSUME j < i PROVE FALSE
            OBVIOUS
        <3>1. j \in k .. (i - 1) /\ j # N  BY <1>3
        <3> QED  BY <1>3, <1>2, <3>1
    <2> QED  BY <1>3, <2>1
<1>5. \A y \in k .. (j - 1) : y \in 1 .. Len(w) /\ y \in k .. N  BY <1>3
<1>6. \A y \in 1 .. Len(w) : w[y].op \in es => Level(w, y + 1) = Level(w, y)
    <2>1. \A y \in 1 .. Len(w) : w[y].op \in es => w[y].op # "(" /\ w[y].op # ")"
        OBVIOUS
    <2> QED  BY <2>1, LevelIs
<1>7. tops = {y \in k .. (j - 1) : Ending(w, k, es, y)}
    <2>1. tops = {y \in k .. (j - 1) : w[y].op \in es /\ Depth(w)[y] = Depth(w)[k - 1]}  BY DEF AtTop, tops
    <2>2. \A y \in k .. (j - 1) : Depth(w)[y] = Level(w, y + 1)
        <3>1. \A y \in k .. (j - 1) : (y + 1) - 1 = y  BY <1>3
        <3> QED  BY <3>1 DEF Level
    <2>3. Depth(w)[k - 1] = Level(w, k)  BY DEF Level
    <2> QED  BY <1>5, <1>6, <2>1, <2>2, <2>3 DEF Ending
<1>8. i = j => tops = {}  BY <1>3, <1>2, <1>7
<1>9. ASSUME i # j
      PROVE  /\ i = Min(tops) /\ i \in tops /\ i \in 1 .. Len(w) /\ w[i].op \in es
             /\ Level(w, i) = Level(w, k) /\ Level(w, i + 1) = Level(w, k)
    <2>1. i \in k .. (j - 1) /\ i # N  BY <1>3, <1>4, <1>9
    <2>2. Ending(w, k, es, i)  BY <1>3, <1>2, <2>1
    <2>3. i \in tops  BY <1>7, <2>1, <2>2
    <2>4. tops \in SUBSET Nat /\ tops # {}  BY <1>3, <1>7, <2>3
    <2>5. Min(tops) \in tops /\ \A y \in tops : Min(tops) <= y  BY <2>4, MinIs
    <2>6. Min(tops) <= i /\ Min(tops) \in k .. (j - 1) /\ Ending(w, k, es, Min(tops))
        BY <1>7, <2>3, <2>5
    <2>7. Min(tops) \notin k .. (i - 1)  BY <1>3, <1>2, <2>6
    <2>8. i = Min(tops)  BY <1>3, <2>6, <2>7
    <2> QED  BY <1>5, <1>6, <2>1, <2>2, <2>3, <2>8 DEF Ending
<1>10. Splits(w, k, j, i, es)  BY <1>3, <1>4, <1>8, <1>9 DEF Splits, tops
<1> QED  BY <1>10 DEF j, i, ds

\* A command in parentheses: where the one that opens at k is closed.
LEMMA Block ==
    ASSUME NEW w, Len(w) \in Nat, NEW k \in 1 .. Len(w), w[k].op = "("
    PROVE  LET j == Extent(w, k, OfExec)
               x == Extent(w, k + 1, OfLine)
           IN /\ j \in (k + 1) .. (Len(w) + 1) /\ x \in (k + 1) .. (Len(w) + 1)
              /\ x # Len(w) + 1 => /\ x \in 1 .. Len(w) /\ x < j /\ w[x].op = ")"
                                   /\ x = Min(AtTop(w, k, j, {")"}))
                                   /\ Level(w, x) = Level(w, k + 1)
                                   /\ Level(w, x + 1) = Level(w, k)
              /\ Level(w, j) = Level(w, k) => x # Len(w) + 1
<1> DEFINE N == Len(w) + 1
           j == Extent(w, k, OfExec)
           x == Extent(w, k + 1, OfLine)
           closing == AtTop(w, k, j, {")"})
<1>1. k \in 1 .. N /\ k + 1 \in 1 .. N /\ N \in Nat /\ k \in Nat  OBVIOUS
<1>2. Extends(w, k, OfExec, j) /\ Extends(w, k + 1, OfLine, x)  BY <1>1, ExtentIs
<1> HIDE DEF j, x
<1>3. /\ j \in k .. N /\ (j = N \/ Ending(w, k, OfExec, j))
      /\ x \in (k + 1) .. N /\ (x = N \/ Ending(w, k + 1, OfLine, x))
      /\ \A y \in (k + 1) .. (x - 1) : ~Ending(w, k + 1, OfLine, y)
    BY <1>2 DEF Extends
<1>4. \A y \in 1 .. N : Level(w, y) \in Int  BY LevelIs
<1>5. Level(w, k + 1) = Level(w, k) + 1  BY LevelIs
<1>6. \A y \in (k + 1) .. x : y \in 1 .. N /\ Level(w, y) # Level(w, k)
    <2>1. ")" \in OfLine  BY DEF OfLine
    <2>2. \A y \in (k + 1) .. x : Level(w, y) >= Level(w, k + 1)  BY <1>1, <1>2, <2>1, NeverBelow
    <2>3. \A y \in (k + 1) .. x : y \in 1 .. N  BY <1>1, <1>3
    <2> QED  BY <1>1, <1>4, <1>5, <2>2, <2>3
<1>7. j # k
    <2>1. "(" \notin OfExec  BY DEF OfExec, OfPipe, OfLine
    <2> QED  BY <1>1, <1>3, <2>1 DEF Ending
<1>8. Level(w, j) = Level(w, k) => x # N
    <2>1. x = N => j \in (k + 1) .. x  BY <1>1, <1>3, <1>7
    <2> QED  BY <1>6, <2>1
<1>9. ASSUME x # N
      PROVE  /\ x \in 1 .. Len(w) /\ x < j /\ w[x].op = ")" /\ x = Min(closing)
             /\ Level(w, x) = Level(w, k + 1) /\ Level(w, x + 1) = Level(w, k)
    <2>1. /\ x \in 1 .. Len(w) /\ w[x].op = ")" /\ Level(w, x) = Level(w, k + 1)
        BY <1>1, <1>3, <1>9 DEF Ending, OfLine
    <2>2. Level(w, x + 1) = Level(w, k)  BY <1>1, <1>4, <1>5, <2>1, LevelIs
    <2>3. x < j
        <3>1. ~(j \in (k + 1) .. x)
            <4> SUFFICES ASSUME j \in (k + 1) .. x PROVE FALSE
                OBVIOUS
            <4>1. Level(w, j) # Level(w, k)  BY <1>6
            <4>2. j # N  BY <1>1, <2>1
            <4> QED  BY <1>3, <4>1, <4>2 DEF Ending
        <3> QED  BY <1>1, <1>3, <1>7, <2>1, <3>1
    <2>4. closing = {y \in k .. (j - 1) : w[y].op = ")" /\ Level(w, y + 1) = Level(w, k)}
        <3>1. closing = {y \in k .. (j - 1) : w[y].op \in {")"} /\ Depth(w)[y] = Depth(w)[k - 1]}  BY DEF AtTop
        <3>2. \A y \in k .. (j - 1) : (y + 1) - 1 = y  BY <1>1, <1>3
        <3>3. \A y \in k .. (j - 1) : Depth(w)[y] = Level(w, y + 1)  BY <3>2 DEF Level
        <3>4. Depth(w)[k - 1] = Level(w, k)  BY DEF Level
        <3> HIDE DEF closing
        <3> QED  BY <3>1, <3>3, <3>4
    <2> HIDE DEF closing
    <2>5. x \in closing  BY <1>1, <1>3, <2>1, <2>2, <2>3, <2>4
    <2>6. closing \in SUBSET Nat  BY <1>1, <1>3, <2>4
    <2>7. Min(closing) \in closing /\ Min(closing) <= x  BY <2>5, <2>6, MinIs
    <2> DEFINE m == Min(closing)
    <2>8. m \in k .. (j - 1) /\ w[m].op = ")" /\ Level(w, m + 1) = Level(w, k) /\ m <= x
        BY <2>4, <2>7
    <2> HIDE DEF m
    <2>9. m # k /\ m \in 1 .. Len(w) /\ m \in 1 .. N  BY <1>1, <1>3, <2>8
    <2>10. Level(w, m) = Level(w, k + 1)  BY <1>1, <1>4, <1>5, <2>8, <2>9, LevelIs
    <2>11. m \notin (k + 1) .. (x - 1)
        <3>1. m \in (k + 1) .. (x - 1) => Ending(w, k + 1, OfLine, m)  BY <2>8, <2>10 DEF Ending, OfLine
        <3> QED  BY <1>3, <3>1
    <2>12. m = x  BY <1>1, <1>3, <2>8, <2>9, <2>11
    <2> QED  BY <2>1, <2>2, <2>3, <2>12 DEF m
<1>10. j \in (k + 1) .. N  BY <1>1, <1>3, <1>7
<1> QED  BY <1>3, <1>8, <1>9, <1>10 DEF j, x, closing

-----------------------------------------------------------------------------
(* What the grammar takes for "&", and for a simple command. *)

\* No tree is what panic() leaves.
LEMMA NotPanic ==
    /\ \A op, l, r : <<op, l, r>> # Panic
    /\ \A op, l : <<op, l>> # Panic
    /\ \A op, l, r, u : <<op, l, r, u>> # Panic
<1>1. \A op, l, r : Len(<<op, l, r>>) = 3  OBVIOUS
<1>2. \A op, l : Len(<<op, l>>) = 2  OBVIOUS
<1>3. \A op, l, r, u : Len(<<op, l, r, u>>) = 4  OBVIOUS
<1>4. Len(Panic) = 1  BY DEF Panic
<1>5. ASSUME NEW op, NEW l, NEW r PROVE <<op, l, r>> # Panic  BY <1>1, <1>4
<1>6. ASSUME NEW op, NEW l PROVE <<op, l>> # Panic  BY <1>2, <1>4
<1>7. ASSUME NEW op, NEW l, NEW r, NEW u PROVE <<op, l, r, u>> # Panic  BY <1>3, <1>4
<1> QED  BY <1>5, <1>6, <1>7

\* Two functions that count the same "&" are the same.
LEMMA BacksAgree ==
    ASSUME NEW cmd, NEW m \in Nat, NEW n \in Nat, NEW r, Backs(r, cmd, m), NEW q, Backs(q, cmd, n),
           NEW i \in Nat, i <= m, i <= n
    PROVE  r[i] = q[i]
<1> DEFINE S == {k \in Nat : k <= m /\ k <= n => r[k] = q[k]}
<1>1. /\ \A k \in 0 .. m : r[k] = IF k = 0 THEN cmd ELSE <<"BACK", r[k - 1]>>
      /\ \A k \in 0 .. n : q[k] = IF k = 0 THEN cmd ELSE <<"BACK", q[k - 1]>>
    BY DEF Backs
<1>2. 0 \in S
    <2>1. 0 \in 0 .. m /\ 0 \in 0 .. n  OBVIOUS
    <2>2. r[0] = cmd /\ q[0] = cmd  BY <1>1, <2>1
    <2> QED  BY <2>2
<1>3. ASSUME NEW k \in S PROVE k + 1 \in S
    <2> SUFFICES ASSUME k + 1 <= m /\ k + 1 <= n PROVE r[k + 1] = q[k + 1]
        OBVIOUS
    <2>1. /\ k \in Nat /\ k + 1 \in 0 .. m /\ k + 1 \in 0 .. n /\ k + 1 # 0 /\ (k + 1) - 1 = k
          /\ r[k] = q[k]
        OBVIOUS
    <2>2. r[k + 1] = <<"BACK", r[k]>> /\ q[k + 1] = <<"BACK", q[k]>>  BY <1>1, <2>1
    <2> QED  BY <2>1, <2>2
<1> HIDE DEF S
<1>4. S = Nat
    <2>1. S \in SUBSET Nat  BY DEF S
    <2> QED  BY <1>2, <1>3, <2>1, Induction
<1> QED  BY <1>4 DEF S

\* One "&" more wraps the tree once more.
LEMMA BackedIs ==
    ASSUME NEW cmd
    PROVE  /\ Backed(cmd, 0) = cmd
           /\ \A n \in Nat : Backed(cmd, n + 1) = <<"BACK", Backed(cmd, n)>>
<1>1. ASSUME NEW n \in Nat PROVE \E b : Backs(b, cmd, n) /\ Backed(cmd, n) = b[n]
    <2> DEFINE b == CHOOSE b : Backs(b, cmd, n)
    <2>1. Backs(b, cmd, n)  BY BacksExists
    <2>2. Backed(cmd, n) = b[n]  BY DEF Backed, Backs
    <2> QED  BY <2>1, <2>2
<1>2. Backed(cmd, 0) = cmd
    <2>1. PICK b : Backs(b, cmd, 0) /\ Backed(cmd, 0) = b[0]  BY <1>1
    <2> QED  BY <2>1 DEF Backs
<1>3. ASSUME NEW n \in Nat PROVE Backed(cmd, n + 1) = <<"BACK", Backed(cmd, n)>>
    <2>1. PICK b : Backs(b, cmd, n) /\ Backed(cmd, n) = b[n]  BY <1>1
    <2>2. n + 1 \in Nat  OBVIOUS
    <2>3. PICK c : Backs(c, cmd, n + 1) /\ Backed(cmd, n + 1) = c[n + 1]  BY <1>1, <2>2
    <2>4. c[n] = b[n]  BY <2>1, <2>2, <2>3, BacksAgree
    <2>5. n + 1 \in 0 .. (n + 1) /\ n + 1 # 0 /\ (n + 1) - 1 = n  OBVIOUS
    <2>6. c[n + 1] = <<"BACK", c[n]>>  BY <2>3, <2>5 DEF Backs
    <2> QED  BY <2>1, <2>3, <2>4, <2>6
<1> QED  BY <1>2, <1>3

\* "&" wraps nothing into panic().
LEMMA BackedNotPanic ==
    ASSUME NEW cmd, cmd # Panic, NEW n \in Nat
    PROVE  Backed(cmd, n) # Panic
<1>1. CASE n = 0  BY <1>1, BackedIs
<1>2. CASE n # 0
    <2>1. n - 1 \in Nat /\ (n - 1) + 1 = n  BY <1>2
    <2>2. Backed(cmd, n) = <<"BACK", Backed(cmd, n - 1)>>  BY <2>1, BackedIs
    <2> QED  BY <2>2, NotPanic
<1> QED  BY <1>1, <1>2

-----------------------------------------------------------------------------
(* The words and the files of a part, one word or operator at a time. *)

\* Two functions that gather the same words are the same.
LEMMA GathersAgree ==
    ASSUME NEW w, NEW i \in Int, NEW m \in Int, NEW n \in Int,
           NEW r, Gathers(r, w, i, m, m - 1), NEW q, Gathers(q, w, i, n, n - 1),
           NEW y \in (i - 1) .. (m - 1), y <= n - 1
    PROVE  r[y] = q[y]
<1> DEFINE h == i - 1
           S == {k \in Nat : h + k <= y => r[h + k] = q[h + k]}
<1>1. h \in Int  OBVIOUS
<1>2. /\ \A k \in h .. (m - 1) : r[k] = IF k = h THEN <<>>
                ELSE IF k \in Args(w, i, m) THEN Append(r[k - 1], w[k].word) ELSE r[k - 1]
      /\ \A k \in h .. (n - 1) : q[k] = IF k = h THEN <<>>
                ELSE IF k \in Args(w, i, n) THEN Append(q[k - 1], w[k].word) ELSE q[k - 1]
    BY DEF Gathers
<1>3. \A k \in i .. y : k \in Args(w, i, m) <=> k \in Args(w, i, n)
    BY DEF Args, Redirs
<1>4. 0 \in S
    <2>1. h + 0 = h /\ h \in h .. (m - 1) /\ (h <= y => h \in h .. (n - 1))  BY <1>1
    <2>2. r[h] = <<>>  BY <1>2, <2>1
    <2>3. h <= y => q[h] = <<>>  BY <1>2, <2>1
    <2> QED  BY <2>1, <2>2, <2>3
<1>5. ASSUME NEW k \in S PROVE k + 1 \in S
    <2> SUFFICES ASSUME h + (k + 1) <= y PROVE r[h + (k + 1)] = q[h + (k + 1)]
        OBVIOUS
    <2> DEFINE l == h + (k + 1)
    <2>1. /\ k \in Nat /\ l \in i .. y /\ l \in h .. (m - 1) /\ l \in h .. (n - 1) /\ l - 1 = h + k
          /\ l # h /\ h + k <= y
        BY <1>1
    <2>2. r[l - 1] = q[l - 1]  BY <2>1
    <2> HIDE DEF l, h
    <2>3. r[l] = IF l \in Args(w, i, m) THEN Append(r[l - 1], w[l].word) ELSE r[l - 1]
        BY <1>2, <2>1
    <2>4. q[l] = IF l \in Args(w, i, n) THEN Append(q[l - 1], w[l].word) ELSE q[l - 1]
        BY <1>2, <2>1
    <2>5. r[l] = q[l]  BY <1>3, <2>1, <2>2, <2>3, <2>4
    <2> QED  BY <2>5 DEF l
<1> HIDE DEF S
<1>6. S = Nat
    <2>1. S \in SUBSET Nat  BY DEF S
    <2> QED  BY <1>4, <1>5, <2>1, Induction
<1>7. y - h \in S /\ h + (y - h) = y /\ y <= y  BY <1>1, <1>6
<1> HIDE DEF h
<1> QED  BY <1>7 DEF S

\* The words of a command, one word or operator at a time.
LEMMA WordsAre ==
    ASSUME NEW w, NEW i \in Int
    PROVE  /\ Words(w, i, i) = <<>>
           /\ \A j \in Int : j >= i =>
                 Words(w, i, j + 1) = IF w[j].op = "a" /\ j - 1 \notin Redirs(w, i, j)
                                      THEN Append(Words(w, i, j), w[j].word) ELSE Words(w, i, j)
<1>1. ASSUME NEW j \in Int, j >= i PROVE \E a : Gathers(a, w, i, j, j - 1) /\ Words(w, i, j) = a[j - 1]
    <2> DEFINE a == CHOOSE a : Gathers(a, w, i, j, j - 1)
    <2>1. j - i \in Nat /\ (i - 1) + (j - i) = j - 1  BY <1>1
    <2>2. \E a0 : Gathers(a0, w, i, j, (i - 1) + (j - i))  BY <2>1, WordsExist
    <2>3. Gathers(a, w, i, j, j - 1)  BY <2>1, <2>2
    <2>4. Words(w, i, j) = a[j - 1]  BY DEF Words, Gathers
    <2> QED  BY <2>3, <2>4
<1>2. Words(w, i, i) = <<>>
    <2>1. PICK a : Gathers(a, w, i, i, i - 1) /\ Words(w, i, i) = a[i - 1]  BY <1>1
    <2>2. i - 1 \in (i - 1) .. (i - 1)  OBVIOUS
    <2>3. a[i - 1] = <<>>  BY <2>1, <2>2 DEF Gathers
    <2> QED  BY <2>1, <2>3
<1>3. ASSUME NEW j \in Int, j >= i
      PROVE  Words(w, i, j + 1) = IF w[j].op = "a" /\ j - 1 \notin Redirs(w, i, j)
                                  THEN Append(Words(w, i, j), w[j].word) ELSE Words(w, i, j)
    <2>1. PICK a : Gathers(a, w, i, j, j - 1) /\ Words(w, i, j) = a[j - 1]  BY <1>1, <1>3
    <2>2. j + 1 \in Int /\ j + 1 >= i /\ (j + 1) - 1 = j  BY <1>3
    <2>3. PICK b : Gathers(b, w, i, j + 1, (j + 1) - 1) /\ Words(w, i, j + 1) = b[(j + 1) - 1]
        BY <1>1, <2>2
    <2>4. j - 1 \in (i - 1) .. (j - 1) /\ j - 1 <= (j + 1) - 1  BY <1>3
    <2>5. a[j - 1] = b[j - 1]  BY <2>1, <2>2, <2>3, <2>4, GathersAgree
    <2>6. j \in (i - 1) .. j /\ j # i - 1  BY <1>3
    <2>7. b[j] = IF j \in Args(w, i, j + 1) THEN Append(b[j - 1], w[j].word) ELSE b[j - 1]
        BY <2>2, <2>3, <2>6 DEF Gathers
    <2>8. j \in Args(w, i, j + 1) <=> w[j].op = "a" /\ j - 1 \notin Redirs(w, i, j)
        <3>1. j \in i .. ((j + 1) - 1)  BY <1>3
        <3>2. j - 1 \in Redirs(w, i, j + 1) <=> j - 1 \in Redirs(w, i, j)  BY <1>3 DEF Redirs
        <3> QED  BY <3>1, <3>2 DEF Args
    <2> QED  BY <2>1, <2>2, <2>3, <2>5, <2>7, <2>8
<1> QED  BY <1>2, <1>3

\* Two functions that collect the same redirections are the same.
LEMMA CollectsAgree ==
    ASSUME NEW w, NEW i \in Int, NEW m \in Int, NEW n \in Int,
           NEW r, Collects(r, w, i, m, m - 1), NEW q, Collects(q, w, i, n, n - 1),
           NEW y \in (i - 1) .. (m - 1), y <= n - 1
    PROVE  r[y] = q[y]
<1> DEFINE h == i - 1
           S == {k \in Nat : h + k <= y => r[h + k] = q[h + k]}
<1>1. h \in Int  OBVIOUS
<1>2. /\ \A k \in h .. (m - 1) : r[k] = IF k = h THEN <<>>
                ELSE IF k \in Redirs(w, i, m) THEN Append(r[k - 1], <<w[k].op, w[k + 1].word>>) ELSE r[k - 1]
      /\ \A k \in h .. (n - 1) : q[k] = IF k = h THEN <<>>
                ELSE IF k \in Redirs(w, i, n) THEN Append(q[k - 1], <<w[k].op, w[k + 1].word>>) ELSE q[k - 1]
    BY DEF Collects
<1>3. \A k \in i .. y : k \in Redirs(w, i, m) <=> k \in Redirs(w, i, n)
    BY DEF Redirs
<1>4. 0 \in S
    <2>1. h + 0 = h /\ h \in h .. (m - 1) /\ (h <= y => h \in h .. (n - 1))  BY <1>1
    <2>2. r[h] = <<>>  BY <1>2, <2>1
    <2>3. h <= y => q[h] = <<>>  BY <1>2, <2>1
    <2> QED  BY <2>1, <2>2, <2>3
<1>5. ASSUME NEW k \in S PROVE k + 1 \in S
    <2> SUFFICES ASSUME h + (k + 1) <= y PROVE r[h + (k + 1)] = q[h + (k + 1)]
        OBVIOUS
    <2> DEFINE l == h + (k + 1)
    <2>1. /\ k \in Nat /\ l \in i .. y /\ l \in h .. (m - 1) /\ l \in h .. (n - 1) /\ l - 1 = h + k
          /\ l # h /\ h + k <= y
        BY <1>1
    <2>2. r[l - 1] = q[l - 1]  BY <2>1
    <2> HIDE DEF l, h
    <2>3. r[l] = IF l \in Redirs(w, i, m) THEN Append(r[l - 1], <<w[l].op, w[l + 1].word>>) ELSE r[l - 1]
        BY <1>2, <2>1
    <2>4. q[l] = IF l \in Redirs(w, i, n) THEN Append(q[l - 1], <<w[l].op, w[l + 1].word>>) ELSE q[l - 1]
        BY <1>2, <2>1
    <2>5. r[l] = q[l]  BY <1>3, <2>1, <2>2, <2>3, <2>4
    <2> QED  BY <2>5 DEF l
<1> HIDE DEF S
<1>6. S = Nat
    <2>1. S \in SUBSET Nat  BY DEF S
    <2> QED  BY <1>4, <1>5, <2>1, Induction
<1>7. y - h \in S /\ h + (y - h) = y /\ y <= y  BY <1>1, <1>6
<1> HIDE DEF h
<1> QED  BY <1>7 DEF S

\* The redirections of a command, one word or operator at a time.
LEMMA FilesAre ==
    ASSUME NEW w, NEW i \in Int
    PROVE  /\ Files(w, i, i) = <<>>
           /\ \A j \in Int : j >= i =>
                 Files(w, i, j + 1) = IF w[j].op \in Redirection
                                      THEN Append(Files(w, i, j), <<w[j].op, w[j + 1].word>>)
                                      ELSE Files(w, i, j)
<1>1. ASSUME NEW j \in Int, j >= i PROVE \E a : Collects(a, w, i, j, j - 1) /\ Files(w, i, j) = a[j - 1]
    <2> DEFINE a == CHOOSE a : Collects(a, w, i, j, j - 1)
    <2>1. j - i \in Nat /\ (i - 1) + (j - i) = j - 1  BY <1>1
    <2>2. \E a0 : Collects(a0, w, i, j, (i - 1) + (j - i))  BY <2>1, FilesExist
    <2>3. Collects(a, w, i, j, j - 1)  BY <2>1, <2>2
    <2>4. Files(w, i, j) = a[j - 1]  BY DEF Files, Collects
    <2> QED  BY <2>3, <2>4
<1>2. Files(w, i, i) = <<>>
    <2>1. PICK a : Collects(a, w, i, i, i - 1) /\ Files(w, i, i) = a[i - 1]  BY <1>1
    <2>2. i - 1 \in (i - 1) .. (i - 1)  OBVIOUS
    <2>3. a[i - 1] = <<>>  BY <2>1, <2>2 DEF Collects
    <2> QED  BY <2>1, <2>3
<1>3. ASSUME NEW j \in Int, j >= i
      PROVE  Files(w, i, j + 1) = IF w[j].op \in Redirection
                                  THEN Append(Files(w, i, j), <<w[j].op, w[j + 1].word>>)
                                  ELSE Files(w, i, j)
    <2>1. PICK a : Collects(a, w, i, j, j - 1) /\ Files(w, i, j) = a[j - 1]  BY <1>1, <1>3
    <2>2. j + 1 \in Int /\ j + 1 >= i /\ (j + 1) - 1 = j  BY <1>3
    <2>3. PICK b : Collects(b, w, i, j + 1, (j + 1) - 1) /\ Files(w, i, j + 1) = b[(j + 1) - 1]
        BY <1>1, <2>2
    <2>4. j - 1 \in (i - 1) .. (j - 1) /\ j - 1 <= (j + 1) - 1  BY <1>3
    <2>5. a[j - 1] = b[j - 1]  BY <2>1, <2>2, <2>3, <2>4, CollectsAgree
    <2>6. j \in (i - 1) .. j /\ j # i - 1  BY <1>3
    <2>7. b[j] = IF j \in Redirs(w, i, j + 1) THEN Append(b[j - 1], <<w[j].op, w[j + 1].word>>) ELSE b[j - 1]
        BY <2>2, <2>3, <2>6 DEF Collects
    <2>8. j \in Redirs(w, i, j + 1) <=> w[j].op \in Redirection
        <3>1. j \in i .. ((j + 1) - 1)  BY <1>3
        <3> QED  BY <3>1 DEF Redirs
    <2> QED  BY <2>1, <2>2, <2>3, <2>5, <2>7, <2>8
<1> QED  BY <1>2, <1>3

\* A longer part has no fewer words.
LEMMA WordsGrow ==
    ASSUME NEW w \in Seq(TokenType), NEW i \in 1 .. (Len(w) + 1), NEW j \in i .. (Len(w) + 1),
           NEW l \in j .. (Len(w) + 1)
    PROVE  /\ Words(w, i, j) \in Seq(Seq(Letter)) /\ Words(w, i, l) \in Seq(Seq(Letter))
           /\ Len(Words(w, i, j)) \in Nat /\ Len(Words(w, i, l)) \in Nat
           /\ Len(Words(w, i, j)) <= Len(Words(w, i, l))
<1> DEFINE T == Seq(Seq(Letter))
           F(k) == Words(w, i, k)
<1>1. Len(w) \in Nat  BY LenProperties
<1>2. ASSUME NEW k \in i .. Len(w), F(k) \in T
      PROVE  F(k + 1) \in T /\ Len(F(k)) \in Nat /\ Len(F(k)) <= Len(F(k + 1))
    <2>1. w[k].word \in Seq(Letter)
        <3>1. k \in 1 .. Len(w)  BY <1>1
        <3>2. w[k] \in TokenType  BY <3>1, ElementOfSeq
        <3> QED  BY <3>2 DEF TokenType
    <2>2. F(k + 1) = F(k) \/ F(k + 1) = Append(F(k), w[k].word)
        <3>1. k \in Int /\ k >= i /\ i \in Int  BY <1>1
        <3> QED  BY <3>1, WordsAre
    <2> HIDE DEF F, T
    <2>3. Len(F(k)) \in Nat  BY <1>2, LenProperties DEF T
    <2>4. /\ Append(F(k), w[k].word) \in T
          /\ Len(Append(F(k), w[k].word)) = Len(F(k)) + 1
        BY <1>2, <2>1, AppendProperties DEF T
    <2>5. CASE F(k + 1) = F(k)  BY <1>2, <2>3, <2>5
    <2>6. CASE F(k + 1) = Append(F(k), w[k].word)
        <3> DEFINE u == Append(F(k), w[k].word)
        <3>1. u \in T /\ Len(u) = Len(F(k)) + 1 /\ F(k + 1) = u  BY <2>4, <2>6
        <3> HIDE DEF u
        <3> QED  BY <2>3, <3>1
    <2> QED  BY <2>2, <2>5, <2>6
<1>3. F(i) \in T
    <2>1. F(i) = <<>>  BY <1>1, WordsAre
    <2> QED  BY <2>1, EmptySeq
<1> HIDE DEF F
<1> DEFINE S == {m \in Nat : i + m <= Len(w) + 1 => F(i + m) \in T}
           R == {m \in Nat : j + m <= Len(w) + 1 => Len(F(j)) <= Len(F(j + m))}
<1>4. 0 \in S  BY <1>3
<1>5. ASSUME NEW m \in S PROVE m + 1 \in S
    <2>1. m \in Nat /\ (i + (m + 1) <= Len(w) + 1 => i + m \in i .. Len(w) /\ F(i + m) \in T)
          /\ i + (m + 1) = (i + m) + 1
        BY <1>1
    <2> QED  BY <1>2, <2>1
<1> HIDE DEF S
<1>6. S = Nat
    <2>1. S \in SUBSET Nat  BY DEF S
    <2> QED  BY <1>4, <1>5, <2>1, Induction
<1>7. ASSUME NEW k \in i .. (Len(w) + 1) PROVE F(k) \in T /\ Len(F(k)) \in Nat
    <2>1. k - i \in S /\ i + (k - i) = k /\ k <= Len(w) + 1  BY <1>1, <1>6
    <2>2. F(k) \in T  BY <2>1 DEF S
    <2> QED  BY <2>2, LenProperties
<1>8. j \in i .. (Len(w) + 1) /\ l \in i .. (Len(w) + 1) /\ j \in Nat /\ l \in Nat  BY <1>1
<1>9. 0 \in R
    <2>1. j + 0 = j /\ Len(F(j)) \in Nat  BY <1>7, <1>8
    <2> QED  BY <2>1
<1>10. ASSUME NEW m \in R PROVE m + 1 \in R
    <2> SUFFICES ASSUME j + (m + 1) <= Len(w) + 1 PROVE Len(F(j)) <= Len(F(j + (m + 1)))
        OBVIOUS
    <2>1. /\ m \in Nat /\ j + m \in i .. Len(w) /\ j + m \in i .. (Len(w) + 1) /\ (j + m) + 1 = j + (m + 1)
          /\ (j + m) + 1 \in i .. (Len(w) + 1) /\ Len(F(j)) <= Len(F(j + m))
        BY <1>1, <1>8
    <2>2. /\ Len(F(j + m)) <= Len(F((j + m) + 1)) /\ Len(F(j)) \in Nat /\ Len(F(j + m)) \in Nat
          /\ Len(F((j + m) + 1)) \in Nat
        BY <1>2, <1>7, <1>8, <2>1
    <2> QED  BY <2>1, <2>2
<1> HIDE DEF R
<1>11. R = Nat
    <2>1. R \in SUBSET Nat  BY DEF R
    <2> QED  BY <1>9, <1>10, <2>1, Induction
<1>12. l - j \in R /\ j + (l - j) = l /\ l <= Len(w) + 1  BY <1>1, <1>8, <1>11
<1>13. Len(F(j)) <= Len(F(l))  BY <1>12 DEF R
<1> QED  BY <1>7, <1>8, <1>13 DEF F

\* What is read of a simple command, and where it stops being one.
LEMMA PlainWord ==
    ASSUME NEW w, NEW i \in Int, NEW k \in Int, i <= k, Plain(w, i, k), w[k].op = "a"
    PROVE  /\ Plain(w, i, k + 1) /\ k - 1 \notin Redirs(w, i, k)
           /\ Words(w, i, k + 1) = Append(Words(w, i, k), w[k].word)
           /\ Files(w, i, k + 1) = Files(w, i, k)
<1>1. k - 1 \notin Redirs(w, i, k)
    <2>1. ~((k - 1) + 1 < k)  OBVIOUS
    <2> QED  BY <2>1 DEF Plain
<1>2. w[k].op \notin Redirection  BY DEF Redirection
<1>3. \A y \in i .. ((k + 1) - 1) : y = k \/ y \in i .. (k - 1)  OBVIOUS
<1>4. Redirs(w, i, k + 1) = Redirs(w, i, k)  BY <1>2, <1>3 DEF Redirs
<1>5. Plain(w, i, k + 1)
    <2>1. \A y \in i .. ((k + 1) - 1) : w[y].op \in Redirection \cup {"a"}  BY <1>3 DEF Plain
    <2>2. \A y \in Redirs(w, i, k + 1) : y + 1 < k + 1 /\ w[y + 1].op = "a"
        <3>1. \A y \in Redirs(w, i, k) : y \in Int  BY DEF Redirs
        <3> QED  BY <1>4, <3>1 DEF Plain
    <2> QED  BY <2>1, <2>2 DEF Plain
<1> QED  BY <1>1, <1>2, <1>5, WordsAre, FilesAre

\* A redirection with its file leaves a plain command plain.
LEMMA PlainFile ==
    ASSUME NEW w, NEW i \in Int, NEW k \in Int, i <= k, Plain(w, i, k),
           w[k].op \in Redirection, w[k + 1].op = "a"
    PROVE  /\ Plain(w, i, k + 2)
           /\ Words(w, i, k + 2) = Words(w, i, k)
           /\ Files(w, i, k + 2) = Append(Files(w, i, k), <<w[k].op, w[k + 1].word>>)
<1>1. "a" \notin Redirection  BY DEF Redirection
<1>2. \A y \in i .. ((k + 2) - 1) : y = k \/ y = k + 1 \/ y \in i .. (k - 1)  OBVIOUS
<1>3. Redirs(w, i, k + 2) = Redirs(w, i, k) \cup {k}  BY <1>1, <1>2 DEF Redirs
<1>4. Plain(w, i, k + 2)
    <2>1. \A y \in i .. ((k + 2) - 1) : w[y].op \in Redirection \cup {"a"}  BY <1>2 DEF Plain
    <2>2. \A y \in Redirs(w, i, k + 2) : y + 1 < k + 2 /\ w[y + 1].op = "a"
        <3>1. \A y \in Redirs(w, i, k) : y \in Int  BY DEF Redirs
        <3> QED  BY <1>3, <3>1 DEF Plain
    <2> QED  BY <2>1, <2>2 DEF Plain
<1>5. Words(w, i, k + 1) = Words(w, i, k)  BY <1>1, WordsAre
<1>6. /\ k + 1 \in Int /\ k + 1 >= i /\ (k + 1) + 1 = k + 2 /\ (k + 1) - 1 = k
      /\ k \in Redirs(w, i, k + 1)
    BY DEF Redirs
<1>7. Words(w, i, k + 2) = Words(w, i, k + 1)
    <2>1. Words(w, i, (k + 1) + 1) = IF w[k + 1].op = "a" /\ (k + 1) - 1 \notin Redirs(w, i, k + 1)
                                     THEN Append(Words(w, i, k + 1), w[k + 1].word) ELSE Words(w, i, k + 1)
        BY <1>6, WordsAre
    <2> QED  BY <1>6, <2>1
<1>8. Files(w, i, k + 1) = Append(Files(w, i, k), <<w[k].op, w[k + 1].word>>)  BY FilesAre
<1>9. Files(w, i, k + 2) = Files(w, i, k + 1)
    <2>1. Files(w, i, (k + 1) + 1) = IF w[k + 1].op \in Redirection
                                     THEN Append(Files(w, i, k + 1), <<w[k + 1].op, w[(k + 1) + 1].word>>)
                                     ELSE Files(w, i, k + 1)
        BY <1>6, FilesAre
    <2> QED  BY <1>1, <1>6, <2>1
<1> QED  BY <1>4, <1>5, <1>7, <1>8, <1>9

\* What is wrong with a command that the parser gives up.
Breaks(w, i, z) ==
    \/ w[z].op = "("
    \/ w[z].op = "a" /\ Len(Words(w, i, z)) + 1 >= MaxArgs
    \/ w[z].op \in Redirection /\ ~(z + 1 <= Len(w) /\ w[z + 1].op = "a")
Broken(w, i) == \E z \in i .. Len(w) : Plain(w, i, z) /\ Breaks(w, i, z)

\* A command that is broken early is broken to its end.
LEMMA BrokenMeans ==
    ASSUME NEW w \in Seq(TokenType), NEW i \in 1 .. (Len(w) + 1), Broken(w, i),
           NEW j \in i .. (Len(w) + 1), j = Len(w) + 1 \/ w[j].op \in OfExec, Plain(w, i, j)
    PROVE  Args(w, i, j) # {} /\ Len(Words(w, i, j)) >= MaxArgs
<1>1. Len(w) \in Nat /\ MaxArgs \in Nat  BY LenProperties, ParseAssumption
<1>2. PICK z \in i .. Len(w) : Plain(w, i, z) /\ Breaks(w, i, z)  BY DEF Broken
<1>3. OfExec \cap (Redirection \cup {"a", "("}) = {}
    BY DEF OfExec, OfPipe, OfLine, Redirection
<1>4. z < j
    <2>1. j # Len(w) + 1 => j \notin i .. (z - 1)  BY <1>2, <1>3 DEF Plain
    <2>2. z = j => j = Len(w) + 1  BY <1>2, <1>3 DEF Breaks
    <2> QED  BY <1>1, <2>1, <2>2
<1>5. z \in i .. (j - 1) /\ z \in Int  BY <1>1, <1>4
<1>6. w[z].op # "("  BY <1>5 DEF Plain, Redirection
<1>7. ~(w[z].op \in Redirection /\ ~(z + 1 <= Len(w) /\ w[z + 1].op = "a"))
    <2>1. w[z].op \in Redirection => z \in Redirs(w, i, j)  BY <1>5 DEF Redirs
    <2>2. w[z].op \in Redirection => z + 1 < j /\ w[z + 1].op = "a"  BY <2>1 DEF Plain
    <2> QED  BY <1>1, <1>5, <2>2
<1>8. w[z].op = "a" /\ Len(Words(w, i, z)) + 1 >= MaxArgs  BY <1>2, <1>6, <1>7 DEF Breaks
<1>9. z - 1 \notin Redirs(w, i, z) /\ Words(w, i, z + 1) = Append(Words(w, i, z), w[z].word)
    BY <1>2, <1>5, <1>8, PlainWord
<1>10. Args(w, i, j) # {}
    <2>1. z - 1 \notin Redirs(w, i, j)  BY <1>5, <1>9 DEF Redirs
    <2> QED  BY <1>5, <1>8, <2>1 DEF Args
<1>11. z \in 1 .. Len(w) /\ z \in i .. (Len(w) + 1) /\ z + 1 \in i .. (Len(w) + 1) /\ j \in (z + 1) .. (Len(w) + 1)
    BY <1>1, <1>4
<1>12. w[z].word \in Seq(Letter)
    <2>1. w[z] \in TokenType  BY <1>11, ElementOfSeq
    <2> QED  BY <2>1 DEF TokenType
<1>13. /\ Words(w, i, z) \in Seq(Seq(Letter)) /\ Len(Words(w, i, z)) \in Nat
       /\ Len(Words(w, i, j)) \in Nat /\ Len(Words(w, i, z + 1)) <= Len(Words(w, i, j))
    <2>1. j \in z .. (Len(w) + 1)  BY <1>1, <1>11
    <2> QED  BY <1>11, <2>1, WordsGrow
<1>14. Len(Words(w, i, z + 1)) = Len(Words(w, i, z)) + 1  BY <1>9, <1>12, <1>13, AppendProperties
<1> QED  BY <1>1, <1>8, <1>10, <1>13, <1>14

\* A command without words has no arguments in the reference either.
LEMMA NoWords ==
    ASSUME NEW w \in Seq(TokenType), NEW i \in 1 .. (Len(w) + 1), NEW j \in i .. (Len(w) + 1),
           Words(w, i, j) = <<>>
    PROVE  Args(w, i, j) = {}
<1> SUFFICES ASSUME NEW z \in Args(w, i, j) PROVE FALSE
    OBVIOUS
<1>1. Len(w) \in Nat  BY LenProperties
<1>2. z \in i .. (j - 1) /\ w[z].op = "a" /\ z - 1 \notin Redirs(w, i, j)  BY DEF Args
<1>3. /\ z \in 1 .. Len(w) /\ z \in Int /\ z >= i /\ z \in i .. (Len(w) + 1) /\ z + 1 \in i .. (Len(w) + 1)
      /\ j \in (z + 1) .. (Len(w) + 1) /\ z + 1 \in z .. (Len(w) + 1)
    BY <1>1, <1>2
<1>4. z - 1 \notin Redirs(w, i, z)  BY <1>2, <1>3 DEF Redirs
<1>5. Words(w, i, z + 1) = Append(Words(w, i, z), w[z].word)
    <2>1. i \in Int  BY <1>1
    <2> QED  BY <1>2, <1>3, <1>4, <2>1, WordsAre
<1>6. w[z].word \in Seq(Letter)
    <2>1. w[z] \in TokenType  BY <1>3, ElementOfSeq
    <2> QED  BY <2>1 DEF TokenType
<1>7. /\ Words(w, i, z) \in Seq(Seq(Letter)) /\ Len(Words(w, i, z)) \in Nat
      /\ Len(Words(w, i, z + 1)) <= Len(Words(w, i, j))
    BY <1>3, WordsGrow
<1>8. Len(Words(w, i, z + 1)) = Len(Words(w, i, z)) + 1  BY <1>5, <1>6, <1>7, AppendProperties
<1>9. Len(Words(w, i, j)) = 0  BY EmptySeq
<1> QED  BY <1>7, <1>8, <1>9

-----------------------------------------------------------------------------
(* The loops of parseexec() and parseredirs(), one turn at a time. *)

\* What parseexec() has read of the command that begins at word or operator i.
Gathered(t, i, x) ==
    /\ x = [ok |-> x.ok, words |-> x.words, redirs |-> x.redirs, s |-> x.s] /\ x.ok \in BOOLEAN
    /\ x.ok => /\ Bound(t, x.s) /\ i <= At(t, x.s) /\ Plain(Tokens(t), i, At(t, x.s))
               /\ x.words = Words(Tokens(t), i, At(t, x.s))
               /\ x.redirs = Files(Tokens(t), i, At(t, x.s))
               /\ Len(x.words) < MaxArgs
    /\ ~x.ok => Broken(Tokens(t), i)
AtRedir(t, x) == x.ok /\ Peek(t, x.s, {"<", ">"})

\* What one turn of the loop of parseredirs() reads.
LEMMA RedirStep ==
    ASSUME NEW t, Even(t), NEW i \in 1 .. (Len(Tokens(t)) + 1), NEW x, Gathered(t, i, x)
    PROVE  /\ ~AtRedir(t, x) => OneRedir(t, x) = x
           /\ AtRedir(t, x) => /\ Gathered(t, i, OneRedir(t, x))
                               /\ OneRedir(t, x).words = x.words
                               /\ OneRedir(t, x).ok => OneRedir(t, x).s > x.s /\ x.s \in Nat
<1> DEFINE w == Tokens(t)
           k == At(t, x.s)
           op == GetToken(t, x.s)
           file == GetToken(t, op.s)
           y == OneRedir(t, x)
<1>1. ASSUME ~AtRedir(t, x) PROVE y = x
    <2>1. x.ok \in BOOLEAN  BY DEF Gathered
    <2> QED  BY <1>1, <2>1 DEF OneRedir, AtRedir
<1>2. ASSUME AtRedir(t, x)
      PROVE  Gathered(t, i, y) /\ y.words = x.words /\ (y.ok => y.s > x.s /\ x.s \in Nat)
    <2>1. x.ok /\ Peek(t, x.s, {"<", ">"})  BY <1>2 DEF AtRedir
    <2>2. /\ x = [ok |-> x.ok, words |-> x.words, redirs |-> x.redirs, s |-> x.s]
          /\ Bound(t, x.s) /\ i <= k /\ Plain(w, i, k)
          /\ x.words = Words(w, i, k) /\ x.redirs = Files(w, i, k) /\ Len(x.words) < MaxArgs
        BY <2>1 DEF Gathered
    <2>3. {"<", ">"} \in SUBSET Symbol  BY DEF Symbol
    <2>4. /\ w \in Seq(TokenType) /\ Len(w) \in Nat /\ x.s \in 1 .. End(t)
          /\ k # Len(w) + 1 /\ k \in 1 .. Len(w) /\ w[k].op \in Redirection /\ w[k].op = op.tok
          /\ Bound(t, op.s) /\ op.s \in (x.s + 1) .. End(t) /\ At(t, op.s) = k + 1
        BY <2>1, <2>2, <2>3, Scans DEF Redirection
    <2>5. x.s \in Nat /\ op.s \in Nat /\ op.s > x.s /\ i \in Int /\ k \in Int /\ End(t) \in Nat
        BY <2>4, LineIs DEF Even
    <2>6. CASE file.tok = "a"
        <3>1. /\ k + 1 # Len(w) + 1 /\ w[k + 1].op = "a" /\ w[k + 1].word = Word(t, file)
              /\ Bound(t, file.s) /\ file.s \in (op.s + 1) .. End(t) /\ At(t, file.s) = (k + 1) + 1
            <4>1. "a" # "eof"  OBVIOUS
            <4>2. file.tok = "eof" <=> k + 1 = Len(w) + 1  BY <2>4, Scans
            <4>3. k + 1 # Len(w) + 1  BY <2>6, <4>1, <4>2
            <4> QED  BY <2>4, <2>6, <4>3, Scans
        <3>2. /\ Plain(w, i, k + 2) /\ Words(w, i, k + 2) = Words(w, i, k)
              /\ Files(w, i, k + 2) = Append(Files(w, i, k), <<w[k].op, w[k + 1].word>>)
            BY <2>2, <2>4, <2>5, <3>1, PlainFile
        <3>3. y = [x EXCEPT !.redirs = Append(@, <<op.tok, Word(t, file)>>), !.s = file.s]
            BY <2>1, <2>6 DEF OneRedir
        <3> HIDE DEF y, op, file
        <3>4. /\ y = [ok |-> y.ok, words |-> y.words, redirs |-> y.redirs, s |-> y.s]
              /\ y.ok = x.ok /\ y.words = x.words /\ y.s = file.s
              /\ y.redirs = Append(x.redirs, <<op.tok, Word(t, file)>>)
            BY <2>2, <3>3
        <3>5. At(t, y.s) = k + 2 /\ file.s > x.s  BY <2>5, <3>1, <3>4
        <3>6. y.redirs = Files(w, i, k + 2)  BY <2>2, <2>4, <3>1, <3>2, <3>4
        <3> HIDE DEF w, k
        <3>7. i <= k + 2  BY <2>2, <2>5
        <3>8. Gathered(t, i, y)  BY <2>1, <2>2, <3>1, <3>2, <3>4, <3>5, <3>6, <3>7 DEF Gathered, w
        <3> QED  BY <2>5, <3>4, <3>5, <3>8
    <2>7. CASE file.tok # "a"
        <3>1. y = [x EXCEPT !.ok = FALSE]  BY <2>1, <2>7 DEF OneRedir
        <3>2. k + 1 # Len(w) + 1 => w[k + 1].op # "a"
            <4>1. k + 1 # Len(w) + 1 => w[k + 1].op = file.tok  BY <2>4, Scans
            <4> QED  BY <2>7, <4>1
        <3>3. Breaks(w, i, k)  BY <2>4, <3>2 DEF Breaks
        <3>4. Broken(w, i)
            <4>1. k \in i .. Len(w)  BY <2>2, <2>4, <2>5
            <4> QED  BY <2>2, <3>3, <4>1 DEF Broken
        <3> HIDE DEF y, op, file, w, k
        <3>5. /\ y = [ok |-> y.ok, words |-> y.words, redirs |-> y.redirs, s |-> y.s]
              /\ y.ok = FALSE /\ y.words = x.words
            BY <2>2, <3>1
        <3> QED  BY <3>4, <3>5 DEF Gathered, w
    <2> QED  BY <2>6, <2>7
<1> QED  BY <1>1, <1>2

\* parseredirs() stops only where no redirection is left, or with panic().
LEMMA RedirsAre ==
    ASSUME NEW t, Even(t), NEW i \in 1 .. (Len(Tokens(t)) + 1), NEW x, Gathered(t, i, x), x.ok
    PROVE  LET y == ParseRedirs(t, x)
           IN /\ Gathered(t, i, y) /\ ~AtRedir(t, y) /\ y.words = x.words
              /\ y.ok => y.s >= x.s
<1> DEFINE y == ParseRedirs(t, x)
           V(r, n) == IF n = 0 THEN [x EXCEPT !.s = Skip(t, @)] ELSE OneRedir(t, r[n - 1])
           r == CHOOSE r : r = [n \in 0 .. Len(t) |-> V(r, n)]
<1>1. Len(t) \in Nat /\ End(t) = Len(t) + 1 /\ IsLine(t)  BY LineIs DEF Even
<1>2. y = r[Len(t)]  BY DEF ParseRedirs
<1>3. PICK q : Redirecting(q, t, x, Len(t))  BY <1>1, RedirsExist
<1>4. q = [n \in 0 .. Len(t) |-> V(q, n)]  BY <1>3 DEF Redirecting
<1>5. r = [n \in 0 .. Len(t) |-> V(r, n)]  BY <1>4
<1> HIDE DEF r
<1>6. \A n \in 0 .. Len(t) : r[n] = V(r, n)  BY <1>5
<1> DEFINE G(z) == Gathered(t, i, z) /\ z.words = x.words /\ (z.ok => z.s >= x.s)
           S == {n \in Nat : n <= Len(t) => G(r[n]) /\ (AtRedir(t, r[n]) => r[n].s >= n + 1)}
<1>7. /\ x = [ok |-> x.ok, words |-> x.words, redirs |-> x.redirs, s |-> x.s] /\ x.ok \in BOOLEAN
      /\ Bound(t, x.s) /\ x.s \in 1 .. End(t)
    BY DEF Gathered, Bound
<1>8. G(r[0]) /\ (AtRedir(t, r[0]) => r[0].s >= 0 + 1)
    <2> DEFINE z == r[0]
    <2>1. z = [x EXCEPT !.s = Skip(t, @)]  BY <1>1, <1>6
    <2>2. Skip(t, x.s) \in x.s .. End(t)  BY <1>1, <1>7, SkipIs
    <2>3. Bound(t, Skip(t, x.s)) /\ At(t, Skip(t, x.s)) = At(t, x.s)  BY <1>1, <1>7, BoundSkip DEF At
    <2> HIDE DEF z
    <2>4. /\ z = [ok |-> z.ok, words |-> z.words, redirs |-> z.redirs, s |-> z.s]
          /\ z.ok = x.ok /\ z.words = x.words /\ z.redirs = x.redirs /\ z.s = Skip(t, x.s)
        BY <1>7, <2>1
    <2>5. Gathered(t, i, z)  BY <2>3, <2>4 DEF Gathered
    <2>6. z.s >= x.s /\ z.s >= 1  BY <1>1, <1>7, <2>2, <2>4
    <2> QED  BY <2>4, <2>5, <2>6 DEF z
<1>9. 0 \in S  BY <1>8
<1>10. ASSUME NEW n \in S PROVE n + 1 \in S
    <2> SUFFICES ASSUME n + 1 <= Len(t)
                 PROVE  G(r[n + 1]) /\ (AtRedir(t, r[n + 1]) => r[n + 1].s >= (n + 1) + 1)
        OBVIOUS
    <2> DEFINE a == r[n]
               b == r[n + 1]
    <2>1. n \in Nat /\ n + 1 \in 0 .. Len(t) /\ n + 1 # 0 /\ (n + 1) - 1 = n /\ n <= Len(t)  BY <1>1
    <2>2. G(a) /\ (AtRedir(t, a) => a.s >= n + 1)  BY <2>1
    <2>3. b = OneRedir(t, a)
        <3>1. b = V(r, n + 1)  BY <1>6, <2>1
        <3> QED  BY <2>1, <3>1
    <2> HIDE DEF a, b
    <2>4. CASE ~AtRedir(t, a)
        <3>1. b = a  BY <2>2, <2>3, <2>4, RedirStep
        <3> QED  BY <2>2, <2>4, <3>1 DEF a, b
    <2>5. CASE AtRedir(t, a)
        <3>1. Gathered(t, i, b) /\ b.words = a.words /\ (b.ok => b.s > a.s /\ a.s \in Nat)
            BY <2>2, <2>3, <2>5, RedirStep
        <3>2. b.ok => b.s \in Nat  BY <3>1, LineIs DEF Gathered, Bound
        <3>3. a.ok  BY <2>5 DEF AtRedir
        <3>4. AtRedir(t, b) => b.ok  BY DEF AtRedir
        <3>5. b.ok => b.s >= x.s /\ b.s >= (n + 1) + 1
            BY <1>1, <1>7, <2>1, <2>2, <2>5, <3>1, <3>2, <3>3
        <3>6. G(b) /\ (AtRedir(t, b) => b.s >= (n + 1) + 1)  BY <2>2, <3>1, <3>4, <3>5
        <3> QED  BY <3>6 DEF b
    <2> QED  BY <2>4, <2>5
<1> HIDE DEF S, V
<1>11. S = Nat
    <2>1. S \in SUBSET Nat  BY DEF S
    <2> QED  BY <1>9, <1>10, <2>1, Induction
<1>12. Len(t) \in S  BY <1>1, <1>11
<1> HIDE DEF y
<1>13. G(y) /\ (AtRedir(t, y) => y.s >= Len(t) + 1)  BY <1>1, <1>2, <1>12 DEF S
<1>14. ~AtRedir(t, y)
    <2> SUFFICES ASSUME AtRedir(t, y) PROVE FALSE
        OBVIOUS
    <2>1. y.ok /\ Peek(t, y.s, {"<", ">"})  BY DEF AtRedir
    <2>2. Bound(t, y.s) /\ y.s \in 1 .. End(t)  BY <1>13, <2>1 DEF Gathered, Bound
    <2>3. y.s = End(t)  BY <1>1, <1>13, <2>2
    <2>4. Skip(t, y.s) \in y.s .. End(t)  BY <1>1, <2>2, SkipIs
    <2>5. ~(Skip(t, y.s) < End(t))  BY <1>1, <2>3, <2>4
    <2> QED  BY <2>1, <2>5 DEF Peek
<1> QED  BY <1>13, <1>14 DEF y

\* Where the loop of parseexec() ends.
Stopped(t, x) == \/ ~x.ok
                 \/ Peek(t, x.s, {"|", ")", "&", ";"})
                 \/ GetToken(t, x.s).tok = "eof"

\* What one turn of the loop of parseexec() reads, with the redirections behind it.
LEMMA ArgStep ==
    ASSUME NEW t, Even(t), NEW i \in 1 .. (Len(Tokens(t)) + 1), NEW x, Gathered(t, i, x), ~AtRedir(t, x)
    PROVE  LET y == OneArg(t, x)
           IN /\ Stopped(t, x) => y = x
              /\ ~Stopped(t, x) => /\ Gathered(t, i, y) /\ ~AtRedir(t, y)
                                   /\ x.ok /\ x.s \in Nat
                                   /\ y.ok => y.s \in Nat /\ y.s > x.s
<1> DEFINE w == Tokens(t)
           k == At(t, x.s)
           g == GetToken(t, x.s)
           y == OneArg(t, x)
<1>1. ASSUME Stopped(t, x) PROVE y = x
    <2>1. x.ok \in BOOLEAN  BY DEF Gathered
    <2> QED  BY <1>1, <2>1 DEF OneArg, Stopped
<1>2. ASSUME ~Stopped(t, x)
      PROVE  /\ Gathered(t, i, y) /\ ~AtRedir(t, y) /\ x.ok /\ x.s \in Nat
             /\ y.ok => y.s \in Nat /\ y.s > x.s
    <2>1. x.ok /\ ~Peek(t, x.s, {"|", ")", "&", ";"}) /\ g.tok # "eof"  BY <1>2 DEF Stopped
    <2>2. /\ x = [ok |-> x.ok, words |-> x.words, redirs |-> x.redirs, s |-> x.s]
          /\ Bound(t, x.s) /\ i <= k /\ Plain(w, i, k)
          /\ x.words = Words(w, i, k) /\ x.redirs = Files(w, i, k) /\ Len(x.words) < MaxArgs
        BY <2>1 DEF Gathered
    <2>3. /\ w \in Seq(TokenType) /\ Len(w) \in Nat /\ x.s \in 1 .. End(t)
          /\ k # Len(w) + 1 /\ k \in 1 .. Len(w) /\ w[k].op = g.tok
          /\ Bound(t, g.s) /\ g.s \in (x.s + 1) .. End(t) /\ At(t, g.s) = k + 1
          /\ g.tok = "a" => w[k].word = Word(t, g)
        <3>1. w \in Seq(TokenType) /\ Len(w) \in Nat /\ x.s \in 1 .. End(t)  BY <2>2, Scans
        <3>2. k # Len(w) + 1  BY <2>1, <2>2, Scans
        <3>3. /\ k \in 1 .. Len(w) /\ w[k].op = g.tok
              /\ Bound(t, g.s) /\ g.s \in (x.s + 1) .. End(t) /\ At(t, g.s) = k + 1
            BY <2>2, <3>2, Scans
        <3>4. g.tok = "a" => w[k].word = Word(t, g)  BY <2>2, <3>2, Scans
        <3> QED  BY <3>1, <3>2, <3>3, <3>4
    <2>4. w[k].op \notin {"|", ")", "&", ";"}
        <3>1. {"|", ")", "&", ";"} \in SUBSET Symbol  BY DEF Symbol
        <3> QED  BY <2>1, <2>2, <2>3, <3>1, Scans
    <2>5. w[k].op \notin {"<", ">", "+"}
        <3>1. {"<", ">"} \in SUBSET Symbol  BY DEF Symbol
        <3>2. ~Peek(t, x.s, {"<", ">"})  BY <2>1 DEF AtRedir
        <3>3. ~(w[k].op \in {"<", ">"} \/ (w[k].op = "+" /\ ">" \in {"<", ">"}))
            BY <2>2, <2>3, <3>1, <3>2, Scans
        <3> QED  BY <3>3
    <2>6. w[k].op \in {"(", "a"}
        <3>1. w[k] \in TokenType  BY <2>3, ElementOfSeq
        <3> QED  BY <2>4, <2>5, <3>1 DEF TokenType, Sign, Symbol
    <2>7. x.s \in Nat /\ g.s \in Nat /\ g.s > x.s /\ i \in Int /\ k \in Int /\ End(t) \in Nat
          /\ MaxArgs \in Nat
        BY <2>3, LineIs, ParseAssumption DEF Even
    <2>8. /\ i \in 1 .. (Len(w) + 1) /\ k \in i .. (Len(w) + 1) /\ k \in i .. Len(w)  BY <2>2, <2>3, <2>7
    <2>9. Len(x.words) \in Nat /\ x.words \in Seq(Seq(Letter))
        <3>1. k \in k .. (Len(w) + 1)  BY <2>3
        <3> QED  BY <2>2, <2>3, <2>8, <3>1, WordsGrow
    <2>10. CASE g.tok # "a" \/ Len(x.words) + 1 >= MaxArgs
        <3>1. y = [x EXCEPT !.ok = FALSE]
            BY <2>1, <2>10 DEF OneArg
        <3>2. Breaks(w, i, k)  BY <2>2, <2>3, <2>6, <2>10 DEF Breaks
        <3>3. Broken(w, i)  BY <2>2, <2>8, <3>2 DEF Broken
        <3> HIDE DEF y, g, w, k
        <3>4. /\ y = [ok |-> y.ok, words |-> y.words, redirs |-> y.redirs, s |-> y.s]
              /\ y.ok = FALSE
            BY <2>2, <3>1
        <3> QED  BY <2>1, <2>7, <3>3, <3>4 DEF Gathered, AtRedir, w
    <2>11. CASE ~(g.tok # "a" \/ Len(x.words) + 1 >= MaxArgs)
        <3> DEFINE z == [x EXCEPT !.words = Append(@, Word(t, g)), !.s = g.s]
        <3>1. y = ParseRedirs(t, z)  BY <2>1, <2>11 DEF OneArg
        <3>2. w[k].op = "a" /\ w[k].word = Word(t, g)  BY <2>3, <2>11
        <3>3. /\ Plain(w, i, k + 1) /\ Words(w, i, k + 1) = Append(Words(w, i, k), w[k].word)
              /\ Files(w, i, k + 1) = Files(w, i, k)
            BY <2>2, <2>7, <3>2, PlainWord
        <3> DEFINE u == Append(x.words, Word(t, g))
        <3>0. z = [x EXCEPT !.words = u, !.s = g.s]  OBVIOUS
        <3> HIDE DEF y, g, z, u
        <3>4. /\ z = [ok |-> z.ok, words |-> z.words, redirs |-> z.redirs, s |-> z.s]
              /\ z.ok = x.ok /\ z.words = u /\ z.redirs = x.redirs /\ z.s = g.s
            BY <2>2, <3>0
        <3>5. At(t, z.s) = k + 1 /\ Bound(t, z.s)  BY <2>3, <3>4
        <3>6. Len(z.words) < MaxArgs
            <4>1. Word(t, g) \in Seq(Letter)
                <5>1. w[k] \in TokenType  BY <2>3, ElementOfSeq
                <5> QED  BY <3>2, <5>1 DEF TokenType
            <4>2. Len(Append(x.words, Word(t, g))) = Len(x.words) + 1  BY <2>9, <4>1, AppendProperties
            <4> QED  BY <2>7, <2>9, <2>11, <3>4, <4>2 DEF u
        <3>7. z.words = Words(w, i, k + 1) /\ z.redirs = Files(w, i, k + 1)  BY <2>2, <3>2, <3>3, <3>4 DEF u
        <3>8. i <= k + 1  BY <2>2, <2>7
        <3> HIDE DEF w, k
        <3>9. Gathered(t, i, z) /\ z.ok  BY <2>1, <3>3, <3>4, <3>5, <3>6, <3>7, <3>8 DEF Gathered, w
        <3>10. Gathered(t, i, y) /\ ~AtRedir(t, y) /\ (y.ok => y.s >= z.s)
            BY <3>1, <3>9, RedirsAre
        <3>11. y.ok => y.s \in Nat  BY <3>10, LineIs DEF Gathered, Bound, Even
        <3>12. y.ok => y.s \in Nat /\ y.s > x.s  BY <2>7, <3>4, <3>10, <3>11
        <3> QED  BY <2>1, <2>7, <3>10, <3>12
    <2> QED  BY <2>10, <2>11
<1> QED  BY <1>1, <1>2

\* parseexec() stops only where its command does, or with panic().
LEMMA ArgsAre ==
    ASSUME NEW t, Even(t), NEW i \in 1 .. (Len(Tokens(t)) + 1), NEW x, Gathered(t, i, x), ~AtRedir(t, x)
    PROVE  LET y == ParseArgs(t, x)
           IN Gathered(t, i, y) /\ ~AtRedir(t, y) /\ Stopped(t, y)
<1> DEFINE y == ParseArgs(t, x)
           V(r, n) == IF n = 0 THEN x ELSE OneArg(t, r[n - 1])
           r == CHOOSE r : r = [n \in 0 .. Len(t) |-> V(r, n)]
<1>1. Len(t) \in Nat /\ End(t) = Len(t) + 1 /\ IsLine(t)  BY LineIs DEF Even
<1>2. y = r[Len(t)]  BY DEF ParseArgs
<1>3. PICK q : Arguing(q, t, x, Len(t))  BY <1>1, ArgsExist
<1>4. q = [n \in 0 .. Len(t) |-> V(q, n)]  BY <1>3 DEF Arguing
<1>5. r = [n \in 0 .. Len(t) |-> V(r, n)]  BY <1>4
<1> HIDE DEF r
<1>6. \A n \in 0 .. Len(t) : r[n] = V(r, n)  BY <1>5
<1> DEFINE G(z) == Gathered(t, i, z) /\ ~AtRedir(t, z)
           S == {n \in Nat : n <= Len(t) => G(r[n]) /\ (~Stopped(t, r[n]) => r[n].s >= n + 1)}
<1>7. G(r[0]) /\ (~Stopped(t, r[0]) => r[0].s >= 0 + 1)
    <2>1. r[0] = x  BY <1>1, <1>6
    <2>2. x.ok => x.s >= 0 + 1  BY <1>1 DEF Gathered, Bound
    <2> QED  BY <2>1, <2>2 DEF Stopped
<1>8. 0 \in S  BY <1>7
<1>9. ASSUME NEW n \in S PROVE n + 1 \in S
    <2> SUFFICES ASSUME n + 1 <= Len(t)
                 PROVE  G(r[n + 1]) /\ (~Stopped(t, r[n + 1]) => r[n + 1].s >= (n + 1) + 1)
        OBVIOUS
    <2> DEFINE a == r[n]
               b == r[n + 1]
    <2>1. n \in Nat /\ n + 1 \in 0 .. Len(t) /\ n + 1 # 0 /\ (n + 1) - 1 = n /\ n <= Len(t)  BY <1>1
    <2>2. G(a) /\ (~Stopped(t, a) => a.s >= n + 1)  BY <2>1
    <2>3. b = OneArg(t, a)
        <3>1. b = V(r, n + 1)  BY <1>6, <2>1
        <3> QED  BY <2>1, <3>1
    <2> HIDE DEF a, b
    <2>4. CASE Stopped(t, a)
        <3>1. b = a  BY <2>2, <2>3, <2>4, ArgStep
        <3> QED  BY <2>2, <2>4, <3>1 DEF a, b
    <2>5. CASE ~Stopped(t, a)
        <3>1. Gathered(t, i, b) /\ ~AtRedir(t, b) /\ a.s \in Nat /\ (b.ok => b.s \in Nat /\ b.s > a.s)
            BY <2>2, <2>3, <2>5, ArgStep
        <3>2. ~Stopped(t, b) => b.ok  BY DEF Stopped
        <3>3. G(b) /\ (~Stopped(t, b) => b.s >= (n + 1) + 1)  BY <2>1, <2>2, <2>5, <3>1, <3>2
        <3> QED  BY <3>3 DEF b
    <2> QED  BY <2>4, <2>5
<1> HIDE DEF S, V
<1>10. S = Nat
    <2>1. S \in SUBSET Nat  BY DEF S
    <2> QED  BY <1>8, <1>9, <2>1, Induction
<1>11. Len(t) \in S  BY <1>1, <1>10
<1> HIDE DEF y
<1>12. G(y) /\ (~Stopped(t, y) => y.s >= Len(t) + 1)  BY <1>1, <1>2, <1>11 DEF S
<1>13. Stopped(t, y)
    <2> SUFFICES ASSUME ~Stopped(t, y) PROVE FALSE
        OBVIOUS
    <2>1. y.ok /\ GetToken(t, y.s).tok # "eof"  BY DEF Stopped
    <2>2. Bound(t, y.s) /\ y.s \in 1 .. End(t)  BY <1>12, <2>1 DEF Gathered, Bound
    <2>3. y.s = End(t)  BY <1>1, <1>12, <2>2
    <2>4. Skip(t, y.s) \in y.s .. End(t)  BY <1>1, <2>2, SkipIs
    <2>5. Skip(t, y.s) = End(t)  BY <1>1, <2>3, <2>4
    <2> QED  BY <1>1, <2>1, <2>2, <2>5, TokenRange
<1> QED  BY <1>12, <1>13 DEF y

\* Nothing is read of a command before its first word.
LEMMA NothingIs ==
    ASSUME NEW t, Even(t), NEW s, Bound(t, s)
    PROVE  Gathered(t, At(t, s), Nothing(s)) /\ Nothing(s).ok
<1> DEFINE k == At(t, s)
           w == Tokens(t)
           x == Nothing(s)
<1>1. k \in Int /\ k <= k
    <2>1. Len(w) \in Nat /\ k \in 1 .. (Len(w) + 1)  BY Scans
    <2> HIDE DEF w, k
    <2> QED  BY <2>1
<1>2. Words(w, k, k) = <<>> /\ Files(w, k, k) = <<>>  BY <1>1, WordsAre, FilesAre
<1>3. Plain(w, k, k)  BY <1>1 DEF Plain, Redirs
<1>4. /\ x = [ok |-> x.ok, words |-> x.words, redirs |-> x.redirs, s |-> x.s]
      /\ x.ok = TRUE /\ x.words = <<>> /\ x.redirs = <<>> /\ x.s = s
    BY DEF Nothing
<1> HIDE DEF x
<1>5. Len(x.words) < MaxArgs  BY <1>4, EmptySeq, ParseAssumption
<1> QED  BY <1>1, <1>2, <1>3, <1>4, <1>5 DEF Gathered, x

-----------------------------------------------------------------------------
(* Each parse function answers what the grammar says of the part it reads. *)

\* No more words and operators are left than characters.
LEMMA Fewer ==
    ASSUME NEW t, Even(t), NEW s, Bound(t, s)
    PROVE  (Len(Tokens(t)) + 1) - At(t, s) <= End(t) - s
<1> DEFINE N == Len(Tokens(t)) + 1
           n == End(t)
           S == {m \in Nat : \A x : Bound(t, x) /\ n - x <= m => N - At(t, x) <= m}
<1>1. n \in Nat /\ IsLine(t)  BY LineIs DEF Even
<1>2. \A x : Bound(t, x) => x \in 1 .. n  BY DEF Bound
<1>3. Len(Tokens(t)) \in Nat  BY Scans
<1>4. 0 \in S
    <2> SUFFICES ASSUME NEW x, Bound(t, x), n - x <= 0 PROVE N - At(t, x) <= 0
        OBVIOUS
    <2>1. x = n  BY <1>1, <1>2
    <2>2. Skip(t, x) = n  BY <1>1, <1>2, <2>1, SkipAgain
    <2>3. At(t, x) = N  BY <2>2, Scans
    <2> QED  BY <1>3, <2>3
<1>5. ASSUME NEW m \in S PROVE m + 1 \in S
    <2> SUFFICES ASSUME NEW x, Bound(t, x), n - x <= m + 1 PROVE N - At(t, x) <= m + 1
        OBVIOUS
    <2> DEFINE y == GetToken(t, x).s
    <2>1. At(t, x) \in 1 .. N /\ x \in 1 .. n /\ m \in Nat  BY Scans
    <2>2. CASE At(t, x) = N  BY <1>3, <2>1, <2>2
    <2>3. CASE At(t, x) # N
        <3>1. Bound(t, y) /\ y \in (x + 1) .. n /\ At(t, y) = At(t, x) + 1  BY <2>3, Scans
        <3> HIDE DEF y, n, N
        <3>2. n - y <= m  BY <1>1, <2>1, <3>1
        <3>3. N - At(t, y) <= m  BY <3>1, <3>2
        <3> QED  BY <1>3, <2>1, <3>1, <3>3 DEF N
    <2> QED  BY <2>2, <2>3
<1> HIDE DEF S
<1>6. S = Nat
    <2>1. S \in SUBSET Nat  BY DEF S
    <2> QED  BY <1>4, <1>5, <2>1, Induction
<1>7. n - s \in S /\ n - s <= n - s  BY <1>1, <1>2, <1>6
<1> QED  BY <1>7 DEF S

-----------------------------------------------------------------------------
(* What a parse function answers and what the reference makes of the part    *)
(* that begins at the same word or operator.                                 *)

Ends(w, k, cs) == k = Len(w) + 1 \/ w[k].op \in cs
Closed(w, k, j) == Level(w, j) = Level(w, k)
Done(t, r, cs) == r.cmd # Panic /\ Ends(Tokens(t), At(t, r.s), cs)

\* Where an answer stops at an end of its part, it has read the part and its tree is
\* the reference's; and where there is one, the answer stops there.
Agrees(t, r, tree, k, cs) ==
    LET j == Extent(Tokens(t), k, cs)
    IN /\ r.cmd # Panic => Bound(t, r.s) /\ At(t, r.s) >= k
       /\ Done(t, r, cs) => At(t, r.s) = j /\ Closed(Tokens(t), k, j) /\ tree = r.cmd
       /\ Closed(Tokens(t), k, j) /\ tree # Panic => Done(t, r, cs)

\* The calls that parse functions make agree.
LineAt(t, p, g, x) ==
    LET k == At(t, x)
    IN Agrees(t, p["line"][x], g["line"][k][Extent(Tokens(t), k, OfLine)], k, OfLine)
PipeAt(t, p, g, x) ==
    LET k == At(t, x)
    IN Agrees(t, p["pipe"][x], g["pipe"][k][Extent(Tokens(t), k, OfPipe)], k, OfPipe)
Later(t, p, g, k) ==
    \A x : Bound(t, x) /\ At(t, x) > k => LineAt(t, p, g, x) /\ PipeAt(t, p, g, x)

\* The operators a word or operator of the line may be.
LEMMA Ops ==
    /\ OfLine = {")"} /\ OfPipe = {")", ";", "&"} /\ OfExec = {")", ";", "&", "|"}
    /\ OfExec \cap (Redirection \cup {"a", "("}) = {}
    BY DEF OfExec, OfPipe, OfLine, Redirection

\* Words and redirections up to an end of a command are all of it.
LEMMA PlainExtent ==
    ASSUME NEW w, Len(w) \in Nat, NEW i \in 1 .. (Len(w) + 1), NEW e \in i .. (Len(w) + 1),
           Plain(w, i, e), Ends(w, e, OfExec)
    PROVE  e = Extent(w, i, OfExec) /\ Closed(w, i, e)
<1>1. \A y \in i .. (e - 1) : w[y].op \in Redirection \cup {"a"}  BY DEF Plain
<1>2. \A y \in i .. (e - 1) : w[y].op \notin OfExec /\ w[y].op \notin {"(", ")"}
    BY <1>1, Ops DEF Redirection
<1>3. Level(w, e) = Level(w, i)  BY <1>2, SameLevel
<1>4. Extends(w, i, OfExec, e)  BY <1>2, <1>3 DEF Extends, Ending, Ends
<1> QED  BY <1>3, <1>4, ExtentIs DEF Closed

\* Where the part of the line ends that a parse function reads.
LEMMA ExtentEnds ==
    ASSUME NEW w, Len(w) \in Nat, NEW k \in 1 .. (Len(w) + 1), NEW cs
    PROVE  Extent(w, k, cs) \in k .. (Len(w) + 1) /\ Ends(w, Extent(w, k, cs), cs)
<1> DEFINE j == Extent(w, k, cs)
<1>1. Extends(w, k, cs, j)  BY ExtentIs
<1> HIDE DEF j
<1>2. j \in k .. (Len(w) + 1) /\ Ends(w, j, cs)  BY <1>1 DEF Extends, Ending, Ends
<1> QED  BY <1>2 DEF j

\* A command that is not in parentheses.
LEMMA SimpleAgrees ==
    ASSUME NEW t, Even(t), NEW s, Bound(t, s)
    PROVE  LET k == At(t, s)
               w == Tokens(t)
           IN Agrees(t, EndExec(ParseArgs(t, ParseRedirs(t, Nothing(s)))),
                     RefSimple(w, k, Extent(w, k, OfExec)), k, OfExec)
<1> DEFINE k == At(t, s)
           w == Tokens(t)
           j == Extent(w, k, OfExec)
           z == ParseArgs(t, ParseRedirs(t, Nothing(s)))
           e == At(t, z.s)
           r == EndExec(z)
           tree == RefSimple(w, k, j)
<1>1. w \in Seq(TokenType) /\ Len(w) \in Nat /\ k \in 1 .. (Len(w) + 1)  BY Scans
<1>2. Gathered(t, k, z) /\ Stopped(t, z)
    <2>1. Gathered(t, k, Nothing(s)) /\ Nothing(s).ok  BY NothingIs
    <2> DEFINE z0 == ParseRedirs(t, Nothing(s))
    <2>2. Gathered(t, k, z0) /\ ~AtRedir(t, z0)  BY <1>1, <2>1, RedirsAre
    <2> HIDE DEF z0
    <2>3. Gathered(t, k, ParseArgs(t, z0)) /\ Stopped(t, ParseArgs(t, z0))  BY <1>1, <2>2, ArgsAre
    <2> QED  BY <2>3 DEF z0
<1>3. j \in k .. (Len(w) + 1) /\ Ends(w, j, OfExec)  BY <1>1, ExtentEnds
<1> HIDE DEF z, j
<1>4. CASE z.ok
    <2>1. /\ Bound(t, z.s) /\ k <= e /\ Plain(w, k, e) /\ z.words = Words(w, k, e)
          /\ z.redirs = Files(w, k, e) /\ Len(z.words) < MaxArgs
        BY <1>2, <1>4 DEF Gathered
    <2>2. e \in 1 .. (Len(w) + 1) /\ (GetToken(t, z.s).tok = "eof" <=> e = Len(w) + 1)
        BY <2>1, Scans
    <2>3. Peek(t, z.s, {"|", ")", "&", ";"}) => w[e].op \in {"|", ")", "&", ";"}
        <3>1. {"|", ")", "&", ";"} \in SUBSET Symbol  BY DEF Symbol
        <3>2. ">" \notin {"|", ")", "&", ";"}  OBVIOUS
        <3>3. Peek(t, z.s, {"|", ")", "&", ";"}) =>
                  w[e].op \in {"|", ")", "&", ";"} \/ (w[e].op = "+" /\ ">" \in {"|", ")", "&", ";"})
            BY <2>1, <3>1, Scans
        <3> QED  BY <3>2, <3>3
    <2>4. Ends(w, e, OfExec)  BY <1>2, <1>4, <2>2, <2>3, Ops DEF Stopped, Ends
    <2> HIDE DEF w, k, e
    <2>5. e \in k .. (Len(w) + 1)  BY <1>1, <2>1, <2>2
    <2>6. e = j /\ Closed(w, k, e)  BY <1>1, <2>1, <2>4, <2>5, PlainExtent DEF j
    <2>7. Len(Words(w, k, e)) \in Nat
        <3>1. e \in e .. (Len(w) + 1)  BY <2>2
        <3> QED  BY <1>1, <2>5, <3>1, WordsGrow
    <2>8. tree = Around(<<"EXEC", z.words>>, z.redirs)
        <3>1. ~(Len(Words(w, k, e)) >= MaxArgs)  BY <2>1, <2>7, ParseAssumption
        <3> QED  BY <2>1, <2>6, <3>1 DEF RefSimple
    <2>9. r.cmd = tree /\ r.s = z.s  BY <1>4, <2>8 DEF EndExec, Redirected, Got
    <2>10. At(t, r.s) = j  BY <2>6, <2>9 DEF e
    <2> HIDE DEF r, tree
    <2>11. Closed(w, k, j) /\ (Done(t, r, OfExec) <=> r.cmd # Panic)
        BY <2>4, <2>6, <2>10 DEF Done, w
    <2>12. Bound(t, r.s) /\ At(t, r.s) >= k  BY <2>1, <2>6, <2>9, <2>10
    <2>13. Agrees(t, r, tree, k, OfExec)
        BY <2>9, <2>10, <2>11, <2>12 DEF Agrees, j, w
    <2> QED  BY <2>13 DEF r, z, tree, j, w, k
<1>5. CASE ~z.ok
    <2>1. Broken(w, k)  BY <1>2, <1>5 DEF Gathered
    <2>2. r.cmd = Panic  BY <1>5 DEF EndExec, Redirected, Got
    <2> HIDE DEF w, k, r
    <2>3. tree = Panic
        <3>1. CASE Plain(w, k, j)
            <4>1. Len(Words(w, k, j)) >= MaxArgs  BY <1>1, <1>3, <2>1, <3>1, BrokenMeans DEF Ends
            <4> QED  BY <4>1 DEF RefSimple
        <3>2. CASE ~Plain(w, k, j)  BY <3>2 DEF RefSimple
        <3> QED  BY <3>1, <3>2
    <2> HIDE DEF tree
    <2>4. Agrees(t, r, tree, k, OfExec)  BY <2>2, <2>3 DEF Agrees, Done
    <2> QED  BY <2>4 DEF r, z, tree, j, w, k
<1> QED  BY <1>4, <1>5

\* A command in parentheses.
LEMMA BlockAgrees ==
    ASSUME NEW t, Even(t), NEW s, Bound(t, s), NEW p, NEW g, Later(t, p, g, At(t, s)),
           At(t, s) # Len(Tokens(t)) + 1, Tokens(t)[At(t, s)].op = "("
    PROVE  LET k == At(t, s)
               w == Tokens(t)
           IN Agrees(t, ParseBlock(t, p, s), RefBlock(w, g, k, Extent(w, k, OfExec)), k, OfExec)
<1> DEFINE k == At(t, s)
           w == Tokens(t)
           N == Len(w) + 1
           j == Extent(w, k, OfExec)
           x == Extent(w, k + 1, OfLine)
           s1 == GetToken(t, s).s
           b == p["line"][s1]
           inner == g["line"][k + 1][x]
           r == ParseBlock(t, p, s)
           tree == RefBlock(w, g, k, j)
<1>1. /\ w \in Seq(TokenType) /\ Len(w) \in Nat /\ k \in 1 .. Len(w) /\ k \in 1 .. N /\ k + 1 \in 1 .. N
      /\ Bound(t, s1) /\ At(t, s1) = k + 1 /\ w[k].op = "("
    BY Scans
<1>2. Agrees(t, b, inner, k + 1, OfLine)
    <2>1. At(t, s1) > k  BY <1>1
    <2>2. LineAt(t, p, g, s1)  BY <1>1, <2>1 DEF Later
    <2> QED  BY <1>1, <2>2 DEF LineAt
<1>3. /\ j \in (k + 1) .. N /\ x \in (k + 1) .. N
      /\ x # N => /\ x \in 1 .. Len(w) /\ x < j /\ w[x].op = ")" /\ x = Min(AtTop(w, k, j, {")"}))
                  /\ Level(w, x) = Level(w, k + 1) /\ Level(w, x + 1) = Level(w, k)
      /\ Level(w, j) = Level(w, k) => x # N
    BY <1>1, Block
<1>4. j \in k .. N /\ Ends(w, j, OfExec)  BY <1>1, ExtentEnds
<1>5. r = EndBlock(t, b)  BY DEF ParseBlock
<1>6. x # N => tree = IF inner = Panic \/ ~Plain(w, x + 1, j) \/ Args(w, x + 1, j) # {} THEN Panic
                      ELSE Around(inner, Files(w, x + 1, j))
    BY <1>3 DEF RefBlock
<1>7. Closed(w, k, j) /\ tree # Panic =>
          x # N /\ inner # Panic /\ Plain(w, x + 1, j) /\ Args(w, x + 1, j) = {}
    BY <1>3, <1>6 DEF Closed
<1> HIDE DEF b, inner, tree, r, s1
<1>8. b.cmd # Panic => /\ Bound(t, b.s)
                       /\ Peek(t, b.s, {")"}) <=> At(t, b.s) # N /\ w[At(t, b.s)].op = ")"
    <2> SUFFICES ASSUME b.cmd # Panic
                 PROVE  Bound(t, b.s) /\ (Peek(t, b.s, {")"}) <=> At(t, b.s) # N /\ w[At(t, b.s)].op = ")")
        OBVIOUS
    <2>1. Bound(t, b.s)  BY <1>2 DEF Agrees
    <2>2. {")"} \in SUBSET Symbol /\ ">" \notin {")"}  BY DEF Symbol
    <2> QED  BY <2>1, <2>2, Scans
<1>9. CASE b.cmd = Panic \/ ~Peek(t, b.s, {")"})
    <2>1. r.cmd = Panic  BY <1>5, <1>9 DEF EndBlock, Got
    <2>2. ~(Closed(w, k, j) /\ tree # Panic)
        <3> SUFFICES ASSUME Closed(w, k, j), tree # Panic PROVE FALSE
            OBVIOUS
        <3>1. x # N /\ inner # Panic /\ w[x].op = ")" /\ Closed(w, k + 1, x)  BY <1>3, <1>7 DEF Closed
        <3> HIDE DEF k, j
        <3>2. Done(t, b, OfLine) /\ At(t, b.s) = x  BY <1>2, <3>1 DEF Agrees, x, w
        <3> QED  BY <1>8, <1>9, <3>1, <3>2 DEF Done
    <2> HIDE DEF w, k, j
    <2>3. Agrees(t, r, tree, k, OfExec)  BY <2>1, <2>2 DEF Agrees, Done, w, j
    <2> QED  BY <2>3 DEF r, tree, w, k, j
<1>10. CASE b.cmd # Panic /\ Peek(t, b.s, {")"})
    <2>1. Bound(t, b.s) /\ At(t, b.s) # N /\ w[At(t, b.s)].op = ")"  BY <1>8, <1>10
    <2>2. Done(t, b, OfLine)  BY <1>10, <2>1, Ops DEF Done, Ends
    <2>3. At(t, b.s) = x /\ inner = b.cmd  BY <1>2, <2>2 DEF Agrees
    <2> DEFINE s2 == GetToken(t, b.s).s
               z == ParseRedirs(t, Nothing(s2))
               e == At(t, z.s)
    <2>4. Bound(t, s2) /\ At(t, s2) = x + 1  BY <2>1, <2>3, Scans
    <2>5. r = Redirected(b.cmd, z)  BY <1>5, <1>10 DEF EndBlock
    <2>6. x # N /\ x + 1 \in 1 .. N /\ j \in (x + 1) .. N /\ x + 1 \in k .. j
        <3>1. x # N  BY <2>1, <2>3
        <3> HIDE DEF x, j, w, k
        <3> QED  BY <1>1, <1>3, <3>1
    <2>7. Extent(w, x + 1, OfExec) = j
        <3>1. Level(w, x + 1) = Level(w, k)  BY <1>3, <2>6
        <3> HIDE DEF x, w, k
        <3> QED  BY <1>1, <2>6, <3>1, RestExtends
    <2>8. Gathered(t, x + 1, z) /\ ~AtRedir(t, z) /\ z.words = <<>>
        <3> HIDE DEF s2, x
        <3>1. Gathered(t, x + 1, Nothing(s2)) /\ Nothing(s2).ok  BY <2>4, NothingIs
        <3>2. Nothing(s2).words = <<>>  BY DEF Nothing
        <3> QED  BY <2>6, <3>1, <3>2, RedirsAre
    <2>9. tree = IF ~Plain(w, x + 1, j) \/ Args(w, x + 1, j) # {} THEN Panic
                 ELSE Around(b.cmd, Files(w, x + 1, j))
        BY <1>6, <1>10, <2>3, <2>6
    <2> HIDE DEF z, x, j
    <2>10. CASE z.ok
        <3>1. /\ Bound(t, z.s) /\ x + 1 <= e /\ Plain(w, x + 1, e) /\ Words(w, x + 1, e) = <<>>
              /\ z.redirs = Files(w, x + 1, e)
            BY <2>8, <2>10 DEF Gathered
        <3>2. e \in 1 .. N  BY <3>1, Scans
        <3>3. e # N => w[e].op \notin Redirection
            <4>1. {"<", ">"} \in SUBSET Symbol  BY DEF Symbol
            <4>2. ~Peek(t, z.s, {"<", ">"})  BY <2>8, <2>10 DEF AtRedir
            <4>3. ~(e # N /\ (w[e].op \in {"<", ">"} \/ (w[e].op = "+" /\ ">" \in {"<", ">"})))
                BY <3>1, <4>1, <4>2, Scans
            <4> QED  BY <4>3 DEF Redirection
        <3>4. r.cmd = Around(b.cmd, Files(w, x + 1, e)) /\ r.s = z.s
            BY <2>5, <2>10, <3>1 DEF Redirected, Got
        <3>5. At(t, r.s) = e  BY <3>4
        <3> HIDE DEF w, k, e
        <3>6. e \in (x + 1) .. N /\ e >= k /\ x \in Int /\ k \in Int /\ e \in Int /\ j \in Int /\ N \in Int
            BY <1>1, <1>3, <3>1, <3>2
        <3>7. ASSUME Ends(w, e, OfExec)
              PROVE  /\ e = j /\ Closed(w, k, j) /\ tree = r.cmd
            <4>1. e = j /\ Closed(w, x + 1, e)  BY <1>1, <2>6, <2>7, <3>1, <3>6, <3>7, PlainExtent
            <4>2. Closed(w, k, j)  BY <1>3, <2>6, <4>1 DEF Closed
            <4>3. Args(w, x + 1, j) = {}  BY <1>1, <2>6, <3>1, <3>6, <4>1, NoWords
            <4> QED  BY <2>9, <3>1, <3>4, <4>1, <4>2, <4>3
        <3>8. ASSUME Closed(w, k, j), tree # Panic
              PROVE  Ends(w, e, OfExec) /\ r.cmd # Panic
            <4>1. Plain(w, x + 1, j) /\ Args(w, x + 1, j) = {}  BY <2>9, <3>8
            <4>2. ~(j < e)
                <5> SUFFICES ASSUME j < e PROVE FALSE
                    OBVIOUS
                <5>1. j \in (x + 1) .. (e - 1) /\ j # N  BY <2>6, <3>6
                <5>2. w[j].op \in OfExec  BY <1>4, <5>1 DEF Ends
                <5> QED  BY <3>1, <5>1, <5>2, Ops DEF Plain
            <4>3. ~(e < j)
                <5> SUFFICES ASSUME e < j PROVE FALSE
                    OBVIOUS
                <5>1. e \in (x + 1) .. (j - 1) /\ e # N  BY <2>6, <3>6
                <5>2. w[e].op = "a"  BY <3>3, <4>1, <5>1 DEF Plain
                <5>3. e - 1 \in Redirs(w, x + 1, e) => FALSE
                    <6>1. ~((e - 1) + 1 < e)  BY <3>6
                    <6> QED  BY <3>1, <6>1 DEF Plain
                <5>4. e - 1 \notin Redirs(w, x + 1, j)  BY <3>6, <5>3 DEF Redirs
                <5> QED  BY <4>1, <5>1, <5>2, <5>4 DEF Args
            <4>4. e = j  BY <3>6, <4>2, <4>3
            <4>5. Ends(w, e, OfExec)  BY <1>4, <4>4
            <4> QED  BY <3>7, <3>8, <4>5
        <3>9. Bound(t, r.s) /\ At(t, r.s) >= k  BY <3>1, <3>4, <3>5, <3>6
        <3> HIDE DEF r, tree
        <3>10. Done(t, r, OfExec) <=> r.cmd # Panic /\ Ends(w, e, OfExec)  BY <3>5 DEF Done, w
        <3>11. Agrees(t, r, tree, k, OfExec)
            BY <3>5, <3>7, <3>8, <3>9, <3>10 DEF Agrees, j, w
        <3> QED  BY <3>11 DEF r, tree, w, k, j
    <2>11. CASE ~z.ok
        <3>1. Broken(w, x + 1)  BY <2>8, <2>11 DEF Gathered
        <3>2. r.cmd = Panic  BY <2>5, <2>11 DEF Redirected, Got
        <3> HIDE DEF w, k
        <3>3. ~(Plain(w, x + 1, j) /\ Args(w, x + 1, j) = {})
            BY <1>1, <1>4, <2>6, <3>1, BrokenMeans DEF Ends
        <3>4. tree = Panic  BY <2>9, <3>3
        <3>5. Agrees(t, r, tree, k, OfExec)  BY <3>2, <3>4 DEF Agrees, Done
        <3> QED  BY <3>5 DEF r, tree, w, k, j
    <2> QED  BY <2>10, <2>11
<1> QED  BY <1>9, <1>10

\* parseexec() agrees with the reference on a command.
LEMMA ExecAgrees ==
    ASSUME NEW t, Even(t), NEW s, Bound(t, s), NEW p, NEW g, Later(t, p, g, At(t, s))
    PROVE  LET k == At(t, s)
               w == Tokens(t)
           IN Agrees(t, ParseExec(t, p, s), RefExec(w, g, k, Extent(w, k, OfExec)), k, OfExec)
<1> DEFINE k == At(t, s)
           w == Tokens(t)
           N == Len(w) + 1
           j == Extent(w, k, OfExec)
<1>1. Len(w) \in Nat /\ k \in 1 .. N  BY Scans
<1>2. j \in k .. N  BY <1>1, ExtentEnds
<1>3. Peek(t, s, {"("}) <=> k # N /\ w[k].op = "("
    <2>1. {"("} \in SUBSET Symbol /\ ">" \notin {"("}  BY DEF Symbol
    <2> QED  BY <2>1, Scans
<1>4. CASE Peek(t, s, {"("})
    <2>1. k # N /\ w[k].op = "("  BY <1>3, <1>4
    <2>2. Agrees(t, ParseBlock(t, p, s), RefBlock(w, g, k, j), k, OfExec)  BY <2>1, BlockAgrees
    <2>3. k < j
        <3>1. k \in 1 .. Len(w)  BY <1>1, <2>1
        <3>2. j \in (k + 1) .. N  BY <1>1, <2>1, <3>1, Block
        <3> HIDE DEF w, k, j
        <3> QED  BY <1>1, <3>2
    <2>4. RefExec(w, g, k, j) = RefBlock(w, g, k, j)  BY <2>1, <2>3 DEF RefExec
    <2>5. ParseExec(t, p, s) = ParseBlock(t, p, s)  BY <1>4 DEF ParseExec
    <2> QED  BY <2>2, <2>4, <2>5
<1>5. CASE ~Peek(t, s, {"("})
    <2>1. ~(k < j /\ w[k].op = "(")
        <3> HIDE DEF j
        <3> QED  BY <1>1, <1>2, <1>3, <1>5
    <2>2. RefExec(w, g, k, j) = RefSimple(w, k, j)  BY <2>1 DEF RefExec
    <2>3. ParseExec(t, p, s) = EndExec(ParseArgs(t, ParseRedirs(t, Nothing(s))))  BY <1>5 DEF ParseExec
    <2> QED  BY <2>2, <2>3, SimpleAgrees
<1> QED  BY <1>4, <1>5

\* What is read after an operator, put together with what was read before it.
LEMMA JoinAgrees ==
    ASSUME NEW t, NEW cs, NEW op, NEW l, NEW q, NEW rest, NEW k \in Int, NEW m \in Int, k <= m,
           \A x : Bound(t, x) => At(t, x) \in Int,
           Agrees(t, q, rest, m, cs), Extent(Tokens(t), m, cs) = Extent(Tokens(t), k, cs),
           Level(Tokens(t), m) = Level(Tokens(t), k), l # Panic
    PROVE  Agrees(t, Joined(op, l, q), Both(op, l, rest), k, cs)
<1> DEFINE w == Tokens(t)
           j == Extent(w, k, cs)
           r == Joined(op, l, q)
           tree == Both(op, l, rest)
<1>1. /\ q.cmd # Panic => Bound(t, q.s) /\ At(t, q.s) >= m
      /\ Done(t, q, cs) => At(t, q.s) = j /\ Closed(w, m, j) /\ rest = q.cmd
      /\ Closed(w, m, j) /\ rest # Panic => Done(t, q, cs)
    BY DEF Agrees
<1>2. Closed(w, m, j) <=> Closed(w, k, j)  BY DEF Closed
<1>3. q.cmd = Panic => r.cmd = Panic  BY DEF Joined
<1>4. q.cmd # Panic => r.cmd = <<op, l, q.cmd>> /\ r.s = q.s /\ r.cmd # Panic
    BY NotPanic DEF Joined, Got
<1>5. rest # Panic => tree = <<op, l, rest>>  BY DEF Both
<1>6. rest = Panic => tree = Panic  BY DEF Both
<1> HIDE DEF r, tree, w, j
<1>7. r.cmd # Panic => Bound(t, r.s) /\ At(t, r.s) >= k
    <2> SUFFICES ASSUME r.cmd # Panic PROVE Bound(t, r.s) /\ At(t, r.s) >= k
        OBVIOUS
    <2>1. Bound(t, q.s) /\ At(t, q.s) >= m /\ r.s = q.s  BY <1>1, <1>3, <1>4
    <2>2. At(t, q.s) \in Int  BY <2>1
    <2> QED  BY <2>1, <2>2
<1>8. Done(t, r, cs) => Done(t, q, cs) /\ r.s = q.s  BY <1>3, <1>4 DEF Done
<1>9. Done(t, q, cs) => Done(t, r, cs)  BY <1>4 DEF Done
<1>10. Done(t, q, cs) => q.cmd # Panic  BY DEF Done
<1>11. Done(t, r, cs) => At(t, r.s) = j /\ Closed(w, k, j) /\ tree = r.cmd
    BY <1>1, <1>2, <1>4, <1>5, <1>8, <1>10
<1>12. Closed(w, k, j) /\ tree # Panic => Done(t, r, cs)  BY <1>1, <1>2, <1>6, <1>9
<1>13. Agrees(t, r, tree, k, cs)  BY <1>7, <1>11, <1>12 DEF Agrees, w, j
<1> QED  BY <1>13 DEF r, tree

\* parsepipe() agrees with the reference on a pipeline.
LEMMA PipeAgrees ==
    ASSUME NEW t, Even(t), NEW s, Bound(t, s), NEW p, NEW g, Later(t, p, g, At(t, s))
    PROVE  LET k == At(t, s)
               w == Tokens(t)
           IN Agrees(t, ParsePipe(t, p, s), RefPipe(w, g, k, Extent(w, k, OfPipe)), k, OfPipe)
<1> DEFINE k == At(t, s)
           w == Tokens(t)
           N == Len(w) + 1
           j == Extent(w, k, OfPipe)
           i == Extent(w, k, OfExec)
           bars == AtTop(w, k, j, {"|"})
           l == ParseExec(t, p, s)
           first == RefExec(w, g, k, i)
           r == ParsePipe(t, p, s)
           tree == RefPipe(w, g, k, j)
           e == At(t, l.s)
<1>1. w \in Seq(TokenType) /\ Len(w) \in Nat /\ k \in 1 .. N  BY Scans
<1>2. /\ i \in k .. j /\ j \in k .. N
      /\ bars = {} <=> i = j
      /\ i # j => /\ i = Min(bars) /\ i \in 1 .. Len(w) /\ w[i].op \in {"|"}
                  /\ Level(w, i) = Level(w, k) /\ Level(w, i + 1) = Level(w, k)
    <2> DEFINE es == {"|"}
    <2>1. "(" \notin es /\ ")" \notin es  OBVIOUS
    <2>2. OfExec = OfPipe \cup es  BY DEF OfExec
    <2> HIDE DEF es, w, k
    <2>3. Splits(w, k, j, i, es)  BY <1>1, <2>1, <2>2, Split
    <2> HIDE DEF i, j
    <2> QED  BY <2>3 DEF Splits, es
<1>3. Ends(w, j, OfPipe)  BY <1>1, ExtentEnds
<1>4. Agrees(t, l, first, k, OfExec)  BY ExecAgrees
<1>5. tree = IF i = j THEN first ELSE Both("PIPE", first, g["pipe"][i + 1][j])
    <2>1. tree = IF bars = {} THEN RefExec(w, g, k, j)
                 ELSE Both("PIPE", RefExec(w, g, k, Min(bars)), g["pipe"][Min(bars) + 1][j])
        BY DEF RefPipe
    <2> HIDE DEF tree, bars, w, k, i, j
    <2> QED  BY <1>2, <2>1
<1>6. tree # Panic => first # Panic  BY <1>5 DEF Both
<1>7. r = EndPipe(t, p, l)  BY DEF ParsePipe
<1> HIDE DEF l, first, r, tree, bars
<1>8. Closed(w, k, j) => Closed(w, k, i)  BY <1>2 DEF Closed
<1>9. /\ l.cmd # Panic => Bound(t, l.s) /\ e >= k
      /\ Done(t, l, OfExec) => e = i /\ Closed(w, k, i) /\ first = l.cmd
      /\ Closed(w, k, i) /\ first # Panic => Done(t, l, OfExec)
    BY <1>4 DEF Agrees
<1>10. l.cmd # Panic => (Peek(t, l.s, {"|"}) <=> e # N /\ w[e].op = "|")
    <2>1. {"|"} \in SUBSET Symbol /\ ">" \notin {"|"}  BY DEF Symbol
    <2> QED  BY <1>9, <2>1, Scans
<1>11. CASE l.cmd = Panic \/ ~Peek(t, l.s, {"|"})
    <2>1. r = l  BY <1>7, <1>11 DEF EndPipe
    <2> HIDE DEF w, k, i, j
    <2>2. ASSUME Done(t, r, OfPipe) PROVE e = j /\ Closed(w, k, j) /\ tree = r.cmd
        <3>1. l.cmd # Panic /\ Ends(w, e, OfPipe)  BY <2>1, <2>2 DEF Done, w
        <3>2. Done(t, l, OfExec)  BY <3>1, Ops DEF Done, Ends, w
        <3>3. e = i /\ Closed(w, k, i) /\ first = l.cmd  BY <1>9, <3>2
        <3>4. i = j
            <4>1. i # j => e # N /\ w[e].op = "|"
                <5>1. i # j => i \in 1 .. Len(w) /\ w[i].op = "|"  BY <1>2
                <5> QED  BY <1>1, <3>3, <5>1
            <4> QED  BY <3>1, <4>1, Ops DEF Ends
        <3> QED  BY <1>5, <2>1, <3>3, <3>4
    <2>3. ASSUME Closed(w, k, j), tree # Panic PROVE Done(t, r, OfPipe)
        <3>1. Done(t, l, OfExec)  BY <1>6, <1>8, <1>9, <2>3
        <3>2. l.cmd # Panic /\ Ends(w, e, OfExec)  BY <3>1 DEF Done, w
        <3>3. ~(e # N /\ w[e].op = "|")  BY <1>10, <1>11, <3>2
        <3>4. Ends(w, e, OfPipe)  BY <3>2, <3>3, Ops DEF Ends
        <3> QED  BY <2>1, <3>2, <3>4 DEF Done, w
    <2>4. Agrees(t, r, tree, k, OfPipe)
        BY <1>9, <2>1, <2>2, <2>3 DEF Agrees, w, j
    <2> QED  BY <2>4 DEF r, tree, w, j, k
<1>12. CASE l.cmd # Panic /\ Peek(t, l.s, {"|"})
    <2>1. e # N /\ w[e].op = "|" /\ Bound(t, l.s)  BY <1>9, <1>10, <1>12
    <2>2. Done(t, l, OfExec)  BY <1>12, <2>1, Ops DEF Done, Ends
    <2>3. e = i /\ first = l.cmd  BY <1>9, <2>2
    <2>4. i # j
        <3> HIDE DEF w, i, j, e
        <3> QED  BY <1>3, <2>1, <2>3, Ops DEF Ends
    <2> DEFINE s2 == GetToken(t, l.s).s
               q == p["pipe"][s2]
               rest == g["pipe"][i + 1][j]
    <2>5. Bound(t, s2) /\ At(t, s2) = i + 1  BY <2>1, <2>3, Scans
    <2>6. Extent(w, i + 1, OfPipe) = j /\ i + 1 \in k .. j /\ Level(w, i + 1) = Level(w, k)
        <3> HIDE DEF w, k, i
        <3>1. i + 1 \in k .. j
            <4> HIDE DEF j
            <4> QED  BY <1>1, <1>2, <2>4
        <3>2. Level(w, i + 1) = Level(w, k)  BY <1>2, <2>4
        <3> QED  BY <1>1, <3>1, <3>2, RestExtends
    <2>7. Agrees(t, q, rest, i + 1, OfPipe)
        <3>1. k < i + 1
            <4> HIDE DEF w, k, i, j
            <4> QED  BY <1>1, <1>2
        <3>2. PipeAt(t, p, g, s2)
            <4> HIDE DEF s2
            <4>1. At(t, s2) > k
                <5> HIDE DEF k, i
                <5> QED  BY <2>5, <3>1
            <4> QED  BY <2>5, <4>1 DEF Later
        <3> QED  BY <2>5, <2>6, <3>2 DEF PipeAt
    <2>8. r = Joined("PIPE", l.cmd, q)  BY <1>7, <1>12 DEF EndPipe
    <2>9. tree = Both("PIPE", l.cmd, rest)  BY <1>5, <2>3, <2>4
    <2>10. \A x : Bound(t, x) => At(t, x) \in Int
        <3>1. \A x : Bound(t, x) => At(t, x) \in 1 .. N  BY Scans
        <3> HIDE DEF w
        <3> QED  BY <1>1, <3>1
    <2> HIDE DEF q, rest, i, j, e, s2
    <2>11. k \in Int /\ i + 1 \in Int /\ k <= i + 1  BY <1>1, <1>2
    <2>12. Extent(w, i + 1, OfPipe) = Extent(w, k, OfPipe)  BY <2>6 DEF j
    <2> HIDE DEF k
    <2>13. Agrees(t, r, tree, k, OfPipe)
        BY <1>12, <2>6, <2>7, <2>8, <2>9, <2>10, <2>11, <2>12, JoinAgrees
    <2> QED  BY <2>13 DEF r, tree, w, j, k
<1> QED  BY <1>11, <1>12

-----------------------------------------------------------------------------
(* parseline(), whose "&" and ";" come after a pipeline. *)

\* Names for what SMT cannot spell.
Amp == "&"
Semi == ";"
Seps == {Semi, Amp}

\* What the names stand for.
LEMMA SepsAre ==
    /\ Seps = {Semi, Amp} /\ Amp # Semi
    /\ OfPipe = OfLine \cup Seps /\ OfLine \cap Seps = {} /\ Seps \cap {"(", ")"} = {}
<1>1. OfPipe = OfLine \cup Seps  BY Zenon DEF OfPipe, OfLine, Seps, Semi, Amp
<1>2. Amp # ")" /\ Amp # "(" /\ Amp # Semi /\ Semi # "(" /\ Semi # ")"  BY Zenon DEF Amp, Semi
<1>3. Seps = {Semi, Amp}  BY DEF Seps
<1>4. OfLine = {")"}  BY Zenon DEF OfLine
<1>5. OfLine \cap Seps = {} /\ Seps \cap {"(", ")"} = {}  BY <1>2, <1>3, <1>4
<1> QED  BY Zenon, <1>1, <1>2, <1>3, <1>5

\* parseline() has put x0 in the background m times, once for each "&" it has read.
Amped(t, x0, x, m) ==
    /\ x.cmd = Backed(x0.cmd, m) /\ Bound(t, x.s) /\ At(t, x.s) = At(t, x0.s) + m
    /\ \A y \in At(t, x0.s) .. (At(t, x.s) - 1) : Tokens(t)[y].op = Amp
    /\ m # 0 => Ends(Tokens(t), At(t, x.s), Seps)
\* Whether it goes on.
More(t, x) == /\ x.cmd # Panic /\ Peek(t, x.s, {"&"})
              /\ LET n == GetToken(t, x.s).s IN n = End(t) \/ Peek(t, n, {";", "&"})

\* What one turn of the loop over "&" in parseline() reads.
LEMMA AmpStep ==
    ASSUME NEW t, Even(t), NEW x0, Bound(t, x0.s), x0.cmd # Panic,
           NEW m \in Nat, NEW x, Amped(t, x0, x, m)
    PROVE  LET k == At(t, x.s)
               w == Tokens(t)
               y == OneAmp(t, x)
           IN /\ More(t, x) <=> k # Len(w) + 1 /\ w[k].op = Amp /\ Ends(w, k + 1, Seps)
              /\ ~More(t, x) => y = x
              /\ More(t, x) => Amped(t, x0, y, m + 1) /\ y.s > x.s /\ x.s \in Nat /\ y.s \in Nat
<1> DEFINE w == Tokens(t)
           N == Len(w) + 1
           k == At(t, x.s)
           n == GetToken(t, x.s).s
           y == OneAmp(t, x)
<1>1. /\ x.cmd = Backed(x0.cmd, m) /\ Bound(t, x.s) /\ k = At(t, x0.s) + m
      /\ \A z \in At(t, x0.s) .. (k - 1) : w[z].op = Amp
    BY DEF Amped
<1>2. x.cmd # Panic  BY <1>1, BackedNotPanic
<1>3. /\ Len(w) \in Nat /\ k \in 1 .. N /\ x.s \in 1 .. End(t) /\ At(t, x0.s) \in 1 .. N
      /\ k # N => Bound(t, n) /\ n \in (x.s + 1) .. End(t) /\ At(t, n) = k + 1
    BY <1>1, Scans
<1>4. IsLine(t) /\ End(t) \in Nat  BY LineIs DEF Even
<1>5. Peek(t, x.s, {"&"}) <=> k # N /\ w[k].op = Amp
    <2>1. {"&"} \in SUBSET Symbol /\ ">" \notin {"&"}  BY DEF Symbol
    <2> QED  BY <1>1, <2>1, Scans DEF Amp
<1>6. ASSUME k # N PROVE (n = End(t) \/ Peek(t, n, {";", "&"})) <=> Ends(w, k + 1, Seps)
    <2>1. Bound(t, n) /\ n \in 1 .. End(t) /\ At(t, n) = k + 1  BY <1>3, <1>4, <1>6
    <2>2. n = End(t) <=> k + 1 = N
        <3>1. n = End(t) \/ t[n] \notin Blank  BY <1>3, <1>4, TokenRange
        <3> HIDE DEF n
        <3>2. Skip(t, n) = n  BY <1>4, <2>1, <3>1, SkipAgain
        <3> QED  BY <2>1, <3>2, Scans
    <2>3. Peek(t, n, {";", "&"}) <=> k + 1 # N /\ w[k + 1].op \in Seps
        <3>1. {";", "&"} \in SUBSET Symbol /\ ">" \notin {";", "&"}  BY DEF Symbol
        <3> HIDE DEF n
        <3>2. Peek(t, n, {";", "&"}) <=> /\ k + 1 # N
                                         /\ w[k + 1].op \in {";", "&"} \/ (w[k + 1].op = "+" /\ ">" \in {";", "&"})
            BY <2>1, <3>1, Scans
        <3> QED  BY <3>1, <3>2 DEF Seps, Amp, Semi
    <2> QED  BY <2>2, <2>3 DEF Ends
<1>7. More(t, x) <=> k # N /\ w[k].op = Amp /\ Ends(w, k + 1, Seps)
    BY <1>2, <1>5, <1>6 DEF More
<1>8. ~More(t, x) => y = x  BY DEF More, OneAmp
<1>9. ASSUME More(t, x)
      PROVE  Amped(t, x0, y, m + 1) /\ y.s > x.s /\ x.s \in Nat /\ y.s \in Nat
    <2>1. y.cmd = <<"BACK", x.cmd>> /\ y.s = n  BY <1>9 DEF More, OneAmp, Got
    <2>2. y.cmd = Backed(x0.cmd, m + 1)
        <3>1. Backed(x0.cmd, m + 1) = <<"BACK", Backed(x0.cmd, m)>>  BY BackedIs
        <3> HIDE DEF y
        <3> QED  BY <1>1, <2>1, <3>1
    <2>3. k # N /\ w[k].op = Amp /\ Ends(w, k + 1, Seps)  BY <1>7, <1>9
    <2>4. Bound(t, y.s) /\ At(t, y.s) = k + 1 /\ y.s \in (x.s + 1) .. End(t)  BY <1>3, <2>1, <2>3
    <2> HIDE DEF w, k, n, y
    <2>5. \A z \in At(t, x0.s) .. ((k + 1) - 1) : w[z].op = Amp
        <3>1. \A z \in At(t, x0.s) .. ((k + 1) - 1) : z = k \/ z \in At(t, x0.s) .. (k - 1)  BY <1>3
        <3> QED  BY <1>1, <2>3, <3>1
    <2>6. At(t, y.s) = At(t, x0.s) + (m + 1)  BY <1>1, <1>3, <2>4
    <2>7. Amped(t, x0, y, m + 1)  BY <2>2, <2>3, <2>4, <2>5, <2>6 DEF Amped, w
    <2> QED  BY <1>3, <1>4, <2>4, <2>7
<1> QED  BY <1>7, <1>8, <1>9

\* The loop reads every "&" it may.
LEMMA BackgroundIs ==
    ASSUME NEW t, Even(t), NEW x0, Bound(t, x0.s), x0.cmd # Panic
    PROVE  \E m \in Nat : Amped(t, x0, Background(t, x0), m) /\ ~More(t, Background(t, x0))
<1> DEFINE y == Background(t, x0)
           V(r, n) == IF n = 0 THEN x0 ELSE OneAmp(t, r[n - 1])
           r == CHOOSE r : r = [n \in 0 .. Len(t) |-> V(r, n)]
<1>1. Len(t) \in Nat /\ End(t) = Len(t) + 1 /\ IsLine(t)  BY LineIs DEF Even
<1>2. y = r[Len(t)]  BY DEF Background
<1>3. PICK q : Amps(q, t, x0, Len(t))  BY <1>1, AmpsExist
<1>4. q = [n \in 0 .. Len(t) |-> V(q, n)]  BY <1>3 DEF Amps
<1>5. r = [n \in 0 .. Len(t) |-> V(r, n)]  BY <1>4
<1> HIDE DEF r
<1>6. \A n \in 0 .. Len(t) : r[n] = V(r, n)  BY <1>5
<1> DEFINE G(z) == \E m \in Nat : Amped(t, x0, z, m)
           S == {n \in Nat : n <= Len(t) => G(r[n]) /\ (More(t, r[n]) => r[n].s >= n + 1)}
<1>7. G(r[0]) /\ r[0].s >= 0 + 1
    <2>1. r[0] = x0  BY <1>1, <1>6
    <2>2. x0.s \in 1 .. End(t) /\ At(t, x0.s) \in Int
        <3>1. At(t, x0.s) \in 1 .. (Len(Tokens(t)) + 1) /\ Len(Tokens(t)) \in Nat /\ x0.s \in 1 .. End(t)  BY Scans
        <3> HIDE DEF r
        <3> QED  BY <3>1
    <2>3. At(t, x0.s) = At(t, x0.s) + 0 /\ At(t, x0.s) .. (At(t, x0.s) - 1) = {}  BY <2>2
    <2>4. Amped(t, x0, x0, 0)  BY <2>3, BackedIs DEF Amped
    <2>5. 0 \in Nat  OBVIOUS
    <2> QED  BY <1>1, <2>1, <2>2, <2>4, <2>5
<1>8. 0 \in S  BY <1>7
<1>9. ASSUME NEW n \in S PROVE n + 1 \in S
    <2> SUFFICES ASSUME n + 1 <= Len(t)
                 PROVE  G(r[n + 1]) /\ (More(t, r[n + 1]) => r[n + 1].s >= (n + 1) + 1)
        OBVIOUS
    <2> DEFINE a == r[n]
               b == r[n + 1]
    <2>1. n \in Nat /\ n + 1 \in 0 .. Len(t) /\ n + 1 # 0 /\ (n + 1) - 1 = n /\ n <= Len(t)  BY <1>1
    <2>2. G(a) /\ (More(t, a) => a.s >= n + 1)  BY <2>1
    <2>3. b = OneAmp(t, a)
        <3>1. b = V(r, n + 1)  BY <1>6, <2>1
        <3> QED  BY <2>1, <3>1
    <2> HIDE DEF a, b
    <2>4. PICK m \in Nat : Amped(t, x0, a, m)  BY <2>2
    <2>5. CASE ~More(t, a)
        <3>1. b = a  BY <2>3, <2>4, <2>5, AmpStep
        <3> QED  BY <2>2, <2>5, <3>1 DEF a, b
    <2>6. CASE More(t, a)
        <3>1. Amped(t, x0, b, m + 1) /\ b.s > a.s /\ a.s \in Nat /\ b.s \in Nat
            BY <2>3, <2>4, <2>6, AmpStep
        <3>2. b.s >= (n + 1) + 1  BY <2>1, <2>2, <2>6, <3>1
        <3>3. m + 1 \in Nat  OBVIOUS
        <3>4. G(b)  BY <3>1, <3>3
        <3> QED  BY <3>2, <3>4 DEF b
    <2> QED  BY <2>5, <2>6
<1> HIDE DEF S, V
<1>10. S = Nat
    <2>1. S \in SUBSET Nat  BY DEF S
    <2> QED  BY <1>8, <1>9, <2>1, Induction
<1>11. Len(t) \in S  BY <1>1, <1>10
<1> HIDE DEF y
<1>12. G(y) /\ (More(t, y) => y.s >= Len(t) + 1)  BY <1>1, <1>2, <1>11 DEF S
<1>13. ~More(t, y)
    <2> SUFFICES ASSUME More(t, y) PROVE FALSE
        OBVIOUS
    <2>1. Peek(t, y.s, {"&"})  BY DEF More
    <2>2. Bound(t, y.s) /\ y.s \in 1 .. End(t)  BY <1>12 DEF Amped, Bound
    <2>3. y.s = End(t)  BY <1>1, <1>12, <2>2
    <2>4. Skip(t, y.s) \in y.s .. End(t)  BY <1>1, <2>2, SkipIs
    <2>5. ~(Skip(t, y.s) < End(t))  BY <1>1, <2>3, <2>4
    <2> QED  BY <2>1, <2>5 DEF Peek
<1> QED  BY <1>12, <1>13 DEF y

\* x0 is left alone when there is no tree.
LEMMA BackgroundPanics ==
    ASSUME NEW t, Even(t), NEW x0, x0.cmd = Panic
    PROVE  Background(t, x0) = x0
<1> DEFINE y == Background(t, x0)
           V(r, n) == IF n = 0 THEN x0 ELSE OneAmp(t, r[n - 1])
           r == CHOOSE r : r = [n \in 0 .. Len(t) |-> V(r, n)]
<1>1. Len(t) \in Nat  BY LineIs DEF Even
<1>2. y = r[Len(t)]  BY DEF Background
<1>3. PICK q : Amps(q, t, x0, Len(t))  BY <1>1, AmpsExist
<1>4. q = [n \in 0 .. Len(t) |-> V(q, n)]  BY <1>3 DEF Amps
<1>5. r = [n \in 0 .. Len(t) |-> V(r, n)]  BY <1>4
<1> HIDE DEF r
<1>6. \A n \in 0 .. Len(t) : r[n] = V(r, n)  BY <1>5
<1> DEFINE S == {n \in Nat : n <= Len(t) => r[n] = x0}
<1>7. 0 \in S
    <2>1. r[0] = x0  BY <1>1, <1>6
    <2> QED  BY <2>1
<1>8. ASSUME NEW n \in S PROVE n + 1 \in S
    <2> SUFFICES ASSUME n + 1 <= Len(t) PROVE r[n + 1] = x0
        OBVIOUS
    <2>1. /\ n \in Nat /\ n + 1 \in 0 .. Len(t) /\ n + 1 # 0 /\ (n + 1) - 1 = n /\ r[n] = x0
        BY <1>1
    <2>2. r[n + 1] = OneAmp(t, x0)
        <3>1. r[n + 1] = V(r, n + 1)  BY <1>6, <2>1
        <3> QED  BY <2>1, <3>1
    <2> QED  BY <2>2 DEF OneAmp
<1> HIDE DEF S, V
<1>9. S = Nat
    <2>1. S \in SUBSET Nat  BY DEF S
    <2> QED  BY <1>7, <1>8, <2>1, Induction
<1>10. Len(t) \in S /\ Len(t) <= Len(t)  BY <1>1, <1>9
<1> QED  BY <1>2, <1>10 DEF S

\* How far the reference looks for an "&".
LEMMA AmpRun ==
    ASSUME NEW w, NEW i \in Nat, NEW j \in Nat, NEW z \in i .. j,
           \A y \in i .. (z - 1) : w[y].op = Amp, z = j \/ w[z].op # Amp
    PROVE  Min({x \in i .. j : x = j \/ w[x].op # Amp}) = z
<1> DEFINE S == {x \in i .. j : x = j \/ w[x].op # Amp}
<1>1. S \in SUBSET Nat /\ z \in S  OBVIOUS
<1>2. Min(S) \in S /\ Min(S) <= z  BY <1>1, MinIs
<1> DEFINE m == Min(S)
<1> HIDE DEF m
<1>3. m \in i .. j /\ (m = j \/ w[m].op # Amp) /\ m <= z  BY <1>2 DEF m
<1>4. m \notin i .. (z - 1)
    <2>1. m \in i .. (z - 1) => m # j  OBVIOUS
    <2> QED  BY <1>3, <2>1
<1>5. m = z  BY <1>3, <1>4
<1> QED  BY <1>5 DEF m

\* Where the line begins that follows a run of "&" ended by z.
From(w, z, j) == IF z < j /\ w[z].op = Semi THEN z + 1 ELSE z

\* From i up to z there is nothing but "&", and z ends them.
Run(w, i, z, j) == /\ z \in i .. j /\ \A y \in i .. (z - 1) : w[y].op = Amp
                   /\ z = j \/ w[z].op # Amp

\* What the reference makes of the "&" from i on, when no ";" follows, one follows, or
\* nothing does.
LEMMA RestIs ==
    ASSUME NEW w, Len(w) \in Nat, NEW g, NEW cmd, cmd # Panic,
           NEW i \in 1 .. (Len(w) + 1), NEW j \in i .. (Len(w) + 1), NEW z, Run(w, i, z, j)
    PROVE  /\ z = Len(w) + 1 => RefRest(w, g, cmd, i, j) = Backed(cmd, z - i)
           /\ z # Len(w) + 1 =>
                 RefRest(w, g, cmd, i, j) =
                     Both("LIST", Backed(cmd, z - i),
                          g["line"][From(w, z, j)][j])
<1>1. i \in Nat /\ j \in Nat  OBVIOUS
<1> DEFINE S == {x \in i .. j : x = j \/ w[x].op # Amp}
           m == Min(S)
<1>2. m = z  BY <1>1, AmpRun DEF Run
<1>3. RefRest(w, g, cmd, i, j) =
          IF cmd = Panic THEN Panic
          ELSE IF m = Len(w) + 1 THEN Backed(cmd, m - i)
          ELSE Both("LIST", Backed(cmd, m - i), g["line"][From(w, m, j)][j])
    BY DEF RefRest, From, Amp, Semi
<1> HIDE DEF S, m
<1>4. RefRest(w, g, cmd, i, j) =
          IF z = Len(w) + 1 THEN Backed(cmd, z - i)
          ELSE Both("LIST", Backed(cmd, z - i), g["line"][From(w, z, j)][j])
    BY <1>2, <1>3
<1> QED  BY <1>4

\* The rest of a line is the line that follows, put together with what was read.
LEMMA RestGoesOn ==
    ASSUME NEW w, Len(w) \in Nat, NEW g, NEW cmd, cmd # Panic, NEW i \in 1 .. (Len(w) + 1),
           NEW j \in i .. (Len(w) + 1), NEW z, Run(w, i, z, j), z # Len(w) + 1
    PROVE  RefRest(w, g, cmd, i, j) = Both("LIST", Backed(cmd, z - i), g["line"][From(w, z, j)][j])
    BY RestIs

\* parseline() agrees with the reference on a line.
LEMMA LineAgrees ==
    ASSUME NEW t, Even(t), NEW s, Bound(t, s), NEW p, NEW g, Later(t, p, g, At(t, s))
    PROVE  LET k == At(t, s)
               w == Tokens(t)
           IN Agrees(t, ParseLine(t, p, s), RefLine(w, g, k, Extent(w, k, OfLine)), k, OfLine)
<1> DEFINE k == At(t, s)
           w == Tokens(t)
           N == Len(w) + 1
           j == Extent(w, k, OfLine)
           i == Extent(w, k, OfPipe)
           ends == AtTop(w, k, j, {";", "&"})
           x0 == ParsePipe(t, p, s)
           x == Background(t, x0)
           first == RefPipe(w, g, k, i)
           r == ParseLine(t, p, s)
           tree == RefLine(w, g, k, j)
           e0 == At(t, x0.s)
           e == At(t, x.s)
<1>1. w \in Seq(TokenType) /\ Len(w) \in Nat /\ k \in 1 .. N  BY Scans
<1>2. /\ i \in k .. j /\ j \in k .. N
      /\ ends = {} <=> i = j
      /\ i # j => /\ i = Min(ends) /\ i \in 1 .. Len(w) /\ w[i].op \in Seps
                  /\ Level(w, i) = Level(w, k) /\ Level(w, i + 1) = Level(w, k)
    <2>1. "(" \notin Seps /\ ")" \notin Seps  BY SepsAre
    <2>2. OfPipe = OfLine \cup Seps  BY SepsAre
    <2> HIDE DEF w, k
    <2>3. Splits(w, k, j, i, Seps)  BY <1>1, <2>1, <2>2, Split
    <2>4. ends = AtTop(w, k, j, Seps)  BY DEF Seps, Amp, Semi
    <2> HIDE DEF i, j, ends
    <2> QED  BY <2>3, <2>4 DEF Splits
<1>3. Ends(w, j, OfLine)  BY <1>1, ExtentEnds
<1>4. Agrees(t, x0, first, k, OfPipe)  BY PipeAgrees
<1>5. /\ i = j => tree = first
      /\ i # j => tree = RefRest(w, g, first, i, j)
    <2>1. tree = IF ends = {} THEN RefPipe(w, g, k, j)
                 ELSE RefRest(w, g, RefPipe(w, g, k, Min(ends)), Min(ends), j)
        BY DEF RefLine
    <2> HIDE DEF tree, ends, w, k, i, j
    <2> QED  BY <1>2, <2>1
<1>6. tree # Panic => first # Panic  BY <1>5 DEF RefRest
<1>7. r = EndLine(t, p, x)  BY DEF ParseLine
<1> HIDE DEF x0, x, first, r, tree, ends
<1>8. Closed(w, k, j) => Closed(w, k, i)  BY <1>2 DEF Closed
<1>9. /\ x0.cmd # Panic => Bound(t, x0.s) /\ e0 >= k
      /\ Done(t, x0, OfPipe) => e0 = i /\ Closed(w, k, i) /\ first = x0.cmd
      /\ Closed(w, k, i) /\ first # Panic => Done(t, x0, OfPipe)
    BY <1>4 DEF Agrees
<1>10. CASE x0.cmd = Panic
    <2>1. r.cmd = Panic  BY <1>7, <1>10, BackgroundPanics DEF EndLine, x
    <2>2. ~(Closed(w, k, j) /\ tree # Panic)  BY <1>6, <1>8, <1>9, <1>10 DEF Done
    <2> HIDE DEF w, k, j
    <2>3. Agrees(t, r, tree, k, OfLine)  BY <2>1, <2>2 DEF Agrees, Done, w, j
    <2> QED  BY <2>3 DEF r, tree, w, j, k
<1>11. CASE x0.cmd # Panic
    <2>1. Bound(t, x0.s) /\ e0 >= k  BY <1>9, <1>11
    <2>2. PICK m \in Nat : Amped(t, x0, x, m) /\ ~More(t, x)  BY <1>11, <2>1, BackgroundIs DEF x
    <2>3. /\ m \in Nat /\ x.cmd = Backed(x0.cmd, m) /\ Bound(t, x.s) /\ e = e0 + m
          /\ \A y \in e0 .. (e - 1) : w[y].op = Amp
          /\ m # 0 => Ends(w, e, Seps)
        BY <2>2 DEF Amped
    <2>4. x.cmd # Panic  BY <1>11, <2>3, BackedNotPanic
    <2>5. e0 \in 1 .. N /\ e \in 1 .. N  BY <2>1, <2>3, Scans
    <2>6. ~(e # N /\ w[e].op = Amp /\ Ends(w, e + 1, Seps))  BY <1>11, <2>1, <2>2, AmpStep
    <2> DEFINE AmpAt == Peek(t, x.s, {"&"})
               SemiAt == Peek(t, x.s, {";"})
    <2>7. /\ AmpAt <=> e # N /\ w[e].op = Amp
          /\ SemiAt <=> e # N /\ w[e].op = Semi
        <3>1. {"&"} \in SUBSET Symbol /\ {";"} \in SUBSET Symbol /\ ">" \notin {"&"} /\ ">" \notin {";"}
            BY DEF Symbol
        <3>2. AmpAt <=> e # N /\ w[e].op = Amp  BY <2>3, <3>1, Scans DEF Amp
        <3>3. SemiAt <=> e # N /\ w[e].op = Semi  BY <2>3, <3>1, Scans DEF Semi
        <3> QED  BY <3>2, <3>3
    <2>8. \A y \in e0 .. (e - 1) : w[y].op = Amp /\ y # N
        <3> HIDE DEF w, e, e0
        <3> QED  BY <1>1, <2>3, <2>5
    <2> DEFINE s2 == GetToken(t, x.s).s
               q == p["line"][s2]
               rest == g["line"][e + 1][j]
    <2>9. r = IF AmpAt THEN Joined("LIST", <<"BACK", x.cmd>>, q)
              ELSE IF SemiAt THEN Joined("LIST", x.cmd, q) ELSE x
        BY <1>7, <2>4 DEF EndLine
    <2> HIDE DEF AmpAt, SemiAt
    <2>10. e # N => Bound(t, s2) /\ At(t, s2) = e + 1  BY <2>3, Scans
    <2>11. m = 0 => e0 = e
        <3> HIDE DEF e0, e
        <3> QED  BY <1>1, <2>3, <2>5
    <2>12. m # 0 => w[e0].op = Amp /\ e0 # N
        <3> HIDE DEF e0, e, w
        <3>1. m # 0 => e0 \in e0 .. (e - 1)  BY <1>1, <2>3, <2>5
        <3> QED  BY <2>8, <3>1
    <2>13. CASE e = N \/ w[e].op \notin Seps
        <3>1. r = x  BY <2>7, <2>9, <2>13, SepsAre
        <3>2. ASSUME Done(t, x, OfLine) PROVE e = j /\ Closed(w, k, j) /\ tree = x.cmd
            <4> HIDE DEF w, k, i, j, e0, e
            <4>1. Ends(w, e, OfLine)  BY <3>2 DEF Done, w, e
            <4>2. CASE m = 0
                <5>1. x.cmd = x0.cmd /\ e0 = e  BY <2>3, <2>11, <4>2, BackedIs
                <5>2. Done(t, x0, OfPipe)  BY <1>11, <4>1, <5>1, SepsAre DEF Done, Ends, w, e0
                <5>3. e = i /\ Closed(w, k, i) /\ first = x0.cmd  BY <1>9, <5>1, <5>2
                <5>4. i = j
                    <6>1. i # j => i # N /\ w[i].op \in Seps
                        <7>1. i # j => i \in 1 .. Len(w)  BY <1>2
                        <7> QED  BY <1>1, <1>2, <7>1
                    <6> QED  BY <4>1, <5>3, <6>1, SepsAre DEF Ends
                <5> QED  BY <1>5, <5>1, <5>3, <5>4
            <4>3. CASE m # 0
                <5>1. e = N
                    <6>1. Ends(w, e, Seps)  BY <2>3, <4>3
                    <6> QED  BY <4>1, <6>1, SepsAre DEF Ends
                <5>2. Done(t, x0, OfPipe)  BY <1>11, <2>12, <4>3, SepsAre DEF Done, Ends, w, e0
                <5>3. e0 = i /\ Closed(w, k, i) /\ first = x0.cmd  BY <1>9, <5>2
                <5>4. i # j  BY <1>3, <2>12, <4>3, <5>3, SepsAre DEF Ends
                <5>5. j = N
                    <6>1. j # N => j \in e0 .. (e - 1)  BY <1>1, <1>2, <2>5, <5>1, <5>3
                    <6>2. j # N => w[j].op = Amp  BY <2>8, <6>1
                    <6> QED  BY <1>3, <6>2, SepsAre DEF Ends
                <5>6. i \in 1 .. N /\ j \in i .. N /\ e \in i .. j  BY <1>1, <1>2, <5>1, <5>5
                <5>7. tree = Backed(first, e - i)
                    <6>1. first # Panic  BY <1>11, <5>3
                    <6>2. \A y \in i .. (e - 1) : w[y].op = Amp  BY <2>3, <5>3, SepsAre
                    <6>3. Run(w, i, e, j)  BY <5>1, <5>5, <5>6, <6>2 DEF Run
                    <6>4. e = Len(w) + 1 => RefRest(w, g, first, i, j) = Backed(first, e - i)
                        BY <1>1, <5>6, <6>1, <6>3, RestIs
                    <6> QED  BY <1>5, <5>1, <5>4, <6>4
                <5>8. e - i = m  BY <1>1, <2>3, <2>5, <5>3
                <5>9. Level(w, e) = Level(w, i)
                    <6>1. \A y \in i .. (e - 1) : w[y].op \notin {"(", ")"}  BY <2>3, <5>3, SepsAre
                    <6>2. e \in i .. N  BY <5>5, <5>6
                    <6> QED  BY <1>1, <5>6, <6>1, <6>2, SameLevel
                <5> QED  BY <2>3, <5>1, <5>3, <5>5, <5>7, <5>8, <5>9 DEF Closed
            <4> QED  BY <4>2, <4>3
        <3>3. ASSUME Closed(w, k, j), tree # Panic PROVE Done(t, x, OfLine)
            <4> HIDE DEF w, k, i, j, e0, e
            <4>1. Done(t, x0, OfPipe)  BY <1>6, <1>8, <1>9, <3>3
            <4>2. Ends(w, e0, OfPipe)  BY <4>1 DEF Done, w, e0
            <4>3. Ends(w, e, OfLine)
                <5>1. CASE m = 0  BY <2>11, <2>13, <4>2, <5>1, SepsAre DEF Ends
                <5>2. CASE m # 0  BY <2>3, <2>13, <5>2 DEF Ends
                <5> QED  BY <5>1, <5>2
            <4> QED  BY <2>4, <4>3 DEF Done, w, e
        <3>4. e >= k
            <4> HIDE DEF w, k, e0, e
            <4> QED  BY <1>1, <2>1, <2>3, <2>5
        <3> HIDE DEF w, k, i, j
        <3>5. Agrees(t, x, tree, k, OfLine)
            BY <2>3, <3>2, <3>3, <3>4 DEF Agrees, w, j
        <3> QED  BY <3>1, <3>5 DEF r, tree, w, j, k
    <2>14. CASE e # N /\ w[e].op \in Seps
        <3>1. Done(t, x0, OfPipe)
            <4>1. w[e0].op \in Seps  BY <2>11, <2>12, <2>14, SepsAre
            <4> HIDE DEF w
            <4> QED  BY <1>11, <4>1, SepsAre DEF Done, Ends, w
        <3>2. e0 = i /\ Closed(w, k, i) /\ first = x0.cmd  BY <1>9, <3>1
        <3> HIDE DEF q, s2
        <3>3. /\ e \in i .. (j - 1) /\ e + 1 \in k .. j /\ i \in 1 .. N /\ j \in i .. N /\ e \in Int
              /\ k \in Int /\ i \in Int /\ j \in Int
            <4> HIDE DEF w, k, i, j, e0, e
            <4>1. j \notin e0 .. e
                <5> SUFFICES ASSUME j \in e0 .. e PROVE FALSE
                    OBVIOUS
                <5>1. j = e \/ j \in e0 .. (e - 1)  BY <1>1, <2>5
                <5>2. j # N /\ w[j].op \in Seps  BY <2>8, <2>14, <5>1, SepsAre
                <5> QED  BY <1>3, <5>2, SepsAre DEF Ends
            <4> QED  BY <1>1, <1>2, <2>3, <2>5, <3>2, <4>1
        <3>4. i # j
            <4> HIDE DEF w, k, i, j, e0, e
            <4> QED  BY <3>3
        <3>5. Level(w, e + 1) = Level(w, k)
            <4> HIDE DEF w, k, i, j, e0, e
            <4>1. \A y \in i .. ((e + 1) - 1) : w[y].op \notin {"(", ")"}
                <5>1. \A y \in i .. ((e + 1) - 1) : y = e \/ y \in e0 .. (e - 1)  BY <3>2, <3>3
                <5> QED  BY <2>3, <2>14, <5>1, SepsAre
            <4>2. e + 1 \in i .. N  BY <1>1, <3>3
            <4>3. Level(w, e + 1) = Level(w, i)  BY <1>1, <3>3, <4>1, <4>2, SameLevel
            <4> QED  BY <3>2, <4>3 DEF Closed
        <3>6. Extent(w, e + 1, OfLine) = j
            <4> HIDE DEF w, k, e
            <4> QED  BY <1>1, <3>3, <3>5, RestExtends
        <3>7. Agrees(t, q, rest, e + 1, OfLine)
            <4>1. At(t, s2) = e + 1 /\ Bound(t, s2)  BY <2>10, <2>14
            <4>2. e + 1 > k
                <5> HIDE DEF w, k, i, j, e0, e
                <5> QED  BY <1>1, <2>1, <2>3, <2>5
            <4> HIDE DEF e
            <4>3. At(t, s2) > k  BY <4>1, <4>2
            <4>4. LineAt(t, p, g, s2)  BY <4>1, <4>3 DEF Later
            <4> QED  BY <3>6, <4>1, <4>4 DEF LineAt, q
        <3>8. \A y : Bound(t, y) => At(t, y) \in Int
            <4>1. \A y : Bound(t, y) => At(t, y) \in 1 .. N  BY Scans
            <4> HIDE DEF w
            <4> QED  BY <1>1, <4>1
        <3>9. first # Panic  BY <1>11, <3>2
        <3> HIDE DEF rest, j, e, i, e0
        <3>10. Extent(w, e + 1, OfLine) = Extent(w, k, OfLine)  BY <3>6 DEF j
        <3>11. k <= e + 1 /\ e + 1 \in Int
            <4> HIDE DEF w, k
            <4> QED  BY <3>3
        <3>12. e - i = m /\ (e + 1) - i = m + 1  BY <1>1, <2>3, <2>5, <3>2, <3>3
        <3> HIDE DEF k
        <3>13. CASE w[e].op = Amp
            <4> DEFINE f == <<"BACK", x.cmd>>
            <4>1. r = Joined("LIST", f, q)  BY <2>7, <2>9, <2>14, <3>13
            <4>2. e + 1 # N /\ w[e + 1].op \notin Seps  BY <2>6, <2>14, <3>13 DEF Ends
            <4>3. tree = Both("LIST", f, rest)
                <5>1. f = Backed(first, (e + 1) - i)
                    <6> HIDE DEF f
                    <6>1. Backed(first, m + 1) = <<"BACK", Backed(first, m)>>  BY <2>3, BackedIs
                    <6>2. f = <<"BACK", Backed(first, m)>>  BY <2>3, <3>2 DEF f
                    <6> QED  BY <3>12, <6>1, <6>2
                <5>2. \A y \in i .. ((e + 1) - 1) : w[y].op = Amp
                    <6>1. \A y \in i .. ((e + 1) - 1) : y = e \/ y \in e0 .. (e - 1)  BY <3>2, <3>3
                    <6> QED  BY <2>3, <3>13, <6>1
                <5> HIDE DEF f, w
                <5>3. e + 1 \in i .. j  BY <3>3
                <5>4. e + 1 = j \/ w[e + 1].op # Amp  BY <4>2, SepsAre
                <5>5. RefRest(w, g, first, i, j) = Both("LIST", Backed(first, (e + 1) - i), g["line"][From(w, e + 1, j)][j])
                    <6>1. Run(w, i, e + 1, j)  BY <5>2, <5>3, <5>4 DEF Run
                    <6>2. Len(w) \in Nat /\ e + 1 # Len(w) + 1 /\ i \in 1 .. (Len(w) + 1) /\ j \in i .. (Len(w) + 1)
                        BY <1>1, <3>3, <4>2
                    <6> QED  BY <3>9, <6>1, <6>2, RestGoesOn
                <5>6. From(w, e + 1, j) = e + 1  BY <4>2, SepsAre DEF From
                <5> QED  BY <1>5, <3>4, <5>1, <5>5, <5>6 DEF rest
            <4>4. f # Panic  BY NotPanic
            <4> HIDE DEF f, w
            <4>5. Agrees(t, r, tree, k, OfLine)
                BY <3>3, <3>5, <3>7, <3>8, <3>10, <3>11, <4>1, <4>3, <4>4, JoinAgrees DEF w
            <4> QED  BY <4>5 DEF r, tree, w, j, k
        <3>14. CASE w[e].op = Semi
            <4>1. r = Joined("LIST", x.cmd, q)  BY <2>7, <2>9, <2>14, <3>14, SepsAre
            <4>2. tree = Both("LIST", x.cmd, rest)
                <5>1. x.cmd = Backed(first, e - i)  BY <2>3, <3>2, <3>12
                <5>2. \A y \in i .. (e - 1) : w[y].op = Amp  BY <2>3, <3>2
                <5> HIDE DEF w
                <5>3. e \in i .. j /\ e < j  BY <3>3
                <5>4. w[e].op # Amp  BY <3>14, SepsAre
                <5>5. RefRest(w, g, first, i, j) = Both("LIST", Backed(first, e - i), g["line"][From(w, e, j)][j])
                    <6>1. Run(w, i, e, j)  BY <5>2, <5>3, <5>4 DEF Run
                    <6>2. Len(w) \in Nat /\ e # Len(w) + 1 /\ i \in 1 .. (Len(w) + 1) /\ j \in i .. (Len(w) + 1)
                        BY <1>1, <2>14, <3>3
                    <6> QED  BY <3>9, <6>1, <6>2, RestGoesOn
                <5>6. From(w, e, j) = e + 1  BY <3>14, <5>3 DEF From
                <5> QED  BY <1>5, <3>4, <5>1, <5>5, <5>6 DEF rest
            <4> HIDE DEF w
            <4>3. Agrees(t, r, tree, k, OfLine)
                BY <2>4, <3>3, <3>5, <3>7, <3>8, <3>10, <3>11, <4>1, <4>2, JoinAgrees DEF w
            <4> QED  BY <4>3 DEF r, tree, w, j, k
        <3> QED  BY <2>14, <3>13, <3>14, SepsAre
    <2> QED  BY <2>13, <2>14
<1> QED  BY <1>10, <1>11

\* Calls that are nested less than n deep agree with trees that are nested less than m
\* deep, as soon as both are enough for the words and operators that are left.
LEMMA CallsAgree ==
    ASSUME NEW t, Even(t)
    PROVE  Agrees(t, Calls(t)["line"][1],
                  Trees(Tokens(t))["line"][1][Extent(Tokens(t), 1, OfLine)], 1, OfLine)
<1> DEFINE w == Tokens(t)
           N == Len(w) + 1
<1>1. IsLine(t) /\ End(t) \in Nat /\ End(t) >= 1  BY LineIs DEF Even
<1>2. Bound(t, 1) /\ At(t, 1) = 1
    <2>1. Bound(t, 1) /\ Toks(t, 1) = <<>>  BY <1>1, BoundStart
    <2> QED  BY <2>1, EmptySeq DEF At
<1>3. Len(w) \in Nat /\ \A x : Bound(t, x) => At(t, x) \in 1 .. N
    <2>1. Len(w) \in Nat  BY <1>2, Scans
    <2>2. \A x : Bound(t, x) => At(t, x) \in 1 .. N  BY Scans
    <2> QED  BY <2>1, <2>2
<1>4. PICK c : /\ Calls(t) = c[End(t)]
               /\ \A n \in 1 .. End(t), s \in 1 .. End(t) :
                     /\ c[n]["line"][s] = ParseLine(t, c[n - 1], s)
                     /\ c[n]["pipe"][s] = ParsePipe(t, c[n - 1], s)
    BY <1>1, CallsAre
<1>5. PICK g : /\ Trees(w) = g[Len(w) + 1]
               /\ \A n \in 1 .. Len(w) + 1, i \in 1 .. Len(w) + 1, j \in 1 .. Len(w) + 1 :
                     /\ g[n]["line"][i][j] = RefLine(w, g[n - 1], i, j)
                     /\ g[n]["pipe"][i][j] = RefPipe(w, g[n - 1], i, j)
    BY <1>3, TreesAre
<1> DEFINE Q(n, m, s) == LineAt(t, c[n], g[m], s) /\ PipeAt(t, c[n], g[m], s)
           S == {n \in Nat : n <= End(t) =>
                    \A m \in 0 .. N : \A s : Bound(t, s) /\ n + At(t, s) >= N + 1 /\ m + At(t, s) >= N + 1
                                         => Q(n, m, s)}
<1> HIDE DEF Q
<1>6. 0 \in S
    <2>1. \A s : Bound(t, s) => ~(0 + At(t, s) >= N + 1)
        <3> HIDE DEF w
        <3> QED  BY <1>3
    <2> QED  BY <2>1
<1>7. ASSUME NEW n \in S PROVE n + 1 \in S
    <2> SUFFICES ASSUME n + 1 <= End(t), NEW m \in 0 .. N, NEW s, Bound(t, s),
                        (n + 1) + At(t, s) >= N + 1, m + At(t, s) >= N + 1
                 PROVE  Q(n + 1, m, s)
        OBVIOUS
    <2> DEFINE k == At(t, s)
               p == c[n]
               h == g[m - 1]
               jl == Extent(w, k, OfLine)
               jp == Extent(w, k, OfPipe)
    <2>1. /\ n \in Nat /\ n <= End(t)
          /\ \A m1 \in 0 .. N : \A s1 : Bound(t, s1) /\ n + At(t, s1) >= N + 1 /\ m1 + At(t, s1) >= N + 1
                                    => Q(n, m1, s1)
        BY <1>1
    <2>2. k \in 1 .. N /\ s \in 1 .. End(t)  BY <1>3 DEF Bound
    <2> HIDE DEF w
    <2>3. m \in 1 .. N /\ m - 1 \in 0 .. N
        <3> HIDE DEF k
        <3> QED  BY <1>3, <2>2 DEF k
    <2>4. Later(t, p, h, k)
        <3> SUFFICES ASSUME NEW x, Bound(t, x), At(t, x) > k PROVE LineAt(t, p, h, x) /\ PipeAt(t, p, h, x)
            BY DEF Later
        <3> DEFINE l == At(t, x)
        <3>1. l \in 1 .. N  BY <1>3
        <3>2. (n + 1) + k >= N + 1 /\ m + k >= N + 1 /\ l > k  OBVIOUS
        <3> HIDE DEF l, k
        <3>3. n + l >= N + 1 /\ (m - 1) + l >= N + 1
            BY <1>3, <2>1, <2>2, <2>3, <3>1, <3>2
        <3>4. Q(n, m - 1, x)  BY <2>1, <2>3, <3>3 DEF l
        <3> QED  BY <3>4 DEF Q
    <2>5. jl \in 1 .. N /\ jp \in 1 .. N
        <3> HIDE DEF k, jl, jp
        <3>1. jl \in k .. N /\ jp \in k .. N  BY <1>3, <2>2, ExtentEnds DEF jl, jp
        <3> QED  BY <1>3, <2>2, <3>1
    <2>6. /\ c[n + 1]["line"][s] = ParseLine(t, p, s)
          /\ c[n + 1]["pipe"][s] = ParsePipe(t, p, s)
        <3>1. n + 1 \in 1 .. End(t) /\ (n + 1) - 1 = n  BY <1>1, <2>1
        <3> QED  BY <1>4, <2>2, <3>1
    <2>7. /\ g[m]["line"][k][jl] = RefLine(w, h, k, jl)
          /\ g[m]["pipe"][k][jp] = RefPipe(w, h, k, jp)
        <3> HIDE DEF k, jl, jp
        <3> QED  BY <1>5, <2>2, <2>3, <2>5
    <2>8. Agrees(t, ParseLine(t, p, s), RefLine(w, h, k, jl), k, OfLine)
        <3> HIDE DEF p, h
        <3> QED  BY <2>4, LineAgrees DEF w
    <2>9. Agrees(t, ParsePipe(t, p, s), RefPipe(w, h, k, jp), k, OfPipe)
        <3> HIDE DEF p, h
        <3> QED  BY <2>4, PipeAgrees DEF w
    <2>10. LineAt(t, c[n + 1], g[m], s)  BY <2>6, <2>7, <2>8 DEF LineAt, w
    <2>11. PipeAt(t, c[n + 1], g[m], s)  BY <2>6, <2>7, <2>9 DEF PipeAt, w
    <2> QED  BY <2>10, <2>11 DEF Q
<1> HIDE DEF S
<1>8. S = Nat
    <2>1. S \in SUBSET Nat  BY DEF S
    <2> QED  BY <1>6, <1>7, <2>1, Induction
<1>9. End(t) \in S /\ End(t) <= End(t)  BY <1>1, <1>8
<1>10. End(t) + 1 >= N + 1
    <2>1. N - 1 <= End(t) - 1  BY <1>2, Fewer
    <2> HIDE DEF w
    <2> QED  BY <1>1, <1>3, <2>1
<1>11. Q(End(t), N, 1)
    <2> HIDE DEF w
    <2>1. N \in 0 .. N /\ N + 1 >= N + 1  BY <1>3
    <2> QED  BY <1>2, <1>9, <1>10, <2>1 DEF S
<1>12. LineAt(t, Calls(t), Trees(w), 1)  BY <1>4, <1>5, <1>11 DEF Q
<1> QED  BY <1>2, <1>12 DEF LineAt

\* The parentheses match exactly when the line ends where it says and at its level.
LEMMA BalancedMeans ==
    ASSUME NEW w, w \in Seq(TokenType)
    PROVE  LET N == Len(w) + 1
               j == Extent(w, 1, OfLine)
           IN Balanced(w) <=> j = N /\ Closed(w, 1, N)
<1> DEFINE N == Len(w) + 1
           j == Extent(w, 1, OfLine)
<1>1. Len(w) \in Nat /\ N \in Nat /\ DOMAIN w = 1 .. Len(w)  BY LenProperties
<1>2. /\ Level(w, 1) = 0 /\ \A y \in 1 .. N : Level(w, y) \in Int
      /\ \A y \in 1 .. Len(w) : w[y].op = ")" => Level(w, y + 1) = Level(w, y) - 1
    <2>1. ")" # "("  OBVIOUS
    <2> QED  BY <1>1, <2>1, LevelIs
<1>3. Extends(w, 1, OfLine, j) /\ 1 \in 1 .. N  BY <1>1, ExtentIs
<1> HIDE DEF j
<1>4. j \in 1 .. N /\ (j = N \/ Ending(w, 1, OfLine, j))  BY <1>3 DEF Extends
<1>5. /\ Depth(w)[Len(w)] = Level(w, N)
      /\ \A y \in 1 .. Len(w) : Depth(w)[y] = Level(w, y + 1)
    <2>1. N - 1 = Len(w) /\ \A y \in 1 .. Len(w) : (y + 1) - 1 = y  BY <1>1
    <2> QED  BY <2>1 DEF Level
<1>6. Balanced(w) <=> Level(w, N) = 0 /\ \A y \in 1 .. Len(w) : Level(w, y + 1) >= 0
    BY <1>1, <1>5 DEF Balanced
<1>7. ASSUME Balanced(w) PROVE j = N
    <2> SUFFICES ASSUME j # N PROVE FALSE
        OBVIOUS
    <2>1. j \in 1 .. Len(w) /\ w[j].op = ")" /\ Level(w, j) = 0
        BY <1>1, <1>2, <1>4 DEF Ending, OfLine
    <2>2. Level(w, j + 1) = 0 - 1  BY <1>2, <2>1
    <2> QED  BY <1>6, <1>7, <2>1, <2>2
<1>8. ASSUME j = N, Closed(w, 1, N) PROVE Balanced(w)
    <2>1. \A y \in 1 .. N : Level(w, y) >= 0
        <3>1. ")" \in OfLine  BY DEF OfLine
        <3> QED  BY <1>1, <1>2, <1>3, <1>8, <3>1, NeverBelow
    <2>2. \A y \in 1 .. Len(w) : Level(w, y + 1) >= 0
        <3>1. \A y \in 1 .. Len(w) : y + 1 \in 1 .. N  BY <1>1
        <3> QED  BY <2>1, <3>1
    <2> QED  BY <1>2, <1>6, <1>8, <2>2 DEF Closed
<1> QED  BY <1>2, <1>6, <1>7, <1>8 DEF Closed, j

\* parsecmd() builds the tree of the grammar, and no tree where the grammar has none.
LEMMA ParseCmdIs ==
    ASSUME NEW t, Even(t)
    PROVE  ParseCmd(t) = Reference(t)
<1> DEFINE w == Tokens(t)
           N == Len(w) + 1
           j == Extent(w, 1, OfLine)
           r == Calls(t)["line"][1]
           tree == Trees(w)["line"][1][j]
<1>1. w \in Seq(TokenType) /\ Len(w) \in Nat
    <2>1. Bound(t, 1)  BY BoundStart DEF Even
    <2> QED  BY <2>1, Scans
<1>2. /\ r.cmd # Panic => Bound(t, r.s)
      /\ Done(t, r, OfLine) => At(t, r.s) = j /\ Closed(w, 1, j) /\ tree = r.cmd
      /\ Closed(w, 1, j) /\ tree # Panic => Done(t, r, OfLine)
    <2> HIDE DEF r, tree
    <2>1. Agrees(t, r, tree, 1, OfLine)  BY CallsAgree DEF r, tree
    <2> QED  BY <2>1 DEF Agrees
<1>3. Balanced(w) <=> j = N /\ Closed(w, 1, N)  BY <1>1, BalancedMeans
<1>4. ParseCmd(t) = IF r.cmd # Panic /\ Skip(t, r.s) = End(t) THEN r.cmd ELSE Panic
    BY DEF ParseCmd, EndCmd
<1>5. Reference(t) = IF Balanced(w) THEN Trees(w)["line"][1][N] ELSE Panic
    BY DEF Reference, Tokens
<1>6. Balanced(w) => Reference(t) = tree  BY <1>3, <1>5
<1> HIDE DEF r, tree
<1>7. r.cmd # Panic => (Skip(t, r.s) = End(t) <=> At(t, r.s) = N)
    BY <1>2, Scans
<1> HIDE DEF w, j
<1>8. r.cmd # Panic /\ Skip(t, r.s) = End(t) => Done(t, r, OfLine) /\ At(t, r.s) = N
    BY <1>7 DEF Done, Ends, w
<1>9. CASE Balanced(w)
    <2>1. j = N /\ Closed(w, 1, j)  BY <1>3, <1>9
    <2>2. CASE tree = Panic
        <3>1. ~(r.cmd # Panic /\ Skip(t, r.s) = End(t))  BY <1>2, <1>8, <2>2
        <3> QED  BY <1>4, <1>6, <1>9, <2>2, <3>1
    <2>3. CASE tree # Panic
        <3>1. Done(t, r, OfLine)  BY <1>2, <2>1, <2>3
        <3>2. r.cmd # Panic /\ At(t, r.s) = N /\ tree = r.cmd  BY <1>2, <2>1, <3>1 DEF Done
        <3>3. Skip(t, r.s) = End(t)  BY <1>7, <3>2
        <3> QED  BY <1>4, <1>6, <1>9, <3>2, <3>3
    <2> QED  BY <2>2, <2>3
<1>10. CASE ~Balanced(w)
    <2>1. ~(r.cmd # Panic /\ Skip(t, r.s) = End(t))
        <3> SUFFICES ASSUME r.cmd # Panic /\ Skip(t, r.s) = End(t) PROVE FALSE
            OBVIOUS
        <3>1. Done(t, r, OfLine) /\ At(t, r.s) = N  BY <1>8
        <3>2. j = N /\ Closed(w, 1, j)  BY <1>2, <3>1
        <3> QED  BY <1>3, <1>10, <3>2
    <2> QED  BY <1>4, <1>5, <1>10, <2>1
<1> QED  BY <1>9, <1>10

-----------------------------------------------------------------------------
(* What is typed. *)

Typed == keyboard \in Keyboards /\ line \in Seq(keyboard.keys)

\* What has been typed are keys of the keyboard.
LEMMA AlwaysTyped == Spec => []Typed
<1>1. Init => Typed  BY EmptySeq DEF Init, Typed
<1>2. Typed /\ [Next]_vars => Typed'
    <2> SUFFICES ASSUME Typed, [Next]_vars PROVE Typed'
        OBVIOUS
    <2>1. CASE Next
        <3>1. PICK c \in keyboard.keys : Type(c)  BY <2>1 DEF Next
        <3> QED  BY <3>1, AppendProperties DEF Type, Typed
    <2>2. CASE UNCHANGED vars  BY <2>2 DEF Typed, vars
    <2> QED  BY <2>1, <2>2
<1> QED  BY <1>1, <1>2, PTL DEF Spec

\* The line run_line() passes on ends with a newline.
LEMMA TextIsLine == Typed => IsLine(text)
<1> SUFFICES ASSUME Typed PROVE IsLine(text)
    OBVIOUS
<1>1. keyboard.keys \subseteq Char /\ NL \in Char  BY DEF Typed, Char
<1>2. line \in Seq(Char)  BY <1>1, SeqMonotonic DEF Typed
<1> QED  BY <1>1, <1>2, AppendProperties, EmptySeq DEF IsLine, text

\* The lines the properties speak of are those in which they do not disagree.
LEMMA AgreedIsEven == Typed /\ Agreed => Even(text)
    BY TextIsLine DEF Agreed, Lexed, Even, After

\* A line that run_line() may take for a built-in or an assignment has no operator the
\* parser would find, and the others have one, whatever is typed and however long.
THEOREM BuiltinMeansSimpleHolds == Spec => []BuiltinMeansSimple
<1>1. Typed => BuiltinMeansSimple
    <2> SUFFICES ASSUME Typed, Agreed PROVE HasControl(text) <=> SeesOperator(text)
        BY DEF BuiltinMeansSimple
    <2>1. Even(text) /\ IsLine(text)  BY AgreedIsEven DEF Even
    <2> QED  BY <2>1, HasControlMeans, SeesMeans
<1> QED  BY <1>1, AlwaysTyped, PTL

\* Whatever is typed and however long, the recursive descent builds the tree and the
\* words that the quoting rules and the grammar give the line, or calls panic() where
\* they give none.
THEOREM TreeIsGrammaticalHolds == Spec => []TreeIsGrammatical
<1>1. Typed => TreeIsGrammatical
    BY AgreedIsEven, ParseCmdIs DEF TreeIsGrammatical
<1> QED  BY <1>1, AlwaysTyped, PTL
=============================================================================
