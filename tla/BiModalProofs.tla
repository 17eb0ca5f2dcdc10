----------------------------- MODULE BiModalProofs -----------------------------
(***************************************************************************)
(* Theorems about the skip list, for every number of nodes and levels,     *)
(* every node size, alphabet, set of inputs and bound.                     *)
(***************************************************************************)
EXTENDS BiModalLayout, TLAPS

(* Sequences and loops.                                                     *)
Seqs == INSTANCE TextLemmas WITH Char <- {}, Zero <- 0

(* No length is so long that pos + len wraps.                               *)
LengthsFit == \A n \in EraseLens : MaxText + n < SizeMod

-----------------------------------------------------------------------------
(***************************************************************************)
(* What the invariant says of the lists the code follows.                  *)
(***************************************************************************)

(* Two cells of the same rank are the same.                                 *)
LEMMA SameRank ==
  ASSUME NEW r, Ordered(r), NEW c \in Cells(r), NEW d \in Cells(r), r[c] = r[d]
  PROVE  c = d
BY BiModalAssumption DEF Ordered, Cells, On, Cell

(* A linked node that is behind c is the next one or behind it.             *)
LEMMA NextIsFirst ==
  ASSUME TypeOK, NEW r, Ordered(r), NEW c \in Cells(r), NEW n \in On(r), r[n] < r[c]
  PROVE  /\ next[c][0] \in On(r) /\ r[next[c][0]] < r[c]
         /\ r[n] <= r[next[c][0]]
<1>1. c \in Cell /\ 0 \in Levels /\ level[n] > 0
  BY BiModalAssumption DEF Ordered, Cells, On, Cell, Levels
<1>2. level[c] > 0
  BY BiModalAssumption DEF Ordered, Cells, On, Cell, TypeOK
<1>3. FirstBehind(r, c, 0)
  BY <1>1, <1>2 DEF Ordered, OnLevel
<1> QED BY <1>1, <1>3 DEF FirstBehind

(* The text behind c reaches over every node behind c.                      *)
LEMMA Apart ==
  ASSUME TypeOK, NEW r, Ordered(r), NEW w, Texts(w),
         NEW c \in Cells(r), NEW n \in On(r), r[n] < r[c]
  PROVE  Len(w[c]) >= Len(w[n]) + Size(n)
<1> DEFINE bad == {d \in Cells(r) : r[n] < r[d] /\ Len(w[d]) < Len(w[n]) + Size(n)}
           ranks == {r[d] : d \in bad}
<1>1. Cells(r) \subseteq Cell /\ On(r) \subseteq Node
  BY DEF Cells, On, Cell
<1>2. SUFFICES bad = {}
  <2>1. \A d \in Cells(r) : Len(w[d]) \in Nat
    BY <1>1 DEF Texts
  <2>2. Len(w[n]) \in Nat /\ Size(n) \in Nat
    BY <1>1 DEF Texts, Size, TypeOK, Cell
  <2> QED BY <1>2, <2>1, <2>2
<1>3. ASSUME bad # {} PROVE FALSE
  <2>1. ranks \subseteq Nat /\ ranks # {}
    BY <1>1, <1>3 DEF Ordered
  <2>2. PICK k \in ranks : \A j \in ranks : k <= j
    BY <2>1, Seqs!LeastNat
  <2>3. PICK d \in bad : k = r[d]
    OBVIOUS
  <2>4. d \in Cells(r) /\ r[n] < r[d] /\ Len(w[d]) < Len(w[n]) + Size(n)
    OBVIOUS
  <2> DEFINE m == next[d][0]
  <2>5. m \in On(r) /\ r[m] < r[d] /\ r[n] <= r[m]
    BY NextIsFirst
  <2>6. w[d] = data[m] \o w[m]
    BY <1>1, <2>5, BiModalAssumption DEF Texts, On
  <2>7. data[m] \in Seq(Char) /\ w[m] \in Seq(Char) /\ w[n] \in Seq(Char) /\ data[n] \in Seq(Char)
    BY <1>1, <2>5 DEF Texts, TypeOK, Cell
  <2>8. /\ Len(w[d]) = Size(m) + Len(w[m]) /\ Size(m) \in Nat
        /\ Len(w[m]) \in Nat /\ Len(w[n]) \in Nat /\ Size(n) \in Nat
    BY <2>6, <2>7 DEF Size
  <2>9. CASE m = n
    BY <2>4, <2>8, <2>9
  <2>10. CASE m # n
    <3>1. r[n] < r[m]
      BY <2>5, <2>10, <1>1 DEF Ordered, Cell
    <3>2. m \in bad
      <4>1. m \in Cells(r)
        BY <2>5 DEF Cells
      <4>2. Len(w[m]) < Len(w[n]) + Size(n)
        BY <2>4, <2>8, SMTT(30)
      <4> QED BY <3>1, <4>1, <4>2
    <3>3. r[m] \in Nat /\ r[d] \in Nat
      BY <1>1, <2>5 DEF Ordered, Cell
    <3>4. k <= r[m]
      BY <2>2, <3>2
    <3> QED BY <2>3, <2>5, <3>3, <3>4
  <2> QED BY <2>9, <2>10
<1> QED BY <1>3

(* Whatever follows level 0 from cell to cell gets the texts that fit.      *)
LEMMA TextBehindIs ==
  ASSUME TypeOK, NEW r, Ordered(r), NEW w, Texts(w), Whole
  PROVE  \A c \in Cells(r) : TextBehind[c] = w[c]
<1> DEFINE body(g) == [c \in Cell |-> IF next[c][0] = Nil THEN << >>
                                       ELSE data[next[c][0]] \o g[next[c][0]]]
           g == TextBehind
           bad == {c \in Cells(r) : g[c] # w[c]}
           ranks == {r[c] : c \in bad}
<1>1. Cells(r) \subseteq Cell /\ On(r) \subseteq Node
  BY DEF Cells, On, Cell
<1>2. w = body(w)
  BY DEF Texts
<1>3. TextBehind = CHOOSE h : h = body(h)
  BY DEF TextBehind
<1>4. g = body(g)
  BY <1>2, <1>3
<1> HIDE DEF g
<1>5. ASSUME bad # {} PROVE FALSE
  <2>1. ranks \subseteq Nat /\ ranks # {}
    BY <1>1, <1>5 DEF Ordered
  <2>2. PICK k \in ranks : \A j \in ranks : k <= j
    BY <2>1, Seqs!LeastNat
  <2>3. PICK d \in bad : k = r[d]
    OBVIOUS
  <2> DEFINE m == next[d][0]
  <2>4. /\ w[d] = IF m = Nil THEN << >> ELSE data[m] \o w[m]
        /\ g[d] = IF m = Nil THEN << >> ELSE data[m] \o g[m]
    BY <1>1, <1>4 DEF Texts
  <2>5. m # Nil /\ g[m] # w[m]
    BY <2>4
  <2>6. OnLevel(r, d, 0) /\ 0 \in Levels
    BY <1>1, BiModalAssumption DEF OnLevel, Cells, On, Ordered, Levels, TypeOK
  <2>7. m \in On(r) /\ r[m] < r[d]
    BY <1>1, <2>5, <2>6 DEF Ordered, FirstBehind
  <2>8. r[m] \in Nat /\ r[d] \in Nat /\ m \in bad
    BY <1>1, <2>5, <2>7 DEF Ordered, Cell, Cells
  <2> QED BY <2>2, <2>3, <2>7, <2>8
<1> QED BY <1>5 DEF g

(* The text of a BiModalText is the text behind its head.                   *)
LEMMA TextIs ==
  ASSUME TypeOK, NEW r, Ordered(r), NEW w, Texts(w), Whole
  PROVE  Text = w[head]
BY TextBehindIs DEF Text, Cells

(* Behind a cell are the nodes of lower rank.                               *)
LEMMA BehindIs ==
  ASSUME TypeOK, NEW r, Ordered(r)
  PROVE  \A c \in Cells(r) : Behind[c] = {n \in On(r) : r[n] < r[c]}
<1> DEFINE body(g) == [c \in Cell |-> IF next[c][0] = Nil THEN {}
                                       ELSE {next[c][0]} \cup g[next[c][0]]]
           under(c) == IF c \in Cells(r) THEN {n \in On(r) : r[n] < r[c]} ELSE {}
           lower == [c \in Cell |-> IF c \in Cells(r) \/ c \in Node \/ next[c][0] = Nil
                                      THEN under(c)
                                      ELSE {next[c][0]} \cup under(next[c][0])]
           g == Behind
           bad == {c \in Cells(r) : g[c] # lower[c]}
           ranks == {r[c] : c \in bad}
<1>1. Cells(r) \subseteq Cell /\ On(r) \subseteq Node /\ On(r) \subseteq Cells(r)
  BY DEF Cells, On, Cell
<1>2. ASSUME NEW c \in Cell
      PROVE  lower[c] = IF next[c][0] = Nil THEN {} ELSE {next[c][0]} \cup lower[next[c][0]]
  <2> DEFINE m == next[c][0]
  <2>1. CASE c \notin Cells(r)
    <3>1. CASE c \in Node
      <4>1. m = Nil
        BY <2>1, <3>1, BiModalAssumption DEF Ordered, Cells, Levels
      <4> QED BY <2>1, <3>1, <4>1
    <3>2. CASE c \notin Node /\ m # Nil
      <4>1. m \in Node /\ m \in Cell
        BY <3>2, BiModalAssumption DEF TypeOK, Pointer, Cell, Levels
      <4> QED BY <2>1, <3>2, <4>1
    <3> QED BY <2>1, <3>1, <3>2
  <2>2. CASE c \in Cells(r)
    <3>1. OnLevel(r, c, 0) /\ 0 \in Levels
      BY <1>1, <2>2, BiModalAssumption, SMTT(30)
         DEF OnLevel, Cells, On, Ordered, Levels, TypeOK
    <3>2. FirstBehind(r, c, 0)
      BY <3>1 DEF Ordered
    <3>3. \A n \in On(r) : level[n] > 0 /\ r[n] \in Nat
      BY <1>1 DEF Ordered, Cell
    <3>4. CASE m = Nil
      BY <2>2, <3>2, <3>3, <3>4 DEF FirstBehind
    <3>5. CASE m # Nil
      <4>1. m \in On(r) /\ r[m] < r[c] /\ m \in Cell /\ m \in Cells(r)
        BY <1>1, <3>2, <3>5 DEF FirstBehind
      <4>2. \A n \in On(r) : r[n] < r[c] => n = m \/ r[n] < r[m]
        BY <3>2, <3>3, <4>1, <1>1 DEF FirstBehind, Ordered
      <4>3. \A n \in On(r) : r[n] < r[m] => r[n] < r[c]
        BY <3>3, <4>1, <1>1 DEF Ordered
      <4> QED BY <2>2, <3>5, <4>1, <4>2, <4>3
    <3> QED BY <3>4, <3>5
  <2> QED BY <2>1, <2>2
<1> HIDE DEF lower
<1>3. lower = body(lower)
  BY <1>2 DEF lower
<1>4. Behind = CHOOSE h : h = body(h)
  BY DEF Behind
<1>5. g = body(g)
  BY <1>3, <1>4
<1> HIDE DEF g
<1>6. ASSUME bad # {} PROVE FALSE
  <2>1. ranks \subseteq Nat /\ ranks # {}
    BY <1>1, <1>6 DEF Ordered
  <2>2. PICK k \in ranks : \A j \in ranks : k <= j
    BY <2>1, Seqs!LeastNat
  <2>3. PICK d \in bad : k = r[d]
    OBVIOUS
  <2> DEFINE m == next[d][0]
  <2>4. /\ lower[d] = IF m = Nil THEN {} ELSE {m} \cup lower[m]
        /\ g[d] = IF m = Nil THEN {} ELSE {m} \cup g[m]
    BY <1>1, <1>5, <1>2
  <2>5. m # Nil /\ g[m] # lower[m]
    BY <2>4
  <2>6. OnLevel(r, d, 0) /\ 0 \in Levels
    BY <1>1, BiModalAssumption DEF OnLevel, Cells, On, Ordered, Levels, TypeOK
  <2>7. m \in On(r) /\ r[m] < r[d]
    BY <1>1, <2>5, <2>6 DEF Ordered, FirstBehind
  <2>8. r[m] \in Nat /\ r[d] \in Nat /\ m \in bad
    BY <1>1, <2>5, <2>7 DEF Ordered, Cell, Cells
  <2> QED BY <2>2, <2>3, <2>7, <2>8
<1>7. \A c \in Cells(r) : g[c] = lower[c]
  BY <1>6
<1> QED BY <1>1, <1>7 DEF g, lower

-----------------------------------------------------------------------------
(***************************************************************************)
(* The texts once the characters of x are replaced by e.                   *)
(***************************************************************************)
(* The number of characters behind c and before x.                          *)
Ahead(w, c) == Len(w[c]) - Len(w[x]) - Size(x)

Rewritten(r, w, e) ==
  [c \in Cell |-> IF r[x] < r[c] THEN SubSeq(w[c], 1, Ahead(w, c)) \o e \o w[x]
                                 ELSE w[c]]

(* The parts of the text behind a cell before x.                            *)
LEMMA AheadIs ==
  ASSUME TypeOK, NEW r, Ordered(r), NEW w, Texts(w), x \in On(r),
         NEW c \in Cells(r), r[x] < r[c]
  PROVE  /\ Ahead(w, c) \in Nat
         /\ Len(w[c]) = Ahead(w, c) + Size(x) + Len(w[x])
         /\ SubSeq(w[c], 1, Ahead(w, c)) \in Seq(Char)
         /\ Len(SubSeq(w[c], 1, Ahead(w, c))) = Ahead(w, c)
<1>1. c \in Cell /\ x \in Node /\ x \in Cell
  BY DEF Cells, On, Cell
<1>2. w[c] \in Seq(Char) /\ w[x] \in Seq(Char) /\ data[x] \in Seq(Char)
  BY <1>1 DEF Texts, TypeOK
<1>3. Len(w[c]) \in Nat /\ Len(w[x]) \in Nat /\ Size(x) \in Nat
  BY <1>2 DEF Size
<1>4. Len(w[c]) >= Len(w[x]) + Size(x)
  BY Apart
<1>5. PICK n \in Nat, b \in Nat, s \in Nat :
        n = Len(w[c]) /\ b = Len(w[x]) /\ s = Size(x)
  BY <1>3
<1>6. n >= b + s
  BY <1>4, <1>5
<1>7. PICK k \in Nat : k = n - b - s
  BY <1>6
<1>8. n = k + s + b /\ k \in 0 .. n
  BY <1>7
<1>9. k = Ahead(w, c) /\ k \in 0 .. Len(w[c])
  BY <1>5, <1>7, <1>8 DEF Ahead
<1>10. SubSeq(w[c], 1, k) \in Seq(Char) /\ Len(SubSeq(w[c], 1, k)) = k
  BY <1>2, <1>9, Seqs!SeqParts
<1> QED BY <1>5, <1>8, <1>9, <1>10

(* From a cell to the next one the new text is passed on, up to x.          *)
PassedOn(r, w, e, z) ==
  /\ z \in [Cell -> Seq(Char)]
  /\ \A c \in Cell : ~ r[x] < r[c] => z[c] = w[c]
  /\ \A c \in Cells(r) : r[x] < r[c] =>
       /\ next[c][0] \in On(r) /\ r[next[c][0]] < r[c]
       /\ next[c][0] = x => z[c] = e \o w[x]
       /\ next[c][0] # x => /\ r[x] < r[next[c][0]]
                           /\ z[c] = data[next[c][0]] \o z[next[c][0]]
       /\ Len(z[c]) = Ahead(w, c) + Len(e) + Len(w[x])

(* The rewritten texts are passed on from cell to cell.                     *)
LEMMA RewrittenIs ==
  ASSUME TypeOK, Whole, NEW r, Ordered(r), NEW w, Texts(w), x \in On(r),
         NEW e \in Seq(Char), NEW z, z = Rewritten(r, w, e)
  PROVE  PassedOn(r, w, e, z)
<1>1. Cells(r) \subseteq Cell /\ On(r) \subseteq Cells(r) /\ x \in Cell /\ x \in Cells(r)
  BY DEF Cells, On, Cell
<1>2. \A c \in Cell : w[c] \in Seq(Char)
  BY DEF Texts
<1>3. \A c \in Cell : r[x] < r[c] => c \in Cells(r)
  BY <1>1 DEF Ordered, Cells, On, Cell
<1>4. ASSUME NEW c \in Cells(r), r[x] < r[c]
      PROVE  z[c] \in Seq(Char) /\ Len(z[c]) = Ahead(w, c) + Len(e) + Len(w[x])
  <2>1. PICK p \in Seq(Char) : p = SubSeq(w[c], 1, Ahead(w, c)) /\ Len(p) = Ahead(w, c)
    BY <1>4, AheadIs
  <2>2. PICK b \in Seq(Char) : b = w[x]
    BY <1>1, <1>2
  <2>3. p \o e \o b \in Seq(Char) /\ Len(p \o e \o b) = Len(p) + Len(e) + Len(b)
    OBVIOUS
  <2>4. z[c] = p \o e \o b
    BY <1>1, <1>4, <2>1, <2>2 DEF Rewritten
  <2> QED BY <2>1, <2>2, <2>3, <2>4
<1>5. \A c \in Cell : ~ r[x] < r[c] => z[c] = w[c]
  BY DEF Rewritten
<1>6. z \in [Cell -> Seq(Char)]
  <2>1. \A c \in Cell : z[c] \in Seq(Char)
    BY <1>2, <1>3, <1>4, <1>5
  <2>2. z = [c \in Cell |-> z[c]]
    BY DEF Rewritten
  <2> QED BY <2>1, <2>2
<1>7. ASSUME NEW c \in Cells(r), r[x] < r[c]
      PROVE  /\ next[c][0] \in On(r) /\ r[next[c][0]] < r[c]
             /\ next[c][0] = x => z[c] = e \o w[x]
             /\ next[c][0] # x => /\ r[x] < r[next[c][0]]
                                 /\ z[c] = data[next[c][0]] \o z[next[c][0]]
  <2>1. PICK m \in On(r) : m = next[c][0] /\ r[m] < r[c] /\ r[x] <= r[m] /\ m \in Cell /\ m # Nil
    BY <1>1, <1>7, NextIsFirst, BiModalAssumption DEF On
  <2>2. PICK d \in Seq(Char), t \in Seq(Char), b \in Seq(Char) :
          d = data[m] /\ t = w[m] /\ b = w[x] /\ Len(d) = Size(m)
    BY <1>1, <1>2, <2>1 DEF TypeOK, On, Size
  <2>3. w[c] = d \o t
    BY <1>1, <2>1, <2>2 DEF Texts
  <2>4. z[c] = SubSeq(w[c], 1, Ahead(w, c)) \o e \o b
    BY <1>1, <1>7, <2>2 DEF Rewritten
  <2>5. Len(w[c]) = Len(d) + Len(t)
    <3>1. Len(d \o t) = Len(d) + Len(t)
      OBVIOUS
    <3> QED BY <2>3, <3>1
  <2>6. CASE m = x
    <3>1. Ahead(w, c) = 0
      <4>1. Len(w[c]) = Size(x) + Len(w[x]) /\ Size(x) \in Nat /\ Len(w[x]) \in Nat
        BY <2>2, <2>5, <2>6
      <4>2. PICK i \in Nat, j \in Nat : i = Size(x) /\ j = Len(w[x])
        BY <4>1
      <4>3. Ahead(w, c) = (i + j) - j - i
        BY <4>1, <4>2 DEF Ahead
      <4> QED BY <4>3
    <3>2. SubSeq(w[c], 1, 0) = << >>
      BY <1>1, <1>2
    <3>3. << >> \o e \o b = e \o b
      OBVIOUS
    <3> QED BY <2>1, <2>2, <2>4, <2>6, <3>1, <3>2, <3>3
  <2>7. CASE m # x
    <3>1. r[x] < r[m] /\ m \in Cells(r)
      BY <1>1, <2>1, <2>7, SameRank DEF Ordered
    <3>2. PICK k \in Nat : k = Ahead(w, m) /\ k \in 0 .. Len(t)
      <4>1. /\ Ahead(w, m) \in Nat
            /\ Len(w[m]) = Ahead(w, m) + Size(x) + Len(w[x])
        BY <3>1, AheadIs
      <4>2. Size(x) \in Nat /\ Len(b) \in Nat
        <5>1. data[x] \in Seq(Char)
          BY <1>1 DEF TypeOK, On
        <5> QED BY <5>1 DEF Size
      <4>3. PICK k \in Nat : k = Ahead(w, m)
        BY <4>1
      <4>4. Len(t) = k + Size(x) + Len(b)
        BY <2>2, <4>1, <4>3
      <4> QED BY <4>2, <4>3, <4>4
    <3>3. Ahead(w, c) = Len(d) + k
      <4>1. PICK i \in Int, j \in Int, n \in Int, l \in Int :
              i = Len(d) /\ j = Len(t) /\ n = Size(x) /\ l = Len(b)
        BY <1>1 DEF Size, TypeOK, On
      <4>2. Ahead(w, c) = (i + j) - l - n
        BY <2>2, <2>5, <4>1 DEF Ahead
      <4>3. k = j - l - n
        BY <2>2, <3>2, <4>1 DEF Ahead
      <4>4. (i + j) - l - n = i + (j - l - n)
        OBVIOUS
      <4> QED BY <4>1, <4>2, <4>3, <4>4
    <3>4. SubSeq(d \o t, 1, Len(d) + k) = d \o SubSeq(t, 1, k)
      BY <3>2, Seqs!PrefixRight
    <3>5. PICK p \in Seq(Char) : p = SubSeq(t, 1, k)
      BY <3>2, Seqs!SeqParts
    <3>6. z[m] = p \o e \o b
      BY <2>1, <2>2, <3>1, <3>2, <3>5 DEF Rewritten
    <3>7. (d \o p) \o e \o b = d \o (p \o e \o b)
      BY SMTT(60)
    <3> QED BY <2>1, <2>2, <2>3, <2>4, <2>7, <3>1, <3>3, <3>4, <3>5, <3>6, <3>7
  <2> QED BY <2>6, <2>7
<1> QED BY <1>4, <1>5, <1>6, <1>7 DEF PassedOn

(* The text behind c as it is.                                              *)
LEMMA NotRewritten ==
  ASSUME TypeOK, Whole, NEW r, Ordered(r), NEW w, Texts(w), x \in On(r)
  PROVE  \A c \in Cells(r) : r[x] < r[c] =>
           w[c] = SubSeq(w[c], 1, Ahead(w, c)) \o data[x] \o w[x]
<1> DEFINE bad == {c \in Cells(r) : r[x] < r[c] /\ Rewritten(r, w, data[x])[c] # w[c]}
           ranks == {r[c] : c \in bad}
<1>1. Cells(r) \subseteq Cell /\ On(r) \subseteq Cells(r) /\ x \in Cell /\ data[x] \in Seq(Char)
  BY DEF Cells, On, Cell, TypeOK
<1>2. PICK e, z : e \in Seq(Char) /\ e = data[x] /\ z = Rewritten(r, w, e)
  BY <1>1
<1>3. ASSUME bad # {} PROVE FALSE
  <2>1. ranks \subseteq Nat /\ ranks # {}
    BY <1>1, <1>3 DEF Ordered
  <2>2. PICK k \in ranks : \A j \in ranks : k <= j
    BY <2>1, Seqs!LeastNat
  <2>3. PICK d \in bad : k = r[d]
    OBVIOUS
  <2>4. d \in Cells(r) /\ r[x] < r[d] /\ z[d] # w[d]
    BY <1>2, <2>3
  <2>5. PICK m \in On(r) : /\ m = next[d][0] /\ r[m] < r[d] /\ m # Nil
                           /\ m = x => z[d] = e \o w[x]
                           /\ m # x => r[x] < r[m] /\ z[d] = data[m] \o z[m]
    <3>1. PassedOn(r, w, e, z)
      BY <1>2, RewrittenIs
    <3>2. Nil \notin On(r)
      BY BiModalAssumption DEF On
    <3> QED BY <2>4, <3>1, <3>2 DEF PassedOn
  <2>6. w[d] = data[m] \o w[m]
    BY <1>1, <2>4, <2>5 DEF Texts
  <2>7. m # x /\ r[x] < r[m] /\ z[m] # w[m]
    BY <1>2, <2>4, <2>5, <2>6
  <2>8. m \in bad
    BY <1>1, <1>2, <2>7
  <2>9. r[m] \in Nat /\ r[d] \in Nat /\ k <= r[m]
    BY <1>1, <2>2, <2>4, <2>8 DEF Ordered
  <2> QED BY <2>3, <2>5, <2>9
<1> QED BY <1>1, <1>3 DEF Rewritten

(* An edit of x is an edit of the text.                                     *)
LEMMA EditsText ==
  ASSUME TypeOK, Whole, NEW r, Ordered(r), NEW w, Texts(w), x \in On(r),
         NEW c \in Cells(r), r[x] < r[c],
         NEW s \in Seq(Char), NEW p \in 0 .. Size(x), NEW q \in 1 .. Size(x) + 1
  PROVE  Rewritten(r, w, Seqs!Splice(data[x], p, s, q))[c]
           = Seqs!Splice(w[c], Ahead(w, c) + p, s, Ahead(w, c) + q)
<1>1. c \in Cell /\ x \in Cell
  BY DEF Cells, On, Cell
<1>2. PICK a \in Seq(Char) : a = SubSeq(w[c], 1, Ahead(w, c)) /\ Len(a) = Ahead(w, c)
  BY AheadIs
<1>3. PICK d \in Seq(Char), b \in Seq(Char) : d = data[x] /\ b = w[x] /\ Len(d) = Size(x)
  BY <1>1 DEF Texts, TypeOK, On, Size
<1>4. w[c] = a \o d \o b
  BY <1>2, <1>3, NotRewritten
<1>5. p \in 0 .. Len(d) /\ q \in 1 .. Len(d) + 1
  BY <1>3
<1>6. a \o Seqs!Splice(d, p, s, q) = Seqs!Splice(a \o d, Len(a) + p, s, Len(a) + q)
  BY <1>5, Seqs!SpliceRight
<1> DEFINE m == a \o d
           i == Len(a) + p
           j == Len(a) + q
<1>7. m \in Seq(Char) /\ i \in 0 .. Len(m) /\ j \in 1 .. Len(m) + 1
  BY <1>5
<1> HIDE DEF m, i, j
<1>8. Seqs!Splice(m, i, s, j) \o b = Seqs!Splice(m \o b, i, s, j)
  BY <1>7, Seqs!SpliceLeft, SMTT(30)
<1> QED BY <1>1, <1>2, <1>3, <1>4, <1>6, <1>8, ZenonT(60) DEF Rewritten, m, i, j

-----------------------------------------------------------------------------
(***************************************************************************)
(* Steps that leave the lists alone.                                       *)
(***************************************************************************)

(* The ranks fit as long as the links do.                                   *)
LEMMA SameLists ==
  ASSUME NEW r, Ordered(r), UNCHANGED <<level, next, span>>, Whole' = Whole
  PROVE  Ordered(r)'
BY DEF Ordered, On, Cells, OnLevel, FirstBehind, Allocated

(* The texts and the spans fit as long as nothing is moved.                 *)
LEMMA SameHeap ==
  ASSUME NEW r, NEW w, Ordered(r), Held(r, w),
         UNCHANGED <<level, next, span, data, total_size>>, Whole, Whole'
  PROVE  Ordered(r)' /\ Held(r, w)'
<1>1. Ordered(r)'
  BY SameLists
<1>2. Texts(w)'
  BY DEF Held, Texts
<1>3. Spanned(r, w)'
  BY DEF Held, Spanned, OnLevel, Cells, On, After
<1>4. Sized(w)' /\ NoneEmpty(r)'
  BY DEF Held, Sized, NoneEmpty, On
<1> QED BY <1>1, <1>2, <1>3, <1>4 DEF Held

(* A call begins.                                                           *)
LEMMA CallKeeps ==
  ASSUME TypeOK, NEW r, NEW w, Good(r, w),
         CallInsert \/ CallErase \/ CallOptimize \/ CallClear
  PROVE  TypeOK' /\ Good(r, w)'
<1>1. PICK q : /\ Call(q) /\ q \in Request
               /\ q.op = "insert" => /\ q.str \in Inputs
                                     /\ Len(Text) + Len(q.str) <= MaxText
               /\ q.op = "erase" => q.len \in EraseLens
  <2>1. CASE CallInsert
    <3>1. PICK s \in Inputs, p \in 0 .. total_size + 1 :
            /\ Len(Text) + Len(s) <= MaxText
            /\ Call([op |-> "insert", pos |-> p, str |-> s, len |-> 0])
      BY <2>1 DEF CallInsert
    <3> DEFINE q == [op |-> "insert", pos |-> p, str |-> s, len |-> 0]
    <3>2. q \in Request /\ q.op = "insert" /\ q.str = s
      BY BiModalAssumption DEF Request, TypeOK
    <3> HIDE DEF q
    <3> QED BY <3>1, <3>2 DEF q
  <2>2. CASE CallErase
    <3>1. PICK n \in EraseLens, p \in 0 .. total_size :
            Call([op |-> "erase", pos |-> p, str |-> << >>, len |-> n])
      BY <2>2 DEF CallErase
    <3> DEFINE q == [op |-> "erase", pos |-> p, str |-> << >>, len |-> n]
    <3>2. q \in Request /\ q.op = "erase" /\ q.len = n
      BY BiModalAssumption DEF Request, TypeOK
    <3> HIDE DEF q
    <3> QED BY <3>1, <3>2 DEF q
  <2>3. CASE CallOptimize
    <3> DEFINE q == [op |-> "keep", pos |-> 0, str |-> << >>, len |-> 0]
    <3>1. q \in Request /\ q.op = "keep" /\ Call(q)
      BY <2>3 DEF Request, CallOptimize
    <3> HIDE DEF q
    <3> QED BY <3>1
  <2>4. CASE CallClear
    <3> DEFINE q == [op |-> "clear", pos |-> 0, str |-> << >>, len |-> 0]
    <3>1. q \in Request /\ q.op = "clear" /\ Call(q)
      BY <2>4 DEF Request, CallClear
    <3> HIDE DEF q
    <3> QED BY <3>1
  <2> QED BY <2>1, <2>2, <2>3, <2>4
<1>2. pc = "idle" /\ Whole /\ Whole' /\ UNCHANGED <<heap, locals>> /\ pc' = "entry" /\ req' = q
  BY <1>1 DEF Call, Whole
<1>3. TypeOK'
  BY <1>1 DEF TypeOK, Call, heap, locals, Request, NoRequest
<1>4. Ordered(r)' /\ Held(r, w)'
  BY <1>2, SameHeap DEF Good, heap
<1>5. Text = w[head]
  BY <1>2, TextIs DEF Good, Held
<1>6. Served(w)'
  BY <1>1, <1>2, <1>5 DEF Served
<1> QED BY <1>2, <1>3, <1>4, <1>6 DEF Good

(* A call that changed nothing more returns.                                *)
LEMMA ReturnKeeps ==
  ASSUME TypeOK, NEW r, NEW w, Good(r, w), Whole,
         UNCHANGED <<level, next, span, data, total_size>>,
         mode' \in [Node -> {"gap", "compact"}],
         NEW how \in {"ok", "out_of_range", "bad_alloc"}, Return(how)
  PROVE  TypeOK' /\ Good(r, w)'
<1>1. pc' = "idle" /\ Whole' /\ req' = NoRequest
  BY DEF Return, Whole
<1>2. TypeOK'
  BY BiModalAssumption DEF TypeOK, Return, NoUpdate, Levels, Cell
<1>3. Ordered(r)' /\ Held(r, w)'
  BY <1>1, SameHeap DEF Good
<1>4. Served(w)'
  BY <1>1 DEF Served, NoRequest
<1> QED BY <1>1, <1>2, <1>3, <1>4 DEF Good

-----------------------------------------------------------------------------
(***************************************************************************)
(* find_node.                                                              *)
(***************************************************************************)

(* Cells are cells, and the sentinel has every level.                       *)
LEMMA CellFacts ==
  ASSUME TypeOK, NEW r, Ordered(r)
  PROVE  /\ On(r) \subseteq Node /\ Cells(r) \subseteq Cell
         /\ On(r) \subseteq Cells(r)
         /\ \A c \in Cell : r[c] \in Nat
         /\ \A n \in On(r) : r[n] < r[head] /\ level[n] > 0 /\ n # head /\ n # Nil
         /\ \A c \in Cell : level[c] \in Nat /\ level[c] <= MaxLevel
         /\ MaxLevel \in Nat \ {0} /\ 0 \in Levels /\ MaxLevel - 1 \in Levels
         /\ Levels \subseteq Nat /\ head \in Cell
         /\ Whole => \A i \in Levels : OnLevel(r, head, i)
BY BiModalAssumption DEF TypeOK, Ordered, On, Cells, Cell, Levels, OnLevel

(* What the variables are, one by one.                                      *)
LEMMA Kinds ==
  ASSUME TypeOK
  PROVE  /\ \A c \in Cell, i \in Levels : next[c][i] \in Pointer /\ span[c][i] \in Nat
         /\ \A c \in Cell : level[c] \in Nat
         /\ \A i \in Levels : update[i] \in Cell
         /\ acc \in Nat /\ total_size \in Nat /\ lvl \in Levels /\ lvl \in Nat
         /\ req.pos \in Nat /\ req.len \in Nat /\ req.str \in Seq(Char)
         /\ pc = "find" => x \in Cell
<1>1. \A c \in Cell, i \in Levels : next[c][i] \in Pointer /\ span[c][i] \in Nat
  BY DEF TypeOK
<1>2. \A c \in Cell : level[c] \in Nat
  BY BiModalAssumption DEF TypeOK
<1>3. \A i \in Levels : update[i] \in Cell
  BY DEF TypeOK
<1>4. acc \in Nat /\ total_size \in Nat /\ lvl \in Levels /\ lvl \in Nat
  BY DEF TypeOK, Levels
<1>5. req.pos \in Nat /\ req.len \in Nat /\ req.str \in Seq(Char)
  <2>1. req \in Request \cup {NoRequest}
    BY DEF TypeOK
  <2>2. CASE req \in Request
    BY <2>2 DEF Request
  <2>3. CASE req = NoRequest
    <3>1. req.pos = 0 /\ req.len = 0 /\ req.str = << >>
      BY <2>3 DEF NoRequest
    <3> QED BY <3>1
  <2> QED BY <2>1, <2>2, <2>3
<1>6. pc = "find" => x \in Cell
  BY DEF TypeOK
<1> QED BY <1>1, <1>2, <1>3, <1>4, <1>5, <1>6

(* Where the next link ends, and where it does not.                         *)
LEMMA Reaches ==
  \A a, s, p, h, b, c \in Int : a = h - b /\ s = b - c /\ ~ a + s < p => p <= h - c
OBVIOUS

(* What ends before the position, or is the head, ends at most there.       *)
LEMMA Within ==
  \A a, h, b \in Int, p \in Nat : a = h - b /\ (h = b \/ a < p) => a <= p
OBVIOUS

(* The texts have lengths, and nothing ends behind the end of the text.     *)
LEMMA TextFacts ==
  ASSUME TypeOK, NEW r, NEW w, Ordered(r), Texts(w)
  PROVE  /\ \A c \in Cell : w[c] \in Seq(Char) /\ Len(w[c]) \in Nat
         /\ \A n \in Node : data[n] \in Seq(Char) /\ Size(n) \in Nat
         /\ \A c \in Cells(r), n \in On(r) :
              r[n] <= r[c] => EndOf(w, c) <= EndOf(w, n)
<1>1. /\ \A c \in Cell : w[c] \in Seq(Char) /\ Len(w[c]) \in Nat
      /\ \A n \in Node : data[n] \in Seq(Char) /\ Size(n) \in Nat
  BY DEF Texts, TypeOK, Size
<1>2. ASSUME NEW c \in Cells(r), NEW n \in On(r), r[n] <= r[c]
      PROVE  EndOf(w, c) <= EndOf(w, n)
  <2>1. c \in Cell /\ n \in Cells(r) /\ n \in Node /\ n \in Cell /\ head \in Cell
    BY CellFacts DEF Cell
  <2>2. CASE r[n] = r[c]
    <3>1. n = c
      BY <2>1, <2>2, SameRank
    <3> QED BY <1>1, <2>1, <3>1 DEF EndOf
  <2>3. CASE r[n] # r[c]
    <3>1. r[n] < r[c]
      BY <1>2, <2>1, <2>3, CellFacts
    <3>2. Len(w[c]) >= Len(w[n]) + Size(n)
      BY <3>1, Apart
    <3> QED BY <1>1, <2>1, <3>2 DEF EndOf
  <2> QED BY <2>2, <2>3
<1> QED BY <1>1, <1>2

(* A search begins at the sentinel.                                         *)
LEMMA StartKeeps ==
  ASSUME TypeOK, NEW r, NEW w, Good(r, w), Whole, FindStart,
         UNCHANGED <<heap, req, outcome>>, req # NoRequest, Served(w)'
  PROVE  TypeOK' /\ Good(r, w)'
<1>1. Whole' /\ pc' = "find"
  BY DEF FindStart, Whole
<1>2. TypeOK'
  BY CellFacts DEF TypeOK, FindStart, NoUpdate, heap, Good
<1>3. Ordered(r)' /\ Held(r, w)'
  BY <1>1, SameHeap DEF Good, heap
<1>4. Finding(r, w)'
  <2>1. OnLevel(r, head, MaxLevel - 1)'
    BY <1>1, CellFacts DEF OnLevel, Cells, Good, heap, On
  <2>2. EndOf(w, head) = 0
    BY TextFacts, CellFacts DEF Good, Held, EndOf
  <2>3. ~ \E i \in Levels : i > MaxLevel - 1
    BY BiModalAssumption DEF Levels
  <2> QED BY <2>1, <2>2, <2>3 DEF Finding, FindStart, EndOf
<1> QED BY <1>1, <1>2, <1>3, <1>4 DEF Good

(* One step along a level.                                                  *)
LEMMA AdvanceKeeps ==
  ASSUME TypeOK, NEW r, NEW w, Good(r, w), FindAdvance
  PROVE  TypeOK' /\ Good(r, w)'
<1>1. Whole /\ Whole' /\ pc = "find" /\ pc' = "find"
  BY DEF FindAdvance, Whole
<1>2. Ordered(r) /\ Held(r, w) /\ Finding(r, w) /\ Texts(w)
  BY <1>1 DEF Good, Held
<1>3. x \in Cells(r) /\ x \in Cell /\ lvl \in Levels /\ OnLevel(r, x, lvl)
  BY <1>1, <1>2, CellFacts, Kinds DEF Finding, OnLevel
<1>4. PICK m \in On(r) : /\ m = next[x][lvl] /\ level[m] > lvl /\ r[m] < r[x]
  BY <1>2, <1>3 DEF FindAdvance, NextEndsBefore, Ordered, FirstBehind
<1>5. m \in Cell /\ m \in Node /\ m # Nil /\ m # head /\ m \in Cells(r)
  BY <1>2, CellFacts DEF Cell
<1>6. span[x][lvl] = Len(w[x]) - Len(w[m])
  BY <1>2, <1>3, <1>4, <1>5 DEF Held, Spanned, After
<1>7. acc' = acc + span[x][lvl] /\ acc' < req.pos /\ acc' \in Nat
  BY <1>3, Kinds DEF FindAdvance, NextEndsBefore
<1>8. acc' = EndOf(w, m)
  <2>1. acc = EndOf(w, x)
    BY <1>2 DEF Finding
  <2>2. Len(w[x]) \in Nat /\ Len(w[m]) \in Nat /\ Len(w[head]) \in Nat
    BY <1>2, <1>3, <1>5, TextFacts DEF Cell
  <2> QED BY <1>6, <1>7, <2>1, <2>2 DEF EndOf
<1>9. TypeOK'
  <2>1. x' = m
    BY <1>4 DEF FindAdvance
  <2> QED BY <1>1, <1>5, <1>7, <2>1 DEF TypeOK, FindAdvance, heap
<1>10. Ordered(r)' /\ Held(r, w)'
  BY <1>1, <1>2, SameHeap DEF FindAdvance, heap
<1>11. Served(w)'
  BY <1>1 DEF Good, Served, FindAdvance, heap
<1>12. Finding(r, w)'
  <2>1. x' = m /\ UNCHANGED <<lvl, update, req, level, next>>
    BY <1>4 DEF FindAdvance, heap
  <2>2. OnLevel(r, x, lvl)'
    BY <1>1, <1>4, <1>5, <2>1 DEF OnLevel, Cells, On
  <2>3. ASSUME NEW i \in Levels, i > lvl
        PROVE  /\ OnLevel(r, update[i], i)'
               /\ r[m] <= r[update[i]]
               /\ \A n \in On(r) : level[n] > i /\ r[n] < r[update[i]] =>
                    req.pos <= EndOf(w, n)
    <3>1. /\ OnLevel(r, update[i], i) /\ r[x] <= r[update[i]]
          /\ \A n \in On(r) : level[n] > i /\ r[n] < r[update[i]] =>
               req.pos <= EndOf(w, n)
      BY <1>2, <2>3 DEF Finding
    <3>2. OnLevel(r, update[i], i)'
      BY <1>1, <2>1, <3>1 DEF OnLevel, Cells, On
    <3>3. r[m] <= r[update[i]]
      BY <1>2, <1>3, <1>4, <1>5, <3>1, Kinds, CellFacts, SMTT(30)
    <3> QED BY <3>1, <3>2, <3>3
  <2>4. (x = head \/ acc < req.pos)' /\ (acc = EndOf(w, x))'
    BY <1>7, <1>8, <2>1 DEF EndOf
  <2>5. (\A i \in Levels : i > lvl =>
           /\ OnLevel(r, update[i], i)
           /\ r[x] <= r[update[i]]
           /\ \A n \in On(r) : level[n] > i /\ r[n] < r[update[i]] =>
                req.pos <= EndOf(w, n))'
    BY <2>1, <2>3 DEF On, EndOf
  <2> QED BY <2>2, <2>4, <2>5 DEF Finding
<1> QED BY <1>1, <1>9, <1>10, <1>11, <1>12 DEF Good

(* At the end of a level, the link of x is the one that reaches the         *)
(* position.                                                                *)
LEMMA LinkReaches ==
  ASSUME TypeOK, NEW r, NEW w, Good(r, w), FindDescend,
         NEW n \in On(r), level[n] > lvl, r[n] < r[x]
  PROVE  req.pos <= EndOf(w, n)
<1>1. Whole /\ pc = "find"
  BY DEF FindDescend, Whole
<1>2. Ordered(r) /\ Held(r, w) /\ Finding(r, w) /\ Texts(w)
  BY <1>1 DEF Good, Held
<1>3. x \in Cells(r) /\ x \in Cell /\ lvl \in Levels /\ OnLevel(r, x, lvl)
  BY <1>1, <1>2, CellFacts DEF Finding, OnLevel, TypeOK
<1>4. PICK m \in On(r) : m = next[x][lvl] /\ r[n] <= r[m] /\ m # Nil
  BY <1>2, <1>3 DEF Ordered, FirstBehind
<1>5. span[x][lvl] = Len(w[x]) - Len(w[m])
  BY <1>2, <1>3, <1>4, CellFacts DEF Held, Spanned, After
<1>6. req.pos <= EndOf(w, m)
  <2>1. acc = EndOf(w, x)
    BY <1>2 DEF Finding
  <2>2. Len(w[x]) \in Int /\ Len(w[m]) \in Int /\ Len(w[head]) \in Int
    BY <1>2, <1>3, <1>4, TextFacts, CellFacts DEF Cell
  <2>3. ~ acc + span[x][lvl] < req.pos
    BY <1>4 DEF FindDescend, NextEndsBefore
  <2>4. span[x][lvl] \in Int /\ acc \in Int /\ req.pos \in Int
    BY <1>3, Kinds
  <2>5. acc = Len(w[head]) - Len(w[x])
    BY <2>1 DEF EndOf
  <2>6. req.pos <= Len(w[head]) - Len(w[m])
    BY <1>5, <2>2, <2>3, <2>4, <2>5, Reaches
  <2> QED BY <2>6 DEF EndOf
<1>7. EndOf(w, m) <= EndOf(w, n)
  BY <1>2, <1>4, TextFacts, CellFacts
<1>8. EndOf(w, m) \in Int /\ EndOf(w, n) \in Int /\ req.pos \in Int
  BY <1>2, <1>4, TextFacts, CellFacts DEF EndOf, TypeOK, Request, NoRequest, Cell
<1> QED BY <1>6, <1>7, <1>8

(* The search goes down a level, or ends below the last one.                *)
LEMMA DescendKeeps ==
  ASSUME TypeOK, NEW r, NEW w, Good(r, w), FindDescend
  PROVE  TypeOK' /\ Good(r, w)'
<1>1. Whole /\ Whole' /\ pc = "find" /\ update' = [update EXCEPT ![lvl] = x]
  BY DEF FindDescend, Whole
<1>2. Ordered(r) /\ Held(r, w) /\ Finding(r, w) /\ Texts(w) /\ Sized(w)
  BY <1>1 DEF Good, Held
<1>3. x \in Cells(r) /\ x \in Cell /\ lvl \in Levels /\ OnLevel(r, x, lvl)
  BY <1>1, <1>2, CellFacts DEF Finding, OnLevel, TypeOK
<1>4. UNCHANGED <<level, next, span, mode, data, total_size, req, outcome, acc>>
  BY DEF FindDescend, heap
<1>5. TypeOK'
  <2>1. /\ x' \in Cell \cup {Nil} /\ lvl' \in Levels /\ pc' \in {"find", "found"}
        /\ pc' = "find" => x' \in Cell
        /\ pc' = "found" => x' \in Pointer
    BY <1>1, <1>3, BiModalAssumption DEF FindDescend, Levels, TypeOK, Pointer, Cell
  <2>2. update' \in [Levels -> Cell]
    BY <1>1, <1>3 DEF TypeOK
  <2> QED BY <1>1, <1>4, <2>1, <2>2 DEF TypeOK
<1>6. Ordered(r)' /\ Held(r, w)'
  BY <1>1, <1>2, <1>4, SameHeap
<1>7. Served(w)'
  BY <1>1, <1>4 DEF Good, Served, FindDescend
<1>8. ASSUME NEW i \in Levels, i >= lvl
      PROVE  /\ update'[i] \in Cells(r) /\ OnLevel(r, update'[i], i)
             /\ r[x] <= r[update'[i]]
             /\ \A n \in On(r) : level[n] > i /\ r[n] < r[update'[i]] =>
                  req.pos <= EndOf(w, n)
  <2>1. CASE i = lvl
    <3>1. update'[i] = x
      BY <1>1, <1>3, <2>1 DEF TypeOK
    <3> QED BY <1>2, <1>3, <2>1, <3>1, LinkReaches, CellFacts
  <2>2. CASE i # lvl
    <3>1. update'[i] = update[i] /\ i > lvl
      BY <1>1, <1>3, <1>8, <2>2 DEF TypeOK, Levels
    <3> QED BY <1>2, <3>1 DEF Finding, OnLevel
  <2> QED BY <2>1, <2>2
<1>9. \A i \in Levels, c \in Cell : OnLevel(r, c, i) => OnLevel(r, c, i)'
  BY <1>1, <1>4 DEF OnLevel, Cells, On
<1>10. ASSUME lvl > 0
       PROVE  Good(r, w)'
  <2>1. pc' = "find" /\ x' = x /\ lvl' = lvl - 1
    BY <1>1, <1>10 DEF FindDescend
  <2>2. OnLevel(r, x, lvl)'
    BY <1>1, <1>3, <1>4, <2>1, Kinds DEF OnLevel, Cells, On
  <2>3. \A i \in Levels : i > lvl' => i >= lvl
    BY <1>3, <2>1, Kinds DEF Levels
  <2>4. \A i \in Levels : i > lvl' => OnLevel(r, update[i], i)'
    BY <1>1, <1>4, <1>8, <2>3 DEF OnLevel, Cells, On
  <2>5. (x = head \/ acc < req.pos)' /\ (acc = EndOf(w, x))'
    BY <1>2, <1>4, <2>1 DEF Finding, EndOf
  <2>6. (\A i \in Levels : i > lvl =>
           /\ r[x] <= r[update[i]]
           /\ \A n \in On(r) : level[n] > i /\ r[n] < r[update[i]] =>
                req.pos <= EndOf(w, n))'
    BY <1>4, <1>8, <2>1, <2>3 DEF On, EndOf
  <2>7. Finding(r, w)'
    BY <2>2, <2>4, <2>5, <2>6 DEF Finding
  <2> QED BY <1>1, <1>6, <1>7, <2>1, <2>7 DEF Good
<1>11. ASSUME ~ lvl > 0
       PROVE  Good(r, w)'
  <2>1. lvl = 0
    BY <1>3, <1>11 DEF Levels
  <2>2. pc' = "found" /\ x' = next[x][0] /\ update'[0] = x
    BY <1>1, <1>3, <1>11, <2>1 DEF FindDescend, TypeOK
  <2>3. acc = EndOf(w, x) /\ acc <= req.pos
    <3>1. acc = EndOf(w, x) /\ (x = head \/ acc < req.pos)
      BY <1>2 DEF Finding
    <3>2. Len(w[head]) \in Int /\ Len(w[x]) \in Int /\ acc \in Int /\ req.pos \in Nat
      BY <1>2, <1>3, TextFacts, Kinds DEF Cell
    <3>3. acc = Len(w[head]) - Len(w[x])
      BY <3>1 DEF EndOf
    <3>4. Len(w[head]) = Len(w[x]) \/ acc < req.pos
      BY <3>1
    <3>5. acc <= req.pos
      BY <3>2, <3>3, <3>4, Within
    <3> QED BY <3>1, <3>5
  <2>4. ASSUME NEW i \in Levels
        PROVE  LastBefore(r, update'[i], x, i)
    <3>1. /\ OnLevel(r, update'[i], i) /\ r[x] <= r[update'[i]]
          /\ \A n \in On(r) : level[n] > i /\ r[n] < r[update'[i]] =>
                  req.pos <= EndOf(w, n)
      BY <1>8, <2>1 DEF Levels
    <3>2. update'[i] \in Cell
      BY <1>5 DEF TypeOK
    <3>3. ASSUME NEW n \in On(r), level[n] > i, r[x] <= r[n], r[n] < r[update'[i]]
          PROVE  FALSE
      <4>1. req.pos <= EndOf(w, n)
        BY <3>1, <3>3
      <4>2. x # head
        BY <1>2, <3>3, CellFacts DEF Cell
      <4>3. x \in On(r) /\ acc < req.pos
        BY <1>2, <1>3, <4>2 DEF Finding, Cells
      <4>4. EndOf(w, n) <= EndOf(w, x)
        BY <1>2, <3>3, <4>3, TextFacts, CellFacts
      <4>5. EndOf(w, n) \in Int /\ EndOf(w, x) \in Int /\ req.pos \in Int
        BY <1>2, <1>3, TextFacts, CellFacts DEF EndOf, TypeOK, Request, NoRequest, Cell
      <4> QED BY <2>3, <4>1, <4>3, <4>4, <4>5
    <3> QED BY <1>2, <3>1, <3>2, <3>3, CellFacts DEF LastBefore, Cell
  <2>5. ASSUME next[x][0] = Nil, NEW n \in On(r)
        PROVE  FALSE
    <3>1. ~ r[n] < r[x]
      BY <1>2, <1>3, <2>5, NextIsFirst, CellFacts
    <3>2. x # head
      BY <1>2, <3>1, CellFacts
    <3>3. acc < req.pos /\ w[x] = << >>
      BY <1>2, <1>3, <2>5, <3>2 DEF Finding, Texts
    <3>4. req.pos <= total_size /\ total_size <= Len(w[head])
      BY <1>1, <1>2 DEF Good, Served, Sized
    <3>5. Len(w[head]) \in Nat /\ acc = Len(w[head])
      BY <1>2, <2>3, <3>3, TextFacts DEF EndOf, Cell
    <3> QED BY <3>3, <3>4, <3>5, Kinds
  <2>6. Targeting(r, w)'
    BY <1>1, <1>4, <2>2, <2>3, <2>4, <2>5, <1>5, <1>9 DEF Targeting, EndOf, On, LastBefore, TypeOK
  <2> QED BY <1>1, <1>6, <1>7, <2>2, <2>6 DEF Good
<1> QED BY <1>5, <1>10, <1>11

(* The target of a search: it is the first node behind update[0], and acc   *)
(* is where it begins.                                                      *)
LEMMA TargetIs ==
  ASSUME TypeOK, NEW r, NEW w, Good(r, w), pc = "found", x # Nil
  PROVE  /\ x \in On(r) /\ x \in Node /\ x \in Cell /\ x \in Cells(r) /\ x # head
         /\ update[0] \in Cells(r) /\ next[update[0]][0] = x
         /\ r[x] < r[update[0]]
         /\ \A n \in On(r) : r[n] < r[update[0]] => r[n] <= r[x]
         /\ w[update[0]] = data[x] \o w[x]
         /\ acc <= req.pos /\ acc + Size(x) = EndOf(w, x)
         /\ req.pos <= Len(w[head])
         /\ \A i \in Levels : LastBefore(r, update[i], update[0], i)
<1>1. Whole
  BY DEF Whole
<1>2. Ordered(r) /\ Held(r, w) /\ Texts(w) /\ Sized(w) /\ Targeting(r, w) /\ Served(w)
  BY <1>1 DEF Good, Held
<1>3. PICK p \in Cells(r) : p = update[0] /\ OnLevel(r, p, 0) /\ p \in Cell
  BY <1>2, CellFacts DEF Targeting, LastBefore, OnLevel
<1>4. FirstBehind(r, p, 0) /\ x = next[p][0]
  BY <1>2, <1>3, CellFacts DEF Ordered, Targeting
<1>5. x \in On(r) /\ x \in Node /\ x \in Cell /\ x \in Cells(r) /\ x # head /\ r[x] < r[p]
  BY <1>2, <1>4, CellFacts DEF FirstBehind
<1>6. \A n \in On(r) : r[n] < r[p] => r[n] <= r[x]
  BY <1>2, <1>4, CellFacts DEF FirstBehind
<1>7. w[p] = data[x] \o w[x]
  BY <1>2, <1>3, <1>4 DEF Texts
<1>8. acc + Size(x) = EndOf(w, x)
  <2>1. w[p] \in Seq(Char) /\ w[x] \in Seq(Char) /\ data[x] \in Seq(Char) /\ Len(w[head]) \in Nat
    BY <1>2, <1>3, <1>5, TextFacts, CellFacts
  <2>2. Len(w[p]) = Size(x) + Len(w[x])
    BY <1>7, <2>1 DEF Size
  <2>3. Len(w[p]) \in Int /\ Len(w[x]) \in Int /\ Size(x) \in Int /\ acc \in Int /\ Len(w[head]) \in Int
    BY <2>1, Kinds DEF Size
  <2>4. acc = Len(w[head]) - Len(w[p])
    BY <1>2, <1>3 DEF Targeting, EndOf
  <2>5. PICK h \in Int, d \in Int, b \in Int, k \in Int, a \in Int :
          /\ h = Len(w[head]) /\ d = Len(w[p]) /\ b = Len(w[x])
          /\ k = Size(x) /\ a = acc
    BY <2>3
  <2>6. a + k = h - b
    <3>1. a = h - d /\ d = k + b
      BY <2>2, <2>4, <2>5
    <3> QED BY <3>1
  <2> QED BY <2>5, <2>6 DEF EndOf
<1>9. req.pos <= Len(w[head])
  <2>1. req.pos <= total_size /\ total_size <= Len(w[head])
    BY <1>2 DEF Served, Sized
  <2>2. req.pos \in Int /\ total_size \in Int /\ Len(w[head]) \in Int
    BY <1>2, Kinds, TextFacts, CellFacts
  <2> QED BY <2>1, <2>2
<1>10. acc <= req.pos /\ \A i \in Levels : LastBefore(r, update[i], update[0], i)
  BY <1>2 DEF Targeting
<1> QED BY <1>3, <1>4, <1>5, <1>6, <1>7, <1>8, <1>9, <1>10

(* A target that ends at the position is skipped.                           *)
LEMMA SkipKeeps ==
  ASSUME TypeOK, NEW r, NEW w, Good(r, w), FindSkip
  PROVE  TypeOK' /\ Good(r, w)'
<1>1. Whole /\ Whole' /\ pc = "found" /\ pc' = "found" /\ x # Nil
  BY DEF FindSkip, SkipsTarget, Whole
<1>2. Ordered(r) /\ Held(r, w) /\ Texts(w)
  BY <1>1 DEF Good, Held
<1>3. /\ UNCHANGED <<level, next, span, mode, data, total_size, req, outcome, lvl>>
      /\ x' = next[x][0] /\ x' # Nil /\ acc' = acc + Size(x)
      /\ update' = [i \in Levels |-> IF i < level[x] THEN x ELSE update[i]]
  BY DEF FindSkip, SkipsTarget, heap
<1>4. PICK p \in Cells(r) : /\ p = update[0]
                            /\ x \in On(r) /\ x \in Node /\ x \in Cell /\ x # head /\ r[x] < r[p]
                            /\ \A n \in On(r) : r[n] < r[p] => r[n] <= r[x]
                            /\ acc + Size(x) = EndOf(w, x)
                            /\ \A i \in Levels : LastBefore(r, update[i], p, i)
  BY <1>1, TargetIs
<1>5. update'[0] = x /\ update' \in [Levels -> Cell]
  BY <1>2, <1>3, <1>4, CellFacts DEF TypeOK
<1>6. acc' \in Nat /\ acc' <= req.pos
  <2>1. Offset >= Size(x)
    BY DEF FindSkip, SkipsTarget
  <2>2. acc \in Nat /\ Size(x) \in Nat /\ req.pos \in Nat
    BY <1>2, <1>4, TextFacts, Kinds
  <2> QED BY <1>3, <2>1, <2>2 DEF Offset
<1>7. TypeOK'
  <2>1. x' \in Pointer
    BY <1>2, <1>3, <1>4, Kinds, CellFacts
  <2> QED BY <1>1, <1>3, <1>5, <1>6, <2>1 DEF TypeOK, Pointer, Cell
<1>8. Ordered(r)' /\ Held(r, w)'
  BY <1>1, <1>2, <1>3, SameHeap
<1>9. Served(w)'
  BY <1>1, <1>3 DEF Good, Served
<1>10. ASSUME NEW i \in Levels
       PROVE  LastBefore(r, update'[i], x, i)
  <2>1. CASE i < level[x]
    <3>1. update'[i] = x
      BY <1>3, <2>1
    <3> QED BY <1>2, <1>4, <2>1, <3>1, CellFacts DEF LastBefore, OnLevel
  <2>2. CASE ~ i < level[x]
    <3>1. update'[i] = update[i] /\ LastBefore(r, update[i], p, i) /\ update[i] \in Cell
      BY <1>3, <1>4, <2>2 DEF TypeOK
    <3>2. r[x] <= r[update[i]]
      BY <1>2, <1>4, <3>1, CellFacts DEF LastBefore
    <3>3. ASSUME NEW n \in On(r), level[n] > i, r[x] <= r[n]
          PROVE  r[update[i]] <= r[n]
      <4>1. n # x /\ n \in Cells(r)
        BY <1>2, <2>2, <3>3, CellFacts
      <4>2. r[n] # r[x]
        BY <1>2, <1>4, <4>1 DEF Ordered
      <4>3. r[p] <= r[n]
        BY <1>2, <1>4, <3>3, <4>2, CellFacts
      <4> QED BY <3>1, <3>3, <4>3 DEF LastBefore
    <3> QED BY <3>1, <3>2, <3>3 DEF LastBefore
  <2> QED BY <2>1, <2>2
<1>11. Targeting(r, w)'
  <2>1. (x = next[update[0]][0])' /\ (x = Nil => On(r) = {})'
    BY <1>3, <1>5
  <2>2. (acc = EndOf(w, update[0]))' /\ (acc <= req.pos)'
    BY <1>3, <1>4, <1>5, <1>6 DEF EndOf
  <2>3. \A i \in Levels : LastBefore(r, update[i], update[0], i)'
    BY <1>1, <1>3, <1>5, <1>10 DEF LastBefore, OnLevel, Cells, On
  <2> QED BY <2>1, <2>2, <2>3 DEF Targeting
<1> QED BY <1>1, <1>7, <1>8, <1>9, <1>11 DEF Good

-----------------------------------------------------------------------------
(***************************************************************************)
(* The steps around a search.                                              *)
(***************************************************************************)

(* Calls that end and leave all but a node's mode as it was.                *)
LEMMA EndKeeps ==
  ASSUME TypeOK, NEW r, NEW w, Good(r, w),
         \/ InsertRejected \/ InsertAllocFails \/ InsertGrowFails
         \/ EraseIgnored \/ EraseDone \/ EraseFails
         \/ OptimizeFails \/ OptimizeDone
  PROVE  TypeOK' /\ Good(r, w)'
<1>1. Whole
  BY DEF Whole, InsertRejected, InsertAllocFails, InsertGrowFails, Found,
         EraseIgnored, EraseDone, EraseFails, OptimizeFails, OptimizeDone
<1>2. UNCHANGED <<level, next, span, data, total_size>>
  BY DEF InsertRejected, InsertAllocFails, InsertGrowFails, heap,
         EraseIgnored, EraseDone, EraseFails, OptimizeFails, OptimizeDone
<1>3. mode' \in [Node -> {"gap", "compact"}]
  BY DEF InsertRejected, InsertAllocFails, InsertGrowFails, heap, TypeOK,
         EraseIgnored, EraseDone, EraseFails, OptimizeFails, OptimizeDone
<1>4. PICK how \in {"ok", "out_of_range", "bad_alloc"} : Return(how)
  BY DEF InsertRejected, InsertAllocFails, InsertGrowFails,
         EraseIgnored, EraseDone, EraseFails, OptimizeFails, OptimizeDone
<1> QED BY <1>1, <1>2, <1>3, <1>4, ReturnKeeps

(* The search of an insertion, and of a round of the loop of an erase.      *)
LEMMA SearchKeeps ==
  ASSUME TypeOK, NEW r, NEW w, Good(r, w), InsertSearch \/ EraseSearch
  PROVE  TypeOK' /\ Good(r, w)'
<1>1. Whole /\ FindStart /\ UNCHANGED <<heap, req, outcome>>
  BY DEF InsertSearch, EraseSearch, Whole
<1>2. pc' = "find" /\ Served(w)
  BY <1>1 DEF FindStart, Good
<1>3. req # NoRequest
  BY DEF InsertSearch, EraseSearch, TypeOK
<1>4. CASE InsertSearch
  <2>1. req.op = "insert" /\ req.pos <= total_size /\ pc = "entry"
    BY <1>4 DEF InsertSearch
  <2>2. Served(w)'
    BY <1>1, <1>2, <2>1 DEF Served, heap
  <2> QED BY <1>1, <1>3, <2>2, StartKeeps
<1>5. CASE EraseSearch
  <2>1. req.op = "erase" /\ pc = "loop" /\ req.len > 0
    BY <1>2, <1>5 DEF EraseSearch, Served
  <2>2. Served(w)'
    BY <1>1, <1>2, <2>1 DEF Served, heap
  <2> QED BY <1>1, <1>3, <2>2, StartKeeps
<1> QED BY <1>4, <1>5

(* The cut of the length, unless pos + len wraps.                           *)
LEMMA ClampKeeps ==
  ASSUME TypeOK, NEW r, NEW w, Good(r, w), AllocMayFail => LengthsFit, EraseClamp
  PROVE  TypeOK' /\ Good(r, w)'
<1>1. /\ pc = "entry" /\ pc' = "loop" /\ Whole /\ Whole' /\ UNCHANGED <<heap, outcome, locals>>
      /\ req.op = "erase" /\ req.pos < total_size
  BY DEF EraseClamp, Whole
<1>2. Ordered(r) /\ Held(r, w) /\ Texts(w) /\ Sized(w) /\ Served(w)
  BY <1>1 DEF Good, Held
<1>3. Ordered(r)' /\ Held(r, w)'
  BY <1>1, <1>2, SameHeap DEF heap
<1>4. req \in Request /\ req.len \in EraseLens /\ req.len \in 0 .. SizeMod - 1
  BY <1>1, <1>2, BiModalAssumption DEF Served, TypeOK, NoRequest
<1>5. PICK p \in Nat, k \in Nat, t \in Nat, m \in Nat :
        p = req.pos /\ k = req.len /\ t = total_size /\ m = SizeMod
  BY <1>4, Kinds, BiModalAssumption
<1>6. p < t /\ k < m /\ t < m
  <2>1. p < t /\ k < m
    BY <1>1, <1>4, <1>5, BiModalAssumption
  <2>2. t <= MaxText
    BY <1>2, <1>5, TextFacts, CellFacts, BiModalAssumption DEF Sized
  <2> QED BY <1>5, <2>1, <2>2, BiModalAssumption
<1>7. \/ p + k < m
      \/ p > 0 /\ ~ AllocMayFail
  <2>1. CASE AllocMayFail
    <3>1. MaxText + k < m
      BY <1>4, <1>5, <2>1 DEF LengthsFit
    <3>2. t <= MaxText
      BY <1>2, <1>5, TextFacts, CellFacts, BiModalAssumption DEF Sized
    <3> QED BY <1>6, <3>1, <3>2, BiModalAssumption
  <2>2. CASE ~ AllocMayFail
    BY <1>6, <2>2
  <2> QED BY <2>1, <2>2
<1>8. /\ req' \in Request /\ req'.pos = p /\ req'.op = "erase"
      /\ req'.len = IF (p + k) % m > t THEN t - p ELSE k
  <2>1. t - p \in Nat
    BY <1>6
  <2>2. req' = [req EXCEPT !.len = IF (p + k) % m > t THEN t - p ELSE k]
    BY <1>4, <1>5 DEF EraseClamp, Request
  <2>3. (IF (p + k) % m > t THEN t - p ELSE k) \in Nat
    BY <2>1
  <2> QED BY <1>1, <1>4, <1>5, <2>2, <2>3 DEF Request
<1>9. PICK c \in Nat : /\ req'.len = c
                      /\ \/ p + c <= t
                         \/ p > 0 /\ ~ AllocMayFail
  <2>1. CASE (p + k) % m > t
    <3>1. PICK d \in Nat : d = t - p /\ p + d <= t
      BY <1>6
    <3>2. req'.len = d
      BY <1>8, <2>1, <3>1
    <3> QED BY <3>1, <3>2
  <2>2. CASE ~ (p + k) % m > t
    <3>1. req'.len = k
      BY <1>8, <2>2
    <3>2. CASE p + k < m
      <4>1. (p + k) % m = p + k
        BY <3>2
      <4>2. p + k <= t
        BY <2>2, <4>1
      <4> QED BY <3>1, <4>2
    <3>3. CASE p > 0 /\ ~ AllocMayFail
      BY <3>1, <3>3
    <3> QED BY <1>7, <3>2, <3>3
  <2> QED BY <2>1, <2>2
<1>10. req' \in Request /\ req'.pos = p /\ req'.len = c /\ req'.op = "erase"
  BY <1>8, <1>9
<1>11. TypeOK'
  <2>1. req' # NoRequest
    BY <1>10 DEF NoRequest
  <2> QED BY <1>1, <1>10, <2>1 DEF TypeOK, heap, locals
<1>12. Served(w)'
  <2>1. req'.pos <= total_size' /\ total_size' = t
    BY <1>1, <1>5, <1>6, <1>10 DEF heap
  <2>2. \/ req'.pos + req'.len <= total_size'
        \/ req'.pos > 0 /\ ~AllocMayFail
    BY <1>9, <1>10, <2>1
  <2> QED BY <1>1, <1>10, <2>1, <2>2 DEF Served
<1> QED BY <1>1, <1>3, <1>11, <1>12 DEF Good

(* The first node is lost: it has levels, and nothing leads to it.          *)
LEMMA FirstLostKeeps ==
  ASSUME TypeOK, NEW r, NEW w, Good(r, w), InsertFirstLost
  PROVE  TypeOK' /\ Good(r, w)'
<1>1. /\ Whole /\ Whole' /\ AllocMayFail /\ pc' = "idle"
      /\ UNCHANGED <<next, span, mode, data, total_size>>
  BY DEF InsertFirstLost, Found, Return, Whole
<1>2. PICK n \in Free, k \in 1 .. MaxLevel : level' = [level EXCEPT ![n] = k]
  BY DEF InsertFirstLost
<1>3. Ordered(r) /\ Held(r, w)
  BY <1>1 DEF Good, Held
<1>4. n \in Node /\ level[n] = 0 /\ n \notin Cells(r) /\ n # head
  BY <1>2, <1>3, BiModalAssumption DEF Free, Allocated, Ordered, Cells, On, TypeOK, Cell
<1>5. TypeOK'
  <2>1. level' \in [Cell -> 0 .. MaxLevel] /\ level'[head] = MaxLevel
    BY <1>2, <1>4, BiModalAssumption DEF TypeOK, Cell
  <2>2. \E how \in {"bad_alloc"} : Return(how)
    BY DEF InsertFirstLost
  <2> QED BY <1>1, <2>1, <2>2, BiModalAssumption DEF TypeOK, Return, NoUpdate, Levels, Cell
<1>6. \A c \in Cells(r) : level'[c] = level[c]
  BY <1>2, <1>3, <1>4, CellFacts DEF TypeOK
<1>7. On(r)' = On(r) /\ Cells(r)' = Cells(r)
  BY <1>1 DEF On, Cells
<1>8. Ordered(r)'
  <2>1. \A i : \A c \in Cells(r) : OnLevel(r, c, i)' <=> OnLevel(r, c, i)
    BY <1>6, <1>7 DEF OnLevel
  <2>2. \A n1 \in On(r) : level'[n1] = level[n1]
    BY <1>3, <1>6, CellFacts
  <2>3. \A c \in Cell, i \in Levels : OnLevel(r, c, i)' => FirstBehind(r, c, i)'
    BY <1>1, <1>3, <1>7, <2>1, <2>2 DEF Ordered, OnLevel, FirstBehind
  <2> QED BY <1>1, <1>3, <1>7, <2>2, <2>3 DEF Ordered
<1>9. Held(r, w)'
  <2>1. Spanned(r, w)'
    BY <1>1, <1>3, <1>6, <1>7 DEF Held, Spanned, OnLevel, After
  <2> QED BY <1>1, <1>3, <1>7, <2>1 DEF Held, Texts, Sized, NoneEmpty
<1>10. Served(w)'
  BY DEF InsertFirstLost, Return, Served, NoRequest
<1> QED BY <1>1, <1>5, <1>8, <1>9, <1>10 DEF Good

-----------------------------------------------------------------------------
(***************************************************************************)
(* optimize and clear.                                                     *)
(***************************************************************************)

(* A walk begins at the first node, if there is one.                        *)
LEMMA FirstNode ==
  ASSUME TypeOK, NEW r, Ordered(r), Whole
  PROVE  /\ next[head][0] # Nil => next[head][0] \in On(r)
         /\ \A n \in On(r) : next[head][0] # Nil /\ r[n] <= r[next[head][0]]
<1>1. head \in Cells(r) /\ FirstBehind(r, head, 0)
  <2>1. OnLevel(r, head, 0)
    BY CellFacts
  <2> QED BY <2>1, CellFacts DEF Ordered, OnLevel
<1> QED BY <1>1, CellFacts DEF FirstBehind

(* optimize() packs the node it is on and moves to the next.                *)
LEMMA OptimizeKeeps ==
  ASSUME TypeOK, NEW r, NEW w, Good(r, w), OptimizeStart \/ OptimizeNode
  PROVE  TypeOK' /\ Good(r, w)'
<1>1. /\ Whole /\ Whole' /\ pc' = "optimize"
      /\ UNCHANGED <<level, next, span, data, total_size, req, outcome, acc, lvl, update>>
  BY DEF OptimizeStart, OptimizeNode, WalkStart, Whole, heap
<1>2. Ordered(r) /\ Held(r, w) /\ Served(w)
  BY <1>1 DEF Good
<1>3. Ordered(r)' /\ Held(r, w)'
  BY <1>1, <1>2, SameHeap
<1>4. CASE OptimizeStart
  <2>1. x' = next[head][0] /\ mode' = mode /\ pc = "entry" /\ req.op = "keep"
    BY <1>4 DEF OptimizeStart, WalkStart, heap
  <2>2. TypeOK'
    BY <1>1, <1>2, <2>1, Kinds, CellFacts DEF TypeOK, Pointer, Cell, NoRequest
  <2>3. Served(w)'
    BY <1>1, <1>2, <2>1 DEF Served
  <2>4. Packing(r)'
    <3>1. ASSUME NEW n \in On(r), x' = Nil \/ r[x'] < r[n] PROVE FALSE
      BY <1>1, <1>2, <2>1, <3>1, FirstNode, CellFacts DEF Cell
    <3> QED BY <1>1, <1>2, <2>1, <3>1, FirstNode DEF Packing, On
  <2> QED BY <1>1, <1>3, <2>2, <2>3, <2>4 DEF Good
<1>5. CASE OptimizeNode
  <2>1. /\ pc = "optimize" /\ x # Nil /\ x' = next[x][0]
        /\ mode' = [mode EXCEPT ![x] = "compact"]
    BY <1>5 DEF OptimizeNode
  <2>2. Packing(r)
    BY <2>1 DEF Good
  <2>3. x \in On(r) /\ x \in Node /\ x \in Cell /\ x \in Cells(r)
    BY <1>2, <2>1, <2>2, CellFacts DEF Packing
  <2>4. TypeOK'
    <3>1. x' \in Pointer
      BY <1>2, <2>1, <2>3, Kinds, CellFacts
    <3>2. mode' \in [Node -> {"gap", "compact"}]
      BY <2>1 DEF TypeOK
    <3>3. pc = pc'
      BY <1>1, <2>1
    <3> QED BY <1>1, <2>1, <3>1, <3>2, <3>3 DEF TypeOK, Pointer, Cell
  <2>5. Served(w)'
    BY <1>1, <1>2, <2>1 DEF Served
  <2>6. FirstBehind(r, x, 0)
    BY <1>2, <2>3, CellFacts DEF Ordered, OnLevel
  <2>7. Packing(r)'
    <3>1. x' # Nil => x' \in On(r)
      BY <2>1, <2>6 DEF FirstBehind
    <3>2. ASSUME NEW n \in On(r), x' = Nil \/ r[x'] < r[n]
          PROVE  mode'[n] = "compact"
      <4>1. n \in Node /\ n \in Cells(r) /\ n \in Cell
        BY <1>2, CellFacts
      <4>2. ~ r[n] < r[x]
        BY <1>2, <2>1, <2>6, <3>1, <3>2, <4>1, CellFacts DEF FirstBehind
      <4>3. r[n] = r[x] => n = x
        BY <1>2, <2>3, <4>1, SameRank
      <4>4. n = x \/ r[x] < r[n]
        BY <1>2, <2>3, <4>1, <4>2, <4>3, CellFacts
      <4> QED BY <2>1, <2>2, <4>1, <4>4 DEF Packing, TypeOK
    <3> QED BY <1>1, <3>1, <3>2 DEF Packing, On
  <2> QED BY <1>1, <1>3, <2>4, <2>5, <2>7 DEF Good
<1> QED BY <1>4, <1>5

(* clear() begins its walk at the first node.                               *)
LEMMA ClearStartKeeps ==
  ASSUME TypeOK, NEW r, NEW w, Good(r, w), ClearStart
  PROVE  TypeOK' /\ Good(r, w)'
<1>1. /\ Whole /\ ~ Whole' /\ pc = "entry" /\ pc' = "clear" /\ x' = next[head][0]
      /\ UNCHANGED <<level, next, span, mode, data, total_size, req, outcome, acc, lvl, update>>
      /\ req.op = "clear"
  BY DEF ClearStart, WalkStart, Whole, heap
<1>2. Ordered(r) /\ Held(r, w) /\ Served(w)
  BY <1>1 DEF Good
<1>3. TypeOK'
  BY <1>1, <1>2, Kinds, CellFacts DEF TypeOK, Pointer, Cell, NoRequest
<1>4. On(r)' = On(r) /\ Cells(r)' \subseteq Cells(r)
  BY <1>1 DEF On, Cells
<1>5. Ordered(r)'
  <2>1. \A c, i : OnLevel(r, c, i)' => OnLevel(r, c, i)
    BY <1>1, <1>4 DEF OnLevel
  <2>2. \A c \in Cell, i \in Levels : OnLevel(r, c, i)' => FirstBehind(r, c, i)'
    BY <1>1, <1>2, <1>4, <2>1 DEF Ordered, FirstBehind
  <2> QED BY <1>1, <1>2, <1>4, <2>2 DEF Ordered, Allocated
<1>6. Served(w)'
  BY <1>1, <1>2 DEF Served
<1>7. Clearing(r)'
  BY <1>1, <1>2, <1>4, FirstNode DEF Clearing
<1> QED BY <1>1, <1>3, <1>5, <1>6, <1>7 DEF Good

(* clear() destroys the node it is on; the rank of that node is given up.   *)
LEMMA ClearNodeKeeps ==
  ASSUME TypeOK, NEW r, NEW w, Good(r, w), ClearNode
  PROVE  /\ TypeOK' /\ Allocated' = Allocated \ {x}
         /\ \E r2 : Good(r2, w)' /\ On(r2) = On(r) \ {x}
<1>1. /\ ~ Whole /\ ~ Whole' /\ pc = "clear" /\ pc' = "clear" /\ x # Nil /\ x' = next[x][0]
      /\ level' = [level EXCEPT ![x] = 0]
      /\ mode' = [mode EXCEPT ![x] = "gap"]
      /\ data' = [data EXCEPT ![x] = << >>]
      /\ next' = [next EXCEPT ![x] = [i \in Levels |-> Nil]]
      /\ span' = [span EXCEPT ![x] = [i \in Levels |-> 0]]
      /\ UNCHANGED <<total_size, req, outcome, acc, lvl, update>>
  BY DEF ClearNode, Whole
<1>2. Ordered(r) /\ Served(w) /\ Clearing(r)
  BY <1>1 DEF Good
<1>3. x \in On(r) /\ x \in Node /\ x \in Cell /\ x \in Cells(r) /\ x # head
  BY <1>1, <1>2, CellFacts DEF Clearing
<1>4. TypeOK'
  <2>1. x' \in Pointer
    BY <1>1, <1>2, <1>3, Kinds, CellFacts
  <2>2. level' \in [Cell -> 0 .. MaxLevel] /\ level'[head] = MaxLevel
    BY <1>1, <1>3, BiModalAssumption DEF TypeOK, Cell
  <2>3. /\ next' \in [Cell -> [Levels -> Pointer]] /\ span' \in [Cell -> [Levels -> Nat]]
        /\ mode' \in [Node -> {"gap", "compact"}] /\ data' \in [Node -> Seq(Char)]
    BY <1>1, <1>3 DEF TypeOK, Pointer
  <2>4. pc = pc'
    BY <1>1
  <2> QED BY <1>1, <2>1, <2>2, <2>3, <2>4 DEF TypeOK, Pointer, Cell
<1>5. PICK r2 : r2 = [r EXCEPT ![x] = 0]
  OBVIOUS
<1>6. /\ r2 \in [Cell -> Nat] /\ r2[x] = 0
      /\ \A c \in Cell \ {x} : r2[c] = r[c]
  BY <1>2, <1>3, <1>5 DEF Ordered
<1>7. On(r2) = On(r) \ {x} /\ On(r2)' = On(r2) /\ Cells(r2)' = On(r2)
  BY <1>1, <1>2, <1>3, <1>6, CellFacts DEF On, Cells, Cell
<1>8. \A n \in On(r2) : n \in On(r) /\ n # x /\ r2[n] = r[n] /\ n \in Node /\ n \in Cell /\ n \in Cells(r)
                        /\ level'[n] = level[n] /\ next'[n] = next[n]
  BY <1>1, <1>2, <1>6, <1>7, CellFacts DEF TypeOK
<1>9. Ordered(r2)'
  <2>1. \A n \in Node : r2[n] < r2[head]
    BY <1>2, <1>3, <1>6, CellFacts, BiModalAssumption DEF Cell, Ordered
  <2>2. \A m, n \in On(r2) : r2[m] = r2[n] => m = n
    BY <1>2, <1>8 DEF Ordered
  <2>3. \A n \in On(r2) : level'[n] > 0
    BY <1>2, <1>8, CellFacts
  <2>4. Allocated' = Allocated \ {x}
    BY <1>1, <1>3, BiModalAssumption DEF Allocated, TypeOK, Cell
  <2>5. \A n \in Node \ On(r2), i \in Levels : next'[n][i] = Nil /\ span'[n][i] = 0
    <3>1. \A i \in Levels : next'[x][i] = Nil /\ span'[x][i] = 0
      BY <1>1, <1>2, <1>3, CellFacts DEF TypeOK
    <3>2. ASSUME NEW n \in Node, n \notin On(r), n # x
          PROVE  \A i \in Levels : next'[n][i] = Nil /\ span'[n][i] = 0
      BY <1>1, <1>2, <3>2 DEF Ordered, TypeOK, Cell
    <3> QED BY <1>7, <3>1, <3>2
  <2>6. ASSUME NEW c \in Cell, NEW i \in Levels, OnLevel(r2, c, i)'
        PROVE  FirstBehind(r2, c, i)'
    <3>1. c \in On(r2) /\ c \in On(r) /\ c # x /\ i < level[c] /\ c \in Cells(r)
      BY <1>7, <1>8, <2>6 DEF OnLevel
    <3>2. FirstBehind(r, c, i)
      BY <1>2, <3>1 DEF Ordered, OnLevel
    <3>3. r[c] <= r[x]
      BY <1>2, <3>1 DEF Clearing
    <3>4. next[c][i] # Nil => next[c][i] \in On(r2)
      BY <1>2, <1>3, <1>7, <3>1, <3>2, <3>3, CellFacts DEF FirstBehind
    <3>5. next[c][i] # Nil => level'[next[c][i]] > i /\ r2[next[c][i]] < r2[c]
      BY <1>8, <3>1, <3>2, <3>4 DEF FirstBehind
    <3>6. \A n \in On(r2) : level'[n] > i /\ r2[n] < r2[c] =>
            next[c][i] # Nil /\ r2[n] <= r2[next[c][i]]
      BY <1>8, <3>1, <3>2, <3>4 DEF FirstBehind
    <3>7. next'[c][i] = next[c][i]
      BY <1>8, <3>1
    <3> QED BY <1>7, <3>4, <3>5, <3>6, <3>7 DEF FirstBehind
  <2>7. ~AllocMayFail => Allocated' \subseteq On(r2)
    BY <1>2, <1>7, <2>4 DEF Ordered
  <2> QED BY <1>6, <1>7, <2>1, <2>2, <2>3, <2>5, <2>6, <2>7 DEF Ordered
<1>10. Served(w)'
  BY <1>1, <1>2 DEF Served
<1>11. Clearing(r2)'
  <2>1. FirstBehind(r, x, 0)
    BY <1>2, <1>3, CellFacts DEF Ordered, OnLevel
  <2>2. x' # Nil => x' \in On(r2) /\ r[x'] < r[x]
    BY <1>1, <1>2, <1>3, <1>7, <2>1, CellFacts DEF FirstBehind
  <2>3. ASSUME NEW n \in On(r2) PROVE x' # Nil /\ r2[n] <= r2[x']
    <3>1. r[n] # r[x]
      BY <1>2, <1>3, <1>8 DEF Ordered
    <3>2. r[n] < r[x]
      BY <1>2, <1>3, <1>8, <3>1, CellFacts DEF Clearing
    <3>3. x' # Nil /\ r[n] <= r[x']
      BY <1>1, <1>2, <1>8, <2>1, <3>2, CellFacts DEF FirstBehind
    <3> QED BY <1>8, <2>2, <3>3
  <2> QED BY <1>7, <2>2, <2>3 DEF Clearing
<1>12. Good(r2, w)'
  BY <1>1, <1>9, <1>10, <1>11 DEF Good
<1>13. Allocated' = Allocated \ {x}
  BY <1>1, <1>3, BiModalAssumption DEF Allocated, TypeOK, Cell
<1> QED BY <1>4, <1>7, <1>12, <1>13

(* clear() resets the head once nothing is linked.                          *)
LEMMA ClearDoneKeeps ==
  ASSUME TypeOK, NEW r, NEW w, Good(r, w), ClearDone
  PROVE  TypeOK' /\ \E w2 : Good(r, w2)'
<1>1. /\ ~ Whole /\ Whole' /\ pc = "clear" /\ pc' = "idle" /\ x = Nil
      /\ next' = [next EXCEPT ![head] = [i \in Levels |-> Nil]]
      /\ span' = [span EXCEPT ![head] = [i \in Levels |-> 0]]
      /\ total_size' = 0 /\ UNCHANGED <<level, mode, data>>
  BY DEF ClearDone, Return, Whole
<1>2. Ordered(r) /\ Served(w) /\ Clearing(r)
  BY <1>1 DEF Good
<1>3. On(r) = {} /\ head \in Cell /\ 0 \in Levels
  BY <1>1, <1>2, CellFacts DEF Clearing
<1>4. TypeOK'
  <2>1. Return("ok")
    BY DEF ClearDone
  <2>2. next' \in [Cell -> [Levels -> Pointer]] /\ span' \in [Cell -> [Levels -> Nat]]
    BY <1>1, <1>3 DEF TypeOK, Pointer
  <2> QED BY <1>1, <2>1, <2>2, BiModalAssumption DEF TypeOK, Return, NoUpdate, Levels, Cell
<1>5. PICK w2 : w2 = [c \in Cell |-> << >>]
  OBVIOUS
<1>6. \A c \in Cell : w2[c] = << >> /\ Len(w2[c]) = 0
  BY <1>5
<1>7. On(r)' = {} /\ Cells(r)' = {head}
  BY <1>1, <1>3 DEF On, Cells
<1>8. \A i \in Levels : next'[head][i] = Nil /\ span'[head][i] = 0
  BY <1>1, <1>3 DEF TypeOK
<1>9. \A n \in Node, i \in Levels : next'[n][i] = Nil /\ span'[n][i] = 0
  <2>1. \A n \in Node, i \in Levels : next[n][i] = Nil /\ span[n][i] = 0
    BY <1>2, <1>3 DEF Ordered
  <2> QED BY <1>1, <2>1, BiModalAssumption DEF TypeOK, Cell
<1>10. Ordered(r)'
  BY <1>1, <1>2, <1>3, <1>7, <1>8, <1>9 DEF Ordered, OnLevel, FirstBehind, Allocated
<1>11. Texts(w2)'
  <2>1. \A c \in Cell : next'[c][0] = Nil
    BY <1>3, <1>8, <1>9 DEF Cell
  <2>2. w2 \in [Cell -> Seq(Char)]
    BY <1>5
  <2> QED BY <1>6, <2>1, <2>2 DEF Texts
<1>12. Spanned(r, w2)'
  <2>1. ASSUME NEW i \in Levels
        PROVE  span'[head][i] = Len(w2[head]) - After(w2, next'[head][i])
    <3>1. Len(w2[head]) = 0 /\ After(w2, next'[head][i]) = 0 /\ span'[head][i] = 0
      BY <1>3, <1>6, <1>8 DEF After
    <3> QED BY <3>1
  <2>2. \A c \in Cell, i \in Levels : OnLevel(r, c, i)' => c = head
    BY <1>7 DEF OnLevel
  <2> QED BY <2>1, <2>2 DEF Spanned, After
<1>13. Sized(w2)' /\ NoneEmpty(r)'
  BY <1>1, <1>3, <1>6, <1>7, BiModalAssumption DEF Sized, NoneEmpty
<1>14. Served(w2)'
  BY DEF ClearDone, Return, Served, NoRequest
<1>15. Good(r, w2)'
  BY <1>1, <1>10, <1>11, <1>12, <1>13, <1>14 DEF Good, Held
<1> QED BY <1>4, <1>15

-----------------------------------------------------------------------------
(***************************************************************************)
(* The edits.  Each lemma says which ranks and texts fit afterwards, that  *)
(* the text has been edited as a string would be, that the other nodes     *)
(* stay linked, and that no block has been lost but a new one.             *)
(***************************************************************************)
(* A split fails, and a block that was free gets a level and no rank.       *)
NewBlockLost(r, r2) ==
  /\ pc = "found" /\ req.op = "insert" /\ TooLong /\ outcome' = "bad_alloc"
  /\ \E n \in Free : Allocated' \ On(r2) = (Allocated \ On(r)) \cup {n}

(* What an edit does to the linked nodes, and what it loses.                *)
Followed(r, r2) == /\ On(r) \ {x} \subseteq On(r2)
                   /\ \/ Allocated' \ On(r2) = Allocated \ On(r)
                      \/ NewBlockLost(r, r2)

(* The first node.                                                          *)
LEMMA InsertFirstKeeps ==
  ASSUME TypeOK, NEW r, NEW w, Good(r, w), InsertFirst
  PROVE  /\ TypeOK'
         /\ \E r2, w2 : /\ Good(r2, w2)' /\ Followed(r, r2)
                        /\ w2[head] = StringInsert(w[head], req.pos, req.str)
<1>1. /\ Whole /\ Whole' /\ pc = "found" /\ pc' = "idle" /\ x = Nil /\ total_size = 0
      /\ total_size' = total_size + Len(req.str) /\ mode' = mode
      /\ span' = [span EXCEPT ![head] = [i \in Levels |-> Len(req.str)]]
  BY DEF InsertFirst, Found, Return, Whole
<1>2. Ordered(r) /\ Held(r, w) /\ Served(w) /\ Targeting(r, w) /\ Texts(w)
  BY <1>1 DEF Good, Held
<1>3. On(r) = {} /\ head \in Cell /\ 0 \in Levels
  BY <1>1, <1>2, CellFacts DEF Targeting
<1>4. PICK n \in Free, k \in 1 .. MaxLevel :
        /\ level' = [level EXCEPT ![n] = k]
        /\ data' = [data EXCEPT ![n] = req.str]
        /\ next' = [next EXCEPT ![head] = [i \in Levels |-> IF i < k THEN n ELSE Nil]]
  BY DEF InsertFirst
<1>5. n \in Node /\ n \in Cell /\ n # head /\ n # Nil
  BY <1>4, BiModalAssumption DEF Free, Cell
<1>6. PICK d : d = req.str
  OBVIOUS
<1>7. d \in Seq(Char) /\ Len(d) \in Nat
  BY <1>6, Kinds
<1>8. w[head] = << >> /\ req.pos = 0
  <2>1. FirstBehind(r, head, 0)
    BY <1>1, <1>2, CellFacts DEF Ordered, OnLevel
  <2>2. next[head][0] = Nil
    BY <1>3, <2>1 DEF FirstBehind
  <2>3. req.pos <= 0 /\ req.pos \in Nat
    BY <1>1, <1>2, Kinds DEF Served, InsertFirst, Found
  <2>4. w[head] = << >>
    BY <1>2, <1>3, <2>2 DEF Texts
  <2>5. req.pos = 0
    BY <2>3
  <2> QED BY <2>4, <2>5
<1>9. TypeOK'
  <2>1. Return("ok")
    BY DEF InsertFirst
  <2>2. level' \in [Cell -> 0 .. MaxLevel] /\ level'[head] = MaxLevel
    BY <1>4, <1>5, BiModalAssumption DEF TypeOK
  <2>3. next' \in [Cell -> [Levels -> Pointer]] /\ span' \in [Cell -> [Levels -> Nat]]
    BY <1>1, <1>3, <1>4, <1>5, <1>6, <1>7 DEF TypeOK, Pointer
  <2>4. data' \in [Node -> Seq(Char)]
    BY <1>4, <1>5, <1>6, <1>7 DEF TypeOK
  <2>5. total_size' \in Nat
    BY <1>1, <1>6, <1>7
  <2> QED BY <1>1, <2>1, <2>2, <2>3, <2>4, <2>5, BiModalAssumption
          DEF TypeOK, Return, NoUpdate, Levels, Cell
<1>10. PICK r2, w2 : /\ r2 = [c \in Cell |-> IF c = head THEN 2 ELSE IF c = n THEN 1 ELSE 0]
                     /\ w2 = [c \in Cell |-> IF c = head THEN d ELSE << >>]
  OBVIOUS
<1>11. /\ r2 \in [Cell -> Nat] /\ r2[head] = 2 /\ r2[n] = 1
       /\ \A m \in Node : m # n => r2[m] = 0
  BY <1>3, <1>5, <1>10, BiModalAssumption DEF Cell
<1>12. /\ w2 \in [Cell -> Seq(Char)] /\ w2[head] = d
       /\ \A m \in Node : w2[m] = << >> /\ Len(w2[m]) = 0
  BY <1>3, <1>7, <1>10, BiModalAssumption DEF Cell
<1>13. On(r2) = {n} /\ On(r2)' = {n} /\ Cells(r2)' = {head, n}
  BY <1>1, <1>5, <1>11 DEF On, Cells
<1>14. /\ \A i \in Levels : next'[head][i] = (IF i < k THEN n ELSE Nil) /\ span'[head][i] = Len(d)
       /\ \A m \in Node, i \in Levels : next'[m][i] = Nil /\ span'[m][i] = 0
       /\ level'[n] = k /\ k \in Nat /\ k > 0 /\ data'[n] = d
  <2>1. \A m \in Node, i \in Levels : next[m][i] = Nil /\ span[m][i] = 0
    BY <1>2, <1>3 DEF Ordered
  <2> QED BY <1>1, <1>3, <1>4, <1>5, <1>6, <2>1, BiModalAssumption DEF TypeOK, Cell
<1>15. Ordered(r2)'
  <2>1. \A m \in Node : r2[m] < r2[head]
    BY <1>11
  <2>2. ~AllocMayFail => Allocated' \subseteq {n}
    BY <1>2, <1>3, <1>4, <1>5 DEF Ordered, Allocated, TypeOK, Cell
  <2>3. ASSUME NEW c \in Cell, NEW i \in Levels, OnLevel(r2, c, i)'
        PROVE  FirstBehind(r2, c, i)'
    <3>1. CASE c = head
      BY <1>5, <1>11, <1>13, <1>14, <3>1 DEF FirstBehind, Levels
    <3>2. CASE c = n
      BY <1>5, <1>11, <1>13, <1>14, <3>2 DEF FirstBehind
    <3> QED BY <1>13, <2>3, <3>1, <3>2 DEF OnLevel
  <2> QED BY <1>11, <1>13, <1>14, <2>1, <2>2, <2>3 DEF Ordered
<1>16. Texts(w2)'
  <2>1. w2[head] = data'[n] \o w2[n]
    BY <1>5, <1>7, <1>12, <1>14
  <2> QED BY <1>3, <1>5, <1>12, <1>14, <2>1 DEF Texts, Cell
<1>17. Spanned(r2, w2)'
  <2>1. ASSUME NEW i \in Levels
        PROVE  /\ span'[head][i] = Len(w2[head]) - After(w2, next'[head][i])
               /\ span'[n][i] = Len(w2[n]) - After(w2, next'[n][i])
    <3>1. After(w2, next'[head][i]) = 0 /\ After(w2, next'[n][i]) = 0
      BY <1>5, <1>12, <1>14 DEF After
    <3>2. Len(w2[head]) = Len(d) /\ Len(w2[n]) = 0
      BY <1>5, <1>12
    <3>3. span'[head][i] = Len(d) /\ span'[n][i] = 0
      BY <1>5, <1>14
    <3> QED BY <1>7, <3>1, <3>2, <3>3
  <2> QED BY <1>13, <2>1 DEF Spanned, OnLevel, After
<1>18. Sized(w2)' /\ NoneEmpty(r2)'
  <2>1. Len(w[head]) + Len(d) <= MaxText
    BY <1>2, <1>6 DEF Served, InsertFirst, Found
  <2>2. Len(w2[head]) = Len(d) /\ total_size' = Len(d) /\ Len(w[head]) = 0
    BY <1>1, <1>6, <1>7, <1>8, <1>12
  <2>3. Len(d) <= MaxText
    BY <1>7, <2>1, <2>2, BiModalAssumption
  <2> QED BY <1>7, <1>13, <2>2, <2>3 DEF Sized, NoneEmpty
<1>19. Served(w2)'
  BY DEF InsertFirst, Return, Served, NoRequest
<1>20. Good(r2, w2)'
  BY <1>1, <1>15, <1>16, <1>17, <1>18, <1>19 DEF Good, Held
<1>21. Followed(r, r2)
  <2>1. Allocated' = Allocated \cup {n} /\ n \notin Allocated
    BY <1>4, <1>5 DEF Allocated, Free, TypeOK, Cell
  <2>2. Allocated' \ On(r2) = Allocated \ On(r)
    BY <1>3, <1>13, <2>1
  <2> QED BY <1>3, <2>2 DEF Followed
<1>22. w2[head] = StringInsert(w[head], req.pos, req.str)
  <2>1. SubSeq(w[head], 1, 0) = << >> /\ SubSeq(w[head], 1, Len(w[head])) = << >>
    BY <1>8
  <2>2. StringInsert(w[head], req.pos, req.str) = SubSeq(w[head], 1, 0) \o d \o SubSeq(w[head], 1, Len(w[head]))
    BY <1>6, <1>8 DEF StringInsert
  <2>3. << >> \o d \o << >> = d
    BY <1>7
  <2> QED BY <1>12, <2>1, <2>2, <2>3
<1> QED BY <1>9, <1>20, <1>21, <1>22

-----------------------------------------------------------------------------
(***************************************************************************)
(* An edit of the target, and the links that span it.                      *)
(***************************************************************************)

(* update[i] is the cell with level i whose link passes over the position:  *)
(* it leads to the target when the target has that level, and behind it     *)
(* otherwise; no other link does.                                           *)
LEMMA UpdateIs ==
  ASSUME TypeOK, NEW r, NEW w, Good(r, w), pc = "found", x # Nil,
         NEW i \in Levels
  PROVE  /\ OnLevel(r, update[i], i) /\ update[i] \in Cell /\ r[x] < r[update[i]]
         /\ next[update[i]][i] # Nil => /\ next[update[i]][i] \in On(r)
                                        /\ r[next[update[i]][i]] <= r[x]
         /\ \A c \in Cell : OnLevel(r, c, i) =>
              \/ r[c] <= r[x]
              \/ c = update[i]
              \/ /\ next[c][i] \in On(r)
                 /\ r[x] < r[next[c][i]] /\ r[next[c][i]] < r[c]
         /\ next[update[i]][i] = x <=> i < level[x]
<1>1. Whole
  BY DEF Whole
<1>2. Ordered(r)
  BY <1>1 DEF Good
<1>3. PICK p \in Cells(r), u \in Cell :
        /\ p = update[0] /\ u = update[i]
        /\ x \in On(r) /\ r[x] < r[p]
        /\ \A n \in On(r) : r[n] < r[p] => r[n] <= r[x]
        /\ LastBefore(r, u, p, i)
  BY TargetIs, Kinds
<1>4. OnLevel(r, u, i) /\ u \in Cells(r) /\ r[p] <= r[u]
  BY <1>3 DEF LastBefore, OnLevel
<1>5. /\ x \in Cell /\ p \in Cell /\ On(r) \subseteq Cells(r) /\ Cells(r) \subseteq Cell
      /\ \A c \in Cell : r[c] \in Nat
  BY <1>2, <1>3, CellFacts
<1>6. r[x] < r[u]
  BY <1>3, <1>4, <1>5
<1>7. \A c \in Cell : OnLevel(r, c, i) => FirstBehind(r, c, i)
  BY <1>2 DEF Ordered
<1>8. ASSUME NEW n \in On(r), level[n] > i, r[x] < r[n]
      PROVE  r[u] <= r[n]
  <2>1. r[p] <= r[n]
    BY <1>3, <1>5, <1>8
  <2> QED BY <1>3, <1>8, <2>1 DEF LastBefore
<1>9. next[u][i] # Nil => next[u][i] \in On(r) /\ r[next[u][i]] <= r[x]
  <2>1. ASSUME next[u][i] # Nil PROVE next[u][i] \in On(r) /\ r[next[u][i]] <= r[x]
    <3>1. PICK m \in On(r) : m = next[u][i] /\ level[m] > i /\ r[m] < r[u] /\ m \in Cell
      BY <1>4, <1>5, <1>7, <2>1 DEF FirstBehind
    <3> QED BY <1>5, <1>8, <3>1
  <2> QED BY <2>1
<1>10. ASSUME NEW c \in Cell, OnLevel(r, c, i), r[x] < r[c], c # u
       PROVE  next[c][i] \in On(r) /\ r[x] < r[next[c][i]] /\ r[next[c][i]] < r[c]
  <2>1. c \in Cells(r) /\ level[c] > i
    BY <1>10 DEF OnLevel
  <2>2. r[u] < r[c]
    <3>1. r[u] # r[c]
      BY <1>2, <1>4, <1>10, <2>1, SameRank
    <3>2. r[u] <= r[c]
      <4>1. CASE c \in On(r)
        BY <1>8, <1>10, <2>1, <4>1
      <4>2. CASE c = head
        BY <1>2, <1>4, <1>5, <4>2, CellFacts DEF Cells
      <4> QED BY <2>1, <4>1, <4>2 DEF Cells
    <3> QED BY <1>5, <3>1, <3>2
  <2>3. u \in On(r) /\ level[u] > i
    BY <1>2, <1>4, <1>5, <2>1, <2>2, CellFacts DEF Cells, OnLevel
  <2>4. FirstBehind(r, c, i)
    BY <1>7, <1>10
  <2>5. next[c][i] # Nil /\ r[u] <= r[next[c][i]]
    BY <2>2, <2>3, <2>4 DEF FirstBehind
  <2>6. next[c][i] \in On(r) /\ r[next[c][i]] < r[c]
    BY <2>4, <2>5 DEF FirstBehind
  <2> QED BY <1>5, <1>6, <2>5, <2>6
<1>11. next[u][i] = x <=> i < level[x]
  <2>1. FirstBehind(r, u, i)
    BY <1>4, <1>7
  <2>2. level[x] \in Nat /\ i \in Nat /\ x # Nil
    BY <1>2, <1>3, CellFacts DEF Levels
  <2>3. ASSUME i < level[x] PROVE next[u][i] = x
    <3>1. PICK m \in On(r) : m = next[u][i] /\ r[x] <= r[m] /\ r[m] <= r[x]
      BY <1>3, <1>6, <1>9, <2>1, <2>2, <2>3 DEF FirstBehind
    <3>2. r[m] = r[x]
      BY <1>5, <3>1
    <3> QED BY <1>2, <1>3, <3>1, <3>2 DEF Ordered
  <2>4. ASSUME next[u][i] = x PROVE i < level[x]
    BY <2>1, <2>2, <2>4 DEF FirstBehind
  <2> QED BY <2>3, <2>4
<1> QED BY <1>3, <1>4, <1>5, <1>6, <1>9, <1>10, <1>11

(* Only the links of update lead to the target.                             *)
LEMMA LeadsElsewhere ==
  ASSUME TypeOK, NEW r, NEW w, Good(r, w), pc = "found", x # Nil,
         NEW i \in Levels, NEW c \in Cell, OnLevel(r, c, i), c # update[i]
  PROVE  next[c][i] # x
<1>1. Ordered(r)
  BY DEF Good, Whole
<1>2. x \in Cell /\ \A d \in Cell : r[d] \in Nat
  BY <1>1, TargetIs, CellFacts
<1>3. \/ r[c] <= r[x]
      \/ /\ next[c][i] \in On(r)
         /\ r[x] < r[next[c][i]]
  BY UpdateIs
<1>4. FirstBehind(r, c, i)
  BY <1>1 DEF Ordered
<1>5. ASSUME next[c][i] = x PROVE FALSE
  <2>1. r[x] < r[c] /\ r[c] \in Nat /\ r[x] \in Nat
    BY <1>2, <1>4, <1>5 DEF FirstBehind
  <2>2. r[x] < r[x] \/ r[c] <= r[x]
    BY <1>3, <1>5
  <2> QED BY <2>1, <2>2
<1> QED BY <1>5

(* Behind the target the text stays as it is.                               *)
LEMMA SameBehind ==
  ASSUME TypeOK, NEW r, NEW w, Good(r, w), pc = "found", x # Nil,
         NEW e, NEW z, PassedOn(r, w, e, z)
  PROVE  z[x] = w[x] /\ \A m \in Cell : r[m] <= r[x] => z[m] = w[m]
<1>1. Ordered(r)
  BY DEF Good, Whole
<1>2. x \in Cell /\ \A d \in Cell : r[d] \in Nat
  BY <1>1, TargetIs, CellFacts
<1>3. \A m \in Cell : r[m] <= r[x] => ~ r[x] < r[m]
  BY <1>2
<1>4. r[x] <= r[x]
  BY <1>2
<1> QED BY <1>2, <1>3, <1>4 DEF PassedOn

(* The new text from cell to cell, all around the target.                   *)
Along(w, e, z, c) ==
  \/ next[c][0] = Nil /\ z[c] = << >>
  \/ next[c][0] = x /\ z[c] = e \o w[x] /\ c = update[0]
  \/ /\ next[c][0] \in Node /\ next[c][0] # x
     /\ z[c] = data[next[c][0]] \o z[next[c][0]]

(* ... and so it is passed on at every cell.                                *)
LEMMA PassedAlong ==
  ASSUME TypeOK, NEW r, NEW w, Good(r, w), pc = "found", x # Nil,
         NEW e, NEW z, PassedOn(r, w, e, z), NEW c \in Cell
  PROVE  Along(w, e, z, c)
<1>1. Whole
  BY DEF Whole
<1>2. Ordered(r) /\ Texts(w)
  BY <1>1 DEF Good, Held
<1>3. /\ x \in On(r) /\ x \in Cell /\ x # Nil
      /\ \A d \in Cell : r[d] \in Nat
      /\ On(r) \subseteq Node /\ On(r) \subseteq Cell /\ Cells(r) \subseteq Cell
      /\ \A n \in On(r) : n # Nil
      /\ 0 \in Levels
  BY <1>2, TargetIs, CellFacts
<1>4. \A m \in Cell : r[m] <= r[x] => z[m] = w[m]
  BY SameBehind
<1>5. w[c] = IF next[c][0] = Nil THEN << >> ELSE data[next[c][0]] \o w[next[c][0]]
  BY <1>2 DEF Texts
<1>6. CASE c \notin Cells(r)
  <2>1. c \in Node \ On(r)
    BY <1>1, <1>6 DEF Cells, Cell
  <2>2. next[c][0] = Nil /\ r[c] <= r[x]
    BY <1>2, <1>3, <2>1 DEF Ordered, On
  <2>3. z[c] = w[c]
    BY <1>4, <2>2
  <2> QED BY <1>5, <2>2, <2>3 DEF Along
<1>7. CASE c \in Cells(r)
  <2>1. OnLevel(r, c, 0) /\ FirstBehind(r, c, 0)
    BY <1>2, <1>3, <1>7, CellFacts DEF OnLevel, Cells, Ordered
  <2>2. next[c][0] = x => c = update[0]
    BY <1>3, <2>1, LeadsElsewhere
  <2>3. CASE r[x] < r[c]
    <3>1. /\ next[c][0] \in On(r)
          /\ next[c][0] = x => z[c] = e \o w[x]
          /\ next[c][0] # x => z[c] = data[next[c][0]] \o z[next[c][0]]
      BY <1>7, <2>3 DEF PassedOn
    <3> QED BY <1>3, <2>2, <3>1 DEF Along
  <2>4. CASE ~ r[x] < r[c]
    <3>1. z[c] = w[c] /\ r[c] <= r[x]
      BY <1>3, <1>4, <2>4
    <3>2. CASE next[c][0] = Nil
      BY <1>5, <3>1, <3>2 DEF Along
    <3>3. CASE next[c][0] # Nil
      <4>1. PICK m \in On(r) : m = next[c][0] /\ r[m] < r[c]
        BY <2>1, <3>3 DEF FirstBehind
      <4>2. m \in Cell /\ m # x /\ r[m] <= r[x]
        BY <1>3, <3>1, <4>1
      <4>3. z[m] = w[m]
        BY <1>4, <4>2
      <4> QED BY <1>3, <1>5, <3>1, <3>3, <4>1, <4>2, <4>3 DEF Along
    <3> QED BY <3>2, <3>3
  <2> QED BY <2>3, <2>4
<1> QED BY <1>6, <1>7

(* The spans that fit the texts once x holds e.                             *)
LEMMA RewrittenSpans ==
  ASSUME TypeOK, NEW r, NEW w, Good(r, w), pc = "found", x # Nil,
         NEW e \in Seq(Char), NEW z, PassedOn(r, w, e, z),
         NEW i \in Levels, NEW c \in Cell, OnLevel(r, c, i)
  PROVE  /\ c = update[i] =>
              /\ Len(z[c]) - After(z, next[c][i]) = span[c][i] + Len(e) - Size(x)
              /\ Len(z[c]) - After(z, next[c][i]) \in Nat
              /\ After(z, next[c][i]) = After(w, next[c][i])
              /\ Len(z[c]) = Ahead(w, c) + Len(e) + Len(w[x])
         /\ c # update[i] => Len(z[c]) - After(z, next[c][i]) = span[c][i]
<1>1. Whole
  BY DEF Whole
<1>2. Ordered(r) /\ Held(r, w) /\ Texts(w)
  BY <1>1 DEF Good, Held
<1>3. x \in On(r) /\ x \in Cell /\ c \in Cells(r) /\ \A d \in Cell : r[d] \in Nat
  BY <1>2, TargetIs, CellFacts DEF OnLevel
<1>4. \A d \in Cell : ~ r[x] < r[d] => z[d] = w[d]
  BY DEF PassedOn
<1>5. PICK s \in Nat : s = span[c][i] /\ s = Len(w[c]) - After(w, next[c][i])
  BY <1>2, Kinds DEF Held, Spanned
<1>6. PICK n \in Nat, b \in Nat, k \in Nat :
        n = Len(w[c]) /\ b = Len(w[x]) /\ k = Size(x)
  BY <1>2, <1>3, TextFacts DEF On
<1>7. PICK l \in Nat : l = Len(e)
  OBVIOUS
<1>8. FirstBehind(r, c, i)
  BY <1>2 DEF Ordered
<1>9. ASSUME NEW d \in Cells(r), d \in Cell, r[x] < r[d]
      PROVE  \E g \in Nat : g = Ahead(w, d) /\ Len(z[d]) = g + l + b /\ Len(w[d]) = g + k + b
  <2>1. Ahead(w, d) \in Nat /\ Len(w[d]) = Ahead(w, d) + k + b
    BY <1>2, <1>3, <1>6, <1>9, AheadIs
  <2>2. Len(z[d]) = Ahead(w, d) + l + b
    BY <1>6, <1>7, <1>9 DEF PassedOn
  <2> QED BY <2>1, <2>2
<1>10. CASE r[c] <= r[x]
  <2>1. c # update[i]
    BY <1>3, <1>10, UpdateIs
  <2>2. z[c] = w[c]
    BY <1>3, <1>4, <1>10
  <2>3. After(z, next[c][i]) = After(w, next[c][i])
    <3>1. CASE next[c][i] = Nil
      BY <3>1 DEF After
    <3>2. CASE next[c][i] # Nil
      <4>1. PICK m \in On(r) : m = next[c][i] /\ r[m] < r[c] /\ m \in Cell
        BY <1>2, <1>8, <3>2, CellFacts DEF FirstBehind
      <4>2. z[m] = w[m]
        BY <1>3, <1>4, <1>10, <4>1
      <4> QED BY <4>1, <4>2 DEF After
    <3> QED BY <3>1, <3>2
  <2> QED BY <1>5, <2>1, <2>2, <2>3
<1>11. CASE c = update[i]
  <2>1. r[x] < r[c]
    BY <1>11, UpdateIs
  <2>2. PICK g \in Nat : g = Ahead(w, c) /\ Len(z[c]) = g + l + b /\ Len(w[c]) = g + k + b
    BY <1>3, <1>9, <2>1
  <2>3. PICK a \in Nat : a = After(w, next[c][i]) /\ a = After(z, next[c][i]) /\ a <= b
    <3>1. CASE next[c][i] = Nil
      BY <1>6, <3>1 DEF After
    <3>2. CASE next[c][i] # Nil
      <4>1. PICK m \in On(r) : m = next[c][i] /\ r[m] <= r[x] /\ m \in Cell /\ m # Nil
        BY <1>2, <1>11, <3>2, UpdateIs, CellFacts
      <4>2. z[m] = w[m]
        BY <1>3, <1>4, <4>1
      <4>3. PICK a \in Nat : a = Len(w[m])
        BY <1>2, <4>1, TextFacts
      <4>4. a <= b
        <5>1. CASE m = x
          BY <1>6, <4>3, <5>1
        <5>2. CASE m # x
          <6>1. r[m] < r[x]
            BY <1>2, <1>3, <4>1, <5>2, CellFacts DEF Ordered
          <6>2. b >= a + Size(m) /\ Size(m) \in Nat
            BY <1>2, <1>3, <1>6, <4>1, <4>3, <6>1, Apart, CellFacts, TextFacts
          <6> QED BY <6>2
        <5> QED BY <5>1, <5>2
      <4> QED BY <4>1, <4>2, <4>3, <4>4 DEF After
    <3> QED BY <3>1, <3>2
  <2>4. n = g + k + b /\ s = n - a
    BY <1>5, <1>6, <2>2, <2>3
  <2>5. (g + l + b) - a = s + l - k /\ (g + l + b) - a \in Nat
    BY <2>3, <2>4
  <2>6. Len(z[c]) - After(z, next[c][i]) = (g + l + b) - a
    BY <2>2, <2>3
  <2>7. span[c][i] + Len(e) - Size(x) = s + l - k
    BY <1>5, <1>6, <1>7
  <2>8. Len(z[c]) = Ahead(w, c) + Len(e) + Len(w[x])
    BY <1>6, <1>7, <2>2
  <2> QED BY <1>11, <2>3, <2>5, <2>6, <2>7, <2>8
<1>12. CASE ~ r[c] <= r[x] /\ c # update[i]
  <2>1. PICK m \in On(r) : m = next[c][i] /\ r[x] < r[m] /\ r[m] < r[c] /\ m \in Cell /\ m # Nil
                           /\ m \in Cells(r)
    BY <1>2, <1>12, UpdateIs, CellFacts
  <2>2. PICK g \in Nat : Len(z[c]) = g + l + b /\ Len(w[c]) = g + k + b
    BY <1>3, <1>9, <1>12
  <2>3. PICK h \in Nat : Len(z[m]) = h + l + b /\ Len(w[m]) = h + k + b
    BY <1>9, <2>1
  <2>4. After(z, next[c][i]) = h + l + b /\ After(w, next[c][i]) = h + k + b
    BY <2>1, <2>3 DEF After
  <2>5. (g + l + b) - (h + l + b) = (g + k + b) - (h + k + b)
    OBVIOUS
  <2> QED BY <1>5, <1>12, <2>2, <2>4, <2>5
<1> QED BY <1>10, <1>11, <1>12

(* Characters replaced in the target, with the spans of the links over the  *)
(* position adjusted.                                                       *)
LEMMA RewriteKeeps ==
  ASSUME TypeOK, NEW r, NEW w, Good(r, w), pc = "found", x # Nil, Whole',
         NEW e \in Seq(Char), NEW z, PassedOn(r, w, e, z),
         next' = next, \A c \in Cells(r) : level'[c] = level[c],
         AllocMayFail \/ level' = level,
         data' = [data EXCEPT ![x] = e],
         span' = [c \in Cell |-> [i \in Levels |-> span'[c][i]]],
         \A c \in Cell, i \in Levels :
           span'[c][i] = IF c = update[i] THEN span[c][i] + Len(e) - Size(x)
                                          ELSE span[c][i]
  PROVE  /\ data' \in [Node -> Seq(Char)] /\ span' \in [Cell -> [Levels -> Nat]]
         /\ Ordered(r)' /\ Texts(z)' /\ Spanned(r, z)'
<1>1. Whole
  BY DEF Whole
<1>2. Ordered(r) /\ Held(r, w) /\ Texts(w)
  BY <1>1 DEF Good, Held
<1>3. /\ x \in On(r) /\ x \in Cell /\ x \in Node
      /\ \A d \in Cell : r[d] \in Nat
      /\ On(r) \subseteq Node /\ Cells(r) \subseteq Cell /\ On(r) \subseteq Cells(r)
  BY <1>2, TargetIs, CellFacts
<1>4. data' \in [Node -> Seq(Char)]
  BY <1>3 DEF TypeOK
<1>5. On(r)' = On(r) /\ Cells(r)' = Cells(r)
  BY <1>1 DEF On, Cells
<1>6. \A i : \A c \in Cells(r) : OnLevel(r, c, i)' <=> OnLevel(r, c, i)
  BY <1>5 DEF OnLevel
<1>7. ASSUME NEW c \in Cell, NEW i \in Levels
      PROVE  /\ span'[c][i] \in Nat
             /\ OnLevel(r, c, i) => span'[c][i] = Len(z[c]) - After(z, next[c][i])
             /\ c \notin Cells(r) => span'[c][i] = span[c][i]
  <2>1. CASE c = update[i]
    <3>1. OnLevel(r, c, i) /\ c \in Cells(r)
      BY <2>1, UpdateIs DEF OnLevel
    <3>2. /\ Len(z[c]) - After(z, next[c][i]) = span[c][i] + Len(e) - Size(x)
          /\ Len(z[c]) - After(z, next[c][i]) \in Nat
      BY <2>1, <3>1, RewrittenSpans
    <3> QED BY <2>1, <3>1, <3>2
  <2>2. CASE c # update[i]
    BY <2>2, Kinds, RewrittenSpans
  <2> QED BY <2>1, <2>2
<1>8. span' \in [Cell -> [Levels -> Nat]]
  BY <1>7
<1>9. Ordered(r)'
  <2>1. \A n \in Node \ On(r), i \in Levels : next'[n][i] = Nil /\ span'[n][i] = 0
    <3>1. ASSUME NEW n \in Node \ On(r), NEW i \in Levels
          PROVE  next'[n][i] = Nil /\ span'[n][i] = 0
      <4>1. n \in Cell /\ n \notin Cells(r)
        BY BiModalAssumption DEF Cell, Cells
      <4>2. next[n][i] = Nil /\ span[n][i] = 0
        BY <1>2 DEF Ordered
      <4>3. span'[n][i] = span[n][i]
        BY <1>7, <4>1
      <4> QED BY <4>2, <4>3
    <3> QED BY <3>1
  <2>2. \A n \in On(r) : level'[n] = level[n]
    BY <1>3
  <2>3. ASSUME NEW c \in Cell, NEW i \in Levels, OnLevel(r, c, i)'
        PROVE  FirstBehind(r, c, i)'
    <3>1. OnLevel(r, c, i)
      BY <1>5, <1>6, <2>3 DEF OnLevel
    <3>2. FirstBehind(r, c, i)
      BY <1>2, <3>1 DEF Ordered
    <3> QED BY <1>5, <2>2, <3>2 DEF FirstBehind
  <2>4. ~AllocMayFail => Allocated' \subseteq On(r)
    BY <1>2 DEF Ordered, Allocated
  <2> QED BY <1>2, <1>5, <2>1, <2>2, <2>3, <2>4 DEF Ordered
<1>10. Spanned(r, z)'
  <2>1. \A c \in Cell, i \in Levels : OnLevel(r, c, i)' => OnLevel(r, c, i)
    BY <1>5, <1>6 DEF OnLevel
  <2> QED BY <1>7, <2>1 DEF Spanned, After
<1>11. Texts(z)'
  <2>1. ASSUME NEW c \in Cell
        PROVE  z[c] = IF next[c][0] = Nil THEN << >> ELSE data'[next[c][0]] \o z[next[c][0]]
    <3>1. Along(w, e, z, c) /\ z[x] = w[x]
      BY PassedAlong, SameBehind
    <3>2. data'[x] = e /\ \A n \in Node : n # x => data'[n] = data[n]
      BY <1>3 DEF TypeOK
    <3> QED BY <3>1, <3>2, BiModalAssumption DEF Along
  <2> QED BY <2>1 DEF PassedOn, Texts
<1> QED BY <1>4, <1>8, <1>9, <1>10, <1>11

(* find_node has returned: the position is inside the target, or at its end.*)
LEMMA OffsetFits ==
  ASSUME TypeOK, NEW r, NEW w, Good(r, w), pc = "found", x # Nil, ~SkipsTarget
  PROVE  /\ Offset \in Nat /\ Offset <= Size(x) /\ acc + Offset = req.pos
         /\ head \in Cells(r) /\ r[x] < r[head] /\ Ahead(w, head) = acc
         /\ Len(w[head]) = acc + Size(x) + Len(w[x])
<1>1. Whole
  BY DEF Whole
<1>2. Ordered(r) /\ Texts(w)
  BY <1>1 DEF Good, Held
<1>3. /\ x \in On(r) /\ x \in Cell /\ x \in Node /\ head \in Cell /\ head \in Cells(r)
      /\ r[x] < r[head] /\ acc <= req.pos /\ acc + Size(x) = EndOf(w, x)
      /\ req.pos <= Len(w[head])
  BY <1>1, <1>2, TargetIs, CellFacts DEF Cells
<1>4. PICK h \in Nat, b \in Nat, k \in Nat, a \in Nat, p \in Nat :
        h = Len(w[head]) /\ b = Len(w[x]) /\ k = Size(x) /\ a = acc /\ p = req.pos
  BY <1>2, <1>3, TextFacts, Kinds
<1>5. a <= p /\ p <= h /\ a + k = h - b
  BY <1>3, <1>4 DEF EndOf
<1>6. PICK o \in Nat : o = p - a
  BY <1>5
<1>7. o = Offset
  BY <1>4, <1>6 DEF Offset
<1>8. o <= k
  <2>1. CASE next[x][0] = Nil
    <3>1. w[x] = << >>
      BY <1>2, <1>3, <2>1 DEF Texts
    <3>2. b = 0
      BY <1>4, <3>1
    <3> QED BY <1>5, <1>6, <3>2
  <2>2. CASE next[x][0] # Nil
    <3>1. ~ o >= k
      BY <1>4, <1>7, <2>2 DEF SkipsTarget
    <3> QED BY <3>1
  <2> QED BY <2>1, <2>2
<1>9. Ahead(w, head) = h - b - k
  BY <1>4 DEF Ahead
<1>10. h - b - k = a /\ h = a + k + b /\ a + o = p
  BY <1>5, <1>6
<1> QED BY <1>3, <1>4, <1>7, <1>8, <1>9, <1>10

(* An insertion into the target is one into the text.                       *)
InsertedAs(r, w, e, z) ==
  /\ e = Edited /\ e \in Seq(Char) /\ PassedOn(r, w, e, z)
  /\ Len(e) = Size(x) + Len(req.str)
  /\ z[head] = StringInsert(w[head], req.pos, req.str)
  /\ Len(z[head]) = Len(w[head]) + Len(req.str)
  /\ Len(w[head]) + Len(req.str) <= MaxText

(* The rewritten node and texts of an insertion exist.                      *)
LEMMA InsertedIs ==
  ASSUME TypeOK, NEW r, NEW w, Good(r, w), Found("insert"), x # Nil
  PROVE  \E e, z : InsertedAs(r, w, e, z)
<1>1. Whole /\ pc = "found" /\ ~SkipsTarget /\ req.op = "insert"
  BY DEF Whole, Found
<1>2. Ordered(r) /\ Held(r, w) /\ Texts(w) /\ Served(w)
  BY <1>1 DEF Good, Held
<1>3. /\ x \in On(r) /\ x \in Cell /\ x \in Node /\ head \in Cell
      /\ data[x] \in Seq(Char) /\ w[head] \in Seq(Char)
  BY <1>1, <1>2, TargetIs, CellFacts, TextFacts
<1>4. PICK s \in Seq(Char) : s = req.str
  BY Kinds
<1>5. /\ Offset \in Nat /\ Offset <= Size(x) /\ acc + Offset = req.pos
      /\ head \in Cells(r) /\ r[x] < r[head] /\ Ahead(w, head) = acc
      /\ Len(w[head]) = acc + Size(x) + Len(w[x])
  BY <1>1, OffsetFits
<1>6. PICK o \in Nat, a \in Nat, p \in Nat, k \in Nat, b \in Nat, h \in Nat :
        /\ o = Offset /\ a = acc /\ p = req.pos /\ k = Size(x) /\ b = Len(w[x])
        /\ h = Len(w[head])
  BY <1>2, <1>3, <1>5, Kinds, TextFacts
<1>7. o <= k /\ a + o = p /\ h = a + k + b /\ Ahead(w, head) = a
  BY <1>5, <1>6
<1>8. o \in 0 .. Size(x) /\ o + 1 \in 1 .. Size(x) + 1
  BY <1>6, <1>7
<1>9. PICK e : e = Seqs!Splice(data[x], o, s, o + 1)
  OBVIOUS
<1>10. e = Edited
  BY <1>4, <1>6, <1>9 DEF Edited, StringInsert, Seqs!Splice, Size
<1>11. e \in Seq(Char) /\ Len(e) = k + Len(s)
  <2>1. o \in 0 .. Len(data[x]) /\ o + 1 \in 1 .. Len(data[x]) + 1 /\ Len(data[x]) = k
    BY <1>6, <1>8 DEF Size
  <2>2. e \in Seq(Char) /\ Len(e) = o + Len(s) + (Len(data[x]) + 1 - (o + 1))
    BY <1>3, <1>9, <2>1, Seqs!SpliceLen
  <2>3. PICK l \in Nat : l = Len(s)
    BY <1>4
  <2>4. o + l + (k + 1 - (o + 1)) = k + l
    OBVIOUS
  <2> QED BY <2>1, <2>2, <2>3, <2>4
<1>12. PICK z : z = Rewritten(r, w, e)
  OBVIOUS
<1>13. PassedOn(r, w, e, z)
  BY <1>1, <1>2, <1>3, <1>11, <1>12, RewrittenIs
<1>14. z[head] = StringInsert(w[head], req.pos, req.str)
  <2>1. z[head] = Seqs!Splice(w[head], Ahead(w, head) + o, s, Ahead(w, head) + (o + 1))
    BY <1>1, <1>2, <1>3, <1>5, <1>8, <1>9, <1>12, EditsText
  <2>2. Ahead(w, head) + o = p /\ Ahead(w, head) + (o + 1) = p + 1
    BY <1>7
  <2>3. z[head] = Seqs!Splice(w[head], p, s, p + 1)
    BY <2>1, <2>2
  <2> QED BY <1>4, <1>6, <2>3 DEF StringInsert, Seqs!Splice
<1>15. Len(z[head]) = Len(w[head]) + Len(s)
  <2>1. Len(z[head]) = Ahead(w, head) + Len(e) + Len(w[x])
    BY <1>5, <1>13 DEF PassedOn
  <2>2. PICK l \in Nat : l = Len(s)
    BY <1>4
  <2>3. a + (k + l) + b = (a + k + b) + l
    OBVIOUS
  <2> QED BY <1>6, <1>7, <1>11, <2>1, <2>2, <2>3
<1>16. Len(w[head]) + Len(s) <= MaxText
  BY <1>1, <1>2, <1>4 DEF Served
<1>17. InsertedAs(r, w, e, z)
  BY <1>4, <1>6, <1>10, <1>11, <1>13, <1>14, <1>15, <1>16 DEF InsertedAs
<1> QED BY <1>17

(* The sizes after an insertion, counted or not.                            *)
LEMMA InsertSized ==
  ASSUME TypeOK, NEW r, NEW w, Good(r, w), Found("insert"), x # Nil,
         NEW e, NEW z, InsertedAs(r, w, e, z),
         \/ total_size' = total_size + Len(req.str)
         \/ AllocMayFail /\ total_size' = total_size
  PROVE  Sized(z)' /\ total_size' \in Nat
<1>1. Whole /\ Sized(w) /\ Texts(w) /\ Ordered(r)
  BY DEF Whole, Found, Good, Held
<1>2. PICK t \in Nat, h \in Nat, l \in Nat :
        t = total_size /\ h = Len(w[head]) /\ l = Len(req.str)
  BY <1>1, Kinds, TextFacts, CellFacts
<1>3. t <= h /\ (~AllocMayFail => t = h) /\ Len(z[head]) = h + l /\ h + l <= MaxText
  BY <1>1, <1>2 DEF Sized, InsertedAs
<1>4. \/ total_size' = t + l
      \/ AllocMayFail /\ total_size' = t
  BY <1>2
<1> QED BY <1>3, <1>4 DEF Sized

(* An insertion that needs no split, or whose split failed.                 *)
LEMMA InsertPlainKeeps ==
  ASSUME TypeOK, NEW r, NEW w, Good(r, w), InsertFits \/ InsertSplitFails
  PROVE  /\ TypeOK'
         /\ \E r2, w2 : /\ Good(r2, w2)' /\ Followed(r, r2)
                        /\ w2[head] = StringInsert(w[head], req.pos, req.str)
<1>1. /\ Found("insert") /\ x # Nil /\ Whole /\ Whole' /\ pc = "found" /\ pc' = "idle"
      /\ next' = next
      /\ \/ UNCHANGED level
         \/ InsertSplitFails /\ SplitNodeFails
      /\ data' = [data EXCEPT ![x] = Edited]
      /\ mode' = [mode EXCEPT ![x] = "gap"]
      /\ span' = SpansGrown(Len(req.str))
      /\ req' = NoRequest
      /\ \/ total_size' = total_size + Len(req.str)
         \/ AllocMayFail /\ total_size' = total_size
  BY DEF InsertFits, InsertSplitFails, Found, Return, Whole
<1>2. PICK how \in {"ok", "bad_alloc"} : Return(how)
  BY DEF InsertFits, InsertSplitFails
<1>3. PICK e, z : InsertedAs(r, w, e, z)
  BY <1>1, InsertedIs
<1>4. Ordered(r) /\ Held(r, w) /\ Texts(w) /\ NoneEmpty(r)
  BY <1>1 DEF Good, Held
<1>5. x \in On(r) /\ x \in Node
  BY <1>1, TargetIs
<1>6. e \in Seq(Char) /\ PassedOn(r, w, e, z) /\ data' = [data EXCEPT ![x] = e]
  BY <1>1, <1>3 DEF InsertedAs
<1>7. PICK k \in Nat, l \in Nat : k = Size(x) /\ l = Len(req.str) /\ Len(e) = k + l
  BY <1>3, <1>4, <1>5, TextFacts, Kinds DEF InsertedAs
<1>8. ASSUME NEW c \in Cell, NEW i \in Levels
      PROVE  span'[c][i] = IF c = update[i] THEN span[c][i] + Len(e) - Size(x)
                                          ELSE span[c][i]
  <2>1. PICK s \in Nat : s = span[c][i]
    BY Kinds
  <2>2. s + l = s + (k + l) - k
    OBVIOUS
  <2> QED BY <1>1, <1>7, <2>1, <2>2 DEF SpansGrown
<1>9. span' = [c \in Cell |-> [i \in Levels |-> span'[c][i]]]
  BY <1>1 DEF SpansGrown
<1>10. PICK v \in {Nil} \cup Free, k2 \in 1 .. MaxLevel :
         /\ v = Nil => level' = level
         /\ v # Nil => /\ level' = [level EXCEPT ![v] = k2]
                       /\ AllocMayFail /\ req.op = "insert" /\ TooLong /\ outcome' = "bad_alloc"
  <2>1. CASE UNCHANGED level
    <3>1. 1 \in 1 .. MaxLevel
      BY BiModalAssumption
    <3>2. \A v \in {Nil} : Nil \in {Nil} \cup Free /\ v = Nil
      OBVIOUS
    <3> QED BY <2>1, <3>1, <3>2
  <2>2. CASE InsertSplitFails /\ ~ UNCHANGED level
    <3>1. PICK v \in Free, k3 \in 1 .. MaxLevel : level' = [level EXCEPT ![v] = SplitLevel(x, k3)]
      BY <2>2 DEF InsertSplitFails, SplitNodeFails
    <3>2. v # Nil
      BY <3>1, BiModalAssumption DEF Free
    <3>3. SplitLevel(x, k3) \in 1 .. MaxLevel
      <4>1. level[x] \in 1 .. MaxLevel
        BY <1>4, <1>5, BiModalAssumption DEF Ordered, TypeOK, Cell
      <4> QED BY <4>1, BiModalAssumption DEF SplitLevel, MinOf
    <3>4. AllocMayFail /\ req.op = "insert" /\ TooLong /\ outcome' = "bad_alloc"
      BY <2>2 DEF InsertSplitFails, Found, Return
    <3> QED BY <3>1, <3>2, <3>3, <3>4
  <2> QED BY <1>1, <2>1, <2>2
<1>11. v # Nil => v \in Free /\ v \in Node /\ v \notin Cells(r) /\ v # head /\ level[v] = 0
  BY <1>4, <1>10, BiModalAssumption DEF Free, Allocated, Ordered, Cells, On, TypeOK, Cell
<1>12. \A c \in Cells(r) : level'[c] = level[c]
  <2>1. \A c \in Cells(r) : c \in Cell
    BY <1>4, CellFacts
  <2> QED BY <1>10, <1>11, <2>1 DEF TypeOK
<1>13. level' \in [Cell -> 0 .. MaxLevel] /\ level'[head] = MaxLevel
  <2>1. CASE v = Nil
    BY <1>10, <2>1 DEF TypeOK
  <2>2. CASE v # Nil
    <3>1. level' = [level EXCEPT ![v] = k2] /\ k2 \in 0 .. MaxLevel /\ v # head
      BY <1>10, <1>11, <2>2, BiModalAssumption
    <3>2. level \in [Cell -> 0 .. MaxLevel] /\ level[head] = MaxLevel /\ head \in Cell
      BY DEF TypeOK, Cell
    <3> QED BY <3>1, <3>2
  <2> QED BY <2>1, <2>2
<1>14. /\ data' \in [Node -> Seq(Char)] /\ span' \in [Cell -> [Levels -> Nat]]
       /\ Ordered(r)' /\ Texts(z)' /\ Spanned(r, z)'
  <2>1. next' = next /\ Whole' /\ pc = "found" /\ x # Nil /\ (AllocMayFail \/ level' = level)
    BY <1>1, <1>10
  <2> QED BY <1>6, <1>8, <1>9, <1>12, <2>1, RewriteKeeps
<1>15. Sized(z)' /\ total_size' \in Nat
  BY <1>1, <1>3, InsertSized
<1>16. NoneEmpty(r)'
  <2>1. On(r)' = On(r)
    BY DEF On
  <2>2. ASSUME \A n \in On(r) : data[n] # << >>, NEW n \in On(r)
        PROVE  data'[n] # << >>
    <3>1. CASE n = x
      <4>1. data[x] # << >> /\ data[x] \in Seq(Char)
        BY <1>4, <1>5, <2>2, TextFacts
      <4>2. k > 0
        BY <1>7, <4>1 DEF Size
      <4>3. data'[x] = e
        BY <1>5, <1>6 DEF TypeOK
      <4>4. Len(e) > 0
        BY <1>7, <4>2
      <4> QED BY <1>6, <3>1, <4>3, <4>4
    <3>2. CASE n # x
      BY <1>5, <1>6, <2>2, <3>2 DEF TypeOK, On
    <3> QED BY <3>1, <3>2
  <2> QED BY <1>4, <2>1, <2>2 DEF NoneEmpty
<1>17. TypeOK'
  <2>1. mode' \in [Node -> {"gap", "compact"}]
    BY <1>1 DEF TypeOK
  <2> QED BY <1>1, <1>2, <1>13, <1>14, <1>15, <2>1, BiModalAssumption, SMTT(30)
          DEF TypeOK, Return, NoUpdate, Levels, Cell
<1>18. Served(z)'
  BY <1>1 DEF Served, NoRequest
<1>19. Good(r, z)'
  BY <1>1, <1>14, <1>15, <1>16, <1>18 DEF Good, Held
<1>20. Followed(r, r)
  <2>1. CASE v = Nil
    BY <1>10, <2>1 DEF Followed, Allocated
  <2>2. CASE v # Nil
    <3>1. Allocated' = Allocated \cup {v}
      BY <1>10, <1>11, <2>2 DEF Allocated, TypeOK, Cell
    <3>2. v \notin On(r)
      BY <1>11, <2>2 DEF Cells
    <3>3. Allocated' \ On(r) = (Allocated \ On(r)) \cup {v}
      BY <3>1, <3>2
    <3>4. NewBlockLost(r, r)
      BY <1>1, <1>10, <1>11, <2>2, <3>3 DEF NewBlockLost
    <3> QED BY <3>4 DEF Followed
  <2> QED BY <2>1, <2>2
<1> QED BY <1>3, <1>17, <1>19, <1>20 DEF InsertedAs

(* A round of an erase in the target is one in the text.                    *)
ErasedAs(r, w, e, z) ==
  /\ e = StringErase(data[x], Offset, DelLen) /\ e \in Seq(Char)
  /\ PassedOn(r, w, e, z)
  /\ DelLen \in Nat /\ DelLen <= req.len /\ req.pos + DelLen <= Len(w[head])
  /\ Len(e) = Size(x) - DelLen
  /\ z[head] = StringErase(w[head], req.pos, DelLen)
  /\ Len(z[head]) = Len(w[head]) - DelLen

(* The rewritten node and texts of a round of an erase exist.               *)
LEMMA ErasedIs ==
  ASSUME TypeOK, NEW r, NEW w, Good(r, w), Found("erase"), x # Nil
  PROVE  \E e, z : ErasedAs(r, w, e, z)
<1>1. Whole /\ pc = "found" /\ ~SkipsTarget /\ req.op = "erase"
  BY DEF Whole, Found
<1>2. Ordered(r) /\ Held(r, w) /\ Texts(w) /\ Served(w)
  BY <1>1 DEF Good, Held
<1>3. /\ x \in On(r) /\ x \in Cell /\ x \in Node /\ head \in Cell
      /\ data[x] \in Seq(Char) /\ w[head] \in Seq(Char) /\ w[x] \in Seq(Char)
  BY <1>1, <1>2, TargetIs, CellFacts, TextFacts
<1>4. /\ Offset \in Nat /\ Offset <= Size(x) /\ acc + Offset = req.pos
      /\ head \in Cells(r) /\ r[x] < r[head] /\ Ahead(w, head) = acc
      /\ Len(w[head]) = acc + Size(x) + Len(w[x])
  BY <1>1, OffsetFits
<1>5. PICK o \in Nat, a \in Nat, p \in Nat, k \in Nat, b \in Nat, h \in Nat, n \in Nat :
        /\ o = Offset /\ a = acc /\ p = req.pos /\ k = Size(x) /\ b = Len(w[x])
        /\ h = Len(w[head]) /\ n = req.len
  BY <1>2, <1>3, <1>4, Kinds, TextFacts
<1>6. o <= k /\ a + o = p /\ h = a + k + b /\ Ahead(w, head) = a
  BY <1>4, <1>5
<1>7. PICK f \in Nat : f = k - o /\ o + f = k
  BY <1>6
<1>8. PICK d \in Nat : d = DelLen /\ d <= n /\ d <= f
  <2>1. DelLen = MinOf(n, f)
    BY <1>5, <1>7 DEF DelLen
  <2>2. MinOf(n, f) \in Nat /\ MinOf(n, f) <= n /\ MinOf(n, f) <= f
    BY DEF MinOf
  <2> QED BY <2>1, <2>2
<1>9. o + d <= k /\ p + d <= h
  BY <1>6, <1>7, <1>8
<1>10. PICK q \in Nat : q = o + d + 1
  OBVIOUS
<1>11. o \in 0 .. Size(x) /\ q \in 1 .. Size(x) + 1
  BY <1>5, <1>6, <1>9, <1>10
<1>12. << >> \in Seq(Char) /\ Len(<< >>) = 0
  OBVIOUS
<1>13. PICK s \in Seq(Char) : s = << >>
  BY <1>12
<1>14. s = << >> /\ Len(s) = 0
  BY <1>12, <1>13
<1>15. PICK e : e = Seqs!Splice(data[x], o, s, q)
  OBVIOUS
<1>16. o \in 0 .. Len(data[x]) /\ q \in 1 .. Len(data[x]) + 1 /\ Len(data[x]) = k
  BY <1>5, <1>11 DEF Size
<1>17. e = StringErase(data[x], Offset, DelLen)
  <2>1. e = SubSeq(data[x], 1, o) \o SubSeq(data[x], q, Len(data[x]))
    BY <1>3, <1>14, <1>15, <1>16, Seqs!SpliceNothing
  <2> QED BY <1>5, <1>8, <1>10, <2>1 DEF StringErase
<1>18. e \in Seq(Char) /\ Len(e) = k - d
  <2>1. e \in Seq(Char) /\ Len(e) = o + Len(s) + (Len(data[x]) + 1 - q)
    BY <1>3, <1>15, <1>16, Seqs!SpliceLen, ZenonT(30)
  <2>2. o + 0 + (k + 1 - q) = k - d
    BY <1>10
  <2> QED BY <1>14, <1>16, <2>1, <2>2
<1>19. PICK z : z = Rewritten(r, w, e)
  OBVIOUS
<1>20. PassedOn(r, w, e, z)
  BY <1>1, <1>2, <1>3, <1>18, <1>19, RewrittenIs
<1>21. z[head] = StringErase(w[head], req.pos, DelLen)
  <2>1. z[head] = Seqs!Splice(w[head], Ahead(w, head) + o, s, Ahead(w, head) + q)
    BY <1>1, <1>2, <1>3, <1>4, <1>11, <1>15, <1>19, EditsText
  <2>2. Ahead(w, head) + o = p /\ Ahead(w, head) + q = p + d + 1
    BY <1>6, <1>10
  <2>3. z[head] = Seqs!Splice(w[head], p, s, p + d + 1)
    BY <2>1, <2>2
  <2>4. p \in 0 .. Len(w[head]) /\ p + d + 1 \in 1 .. Len(w[head]) + 1
    BY <1>5, <1>9, SMTT(30)
  <2>5. z[head] = SubSeq(w[head], 1, p) \o SubSeq(w[head], p + d + 1, Len(w[head]))
    BY <1>3, <1>14, <2>3, <2>4, Seqs!SpliceNothing
  <2> QED BY <1>5, <1>8, <2>5 DEF StringErase
<1>22. Len(z[head]) = Len(w[head]) - d
  <2>1. Len(z[head]) = Ahead(w, head) + Len(e) + Len(w[x])
    BY <1>4, <1>20 DEF PassedOn
  <2>2. a + (k - d) + b = (a + k + b) - d
    OBVIOUS
  <2> QED BY <1>5, <1>6, <1>18, <2>1, <2>2
<1>23. ErasedAs(r, w, e, z)
  BY <1>5, <1>8, <1>9, <1>17, <1>18, <1>20, <1>21, <1>22 DEF ErasedAs
<1> QED BY <1>23

(* What a round of an erase leaves of the sizes and of the request.         *)
LEMMA EraseServed ==
  ASSUME TypeOK, NEW r, NEW w, Good(r, w), Found("erase"), x # Nil,
         NEW e, NEW z, ErasedAs(r, w, e, z), EraseAgain
  PROVE  /\ Sized(z)' /\ Served(z)' /\ total_size' \in Nat
         /\ req' \in Request /\ req'.op = "erase" /\ req'.pos = req.pos
         /\ req'.len = req.len - DelLen
<1>1. /\ Whole /\ pc = "found" /\ req.op = "erase" /\ pc' = "loop"
      /\ req' = [req EXCEPT !.len = @ - DelLen] /\ total_size' = total_size - DelLen
  BY DEF Whole, Found, EraseAgain
<1>2. Ordered(r) /\ Sized(w) /\ Texts(w) /\ Served(w)
  BY <1>1 DEF Good, Held
<1>3. PICK t \in Nat, h \in Nat, n \in Nat, p \in Nat :
        t = total_size /\ h = Len(w[head]) /\ n = req.len /\ p = req.pos
  BY <1>2, Kinds, TextFacts, CellFacts
<1>4. PICK d \in Nat : d = DelLen /\ d <= n /\ p + d <= h /\ Len(z[head]) = h - d
  BY <1>3 DEF ErasedAs
<1>5. /\ t <= h /\ h <= MaxText /\ (~AllocMayFail => t = h) /\ p <= t
      /\ \/ p + n <= t
         \/ p > 0 /\ ~AllocMayFail
  BY <1>1, <1>2, <1>3 DEF Sized, Served
<1>6. d <= t /\ p <= t - d
  BY <1>4, <1>5
<1>7. PICK t2 \in Nat, n2 \in Nat, h2 \in Nat : t2 = t - d /\ n2 = n - d /\ h2 = h - d
  BY <1>4, <1>5, <1>6
<1>8. req \in Request
  BY <1>1 DEF TypeOK, NoRequest
<1>9. req' = [req EXCEPT !.len = n2]
  BY <1>1, <1>3, <1>4, <1>7, <1>8 DEF Request
<1>10. req' \in Request /\ req'.op = "erase" /\ req'.pos = p /\ req'.len = n2
  BY <1>1, <1>3, <1>8, <1>9 DEF Request
<1>11. total_size' = t2 /\ Len(z[head]) = h2
  BY <1>1, <1>3, <1>4, <1>7
<1>12. Sized(z)'
  BY <1>5, <1>7, <1>11, BiModalAssumption DEF Sized
<1>13. Served(z)'
  <2>1. /\ p <= t2
        /\ \/ p + n2 <= t2
           \/ p > 0 /\ ~AllocMayFail
    BY <1>5, <1>6, <1>7
  <2> QED BY <1>1, <1>10, <1>11, <2>1 DEF Served
<1> QED BY <1>3, <1>4, <1>7, <1>10, <1>11, <1>12, <1>13

(* A round that leaves something in the target.                             *)
LEMMA EraseShrinksKeeps ==
  ASSUME TypeOK, NEW r, NEW w, Good(r, w), EraseShrinks
  PROVE  /\ TypeOK'
         /\ \E r2, w2 : /\ Good(r2, w2)' /\ Followed(r, r2)
                        /\ w2[head] = StringErase(w[head], req.pos, DelLen)
<1>1. /\ Found("erase") /\ x # Nil /\ Whole /\ Whole' /\ pc = "found" /\ pc' = "loop"
      /\ UNCHANGED <<level, next, outcome>>
      /\ mode' = [mode EXCEPT ![x] = "gap"]
      /\ span' = SpansShrunk(DelLen)
      /\ EraseAgain /\ Size(x) # DelLen
      /\ x' = Nil /\ acc' = 0 /\ lvl' = 0 /\ update' = NoUpdate
  BY DEF EraseShrinks, EraseAgain, Found, Whole, Empties
<1>2. PICK e, z : ErasedAs(r, w, e, z)
  BY <1>1, ErasedIs
<1>3. Ordered(r) /\ Held(r, w) /\ Texts(w) /\ NoneEmpty(r)
  BY <1>1 DEF Good, Held
<1>4. x \in On(r) /\ x \in Node
  BY <1>1, TargetIs
<1>5. e \in Seq(Char) /\ PassedOn(r, w, e, z) /\ data' = [data EXCEPT ![x] = e]
  BY <1>2, <1>4 DEF ErasedAs, EraseShrinks, TypeOK
<1>6. PICK k \in Nat, d \in Nat : k = Size(x) /\ d = DelLen /\ Len(e) = k - d /\ k # d
  BY <1>1, <1>2, <1>3, <1>4, TextFacts DEF ErasedAs
<1>7. ASSUME NEW c \in Cell, NEW i \in Levels
      PROVE  span'[c][i] = IF c = update[i] THEN span[c][i] + Len(e) - Size(x)
                                          ELSE span[c][i]
  <2>1. PICK s \in Nat : s = span[c][i]
    BY Kinds
  <2>2. s - d = s + (k - d) - k
    OBVIOUS
  <2> QED BY <1>1, <1>6, <2>1, <2>2 DEF SpansShrunk
<1>8. span' = [c \in Cell |-> [i \in Levels |-> span'[c][i]]]
  BY <1>1 DEF SpansShrunk
<1>9. /\ data' \in [Node -> Seq(Char)] /\ span' \in [Cell -> [Levels -> Nat]]
      /\ Ordered(r)' /\ Texts(z)' /\ Spanned(r, z)'
  <2>1. next' = next /\ level' = level /\ Whole' /\ pc = "found" /\ x # Nil
    BY <1>1
  <2> QED BY <1>5, <1>7, <1>8, <2>1, RewriteKeeps
<1>10. /\ Sized(z)' /\ Served(z)' /\ total_size' \in Nat
       /\ req' \in Request /\ req'.op = "erase"
  BY <1>1, <1>2, EraseServed
<1>11. NoneEmpty(r)'
  <2>1. On(r)' = On(r)
    BY DEF On
  <2>2. ASSUME \A n \in On(r) : data[n] # << >>, NEW n \in On(r)
        PROVE  data'[n] # << >>
    <3>1. CASE n = x
      <4>1. data'[x] = e /\ Len(e) # 0
        BY <1>4, <1>5, <1>6 DEF TypeOK
      <4> QED BY <1>5, <3>1, <4>1
    <3>2. CASE n # x
      BY <1>4, <1>5, <2>2, <3>2 DEF TypeOK, On
    <3> QED BY <3>1, <3>2
  <2> QED BY <1>3, <2>1, <2>2 DEF NoneEmpty
<1>12. TypeOK'
  <2>1. mode' \in [Node -> {"gap", "compact"}]
    BY <1>1 DEF TypeOK
  <2>2. req' # NoRequest
    BY <1>10 DEF NoRequest
  <2> QED BY <1>1, <1>9, <1>10, <2>1, <2>2, BiModalAssumption, SMTT(30)
          DEF TypeOK, NoUpdate, Levels, Cell
<1>13. Good(r, z)'
  BY <1>1, <1>9, <1>10, <1>11 DEF Good, Held
<1>14. Followed(r, r)
  BY <1>1 DEF Followed, Allocated
<1> QED BY <1>2, <1>12, <1>13, <1>14 DEF ErasedAs

(* The last round empties the target and unlinks it: where its links led,   *)
(* those of the cells before it do.                                         *)
LEMMA EraseRemovesKeeps ==
  ASSUME TypeOK, NEW r, NEW w, Good(r, w), EraseRemoves
  PROVE  /\ TypeOK'
         /\ \E r2, w2 : /\ Good(r2, w2)' /\ Followed(r, r2)
                        /\ w2[head] = StringErase(w[head], req.pos, DelLen)
<1>1. /\ Found("erase") /\ x # Nil /\ Whole /\ Whole' /\ pc = "found" /\ pc' = "loop"
      /\ UNCHANGED outcome /\ Size(x) = DelLen
      /\ level' = [level EXCEPT ![x] = 0]
      /\ mode' = [mode EXCEPT ![x] = "gap"]
      /\ data' = [data EXCEPT ![x] = << >>]
      /\ EraseAgain
      /\ x' = Nil /\ acc' = 0 /\ lvl' = 0 /\ update' = NoUpdate
  BY DEF EraseRemoves, EraseAgain, Found, Whole, Empties
<1>2. PICK e, z : ErasedAs(r, w, e, z)
  BY <1>1, ErasedIs
<1>3. Ordered(r) /\ Held(r, w) /\ Texts(w) /\ NoneEmpty(r)
  BY <1>1 DEF Good, Held
<1>4. /\ x \in On(r) /\ x \in Node /\ x \in Cell /\ x # head /\ x \in Cells(r)
      /\ head \in Cell /\ head \in Cells(r)
      /\ \A c \in Cell : r[c] \in Nat
      /\ On(r) \subseteq Node /\ Cells(r) \subseteq Cell /\ On(r) \subseteq Cells(r)
      /\ \A n \in On(r) : n # Nil /\ n # head
  BY <1>1, <1>3, TargetIs, CellFacts DEF Cells
<1>5. e \in Seq(Char) /\ PassedOn(r, w, e, z) /\ DelLen \in Nat /\ Len(e) = Size(x) - DelLen
  BY <1>2 DEF ErasedAs
<1>6. e = << >> /\ Len(e) = 0
  BY <1>1, <1>5
<1>7. PICK d \in Nat : d = DelLen /\ Size(x) = d
  BY <1>1, <1>5
<1>8. ASSUME NEW i \in Levels
      PROVE  next'[x][i] = Nil /\ span'[x][i] = 0
  <2>1. x # update[i]
    BY <1>1, <1>4, UpdateIs
  <2>2. ~ RemovedLink(x, i)
    BY <2>1 DEF RemovedLink
  <2> QED BY <1>4, <2>2 DEF EraseRemoves
<1>9. ASSUME NEW i \in Levels, NEW c \in Cell, c # x
      PROVE  /\ RemovedLink(c, i) => /\ next'[c][i] = next[x][i]
                                     /\ span'[c][i] = (span[c][i] - d) + span[x][i]
             /\ ~ RemovedLink(c, i) =>
                  /\ next'[c][i] = next[c][i]
                  /\ span'[c][i] = IF c = update[i] THEN span[c][i] - d ELSE span[c][i]
             /\ RemovedLink(c, i) <=> c = update[i] /\ i < level[x]
  <2>1. x # update[i] /\ (next[update[i]][i] = x <=> i < level[x])
    BY <1>1, <1>4, UpdateIs
  <2>2. RemovedLink(c, i) <=> c = update[i] /\ i < level[x]
    BY <2>1 DEF RemovedLink
  <2>3. /\ SpansShrunk(DelLen)[c][i] = IF c = update[i] THEN span[c][i] - d ELSE span[c][i]
        /\ SpansShrunk(DelLen)[x][i] = span[x][i]
    BY <1>4, <1>7, <2>1 DEF SpansShrunk
  <2>4. next'[c][i] = IF RemovedLink(c, i) THEN next[x][i] ELSE next[c][i]
    BY <1>9 DEF EraseRemoves
  <2>5. span'[c][i] = IF RemovedLink(c, i)
                        THEN SpansShrunk(DelLen)[c][i] + SpansShrunk(DelLen)[x][i]
                        ELSE SpansShrunk(DelLen)[c][i]
    BY <1>9 DEF EraseRemoves
  <2>6. RemovedLink(c, i) => c = update[i]
    BY DEF RemovedLink
  <2> QED BY <2>2, <2>3, <2>4, <2>5, <2>6
<1>10. ASSUME NEW i \in Levels, NEW c \in Cell
       PROVE  /\ c \notin Cells(r) => c # update[i] /\ c # x
              /\ OnLevel(r, c, i) /\ c = update[i] =>
                    /\ span[c][i] - d = Len(z[c]) - After(z, next[c][i])
                    /\ span[c][i] - d \in Nat
              /\ OnLevel(r, c, i) /\ c # update[i] =>
                    span[c][i] = Len(z[c]) - After(z, next[c][i])
  <2>1. OnLevel(r, update[i], i)
    BY <1>1, UpdateIs
  <2>2. c \notin Cells(r) => c # update[i] /\ c # x
    BY <1>4, <2>1 DEF OnLevel
  <2>3. PICK s \in Nat : s = span[c][i]
    BY Kinds
  <2>4. span[c][i] + Len(e) - Size(x) = span[c][i] - d
    <3>1. s + 0 - d = s - d
      OBVIOUS
    <3> QED BY <1>6, <1>7, <2>3, <3>1
  <2>5. ASSUME OnLevel(r, c, i)
        PROVE  /\ c = update[i] =>
                    /\ span[c][i] - d = Len(z[c]) - After(z, next[c][i])
                    /\ span[c][i] - d \in Nat
               /\ c # update[i] => span[c][i] = Len(z[c]) - After(z, next[c][i])
    <3>1. /\ c = update[i] =>
               /\ Len(z[c]) - After(z, next[c][i]) = span[c][i] + Len(e) - Size(x)
               /\ Len(z[c]) - After(z, next[c][i]) \in Nat
          /\ c # update[i] => Len(z[c]) - After(z, next[c][i]) = span[c][i]
      BY <1>1, <1>5, <2>5, RewrittenSpans
    <3> QED BY <2>4, <3>1
  <2> QED BY <2>2, <2>5
<1>11. ASSUME NEW i \in Levels, NEW c \in Cell
       PROVE  span'[c][i] \in Nat /\ next'[c][i] \in Pointer
  <2>1. CASE c = x
    BY <1>8, <2>1 DEF Pointer
  <2>2. CASE c # x
    <3>1. next[c][i] \in Pointer /\ next[x][i] \in Pointer /\ span[c][i] \in Nat /\ span[x][i] \in Nat
      BY <1>4, Kinds
    <3>2. c = update[i] => span[c][i] - d \in Nat
      <4>1. OnLevel(r, update[i], i)
        BY <1>1, UpdateIs
      <4> QED BY <1>10, <4>1
    <3>3. span'[c][i] \in Nat
      <4>1. CASE c = update[i]
        <5>1. PICK a \in Nat, b \in Nat : a = span[c][i] - d /\ b = span[x][i]
          BY <3>1, <3>2, <4>1
        <5>2. span'[c][i] = a + b \/ span'[c][i] = a
          BY <1>9, <2>2, <4>1, <5>1
        <5> QED BY <5>2
      <4>2. CASE c # update[i]
        BY <1>9, <2>2, <3>1, <4>2
      <4> QED BY <4>1, <4>2
    <3>4. next'[c][i] \in Pointer
      BY <1>9, <2>2, <3>1
    <3> QED BY <3>3, <3>4
  <2> QED BY <2>1, <2>2
<1>12. /\ next' \in [Cell -> [Levels -> Pointer]] /\ span' \in [Cell -> [Levels -> Nat]]
  <2>1. /\ next' = [c \in Cell |-> [i \in Levels |-> next'[c][i]]]
        /\ span' = [c \in Cell |-> [i \in Levels |-> span'[c][i]]]
    BY DEF EraseRemoves
  <2> QED BY <1>11, <2>1
<1>13. /\ level' \in [Cell -> 0 .. MaxLevel] /\ level'[head] = MaxLevel
       /\ mode' \in [Node -> {"gap", "compact"}] /\ data' \in [Node -> Seq(Char)]
  <2>1. 0 \in 0 .. MaxLevel
    BY BiModalAssumption
  <2> QED BY <1>1, <1>4, <2>1 DEF TypeOK
<1>14. PICK r2, z2 : r2 = [r EXCEPT ![x] = 0] /\ z2 = [z EXCEPT ![x] = << >>]
  OBVIOUS
<1>15. /\ r2 \in [Cell -> Nat] /\ r2[x] = 0
       /\ \A c \in Cell : c # x => r2[c] = r[c]
  BY <1>3, <1>4, <1>14 DEF Ordered
<1>16. /\ z2 \in [Cell -> Seq(Char)] /\ z2[x] = << >>
       /\ \A c \in Cell : c # x => z2[c] = z[c]
  BY <1>4, <1>5, <1>14 DEF PassedOn
<1>17. On(r2) = On(r) \ {x} /\ On(r2)' = On(r) \ {x} /\ Cells(r2)' = Cells(r) \ {x}
  BY <1>1, <1>4, <1>15 DEF On, Cells, Cell
<1>18. \A c \in Cell : c # x => level'[c] = level[c]
  BY <1>1 DEF TypeOK
<1>19. ASSUME NEW i \in Levels, NEW c \in Cell, OnLevel(r2, c, i)'
       PROVE  OnLevel(r, c, i) /\ c # x /\ FirstBehind(r, c, i) /\ c \in Cells(r)
  BY <1>3, <1>4, <1>17, <1>18, <1>19 DEF OnLevel, Ordered
<1>20. ASSUME NEW i \in Levels, NEW c \in Cell, OnLevel(r, c, i), c # update[i]
       PROVE  next[c][i] # x
  BY <1>1, <1>20, LeadsElsewhere
<1>21. ASSUME NEW i \in Levels, NEW c \in Cell, OnLevel(r2, c, i)'
       PROVE  FirstBehind(r2, c, i)' /\ next'[c][i] # x
  <2>1. OnLevel(r, c, i) /\ c # x /\ FirstBehind(r, c, i) /\ c \in Cells(r) /\ r2[c] = r[c]
    BY <1>15, <1>19, <1>21
  <2>2. \A n \in On(r2) : n \in On(r) /\ n # x /\ level'[n] = level[n] /\ r2[n] = r[n] /\ n \in Cell
    BY <1>4, <1>15, <1>17, <1>18
  <2>3. CASE RemovedLink(c, i)
    <3>1. c = update[i] /\ next[c][i] = x /\ i < level[x]
      BY <2>3 DEF RemovedLink
    <3>2. PICK m : m = next[x][i] /\ next'[c][i] = m
      BY <1>9, <2>1, <2>3
    <3>3. FirstBehind(r, x, i) /\ r[x] < r[c]
      BY <1>3, <1>4, <2>1, <3>1 DEF Ordered, OnLevel, FirstBehind
    <3>4. m # Nil => m \in On(r) /\ level[m] > i /\ r[m] < r[x] /\ m \in Cell
      BY <1>4, <3>2, <3>3 DEF FirstBehind
    <3>5. m # x
      BY <1>4, <3>4
    <3>6. m # Nil => m \in On(r2) /\ level'[m] > i /\ r2[m] < r2[c]
      BY <1>4, <1>15, <1>17, <2>1, <2>2, <3>3, <3>4, <3>5
    <3>7. ASSUME NEW n \in On(r2), level'[n] > i, r2[n] < r2[c]
          PROVE  m # Nil /\ r2[n] <= r2[m]
      <4>1. n \in On(r) /\ level[n] > i /\ r[n] < r[c] /\ n # x /\ r2[n] = r[n] /\ n \in Cell
        BY <2>1, <2>2, <3>7
      <4>2. r[n] <= r[x]
        BY <2>1, <3>1, <4>1 DEF FirstBehind
      <4>3. r[n] # r[x]
        BY <1>3, <1>4, <4>1 DEF Ordered
      <4>4. r[n] < r[x]
        BY <1>4, <4>1, <4>2, <4>3
      <4>5. m # Nil /\ r[n] <= r[m]
        BY <3>2, <3>3, <4>1, <4>4 DEF FirstBehind
      <4> QED BY <1>15, <3>4, <3>5, <4>1, <4>5
    <3>8. FirstBehind(r2, c, i)'
      BY <1>17, <3>2, <3>6, <3>7 DEF FirstBehind
    <3> QED BY <3>2, <3>5, <3>8
  <2>4. CASE ~ RemovedLink(c, i)
    <3>1. PICK m : m = next[c][i] /\ next'[c][i] = m
      BY <1>9, <2>1, <2>4
    <3>2. m # x
      <4>1. CASE c = update[i]
        BY <1>1, <1>9, <2>1, <2>4, <3>1, <4>1, UpdateIs
      <4>2. CASE c # update[i]
        BY <1>20, <2>1, <3>1, <4>2
      <4> QED BY <4>1, <4>2
    <3>3. m # Nil => m \in On(r) /\ level[m] > i /\ r[m] < r[c] /\ m \in Cell
      BY <1>4, <2>1, <3>1 DEF FirstBehind
    <3>4. m # Nil => m \in On(r2) /\ level'[m] > i /\ r2[m] < r2[c] /\ r2[m] = r[m]
      BY <1>17, <2>1, <2>2, <3>2, <3>3
    <3>5. ASSUME NEW n \in On(r2), level'[n] > i, r2[n] < r2[c]
          PROVE  m # Nil /\ r2[n] <= r2[m]
      <4>1. n \in On(r) /\ level[n] > i /\ r[n] < r[c] /\ r2[n] = r[n]
        BY <2>1, <2>2, <3>5
      <4>2. m # Nil /\ r[n] <= r[m]
        BY <2>1, <3>1, <4>1 DEF FirstBehind
      <4> QED BY <3>4, <4>1, <4>2
    <3>6. FirstBehind(r2, c, i)'
      BY <1>17, <3>1, <3>4, <3>5 DEF FirstBehind
    <3> QED BY <3>1, <3>2, <3>6
  <2> QED BY <2>3, <2>4
<1>22. Ordered(r2)'
  <2>1. \A n \in Node : r2[n] < r2[head]
    BY <1>3, <1>4, <1>15, CellFacts DEF Ordered, Cell
  <2>2. \A m, n \in On(r) \ {x} : r2[m] = r2[n] => m = n
    BY <1>3, <1>4, <1>15 DEF Ordered
  <2>3. \A n \in On(r) \ {x} : level'[n] > 0
    BY <1>3, <1>4, <1>18 DEF Ordered
  <2>4. ~AllocMayFail => Allocated' \subseteq On(r) \ {x}
    <3>1. Allocated' = Allocated \ {x}
      BY <1>1, <1>4, <1>18 DEF Allocated, TypeOK, Cell
    <3> QED BY <1>3, <3>1 DEF Ordered
  <2>5. ASSUME NEW n \in Node, n \notin On(r) \ {x}, NEW i \in Levels
        PROVE  next'[n][i] = Nil /\ span'[n][i] = 0
    <3>1. CASE n = x
      BY <1>8, <3>1
    <3>2. CASE n # x
      <4>1. n \in Cell /\ n \notin Cells(r) /\ n \notin On(r)
        BY <2>5, <3>2, BiModalAssumption DEF Cell, Cells
      <4>2. n # update[i] /\ ~ RemovedLink(n, i)
        BY <1>10, <4>1 DEF RemovedLink
      <4>3. next[n][i] = Nil /\ span[n][i] = 0
        BY <1>3, <4>1 DEF Ordered
      <4> QED BY <1>9, <3>2, <4>1, <4>2, <4>3
    <3> QED BY <3>1, <3>2
  <2> QED BY <1>15, <1>17, <1>21, <2>1, <2>2, <2>3, <2>4, <2>5 DEF Ordered
<1>23. Spanned(r2, z2)'
  <2>1. ASSUME NEW c \in Cell, NEW i \in Levels, OnLevel(r2, c, i)'
        PROVE  span'[c][i] = Len(z2[c]) - After(z2, next'[c][i])
    <3>1. OnLevel(r, c, i) /\ c # x /\ FirstBehind(r, c, i) /\ z2[c] = z[c]
      BY <1>16, <1>19, <2>1
    <3>2. After(z2, next'[c][i]) = After(z, next'[c][i])
      <4>1. next'[c][i] # Nil => next'[c][i] \in Cell /\ next'[c][i] # x
        BY <1>11, <1>21, <2>1 DEF Pointer, Cell
      <4> QED BY <1>16, <4>1 DEF After
    <3>3. CASE RemovedLink(c, i)
      <4>1. c = update[i] /\ next[c][i] = x /\ i < level[x]
        BY <3>3 DEF RemovedLink
      <4>2. OnLevel(r, x, i) /\ x # update[i]
        BY <1>4, <3>1, <4>1 DEF OnLevel
      <4>3. span[x][i] = Len(z[x]) - After(z, next[x][i])
        BY <1>4, <1>10, <4>2
      <4>4. span[c][i] - d = Len(z[c]) - Len(z[x])
        BY <1>4, <1>10, <3>1, <4>1 DEF After
      <4>5. span'[c][i] = (Len(z[c]) - Len(z[x])) + (Len(z[x]) - After(z, next[x][i]))
        BY <1>9, <3>1, <3>3, <4>3, <4>4
      <4>6. PICK a \in Int, b \in Int, g \in Int :
              a = Len(z[c]) /\ b = Len(z[x]) /\ g = After(z, next[x][i])
        <5>1. \A y \in Cell : Len(z[y]) \in Nat
          BY <1>5 DEF PassedOn
        <5>2. next[x][i] \in Pointer
          BY <1>4, Kinds
        <5>3. After(z, next[x][i]) \in Nat
          BY <5>1, <5>2 DEF After, Pointer, Cell
        <5> QED BY <1>4, <5>1, <5>3
      <4>7. (a - b) + (b - g) = a - g
        OBVIOUS
      <4>8. next'[c][i] = next[x][i]
        BY <1>9, <3>1, <3>3
      <4> QED BY <3>1, <3>2, <4>5, <4>6, <4>7, <4>8
    <3>4. CASE ~ RemovedLink(c, i)
      BY <1>9, <1>10, <3>1, <3>2, <3>4
    <3> QED BY <3>3, <3>4
  <2> QED BY <2>1 DEF Spanned, After
<1>24. Texts(z2)'
  <2>1. /\ 0 \in Levels /\ level[x] > 0 /\ z[x] = w[x]
        /\ \A n \in Node : n # x => data'[n] = data[n] /\ z2[n] = z[n]
    <3>1. z[x] = w[x]
      BY <1>1, <1>5, SameBehind
    <3>2. \A n \in Node : n # x => data'[n] = data[n] /\ z2[n] = z[n]
      BY <1>1, <1>16 DEF TypeOK, Cell
    <3> QED BY <1>3, <1>4, <3>1, <3>2, CellFacts
  <2>2. ASSUME NEW c \in Cell
        PROVE  z2[c] = IF next'[c][0] = Nil THEN << >>
                                            ELSE data'[next'[c][0]] \o z2[next'[c][0]]
    <3>1. Along(w, e, z, c) /\ Along(w, e, z, x)
      BY <1>1, <1>4, <1>5, PassedAlong
    <3>2. CASE c = x
      BY <1>8, <1>16, <2>1, <3>2
    <3>3. CASE c # x /\ next[c][0] # x
      <4>1. next'[c][0] = next[c][0]
        BY <1>9, <2>1, <3>3 DEF RemovedLink
      <4>2. z2[c] = z[c]
        BY <1>16, <3>3
      <4> QED BY <2>1, <3>1, <3>3, <4>1, <4>2, BiModalAssumption DEF Along
    <3>4. CASE c # x /\ next[c][0] = x
      <4>1. c = update[0] /\ z[c] = e \o w[x]
        BY <1>1, <1>4, <3>1, <3>4 DEF Along
      <4>2. next'[c][0] = next[x][0]
        BY <1>9, <2>1, <3>4, <4>1
      <4>3. z2[c] = z[x]
        <5>1. << >> \o w[x] = w[x]
          BY <1>3, <1>4 DEF Texts
        <5> QED BY <1>6, <1>16, <2>1, <3>4, <4>1, <5>1
      <4>4. x # update[0]
        BY <3>4, <4>1
      <4>5. z[x] = IF next[x][0] = Nil THEN << >> ELSE data[next[x][0]] \o z[next[x][0]]
        BY <3>1, <4>4, BiModalAssumption DEF Along
      <4>6. next[x][0] # Nil => next[x][0] \in Node /\ next[x][0] # x
        BY <3>1, <4>4 DEF Along
      <4> QED BY <2>1, <4>2, <4>3, <4>5, <4>6
    <3> QED BY <3>2, <3>3, <3>4
  <2> QED BY <1>16, <2>2 DEF Texts
<1>25. /\ Sized(z)' /\ Served(z)' /\ total_size' \in Nat
       /\ req' \in Request /\ req'.op = "erase"
  BY <1>1, <1>2, EraseServed
<1>26. z2[head] = z[head] /\ Sized(z2)' /\ Served(z2)'
  <2>1. z2[head] = z[head]
    BY <1>4, <1>16
  <2> QED BY <1>25, <2>1 DEF Sized, Served
<1>27. NoneEmpty(r2)'
  <2>1. \A n \in On(r) \ {x} : data'[n] = data[n]
    BY <1>1, <1>4 DEF TypeOK
  <2> QED BY <1>3, <1>17, <2>1 DEF NoneEmpty
<1>28. TypeOK'
  <2>1. req' # NoRequest
    BY <1>25 DEF NoRequest
  <2> QED BY <1>1, <1>12, <1>13, <1>25, <2>1, BiModalAssumption, SMTT(30)
          DEF TypeOK, NoUpdate, Levels, Cell
<1>29. Good(r2, z2)'
  BY <1>1, <1>22, <1>23, <1>24, <1>26, <1>27 DEF Good, Held
<1>30. Followed(r, r2)
  <2>1. Allocated' = Allocated \ {x}
    BY <1>1, <1>4, <1>18 DEF Allocated, TypeOK, Cell
  <2>2. Allocated' \ On(r2) = Allocated \ On(r) /\ On(r) \ {x} \subseteq On(r2)
    BY <1>4, <1>17, <2>1
  <2> QED BY <2>2 DEF Followed
<1> QED BY <1>2, <1>26, <1>28, <1>29, <1>30 DEF ErasedAs

(* A split: v takes over the end of the target, on levels that the target   *)
(* has, and comes right behind it.                                          *)
LEMMA InsertSplitsKeeps ==
  ASSUME TypeOK, NEW r, NEW w, Good(r, w), InsertSplits
  PROVE  /\ TypeOK'
         /\ \E r2, w2 : /\ Good(r2, w2)' /\ Followed(r, r2)
                        /\ w2[head] = StringInsert(w[head], req.pos, req.str)
<1>1. /\ Found("insert") /\ x # Nil /\ Whole /\ Whole' /\ pc = "found" /\ pc' = "idle"
      /\ TooLong /\ req' = NoRequest /\ Return("ok")
      /\ total_size' = total_size + Len(req.str)
  BY DEF InsertSplits, Found, Return, Whole
<1>2. PICK e, z : InsertedAs(r, w, e, z)
  BY <1>1, InsertedIs
<1>3. Ordered(r) /\ Held(r, w) /\ Texts(w) /\ NoneEmpty(r) /\ Spanned(r, w)
  BY <1>1 DEF Good, Held
<1>4. /\ x \in On(r) /\ x \in Node /\ x \in Cell /\ x # head /\ x \in Cells(r)
      /\ head \in Cell /\ head \in Cells(r)
      /\ \A c \in Cell : r[c] \in Nat
      /\ On(r) \subseteq Node /\ Cells(r) \subseteq Cell /\ On(r) \subseteq Cells(r)
      /\ \A n \in On(r) : n # Nil /\ n # head
      /\ Levels \subseteq Nat /\ 0 \in Levels /\ level[x] \in Nat /\ level[x] > 0
  BY <1>1, <1>3, TargetIs, CellFacts DEF Cells
<1>5. e = Edited /\ e \in Seq(Char) /\ PassedOn(r, w, e, z)
  BY <1>2 DEF InsertedAs
<1>6. PICK l \in Nat, k \in Nat : l = Len(req.str) /\ k = Size(x) /\ Len(e) = k + l
  BY <1>2, <1>3, <1>4, Kinds, TextFacts DEF InsertedAs
<1>7. PICK sp \in Nat, vs \in Nat :
        /\ sp = Len(e) \div 2 /\ vs = Len(e) - sp
        /\ sp > 0 /\ vs > 0 /\ sp + vs = Len(e)
  <2>1. PICK n \in Nat : n = Len(e) /\ n > NodeMax
    BY <1>1, <1>5 DEF TooLong
  <2>2. n > 1
    BY <2>1, BiModalAssumption
  <2>3. n \div 2 \in Nat /\ n \div 2 > 0 /\ n - n \div 2 > 0 /\ n - n \div 2 \in Nat
        /\ n \div 2 + (n - n \div 2) = n
    BY <2>2
  <2> QED BY <2>1, <2>3
<1>8. PICK v, nl : v \in Free /\ \E j \in 1 .. MaxLevel :
        /\ nl = SplitLevel(x, j)
        /\ level' = [level EXCEPT ![v] = nl]
        /\ mode' = [mode EXCEPT ![x] = "gap"]
        /\ data' = [data EXCEPT ![x] = SubSeq(e, 1, sp),
                                ![v] = SubSeq(e, sp + 1, Len(e))]
        /\ next' = SplitNext(x, v, nl)
        /\ span' = SplitSpan(SpansGrown(Len(req.str)), x, v, nl, vs)
  <2>1. PICK v \in Free, j \in 1 .. MaxLevel :
          /\ level' = [level EXCEPT ![v] = SplitLevel(x, j)]
          /\ mode' = [mode EXCEPT ![x] = "gap"]
          /\ data' = [data EXCEPT ![x] = SubSeq(e, 1, sp),
                                  ![v] = SubSeq(e, sp + 1, Len(e))]
          /\ next' = SplitNext(x, v, SplitLevel(x, j))
          /\ span' = SplitSpan(SpansGrown(Len(req.str)), x, v, SplitLevel(x, j), vs)
    BY <1>5, <1>7 DEF InsertSplits
  <2> QED BY <2>1
<1>9. nl \in Nat /\ nl > 0 /\ nl <= level[x]
  <2>1. PICK j \in 1 .. MaxLevel : nl = SplitLevel(x, j)
    BY <1>8
  <2> QED BY <1>4, <2>1, BiModalAssumption DEF SplitLevel, MinOf
<1>10. v \in Node /\ v \in Cell /\ v # head /\ v # x /\ v # Nil /\ v \notin On(r) /\ v \notin Cells(r)
  <2>1. v \in Node /\ level[v] = 0
    BY <1>8, BiModalAssumption DEF Free, Allocated, TypeOK, Cell
  <2>2. v \notin On(r)
    BY <1>3, <2>1 DEF Ordered
  <2> QED BY <1>4, <2>1, <2>2, BiModalAssumption DEF Cells, Cell
<1>11. PICK d2 \in Seq(Char), d3 \in Seq(Char) :
         /\ d2 = SubSeq(e, 1, sp) /\ d3 = SubSeq(e, sp + 1, Len(e))
         /\ Len(d2) = sp /\ Len(d3) = vs /\ e = d2 \o d3
  <2>1. sp + vs = Len(e) /\ sp \in 0 .. Len(e) /\ Len(e) - sp = vs
    <3>1. sp + vs = Len(e)
      BY <1>7
    <3>2. sp \in 0 .. sp + vs /\ (sp + vs) - sp = vs
      OBVIOUS
    <3> QED BY <3>1, <3>2
  <2>2. /\ SubSeq(e, 1, sp) \in Seq(Char) /\ Len(SubSeq(e, 1, sp)) = sp
        /\ SubSeq(e, sp + 1, Len(e)) \in Seq(Char)
        /\ Len(SubSeq(e, sp + 1, Len(e))) = Len(e) - sp
        /\ e = SubSeq(e, 1, sp) \o SubSeq(e, sp + 1, Len(e))
    BY <1>5, <2>1, Seqs!SeqParts, ZenonT(30)
  <2>3. PICK d2, d3 : d2 = SubSeq(e, 1, sp) /\ d3 = SubSeq(e, sp + 1, Len(e))
    OBVIOUS
  <2>4. /\ d2 \in Seq(Char) /\ d3 \in Seq(Char)
        /\ Len(d2) = sp /\ Len(d3) = vs /\ e = d2 \o d3
    BY <2>1, <2>2, <2>3
  <2> QED BY <2>3, <2>4
<1>12. /\ data' \in [Node -> Seq(Char)] /\ data'[x] = d2 /\ data'[v] = d3
       /\ \A n \in Node : n # x /\ n # v => data'[n] = data[n]
  <2>1. data' = [data EXCEPT ![x] = d2, ![v] = d3]
    BY <1>8, <1>11
  <2>2. data \in [Node -> Seq(Char)] /\ d2 \in Seq(Char) /\ d3 \in Seq(Char)
    BY DEF TypeOK
  <2> QED BY <1>4, <1>10, <2>1, <2>2
<1>13. /\ level' \in [Cell -> 0 .. MaxLevel] /\ level'[head] = MaxLevel /\ level'[v] = nl
       /\ \A c \in Cell : c # v => level'[c] = level[c]
  <2>1. nl \in 0 .. MaxLevel
    BY <1>3, <1>4, <1>9, CellFacts
  <2> QED BY <1>4, <1>8, <1>10, <2>1 DEF TypeOK
<1>14. ASSUME NEW i \in Levels
       PROVE  /\ x # update[i] /\ v # update[i] /\ OnLevel(r, update[i], i)
              /\ next[update[i]][i] = x <=> i < level[x]
  BY <1>1, <1>4, <1>10, UpdateIs DEF OnLevel
<1>15. ASSUME NEW i \in Levels, NEW c \in Cell
       PROVE  next'[c][i] = IF i < nl /\ c = x THEN v
                            ELSE IF i < nl /\ c = v THEN next[x][i]
                            ELSE next[c][i]
  <2>1. i < nl => next[update[i]][i] = x
    BY <1>4, <1>9, <1>14
  <2>2. next'[c][i] = IF next[update[i]][i] = x /\ i < nl
                        THEN CASE c = x -> v
                               [] c = v -> next[x][i]
                               [] OTHER -> next[c][i]
                        ELSE next[c][i]
    BY <1>8 DEF SplitNext
  <2> QED BY <1>10, <2>1, <2>2
<1>16. ASSUME NEW i \in Levels, NEW c \in Cell
       PROVE  /\ c = update[i] => span'[c][i] = IF i < level[x] THEN (span[c][i] + l) - vs
                                                               ELSE span[c][i] + l
              /\ c = x /\ i < level[x] =>
                    span'[c][i] = IF i < nl THEN vs ELSE span[x][i] + vs
              /\ c = v /\ i < nl => span'[c][i] = span[x][i]
              /\ c # update[i] /\ ~(c = x /\ i < level[x]) /\ ~(c = v /\ i < nl) =>
                    span'[c][i] = span[c][i]
  <2> DEFINE sg == SpansGrown(Len(req.str))
  <2>1. sg[c][i] = (IF c = update[i] THEN span[c][i] + l ELSE span[c][i])
        /\ sg[x][i] = span[x][i]
    BY <1>4, <1>6, <1>14 DEF SpansGrown
  <2>2. span'[c][i] = IF next[update[i]][i] = x
          THEN CASE c = update[i]        -> sg[c][i] - vs
                 [] c = x /\ i < nl      -> vs
                 [] c = x /\ ~ i < nl    -> sg[x][i] + vs
                 [] c = v /\ i < nl      -> sg[x][i]
                 [] OTHER                -> sg[c][i]
          ELSE sg[c][i]
    BY <1>8 DEF SplitSpan
  <2> HIDE DEF sg
  <2>3. i < nl => i < level[x]
    BY <1>4, <1>9
  <2>4. x # update[i] /\ v # update[i] /\ (next[update[i]][i] = x <=> i < level[x])
    BY <1>14
  <2>5. CASE ~ i < level[x]
    BY <2>1, <2>2, <2>3, <2>4, <2>5
  <2>6. CASE i < level[x] /\ c = update[i]
    BY <2>1, <2>2, <2>4, <2>6
  <2>7. CASE i < level[x] /\ c = x
    BY <1>10, <2>1, <2>2, <2>4, <2>7
  <2>8. CASE i < level[x] /\ c = v
    BY <1>10, <2>1, <2>2, <2>4, <2>8
  <2>9. CASE i < level[x] /\ c # update[i] /\ c # x /\ c # v
    BY <2>1, <2>2, <2>4, <2>9
  <2> QED BY <2>5, <2>6, <2>7, <2>8, <2>9

<1>17. PICK r2, z2 :
         /\ r2 = [c \in Cell |-> IF c = v THEN r[x]
                                 ELSE IF r[x] <= r[c] THEN r[c] + 1 ELSE r[c]]
         /\ z2 = [c \in Cell |-> IF c = x THEN d3 \o w[x]
                                 ELSE IF c = v THEN w[x] ELSE z[c]]
  OBVIOUS
<1>18. /\ r2 \in [Cell -> Nat] /\ r2[v] = r[x]
       /\ \A c \in Cell : c # v => r2[c] = IF r[x] <= r[c] THEN r[c] + 1 ELSE r[c]
       /\ r[x] \in Nat /\ r[x] > 0
  <2>1. \A c \in Cell : r[c] + 1 \in Nat
    BY <1>4
  <2>2. r[x] > 0
    BY <1>4 DEF On
  <2> QED BY <1>4, <1>10, <1>17, <2>1, <2>2
<1>19. /\ \A c, d \in Cell : c # v /\ d # v => (r2[c] < r2[d] <=> r[c] < r[d])
       /\ \A c, d \in Cell : c # v /\ d # v => (r2[c] <= r2[d] <=> r[c] <= r[d])
       /\ \A c \in Cell : c # v => /\ r2[c] > 0 <=> r[c] > 0
                                   /\ r2[c] < r[x] <=> r[c] < r[x]
                                   /\ r[x] < r2[c] <=> r[x] <= r[c]
                                   /\ r2[c] # r[x]
  <2>1. ASSUME NEW c \in Cell, NEW d \in Cell, c # v, d # v
        PROVE  (r2[c] < r2[d] <=> r[c] < r[d]) /\ (r2[c] <= r2[d] <=> r[c] <= r[d])
    <3>1. PICK i \in Nat, j \in Nat, k0 \in Nat : i = r[c] /\ j = r[d] /\ k0 = r[x]
      BY <1>4
    <3>2. /\ r2[c] = IF k0 <= i THEN i + 1 ELSE i
          /\ r2[d] = IF k0 <= j THEN j + 1 ELSE j
      BY <1>18, <2>1, <3>1
    <3> QED BY <3>1, <3>2
  <2>2. ASSUME NEW c \in Cell, c # v
        PROVE  /\ r2[c] > 0 <=> r[c] > 0
               /\ r2[c] < r[x] <=> r[c] < r[x]
               /\ r[x] < r2[c] <=> r[x] <= r[c]
               /\ r2[c] # r[x]
    <3>1. PICK i \in Nat, k0 \in Nat : i = r[c] /\ k0 = r[x] /\ k0 > 0
      BY <1>4, <1>18
    <3>2. r2[c] = IF k0 <= i THEN i + 1 ELSE i
      BY <1>18, <2>2, <3>1
    <3> QED BY <3>1, <3>2
  <2> QED BY <2>1, <2>2
<1>20. On(r2) = On(r) \cup {v} /\ On(r2)' = On(r) \cup {v} /\ Cells(r2)' = Cells(r) \cup {v}
  <2>1. On(r2) = On(r) \cup {v}
    BY <1>4, <1>10, <1>18, <1>19 DEF On, Cell
  <2> QED BY <1>1, <2>1 DEF On, Cells
<1>21. /\ z2 \in [Cell -> Seq(Char)] /\ z2[x] = d3 \o w[x] /\ z2[v] = w[x]
       /\ \A c \in Cell : c # x /\ c # v => z2[c] = z[c]
       /\ z[x] = w[x] /\ w[x] \in Seq(Char) /\ Len(w[x]) \in Nat
       /\ Len(z2[x]) = vs + Len(w[x])
  <2>1. w[x] \in Seq(Char) /\ Len(w[x]) \in Nat /\ z[x] = w[x]
    BY <1>1, <1>3, <1>4, <1>5, TextFacts, SameBehind
  <2>2. PICK b \in Seq(Char) : b = w[x]
    BY <2>1
  <2>3. d3 \o b \in Seq(Char) /\ Len(d3 \o b) = Len(d3) + Len(b)
    OBVIOUS
  <2>4. d3 \o b \in Seq(Char) /\ Len(d3 \o b) = vs + Len(b)
    BY <1>11, <2>3
  <2>5. z \in [Cell -> Seq(Char)]
    BY <1>5 DEF PassedOn
  <2>6. \A c \in Cell : z2[c] \in Seq(Char)
    BY <1>17, <2>2, <2>4, <2>5
  <2>7. z2 \in [Cell -> Seq(Char)]
    BY <1>17, <2>6
  <2> QED BY <1>4, <1>10, <1>17, <2>1, <2>2, <2>4, <2>7
<1>22. ASSUME NEW i \in Levels, NEW c \in Cell, OnLevel(r2, c, i)'
       PROVE  \/ c = v /\ i < nl
              \/ c # v /\ OnLevel(r, c, i) /\ c \in Cells(r) /\ FirstBehind(r, c, i)
  <2>1. CASE c = v
    BY <1>13, <1>22, <2>1 DEF OnLevel
  <2>2. CASE c # v
    BY <1>3, <1>13, <1>20, <1>22, <2>2 DEF OnLevel, Ordered
  <2> QED BY <2>1, <2>2
<1>23. ASSUME NEW i \in Levels, i < nl
       PROVE  /\ OnLevel(r, x, i) /\ FirstBehind(r, x, i)
              /\ next[x][i] # Nil => /\ next[x][i] \in On(r) /\ next[x][i] \in Cell
                                     /\ r[next[x][i]] < r[x]
                                     /\ next[x][i] # x /\ next[x][i] # v
  <2>1. OnLevel(r, x, i)
    BY <1>4, <1>9, <1>23 DEF OnLevel
  <2>2. FirstBehind(r, x, i)
    BY <1>3, <1>4, <2>1 DEF Ordered
  <2>3. next[x][i] # Nil => next[x][i] \in On(r) /\ r[next[x][i]] < r[x]
    BY <2>2 DEF FirstBehind
  <2> QED BY <1>4, <1>10, <2>1, <2>2, <2>3
<1>24. \A n \in On(r) : n # v /\ n \in Cell /\ level'[n] = level[n]
  BY <1>4, <1>10, <1>13
<1>25. ASSUME NEW i \in Levels, NEW c \in Cell, OnLevel(r2, c, i)'
       PROVE  FirstBehind(r2, c, i)'
  <2>1. CASE c = v
    <3>1. i < nl
      BY <1>10, <1>22, <1>25, <2>1
    <3>2. PICK m : m = next[x][i] /\ next'[c][i] = m
      BY <1>10, <1>15, <2>1, <3>1
    <3>3. m # Nil => /\ m \in On(r) /\ m \in On(r2) /\ level'[m] > i
                     /\ r[m] < r[x] /\ r2[m] < r2[c] /\ m # v /\ m \in Cell
      BY <1>18, <1>19, <1>20, <1>23, <1>24, <2>1, <3>1, <3>2 DEF FirstBehind
    <3>4. ASSUME NEW n \in On(r2), level'[n] > i, r2[n] < r2[c]
          PROVE  m # Nil /\ r2[n] <= r2[m]
      <4>1. n # v
        BY <1>18, <2>1, <3>4
      <4>2. n \in On(r) /\ level[n] > i /\ n \in Cell
        BY <1>20, <1>24, <3>4, <4>1
      <4>3. r[n] < r[x]
        BY <1>18, <1>19, <2>1, <3>4, <4>1, <4>2
      <4>4. m # Nil /\ r[n] <= r[m]
        BY <1>23, <3>1, <3>2, <4>2, <4>3 DEF FirstBehind
      <4> QED BY <1>19, <3>3, <4>1, <4>2, <4>4
    <3> QED BY <1>20, <3>2, <3>3, <3>4 DEF FirstBehind
  <2>2. CASE c = x /\ i < nl
    <3>1. next'[c][i] = v
      BY <1>15, <2>2
    <3>2. r2[c] = r[x] + 1 /\ r2[v] < r2[c] /\ level'[v] > i
      BY <1>4, <1>9, <1>10, <1>13, <1>18, <2>2
    <3>3. ASSUME NEW n \in On(r2), r2[n] < r2[c]
          PROVE  r2[n] <= r2[v]
      <4>1. n \in Cell
        BY <1>10, <1>20, <1>24
      <4>2. r2[n] \in Nat /\ r2[n] < r[x] + 1
        BY <1>18, <3>2, <3>3, <4>1
      <4> QED BY <1>18, <4>2
    <3> QED BY <1>10, <1>20, <3>1, <3>2, <3>3 DEF FirstBehind
  <2>3. CASE c # v /\ ~(c = x /\ i < nl)
    <3>1. OnLevel(r, c, i) /\ c \in Cells(r) /\ FirstBehind(r, c, i)
      BY <1>22, <1>25, <2>3
    <3>2. PICK m : m = next[c][i] /\ next'[c][i] = m
      BY <1>15, <2>3
    <3>3. m # Nil => /\ m \in On(r) /\ m \in On(r2) /\ level'[m] > i
                     /\ r[m] < r[c] /\ r2[m] < r2[c] /\ m # v /\ m \in Cell
      BY <1>19, <1>20, <1>24, <2>3, <3>1, <3>2 DEF FirstBehind
    <3>4. ASSUME NEW n \in On(r2), level'[n] > i, r2[n] < r2[c]
          PROVE  m # Nil /\ r2[n] <= r2[m]
      <4>1. CASE n # v
        <5>1. n \in On(r) /\ level[n] > i /\ n \in Cell /\ r[n] < r[c]
          BY <1>19, <1>20, <1>24, <2>3, <3>4, <4>1
        <5>2. m # Nil /\ r[n] <= r[m]
          BY <3>1, <3>2, <5>1 DEF FirstBehind
        <5> QED BY <1>19, <3>3, <4>1, <5>1, <5>2
      <4>2. CASE n = v
        <5>1. i < nl /\ r[x] < r2[c]
          BY <1>13, <1>18, <3>4, <4>2
        <5>2. c # x /\ r[x] <= r[c]
          BY <1>19, <2>3, <5>1
        <5>3. r[x] # r[c]
          BY <1>3, <1>4, <3>1, <5>2, SameRank
        <5>4. r[x] < r[c] /\ level[x] > i
          BY <1>4, <1>9, <5>1, <5>2, <5>3
        <5>5. m # Nil /\ r[x] <= r[m]
          BY <1>4, <3>1, <3>2, <5>4 DEF FirstBehind
        <5>6. r[x] < r2[m]
          BY <1>19, <3>3, <5>5
        <5> QED BY <1>18, <3>3, <4>2, <5>5, <5>6
      <4> QED BY <4>1, <4>2
    <3> QED BY <1>20, <3>2, <3>3, <3>4 DEF FirstBehind
  <2> QED BY <2>1, <2>2, <2>3
<1>26. Ordered(r2)'
  <2>1. ASSUME NEW n \in Node PROVE r2[n] < r2[head]
    <3>1. r[n] < r[head] /\ r[x] < r[head] /\ n \in Cell /\ head # v
      BY <1>3, <1>4, <1>10 DEF Ordered, Cell
    <3>2. CASE n = v
      BY <1>4, <1>18, <1>19, <3>1, <3>2
    <3>3. CASE n # v
      BY <1>4, <1>19, <3>1, <3>3
    <3> QED BY <3>2, <3>3
  <2>2. ASSUME NEW m \in On(r2), NEW n \in On(r2), r2[m] = r2[n] PROVE m = n
    <3>1. CASE m # v /\ n # v
      <4>1. m \in On(r) /\ n \in On(r) /\ m \in Cell /\ n \in Cell
        BY <1>20, <1>24, <3>1
      <4>2. r[m] = r[n]
        BY <1>4, <1>18, <1>19, <2>2, <3>1, <4>1
      <4> QED BY <1>3, <4>1, <4>2 DEF Ordered
    <3>2. CASE m = v \/ n = v
      <4>1. m \in Cell /\ n \in Cell
        BY <1>10, <1>20, <1>24
      <4> QED BY <1>18, <1>19, <2>2, <3>2, <4>1
    <3> QED BY <3>1, <3>2
  <2>3. \A n \in On(r) \cup {v} : level'[n] > 0
    BY <1>3, <1>9, <1>13, <1>24 DEF Ordered
  <2>4. ~AllocMayFail => Allocated' \subseteq On(r) \cup {v}
    <3>1. Allocated' \subseteq Allocated \cup {v}
      BY <1>13 DEF Allocated, Cell
    <3> QED BY <1>3, <3>1 DEF Ordered
  <2>5. ASSUME NEW n \in Node, n \notin On(r) \cup {v}, NEW i \in Levels
        PROVE  next'[n][i] = Nil /\ span'[n][i] = 0
    <3>1. n # v /\ n # x /\ n \in Cell /\ n \notin Cells(r)
      BY <1>4, <2>5, BiModalAssumption DEF Cell, Cells
    <3>2. n # update[i]
      BY <1>14, <3>1 DEF OnLevel
    <3>3. next[n][i] = Nil /\ span[n][i] = 0
      BY <1>3, <2>5 DEF Ordered
    <3> QED BY <1>15, <1>16, <3>1, <3>2, <3>3
  <2> QED BY <1>18, <1>20, <1>25, <2>1, <2>2, <2>3, <2>4, <2>5 DEF Ordered

<1>27. ASSUME NEW i \in Levels, NEW m, m # Nil => m \in Node /\ m # x /\ m # v
       PROVE  After(z2, m) = After(z, m)
  BY <1>21, <1>27 DEF After, Cell
<1>28. \A m \in On(r) : r[m] < r[x] => z[m] = w[m]
  <2>1. \A m \in Cell : r[m] <= r[x] => z[m] = w[m]
    BY <1>1, <1>5, SameBehind
  <2> QED BY <1>4, <2>1 DEF Cell
<1>29. ASSUME NEW i \in Levels
       PROVE  /\ span[update[i]][i] + Len(e) - Size(x) =
                   Len(z[update[i]]) - After(z, next[update[i]][i])
              /\ span[update[i]][i] + l =
                   Len(z[update[i]]) - After(z, next[update[i]][i])
              /\ span[update[i]][i] + l \in Nat
              /\ i < level[x] => (span[update[i]][i] + l) - vs \in Nat
  <2>1. PICK u \in Cell : u = update[i] /\ OnLevel(r, u, i) /\ r[x] < r[u]
    BY <1>1, UpdateIs
  <2>2. /\ Len(z[u]) - After(z, next[u][i]) = span[u][i] + Len(e) - Size(x)
        /\ Len(z[u]) - After(z, next[u][i]) \in Nat
        /\ Len(z[u]) = Ahead(w, u) + Len(e) + Len(w[x])
    BY <1>1, <1>5, <2>1, RewrittenSpans
  <2>3. PICK s \in Nat : s = span[u][i]
    BY Kinds
  <2>4. s + (k + l) - k = s + l
    OBVIOUS
  <2>5. span[u][i] + Len(e) - Size(x) = s + l
    BY <1>6, <2>3, <2>4
  <2>6. ASSUME i < level[x] PROVE (s + l) - vs \in Nat
    <3>1. next[u][i] = x
      BY <1>14, <2>1, <2>6
    <3>2. After(z, next[u][i]) = Len(w[x])
      BY <1>1, <1>21, <3>1 DEF After
    <3>3. PICK a \in Nat, b \in Nat : a = Ahead(w, u) /\ b = Len(w[x])
      <4>1. u \in Cells(r)
        BY <2>1 DEF OnLevel
      <4>2. Ahead(w, u) \in Nat
        BY <1>3, <1>4, <2>1, <4>1, AheadIs
      <4> QED BY <1>21, <4>2
    <3>4. s + l = (a + (k + l) + b) - b
      BY <1>6, <2>2, <2>5, <3>2, <3>3
    <3>5. s + l = a + (k + l) /\ sp + vs = k + l
      <4>1. (a + (k + l) + b) - b = a + (k + l)
        OBVIOUS
      <4>2. sp + vs = k + l
        BY <1>6, <1>7
      <4> QED BY <3>4, <4>1, <4>2
    <3>6. (s + l) - vs = a + sp
      BY <3>5
    <3> QED BY <3>6
  <2> QED BY <2>1, <2>2, <2>3, <2>5, <2>6
<1>30. ASSUME NEW c \in Cell, NEW i \in Levels
       PROVE  span'[c][i] \in Nat /\ next'[c][i] \in Pointer
  <2>1. /\ span[c][i] \in Nat /\ span[x][i] \in Nat
        /\ next[c][i] \in Pointer /\ next[x][i] \in Pointer
    BY <1>4, Kinds
  <2>2. next'[c][i] \in Pointer
    BY <1>10, <1>15, <2>1 DEF Pointer
  <2>3. CASE c = update[i]
    BY <1>16, <1>29, <2>2, <2>3
  <2>4. CASE c # update[i]
    <3>1. PICK s \in Nat, s2 \in Nat : s = span[c][i] /\ s2 = span[x][i]
      BY <2>1
    <3>2. \/ span'[c][i] = vs \/ span'[c][i] = s2 + vs
          \/ span'[c][i] = s2 \/ span'[c][i] = s
      BY <1>16, <2>4, <3>1
    <3> QED BY <2>2, <3>2
  <2> QED BY <2>2, <2>3, <2>4
<1>31. next' \in [Cell -> [Levels -> Pointer]] /\ span' \in [Cell -> [Levels -> Nat]]
  <2>1. /\ next' = [c \in Cell |-> [i \in Levels |-> next'[c][i]]]
        /\ span' = [c \in Cell |-> [i \in Levels |-> span'[c][i]]]
    BY <1>8 DEF SplitNext, SplitSpan
  <2> QED BY <1>30, <2>1
<1>32. Spanned(r2, z2)'
  <2>1. ASSUME NEW c \in Cell, NEW i \in Levels, OnLevel(r2, c, i)'
        PROVE  span'[c][i] = Len(z2[c]) - After(z2, next'[c][i])
    <3>1. PICK b \in Nat : b = Len(w[x])
      BY <1>21
    <3>2. CASE c = v
      <4>1. i < nl
        BY <1>10, <1>22, <2>1, <3>2
      <4>2. next'[c][i] = next[x][i] /\ span'[c][i] = span[x][i] /\ z2[c] = w[x]
        BY <1>10, <1>15, <1>16, <1>21, <3>2, <4>1
      <4>3. span[x][i] = Len(w[x]) - After(w, next[x][i])
        BY <1>3, <1>4, <1>23, <4>1 DEF Spanned
      <4>4. After(z2, next[x][i]) = After(w, next[x][i])
        BY <1>4, <1>21, <1>23, <1>28, <4>1 DEF After
      <4> QED BY <4>2, <4>3, <4>4
    <3>3. CASE c = x /\ i < nl
      <4>1. next'[c][i] = v /\ span'[c][i] = vs
        BY <1>4, <1>9, <1>15, <1>16, <3>3
      <4>2. After(z2, v) = b /\ Len(z2[c]) = vs + b
        BY <1>10, <1>21, <3>1, <3>3 DEF After
      <4>3. (vs + b) - b = vs
        OBVIOUS
      <4> QED BY <4>1, <4>2, <4>3
    <3>4. CASE c = x /\ ~ i < nl
      <4>1. OnLevel(r, x, i) /\ i < level[x] /\ FirstBehind(r, x, i)
        BY <1>4, <1>10, <1>22, <2>1, <3>4 DEF OnLevel
      <4>2. next'[c][i] = next[x][i] /\ span'[c][i] = span[x][i] + vs
        BY <1>10, <1>15, <1>16, <3>4, <4>1
      <4>3. span[x][i] = Len(w[x]) - After(w, next[x][i])
        BY <1>3, <1>4, <4>1 DEF Spanned
      <4>4. next[x][i] # Nil => next[x][i] \in On(r) /\ r[next[x][i]] < r[x]
        BY <4>1 DEF FirstBehind
      <4>5. After(z2, next[x][i]) = After(w, next[x][i])
        <5>1. CASE next[x][i] = Nil
          BY <5>1 DEF After
        <5>2. CASE next[x][i] # Nil
          <6>1. PICK m \in On(r) : m = next[x][i] /\ r[m] < r[x]
            BY <4>4, <5>2
          <6>2. m \in Cell /\ m # x /\ m # v
            BY <1>4, <1>10, <6>1 DEF Cell
          <6>3. z2[m] = w[m]
            BY <1>21, <1>28, <6>1, <6>2
          <6> QED BY <6>1, <6>3 DEF After
        <5> QED BY <5>1, <5>2
      <4>6. PICK a \in Nat : a = After(w, next[x][i])
        BY <1>3, <1>4, <4>4, TextFacts DEF After
      <4>7. (b - a) + vs = (vs + b) - a
        OBVIOUS
      <4> QED BY <1>21, <3>1, <3>4, <4>2, <4>3, <4>5, <4>6, <4>7
    <3>5. CASE c # x /\ c # v
      <4>1. OnLevel(r, c, i) /\ FirstBehind(r, c, i) /\ z2[c] = z[c] /\ next'[c][i] = next[c][i]
        BY <1>15, <1>21, <1>22, <2>1, <3>5
      <4>2. next[c][i] # Nil => next[c][i] \in On(r) /\ next[c][i] \in Node /\ next[c][i] # v
        BY <1>4, <1>10, <4>1 DEF FirstBehind
      <4>3. CASE c = update[i] /\ i < level[x]
        <5>1. next[c][i] = x
          BY <1>14, <4>3
        <5>2. After(z, x) = b /\ After(z2, x) = vs + b
          BY <1>1, <1>21, <3>1 DEF After
        <5>3. span[c][i] + l = Len(z[c]) - b
          BY <1>29, <4>3, <5>1, <5>2
        <5>4. span'[c][i] = (Len(z[c]) - b) - vs
          BY <1>16, <4>3, <5>3
        <5>5. PICK a \in Nat : a = Len(z[c])
          BY <1>5 DEF PassedOn
        <5>6. (a - b) - vs = a - (vs + b)
          OBVIOUS
        <5> QED BY <4>1, <5>1, <5>2, <5>4, <5>5, <5>6
      <4>4. CASE c = update[i] /\ ~ i < level[x]
        <5>1. next[c][i] # x
          BY <1>14, <4>4
        <5>2. After(z2, next[c][i]) = After(z, next[c][i])
          BY <1>27, <4>2, <5>1
        <5> QED BY <1>16, <1>29, <4>1, <4>4, <5>2
      <4>5. CASE c # update[i]
        <5>1. next[c][i] # x
          BY <1>1, <4>1, <4>5, LeadsElsewhere
        <5>2. After(z2, next[c][i]) = After(z, next[c][i])
          BY <1>27, <4>2, <5>1
        <5>3. Len(z[c]) - After(z, next[c][i]) = span[c][i]
          BY <1>1, <1>5, <4>1, <4>5, RewrittenSpans
        <5>4. span'[c][i] = span[c][i]
          BY <1>16, <3>5, <4>5
        <5> QED BY <4>1, <5>2, <5>3, <5>4
      <4> QED BY <4>3, <4>4, <4>5
    <3> QED BY <3>2, <3>3, <3>4, <3>5
  <2> QED BY <2>1 DEF Spanned, After
<1>33. Texts(z2)'
  <2>1. \A n \in Node : n # x /\ n # v => data'[n] = data[n] /\ z2[n] = z[n]
    BY <1>12, <1>21 DEF Cell
  <2>2. ASSUME NEW c \in Cell
        PROVE  z2[c] = IF next'[c][0] = Nil THEN << >>
                                            ELSE data'[next'[c][0]] \o z2[next'[c][0]]
    <3>1. Along(w, e, z, c) /\ Along(w, e, z, x) /\ x # update[0] /\ 0 < nl
      BY <1>1, <1>4, <1>5, <1>9, <1>14, PassedAlong
    <3>2. /\ z[x] = IF next[x][0] = Nil THEN << >> ELSE data[next[x][0]] \o z[next[x][0]]
          /\ next[x][0] # Nil => next[x][0] \in Node /\ next[x][0] # x /\ next[x][0] # v
      BY <1>4, <1>23, <3>1, BiModalAssumption DEF Along
    <3>3. CASE c = v
      <4>1. next'[c][0] = next[x][0] /\ z2[c] = z[x]
        BY <1>4, <1>10, <1>15, <1>21, <3>1, <3>3
      <4> QED BY <2>1, <3>2, <4>1
    <3>4. CASE c = x
      <4>1. next'[c][0] = v /\ z2[c] = data'[v] \o z2[v]
        BY <1>4, <1>12, <1>15, <1>21, <3>1, <3>4
      <4> QED BY <1>10, <4>1
    <3>5. CASE c # x /\ c # v
      <4>1. next'[c][0] = next[c][0] /\ z2[c] = z[c]
        BY <1>4, <1>15, <1>21, <3>5
      <4>2. CASE next[c][0] = x
        <5>1. z[c] = e \o w[x]
          BY <1>1, <1>4, <3>1, <4>2 DEF Along
        <5>2. PICK b \in Seq(Char) : b = w[x]
          BY <1>21
        <5>3. (d2 \o d3) \o b = d2 \o (d3 \o b)
          BY Seqs!Assoc
        <5>4. z2[c] = data'[x] \o z2[x]
          BY <1>11, <1>12, <1>21, <4>1, <5>1, <5>2, <5>3
        <5> QED BY <1>1, <4>1, <4>2, <5>4
      <4>3. CASE next[c][0] # x
        <5>1. next[c][0] # v
          <6>1. CASE c \in Cells(r)
            <7>1. OnLevel(r, c, 0) /\ FirstBehind(r, c, 0)
              BY <1>1, <1>3, <1>4, <6>1, CellFacts DEF OnLevel, Cells, Ordered
            <7> QED BY <1>10, <7>1 DEF FirstBehind
          <6>2. CASE c \notin Cells(r)
            <7>1. c \in Node \ On(r)
              BY <1>1, <6>2 DEF Cells, Cell
            <7> QED BY <1>3, <1>4, <1>10, <7>1 DEF Ordered
          <6> QED BY <6>1, <6>2
        <5> QED BY <2>1, <3>1, <4>1, <4>3, <5>1, BiModalAssumption DEF Along
      <4> QED BY <4>2, <4>3
    <3> QED BY <3>3, <3>4, <3>5
  <2> QED BY <1>21, <2>2 DEF Texts
<1>34. Sized(z)' /\ total_size' \in Nat
  BY <1>1, <1>2, InsertSized
<1>35. z2[head] = z[head] /\ Sized(z2)'
  <2>1. z2[head] = z[head]
    BY <1>4, <1>10, <1>21
  <2> QED BY <1>34, <2>1 DEF Sized
<1>36. NoneEmpty(r2)'
  <2>1. data'[x] # << >> /\ data'[v] # << >>
    <3>1. sp > 0 /\ vs > 0 /\ Len(d2) = sp /\ Len(d3) = vs
      BY <1>7, <1>11
    <3>2. Len(d2) # 0 /\ Len(d3) # 0
      BY <3>1
    <3>3. d2 # << >> /\ d3 # << >>
      BY <3>2
    <3> QED BY <1>12, <3>3
  <2>2. ASSUME NEW n \in On(r), n # x PROVE data'[n] # << >>
    <3>1. data[n] # << >>
      BY <1>3, <1>4, <2>2 DEF NoneEmpty
    <3> QED BY <1>4, <1>10, <1>12, <2>2, <3>1
  <2> QED BY <1>20, <2>1, <2>2 DEF NoneEmpty
<1>37. TypeOK'
  <2>1. mode' \in [Node -> {"gap", "compact"}]
    BY <1>8 DEF TypeOK
  <2>2. /\ pc' = "idle" /\ req' = NoRequest /\ outcome' = "ok"
        /\ x' = Nil /\ acc' = 0 /\ lvl' = 0 /\ update' = [i \in Levels |-> head]
    BY <1>1 DEF Return, NoUpdate
  <2> QED BY <1>4, <1>12, <1>13, <1>31, <1>34, <2>1, <2>2 DEF TypeOK
<1>38. Served(z2)'
  BY <1>1 DEF Served, NoRequest
<1>39. Good(r2, z2)'
  BY <1>1, <1>26, <1>32, <1>33, <1>35, <1>36, <1>38 DEF Good, Held
<1>40. Followed(r, r2)
  <2>1. Allocated' = Allocated \cup {v} /\ v \notin Allocated
    BY <1>8, <1>9, <1>10, <1>13 DEF Allocated, Free, Cell
  <2>2. Allocated' \ On(r2) = Allocated \ On(r) /\ On(r) \ {x} \subseteq On(r2)
    BY <1>10, <1>20, <2>1
  <2> QED BY <2>2 DEF Followed
<1> QED BY <1>2, <1>35, <1>37, <1>39, <1>40 DEF InsertedAs

-----------------------------------------------------------------------------
(***************************************************************************)
(* The invariant.                                                          *)
(***************************************************************************)

(* A new text has no nodes.                                                 *)
LEMMA InitGood ==
  ASSUME Init
  PROVE  IInv
<1>1. TypeOK
  BY BiModalAssumption
     DEF Init, TypeOK, Cell, Levels, Pointer, NoUpdate, NoRequest, Request
<1>2. PICK r, w : /\ r = [c \in Cell |-> IF c = head THEN 1 ELSE 0]
                  /\ w = [c \in Cell |-> << >>]
  OBVIOUS
<1>3. Whole /\ pc = "idle" /\ head \in Cell /\ 0 \in Levels
  BY BiModalAssumption DEF Init, Whole, Cell, Levels
<1>4. /\ r \in [Cell -> Nat] /\ r[head] = 1 /\ \A n \in Node : r[n] = 0
  BY <1>2, BiModalAssumption DEF Cell
<1>5. On(r) = {} /\ Cells(r) = {head}
  BY <1>3, <1>4 DEF On, Cells
<1>6. \A c \in Cell, i \in Levels : next[c][i] = Nil /\ span[c][i] = 0
  BY DEF Init
<1>7. Ordered(r)
  BY <1>4, <1>5, <1>6, BiModalAssumption
     DEF Init, Ordered, OnLevel, FirstBehind, Allocated, Cell
<1>8. \A c \in Cell : w[c] = << >> /\ Len(w[c]) = 0
  BY <1>2
<1>9. Texts(w) /\ Sized(w) /\ NoneEmpty(r)
  <2>1. w \in [Cell -> Seq(Char)]
    BY <1>2
  <2> QED BY <1>3, <1>5, <1>6, <1>8, <2>1, BiModalAssumption DEF Init, Texts, Sized, NoneEmpty
<1>10. Spanned(r, w)
  <2>1. ASSUME NEW c \in Cell, NEW i \in Levels
        PROVE  span[c][i] = Len(w[c]) - After(w, next[c][i])
    <3>1. span[c][i] = 0 /\ Len(w[c]) = 0 /\ After(w, next[c][i]) = 0
      BY <1>6, <1>8 DEF After
    <3> QED BY <3>1
  <2> QED BY <2>1 DEF Spanned
<1>11. Served(w)
  BY <1>3 DEF Init, Served, NoRequest
<1>12. Good(r, w)
  BY <1>3, <1>7, <1>9, <1>10, <1>11 DEF Good, Held
<1> QED BY <1>1, <1>12 DEF IInv

(* Every step keeps the invariant.                                          *)
LEMMA StepGood ==
  ASSUME TypeOK, NEW r, NEW w, Good(r, w), AllocMayFail => LengthsFit, Next
  PROVE  TypeOK' /\ \E r2, w2 : Good(r2, w2)'
<1>1. CASE CallInsert \/ CallErase \/ CallOptimize \/ CallClear
  BY <1>1, CallKeeps
<1>2. CASE Find
  BY <1>2, AdvanceKeeps, DescendKeeps, SkipKeeps DEF Find
<1>3. CASE Insert
  <2>1. CASE InsertRejected \/ InsertAllocFails \/ InsertGrowFails
    BY <2>1, EndKeeps
  <2>2. CASE InsertSearch
    BY <2>2, SearchKeeps
  <2>3. CASE InsertFirst
    BY <2>3, InsertFirstKeeps
  <2>4. CASE InsertFits \/ InsertSplitFails
    BY <2>4, InsertPlainKeeps
  <2>5. CASE InsertSplits
    BY <2>5, InsertSplitsKeeps
  <2>6. CASE InsertFirstLost
    BY <2>6, FirstLostKeeps
  <2> QED BY <1>3, <2>1, <2>2, <2>3, <2>4, <2>5, <2>6 DEF Insert
<1>4. CASE Erase
  <2>1. CASE EraseIgnored \/ EraseDone \/ EraseFails
    BY <2>1, EndKeeps
  <2>2. CASE EraseSearch
    BY <2>2, SearchKeeps
  <2>3. CASE EraseClamp
    BY <2>3, ClampKeeps
  <2>4. CASE EraseShrinks
    BY <2>4, EraseShrinksKeeps
  <2>5. CASE EraseRemoves
    BY <2>5, EraseRemovesKeeps
  <2> QED BY <1>4, <2>1, <2>2, <2>3, <2>4, <2>5 DEF Erase
<1>5. CASE Optimize
  <2>1. CASE OptimizeFails \/ OptimizeDone
    BY <2>1, EndKeeps
  <2>2. CASE OptimizeStart \/ OptimizeNode
    BY <2>2, OptimizeKeeps
  <2> QED BY <1>5, <2>1, <2>2 DEF Optimize
<1>6. CASE Clear
  BY <1>6, ClearStartKeeps, ClearNodeKeeps, ClearDoneKeeps DEF Clear
<1> QED BY <1>1, <1>2, <1>3, <1>4, <1>5, <1>6 DEF Next, Step

(* Nothing happens.                                                         *)
LEMMA StutterGood ==
  ASSUME TypeOK, NEW r, NEW w, Good(r, w), UNCHANGED vars
  PROVE  TypeOK' /\ Good(r, w)'
<1>1. UNCHANGED <<level, next, span, mode, data, total_size, pc, req, outcome, x, acc, lvl, update>>
  BY DEF vars, heap, locals
<1>2. TypeOK'
  BY <1>1 DEF TypeOK
<1>3. Ordered(r)'
  <2>1. Ordered(r)
    BY DEF Good
  <2> QED BY <1>1, <2>1, SameLists DEF Whole
<1>4. Whole' => Held(r, w)'
  BY <1>1, SameHeap DEF Good, Whole
<1>5. Served(w)'
  BY <1>1 DEF Good, Served
<1>6. \A c, i : OnLevel(r, c, i)' <=> OnLevel(r, c, i)
  BY <1>1 DEF OnLevel, Cells, On, Whole
<1>7. pc' = "find" => Finding(r, w)'
  <2>1. ASSUME Finding(r, w) PROVE Finding(r, w)'
    <3>1. UNCHANGED <<x, acc, lvl, update, req, level>>
      BY <1>1
    <3>2. OnLevel(r, x, lvl)' /\ \A i \in Levels : OnLevel(r, update[i], i) => OnLevel(r, update[i], i)'
      BY <1>1, <2>1 DEF Finding, OnLevel, Cells, On, Whole
    <3> QED BY <2>1, <3>1, <3>2 DEF Finding, EndOf, On
  <2> QED BY <1>1, <2>1 DEF Good
<1>8. pc' = "found" => Targeting(r, w)'
  <2>1. ASSUME Targeting(r, w) PROVE Targeting(r, w)'
    BY <1>1, <2>1 DEF Targeting, EndOf, On, LastBefore, OnLevel, Cells, Whole
  <2> QED BY <1>1, <2>1 DEF Good
<1>9. (pc' = "optimize" => Packing(r)') /\ (pc' = "clear" => Clearing(r)')
  BY <1>1 DEF Good, Packing, Clearing, On
<1> QED BY <1>2, <1>3, <1>4, <1>5, <1>7, <1>8, <1>9 DEF Good

(* The ranks and the texts exist in every state, so long as the length of   *)
(* an erase does not wrap where allocations can fail.                       *)
THEOREM Invariance ==
  ASSUME AllocMayFail => LengthsFit
  PROVE  Spec => []IInv
<1>1. Init => IInv
  BY InitGood
<1>2. IInv /\ [Next]_vars => IInv'
  <2>1. ASSUME IInv, [Next]_vars PROVE IInv'
    <3>1. PICK r, w : Good(r, w)
      BY <2>1 DEF IInv
    <3>2. TypeOK
      BY <2>1 DEF IInv
    <3>3. CASE Next
      BY <3>1, <3>2, <3>3, StepGood DEF IInv
    <3>4. CASE UNCHANGED vars
      BY <3>1, <3>2, <3>4, StutterGood DEF IInv
    <3> QED BY <2>1, <3>3, <3>4
  <2> QED BY <2>1
<1> QED BY <1>1, <1>2, PTL DEF Spec

-----------------------------------------------------------------------------
(***************************************************************************)
(* What a step does to the lists and to the text.                          *)
(***************************************************************************)
(* The lists as the properties follow them are the ranks and the texts.     *)
LEMMA Shape ==
  ASSUME TypeOK, NEW r, NEW w, Good(r, w), Whole
  PROVE  /\ Linked = On(r) /\ Linked \cup {head} = Cells(r) /\ Text = w[head]
         /\ \A c \in Cells(r) : TextBehind[c] = w[c]
         /\ \A c \in Cells(r) : Behind[c] = {n \in On(r) : r[n] < r[c]}
         /\ Ordered(r) /\ Texts(w) /\ Spanned(r, w) /\ Sized(w) /\ NoneEmpty(r)
<1>1. Ordered(r) /\ Texts(w) /\ Spanned(r, w) /\ Sized(w) /\ NoneEmpty(r)
  BY DEF Good, Held
<1>2. \A c \in Cells(r) : TextBehind[c] = w[c]
  BY <1>1, TextBehindIs
<1>3. \A c \in Cells(r) : Behind[c] = {n \in On(r) : r[n] < r[c]}
  BY <1>1, BehindIs
<1>4. head \in Cells(r) /\ \A n \in On(r) : r[n] < r[head]
  BY <1>1, CellFacts DEF Cells
<1>5. Linked = On(r)
  BY <1>3, <1>4 DEF Linked
<1>6. Linked \cup {head} = Cells(r)
  BY <1>5 DEF Cells
<1>7. Text = w[head]
  BY <1>1, TextIs
<1> QED BY <1>1, <1>2, <1>3, <1>5, <1>6, <1>7

(* The lists and the text are the ranks and the texts, after a step too.    *)
Matched ==
  \A r, w : TypeOK /\ Good(r, w) /\ Whole => Linked = On(r) /\ Text = w[head]

(* The ranks and texts of the invariant are those of the lists.             *)
LEMMA MatchedNow == Matched
BY Shape DEF Matched

(* It holds of the next state as well.                                      *)
LEMMA MatchedThen == Matched'
<1>1. Matched
  BY MatchedNow
<1> QED BY <1>1, PTL

(* The same for given ranks and texts of the next state.                    *)
LEMMA MatchedNext ==
  ASSUME TypeOK', NEW r, NEW w, Good(r, w)', Whole'
  PROVE  Linked' = On(r) /\ Text' = w[head]
<1>1. Matched'
  BY MatchedThen
<1>2. On(r)' = On(r)
  BY DEF On
<1> QED BY <1>1, <1>2 DEF Matched

(* The steps that leave the lists and the text alone.                       *)
Still == \/ CallInsert \/ CallErase \/ CallOptimize \/ CallClear
         \/ Find
         \/ InsertRejected \/ InsertSearch \/ InsertAllocFails \/ InsertGrowFails
         \/ EraseIgnored \/ EraseClamp \/ EraseSearch \/ EraseDone \/ EraseFails
         \/ Optimize

(* The steps that edit the text.                                            *)
Edits == \/ InsertFirst \/ InsertFits \/ InsertSplits \/ InsertSplitFails
         \/ EraseShrinks \/ EraseRemoves

(* A step is one of these.                                                  *)
LEMMA StepKinds ==
  ASSUME Next
  PROVE  Still \/ Edits \/ InsertFirstLost \/ Clear
BY DEF Next, Step, Insert, Erase, Still, Edits

(* What they leave alone.                                                   *)
LEMMA StillKeeps ==
  ASSUME TypeOK, NEW r, NEW w, Good(r, w), AllocMayFail => LengthsFit, Still
  PROVE  /\ Whole /\ Whole' /\ TypeOK' /\ Good(r, w)'
         /\ UNCHANGED <<level, next, span, data, total_size>>
         /\ Linked = On(r) /\ Linked' = On(r) /\ Text = w[head] /\ Text' = w[head]
<1>1. TypeOK' /\ Good(r, w)'
  <2>1. CASE Find
    BY <2>1, AdvanceKeeps, DescendKeeps, SkipKeeps DEF Find
  <2>2. CASE Optimize
    BY <2>2, EndKeeps, OptimizeKeeps DEF Optimize
  <2>3. CASE CallInsert \/ CallErase \/ CallOptimize \/ CallClear
    BY <2>3, CallKeeps
  <2>4. CASE InsertSearch \/ EraseSearch
    BY <2>4, SearchKeeps
  <2>5. CASE EraseClamp
    BY <2>5, ClampKeeps
  <2>6. CASE \/ InsertRejected \/ InsertAllocFails \/ InsertGrowFails
             \/ EraseIgnored \/ EraseDone \/ EraseFails
    BY <2>6, EndKeeps
  <2> QED BY <2>1, <2>2, <2>3, <2>4, <2>5, <2>6 DEF Still
<1>2. UNCHANGED <<level, next, span, data, total_size>>
  <2>1. CASE Find
    BY <2>1 DEF Find, FindAdvance, FindDescend, FindSkip, heap
  <2>2. CASE Optimize
    BY <2>2 DEF Optimize, OptimizeStart, WalkStart, OptimizeNode, OptimizeFails,
                OptimizeDone, heap
  <2>3. CASE CallInsert \/ CallErase \/ CallOptimize \/ CallClear
    BY <2>3 DEF CallInsert, CallErase, CallOptimize, CallClear, Call, heap
  <2>4. CASE \/ InsertRejected \/ InsertSearch \/ InsertAllocFails \/ InsertGrowFails
             \/ EraseIgnored \/ EraseClamp \/ EraseSearch \/ EraseDone \/ EraseFails
    BY <2>4 DEF InsertRejected, InsertSearch, InsertAllocFails, InsertGrowFails,
                EraseIgnored, EraseClamp, EraseSearch, EraseDone, EraseFails, heap
  <2> QED BY <2>1, <2>2, <2>3, <2>4 DEF Still
<1>3. Whole /\ Whole'
  <2>1. CASE Find
    BY <2>1 DEF Find, FindAdvance, FindDescend, FindSkip, Whole
  <2>2. CASE Optimize
    BY <2>2 DEF Optimize, OptimizeStart, WalkStart, OptimizeNode, OptimizeFails,
                OptimizeDone, Return, Whole
  <2>3. CASE CallInsert \/ CallErase \/ CallOptimize \/ CallClear
    BY <2>3 DEF CallInsert, CallErase, CallOptimize, CallClear, Call, Whole
  <2>4. CASE \/ InsertRejected \/ InsertSearch \/ InsertAllocFails \/ InsertGrowFails
             \/ EraseIgnored \/ EraseClamp \/ EraseSearch \/ EraseDone \/ EraseFails
    BY <2>4 DEF InsertRejected, InsertSearch, InsertAllocFails, InsertGrowFails,
                EraseIgnored, EraseClamp, EraseSearch, EraseDone, EraseFails,
                Found, FindStart, Return, Whole
  <2> QED BY <2>1, <2>2, <2>3, <2>4 DEF Still
<1>4. Linked = On(r) /\ Text = w[head]
  BY <1>3, Shape
<1>5. Linked' = On(r) /\ Text' = w[head]
  BY <1>1, <1>3, MatchedNext
<1> QED BY <1>1, <1>2, <1>3, <1>4, <1>5

(* A split fails, and a block that was free is allocated and not linked.    *)
LosesNewBlock ==
  /\ pc = "found" /\ req.op = "insert" /\ TooLong /\ outcome' = "bad_alloc"
  /\ \E n \in Free : Allocated' \ Linked' = (Allocated \ Linked) \cup {n}

(* What an edit does: the text is edited, the other nodes stay linked, and  *)
(* no block is lost but a new one.                                          *)
LEMMA EditKeeps ==
  ASSUME TypeOK, NEW r, NEW w, Good(r, w), Edits
  PROVE  /\ Whole /\ Whole' /\ TypeOK' /\ \E r2, w2 : Good(r2, w2)'
         /\ Linked \ {x} \subseteq Linked'
         /\ Allocated' \ Linked' = Allocated \ Linked \/ LosesNewBlock
         /\ req.op = "insert" => Text' = StringInsert(Text, req.pos, req.str)
         /\ req.op = "erase" => Text' = StringErase(Text, req.pos, DelLen)
<1>1. Whole /\ Whole' /\ pc = "found"
  BY DEF Edits, InsertFirst, InsertFits, InsertSplits, InsertSplitFails,
         EraseShrinks, EraseRemoves, EraseAgain, Found, Return, Whole
<1>2. /\ TypeOK'
      /\ \E r2, w2 : /\ Good(r2, w2)' /\ Followed(r, r2)
                     /\ req.op = "insert" =>
                          w2[head] = StringInsert(w[head], req.pos, req.str)
                     /\ req.op = "erase" =>
                          w2[head] = StringErase(w[head], req.pos, DelLen)
  <2>1. CASE InsertFirst
    <3>1. req.op = "insert"
      BY <2>1 DEF InsertFirst, Found
    <3> QED BY <2>1, <3>1, InsertFirstKeeps
  <2>2. CASE InsertFits \/ InsertSplitFails
    <3>1. req.op = "insert"
      BY <2>2 DEF InsertFits, InsertSplitFails, Found
    <3> QED BY <2>2, <3>1, InsertPlainKeeps
  <2>3. CASE InsertSplits
    <3>1. req.op = "insert"
      BY <2>3 DEF InsertSplits, Found
    <3> QED BY <2>3, <3>1, InsertSplitsKeeps
  <2>4. CASE EraseShrinks
    <3>1. req.op = "erase"
      BY <2>4 DEF EraseShrinks, Found
    <3> QED BY <2>4, <3>1, EraseShrinksKeeps
  <2>5. CASE EraseRemoves
    <3>1. req.op = "erase"
      BY <2>5 DEF EraseRemoves, Found
    <3> QED BY <2>5, <3>1, EraseRemovesKeeps
  <2> QED BY <2>1, <2>2, <2>3, <2>4, <2>5 DEF Edits
<1>3. PICK r2, w2 : /\ Good(r2, w2)' /\ Followed(r, r2)
                    /\ req.op = "insert" =>
                         w2[head] = StringInsert(w[head], req.pos, req.str)
                    /\ req.op = "erase" =>
                         w2[head] = StringErase(w[head], req.pos, DelLen)
  BY <1>2
<1>4. Linked = On(r) /\ Text = w[head]
  BY <1>1, Shape
<1>5. Linked' = On(r2) /\ Text' = w2[head]
  BY <1>1, <1>2, <1>3, MatchedNext
<1>6. /\ Linked \ {x} \subseteq Linked'
      /\ Allocated' \ Linked' = Allocated \ Linked \/ LosesNewBlock
  BY <1>3, <1>4, <1>5 DEF Followed, NewBlockLost, LosesNewBlock
<1> QED BY <1>1, <1>2, <1>3, <1>4, <1>5, <1>6

-----------------------------------------------------------------------------
(***************************************************************************)
(* The refinement of the abstract text.                                    *)
(***************************************************************************)
(* What of an erase of n characters at p is left in a text of h.            *)
LeftOf(p, n, h) == IF p < h THEN MinOf(n, h - p) ELSE 0

(* What is left of an erase when nothing has been erased yet.               *)
LEMMA LeftFacts ==
  ASSUME NEW p \in Nat, NEW n \in Nat, NEW h \in Nat
  PROVE  /\ LeftOf(p, n, h) \in Nat
         /\ p >= h => LeftOf(p, n, h) = 0
         /\ LeftOf(p, 0, h) = 0
         /\ p < h /\ p + n > h => LeftOf(p, h - p, h) = LeftOf(p, n, h)
<1>1. CASE p < h
  BY <1>1 DEF LeftOf, MinOf
<1>2. CASE ~ p < h
  BY <1>2 DEF LeftOf, MinOf
<1> QED BY <1>1, <1>2

(* What is left after k characters are gone.                                *)
LEMMA LeftAfterPart ==
  ASSUME NEW p \in Nat, NEW n \in Nat, NEW h \in Nat, NEW k \in Nat, k <= n, p + k <= h
  PROVE  /\ k <= LeftOf(p, n, h)
         /\ LeftOf(p, n - k, h - k) = LeftOf(p, n, h) - k
<1>1. CASE p + k < h
  BY <1>1 DEF LeftOf, MinOf
<1>2. CASE p + k = h
  BY <1>2 DEF LeftOf, MinOf
<1> QED BY <1>1, <1>2

(* A request with n characters left to do.                                  *)
WithLen(q, n) == [op |-> q.op, pos |-> q.pos, str |-> q.str, len |-> n]

(* What the abstract text sees.                                             *)
Seen ==
  /\ ~Whole => AbsText = << >> /\ AbsReq = NoRequest
  /\ Whole => AbsText = Text
  /\ Whole /\ req.op # "erase" => AbsReq = req
  /\ Whole /\ req \in Request /\ req.op = "erase" =>
       AbsReq = WithLen(req, LeftOf(req.pos, req.len, Len(Text)))

(* The definitions of AbsText and AbsReq, case by case.                     *)
LEMMA SeenNow == Seen
<1>1. ASSUME Whole, req \in Request, req.op = "erase"
      PROVE  AbsReq = WithLen(req, LeftOf(req.pos, req.len, Len(Text)))
  <2>1. PICK n : n = LeftOf(req.pos, req.len, Len(Text))
    OBVIOUS
  <2>2. AbsReq = [req EXCEPT !.len = n]
    BY <1>1, <2>1 DEF AbsReq, LeftOf
  <2>3. [req EXCEPT !.len = n] = WithLen(req, n)
    BY <1>1 DEF WithLen, Request
  <2> QED BY <2>1, <2>2, <2>3
<1>2. ~Whole => AbsText = << >> /\ AbsReq = NoRequest
  BY DEF AbsText, AbsReq
<1>3. Whole => AbsText = Text
  BY DEF AbsText
<1>4. Whole /\ req.op # "erase" => AbsReq = req
  BY DEF AbsReq
<1> QED BY <1>1, <1>2, <1>3, <1>4 DEF Seen

(* They hold of the next state as well.                                     *)
LEMMA SeenThen == Seen'
<1>1. Seen
  BY SeenNow
<1> QED BY <1>1, PTL

(* The text and its reported size, while no allocation fails.               *)
LEMMA WholeText ==
  ASSUME ~AllocMayFail, TypeOK, NEW r, NEW w, Good(r, w), Whole
  PROVE  /\ Text \in Seq(Char) /\ Len(Text) \in Nat /\ total_size = Len(Text)
         /\ req.pos \in Nat /\ req.len \in Nat
         /\ pc # "idle" => req \in Request
<1>1. Text = w[head] /\ Ordered(r) /\ Texts(w) /\ Sized(w)
  BY Shape
<1>2. Text \in Seq(Char) /\ Len(Text) \in Nat
  BY <1>1, TextFacts, CellFacts
<1>3. total_size = Len(Text)
  BY <1>1 DEF Sized
<1> QED BY <1>2, <1>3, Kinds DEF TypeOK

(* Erasing nothing.                                                         *)
LEMMA NothingErased ==
  ASSUME NEW t \in Seq(Char), NEW p \in 0 .. Len(t)
  PROVE  StringErase(t, p, 0) = t /\ Abs!StringErase(t, p, 0) = t
<1>1. p + 0 + 1 = p + 1
  OBVIOUS
<1>2. t = SubSeq(t, 1, p) \o SubSeq(t, p + 1, Len(t))
  BY Seqs!SeqParts
<1> QED BY <1>1, <1>2 DEF StringErase, Abs!StringErase

(* A call is invoked.                                                       *)
LEMMA CallsInvoke ==
  ASSUME ~AllocMayFail, TypeOK, NEW r, NEW w, Good(r, w),
         CallInsert \/ CallErase \/ CallOptimize \/ CallClear
  PROVE  Abs!Invoke
<1>1. Whole /\ Whole' /\ TypeOK' /\ Text' = Text
  BY StillKeeps DEF Still
<1>2. pc = "idle" /\ pc' = "entry"
  BY DEF CallInsert, CallErase, CallOptimize, CallClear, Call
<1>3. AbsReq = Abs!NoRequest
  <2>1. req = NoRequest
    BY <1>2 DEF TypeOK
  <2>2. req.op # "erase"
    BY <2>1 DEF NoRequest
  <2> QED BY <1>1, <2>1, <2>2, SeenNow DEF Seen, NoRequest, Abs!NoRequest
<1>4. AbsText' = AbsText
  BY <1>1, SeenNow, SeenThen DEF Seen
<1>5. req' \in Request /\ req'.pos \in Nat /\ req'.len \in Nat /\ req'.str \in Seq(Char)
  BY <1>1, <1>2 DEF TypeOK, Request
<1>6. AbsReq' \in Abs!Request
  <2>1. CASE req'.op # "erase"
    BY <1>1, <1>5, <2>1, SeenThen DEF Seen, Request, Abs!Request
  <2>2. CASE req'.op = "erase"
    <3>1. Len(Text') \in Nat
      BY <1>1, WholeText
    <3>2. LeftOf(req'.pos, req'.len, Len(Text')) \in Nat
      BY <1>5, <3>1, LeftFacts
    <3>3. AbsReq' = WithLen(req', LeftOf(req'.pos, req'.len, Len(Text')))
      BY <1>1, <1>5, <2>2, SeenThen DEF Seen
    <3> QED BY <1>5, <2>2, <3>2, <3>3 DEF WithLen, Abs!Request
  <2> QED BY <2>1, <2>2
<1> QED BY <1>3, <1>4, <1>6 DEF Abs!Invoke

(* What neither edits the text nor cuts the request is not seen.            *)
LEMMA Unseen ==
  ASSUME Whole, Whole', req \in Request, req' = req, Text' = Text
  PROVE  UNCHANGED <<AbsText, AbsReq>>
<1>1. AbsText' = AbsText
  BY SeenNow, SeenThen DEF Seen
<1>2. AbsReq' = AbsReq
  <2>1. CASE req.op # "erase"
    BY <2>1, SeenNow, SeenThen DEF Seen
  <2>2. CASE req.op = "erase"
    BY <2>2, SeenNow, SeenThen DEF Seen
  <2> QED BY <2>1, <2>2
<1> QED BY <1>1, <1>2

(* A quiet step is a call, an answer, or not seen by the abstract text.     *)
LEMMA StillImplements ==
  ASSUME ~AllocMayFail, TypeOK, NEW r, NEW w, Good(r, w), Still
  PROVE  Abs!Next \/ UNCHANGED <<AbsText, AbsReq>>
<1>1. Whole /\ Whole' /\ TypeOK' /\ Text' = Text
  BY StillKeeps
<1>2. /\ Text \in Seq(Char) /\ Len(Text) \in Nat /\ total_size = Len(Text)
      /\ req.pos \in Nat /\ req.len \in Nat
      /\ pc # "idle" => req \in Request
  BY <1>1, WholeText
<1>3. AbsText = Text /\ AbsText' = Text
  BY <1>1, SeenNow, SeenThen DEF Seen
<1>4. \A how : Return(how) => AbsReq' = NoRequest /\ AbsReq' = Abs!NoRequest
  BY <1>1, SeenThen DEF Return, Seen, NoRequest, Abs!NoRequest
<1>5. ASSUME pc # "idle", req.op = "erase"
      PROVE  /\ AbsReq.op = "erase" /\ AbsReq.pos = req.pos
             /\ AbsReq.len = LeftOf(req.pos, req.len, Len(Text))
             /\ req \in Request
  BY <1>1, <1>2, <1>5, SeenNow DEF Seen, WithLen
<1>6. CASE CallInsert \/ CallErase \/ CallOptimize \/ CallClear
  BY <1>6, CallsInvoke DEF Abs!Next
<1>7. CASE Find \/ InsertSearch \/ EraseSearch \/ OptimizeStart \/ OptimizeNode
  <2>1. req' = req /\ pc # "idle"
    BY <1>7 DEF Find, FindAdvance, FindDescend, FindSkip, InsertSearch, EraseSearch,
         OptimizeStart, OptimizeNode, WalkStart
  <2> QED BY <1>1, <1>2, <2>1, Unseen
<1>8. CASE InsertRejected
  <2>1. pc # "idle" /\ req.op = "insert" /\ req.pos > Len(Text) /\ Return("out_of_range")
    BY <1>2, <1>8 DEF InsertRejected
  <2>2. AbsReq = req
    BY <1>1, <2>1, SeenNow DEF Seen
  <2>3. Abs!InsertBeyondEnd
    BY <1>3, <1>4, <2>1, <2>2 DEF Abs!InsertBeyondEnd
  <2> QED BY <2>3 DEF Abs!Next
<1>9. CASE EraseIgnored
  <2>1. pc # "idle" /\ req.op = "erase" /\ req.pos >= Len(Text) /\ Return("ok")
    BY <1>2, <1>9 DEF EraseIgnored
  <2>2. AbsReq.op = "erase" /\ AbsReq.pos = req.pos /\ AbsReq.len = 0
    BY <1>2, <1>5, <2>1, LeftFacts
  <2>3. CASE req.pos > Len(Text)
    <3>1. Abs!EraseBeyondEnd
      BY <1>3, <1>4, <2>1, <2>2, <2>3 DEF Abs!EraseBeyondEnd
    <3> QED BY <3>1 DEF Abs!Next
  <2>4. CASE req.pos = Len(Text)
    <3>1. Abs!StringErase(Text, req.pos, 0) = Text /\ req.pos <= Len(Text)
      BY <1>2, <2>4, NothingErased
    <3>2. Abs!Erase
      BY <1>3, <1>4, <2>1, <2>2, <3>1 DEF Abs!Erase
    <3> QED BY <3>2 DEF Abs!Next
  <2>5. PICK p \in Nat, h \in Nat : p = req.pos /\ h = Len(Text)
    BY <1>2
  <2>6. p > h \/ p = h
    BY <2>1, <2>5
  <2> QED BY <2>3, <2>4, <2>5, <2>6
<1>10. CASE EraseDone
  <2>1. pc = "loop" /\ req.len = 0 /\ Return("ok")
    BY <1>10 DEF EraseDone
  <2>2. req.op = "erase" /\ req.pos <= Len(Text)
    BY <1>2, <2>1 DEF Good, Served
  <2>3. AbsReq.op = "erase" /\ AbsReq.pos = req.pos /\ AbsReq.len = 0
    BY <1>2, <1>5, <2>1, <2>2, LeftFacts
  <2>4. Abs!StringErase(Text, req.pos, 0) = Text
    BY <1>2, <2>2, NothingErased
  <2>5. Abs!Erase
    BY <1>3, <1>4, <2>1, <2>2, <2>3, <2>4 DEF Abs!Erase
  <2> QED BY <2>5 DEF Abs!Next
<1>11. CASE EraseClamp
  <2>1. /\ pc = "entry" /\ req.op = "erase" /\ req.pos < total_size /\ req \in Request
        /\ req' = [req EXCEPT !.len = IF (req.pos + req.len) % SizeMod > total_size
                                        THEN total_size - req.pos ELSE req.len]
    BY <1>2, <1>11 DEF EraseClamp
  <2>2. PICK p \in Nat, n \in Nat, h \in Nat, m \in Nat \ {0} :
          p = req.pos /\ n = req.len /\ h = Len(Text) /\ m = SizeMod
    BY <1>2, BiModalAssumption
  <2>3. p < h /\ (p + n) % m <= p + n
    <3>1. p < h
      BY <1>2, <2>1, <2>2
    <3>2. \A a \in Nat : a % m <= a
      <4>1. ASSUME NEW a \in Nat PROVE a % m <= a
        <5>1. CASE a < m
          BY <5>1
        <5>2. CASE ~ a < m
          <6>1. a % m < m
            OBVIOUS
          <6> QED BY <5>2, <6>1
        <5> QED BY <5>1, <5>2
      <4> QED BY <4>1
    <3> QED BY <3>1, <3>2
  <2>4. PICK k \in Nat : /\ k = IF (p + n) % m > h THEN h - p ELSE n
                         /\ LeftOf(p, k, h) = LeftOf(p, n, h)
    <3>1. CASE (p + n) % m > h
      <4>1. p + n > h /\ h - p \in Nat /\ (p + n) % m \in Nat
        BY <2>3, <3>1
      <4> QED BY <2>3, <3>1, <4>1, LeftFacts
    <3>2. CASE ~ (p + n) % m > h
      BY <3>2
    <3> QED BY <3>1, <3>2
  <2>5. /\ req' \in Request /\ req'.op = "erase" /\ req'.pos = p /\ req'.str = req.str
        /\ req'.len = k
    <3>1. req' = [req EXCEPT !.len = k]
      BY <1>2, <2>1, <2>2, <2>4
    <3> QED BY <2>1, <2>2, <3>1 DEF Request
  <2>6. AbsReq = WithLen(req, LeftOf(p, n, h)) /\ AbsReq' = WithLen(req', LeftOf(p, k, h))
    BY <1>1, <2>1, <2>2, <2>5, SeenNow, SeenThen DEF Seen
  <2>7. AbsReq' = AbsReq
    BY <2>1, <2>2, <2>4, <2>5, <2>6 DEF WithLen
  <2> QED BY <1>3, <2>7
<1>12. CASE OptimizeDone
  <2>1. pc = "optimize" /\ Return("ok") /\ req.op = "keep"
    BY <1>12 DEF OptimizeDone, Good, Served
  <2>2. AbsReq.op = "keep"
    BY <1>1, <2>1, SeenNow DEF Seen
  <2>3. Abs!Keep
    BY <1>3, <1>4, <2>1, <2>2 DEF Abs!Keep
  <2> QED BY <2>3 DEF Abs!Next
<1>13. ~ (InsertAllocFails \/ InsertGrowFails \/ EraseFails \/ OptimizeFails)
  BY DEF InsertAllocFails, InsertGrowFails, EraseFails, OptimizeFails
<1> QED BY <1>6, <1>7, <1>8, <1>9, <1>10, <1>11, <1>12, <1>13 DEF Still, Optimize

(* An edit edits the abstract text, all at once or a part of an erase.      *)
LEMMA EditImplements ==
  ASSUME ~AllocMayFail, TypeOK, NEW r, NEW w, Good(r, w), Edits
  PROVE  Abs!Next \/ UNCHANGED <<AbsText, AbsReq>>
<1>1. /\ Whole /\ Whole' /\ TypeOK'
      /\ req.op = "insert" => Text' = StringInsert(Text, req.pos, req.str)
      /\ req.op = "erase" => Text' = StringErase(Text, req.pos, DelLen)
  BY EditKeeps
<1>2. /\ Text \in Seq(Char) /\ Len(Text) \in Nat /\ total_size = Len(Text)
      /\ req.pos \in Nat /\ req.len \in Nat
      /\ pc # "idle" => req \in Request
      /\ Text = w[head]
  BY <1>1, WholeText, Shape
<1>3. AbsText = Text /\ AbsText' = Text'
  BY <1>1, SeenNow, SeenThen DEF Seen
<1>4. pc = "found" /\ req \in Request
  BY <1>2 DEF Edits, InsertFirst, InsertFits, InsertSplits, InsertSplitFails,
              EraseShrinks, EraseRemoves, Found
<1>5. CASE InsertFirst \/ InsertFits \/ InsertSplits
  <2>1. req.op = "insert" /\ req' = NoRequest
    BY <1>5 DEF InsertFirst, InsertFits, InsertSplits, Found, Return
  <2>2. req.pos <= Len(Text)
    BY <1>2, <1>4, <2>1 DEF Good, Served
  <2>3. AbsReq = req /\ AbsReq' = Abs!NoRequest
    BY <1>1, <2>1, SeenNow, SeenThen DEF Seen, NoRequest, Abs!NoRequest
  <2>4. Abs!Insert
    BY <1>1, <1>3, <2>1, <2>2, <2>3 DEF Abs!Insert, Abs!StringInsert, StringInsert
  <2> QED BY <2>4 DEF Abs!Next
<1>6. CASE EraseShrinks \/ EraseRemoves
  <2>1. /\ Found("erase") /\ x # Nil /\ req.op = "erase"
        /\ req' = [req EXCEPT !.len = req.len - DelLen]
    BY <1>6 DEF EraseShrinks, EraseRemoves, EraseAgain, Found
  <2>2. PICK e, z : ErasedAs(r, w, e, z)
    BY <2>1, ErasedIs
  <2>3. PICK p \in Nat, n \in Nat, h \in Nat, k \in Nat :
          p = req.pos /\ n = req.len /\ h = Len(Text) /\ k = DelLen
    BY <1>2, <2>2 DEF ErasedAs
  <2>4. /\ k <= n /\ p + k <= h /\ Text' = StringErase(Text, p, k)
        /\ Len(Text') = h - k
    BY <1>1, <1>2, <2>1, <2>2, <2>3 DEF ErasedAs
  <2>5. n - k \in Nat /\ h - k \in Nat /\ p <= h
    BY <2>4
  <2>6. /\ req' \in Request /\ req'.op = "erase" /\ req'.pos = p /\ req'.str = req.str
        /\ req'.len = n - k
    <3>1. req' = [req EXCEPT !.len = n - k]
      BY <2>1, <2>3
    <3> QED BY <1>4, <2>1, <2>3, <2>5, <3>1 DEF Request
  <2>7. /\ k <= LeftOf(p, n, h)
        /\ LeftOf(p, n - k, h - k) = LeftOf(p, n, h) - k
    <3>1. k <= n /\ p + k <= h
      BY <2>4
    <3> QED BY <3>1, LeftAfterPart
  <2>8. /\ AbsReq = WithLen(req, LeftOf(p, n, h))
        /\ AbsReq' = WithLen(req', LeftOf(p, n, h) - k)
    BY <1>1, <1>4, <2>1, <2>3, <2>4, <2>6, <2>7, SeenNow, SeenThen DEF Seen
  <2>9. CASE k = 0
    <3>1. Text' = Text
      BY <1>2, <2>3, <2>4, <2>5, <2>9, NothingErased
    <3>2. LeftOf(p, n, h) - k = LeftOf(p, n, h)
      BY <2>9, LeftFacts
    <3>3. AbsReq' = AbsReq
      BY <2>1, <2>3, <2>6, <2>8, <3>2 DEF WithLen
    <3> QED BY <1>3, <3>1, <3>3
  <2>10. CASE k # 0
    <3>1. k \in 1 .. Len(AbsText)
      BY <1>3, <2>3, <2>4, <2>10
    <3>2. /\ AbsReq.op = "erase" /\ AbsReq.pos = p /\ AbsReq.len = LeftOf(p, n, h)
          /\ p <= Len(AbsText) /\ k <= AbsReq.len
      BY <1>3, <2>1, <2>3, <2>5, <2>7, <2>8 DEF WithLen
    <3>3. AbsText' = Abs!StringErase(AbsText, AbsReq.pos, k)
      BY <1>3, <2>4, <3>2 DEF StringErase, Abs!StringErase
    <3>4. AbsReq' = [AbsReq EXCEPT !.len = AbsReq.len - k]
      <4>1. PICK l : l = LeftOf(p, n, h) - k
        OBVIOUS
      <4>2. AbsReq' = WithLen(req', l) /\ AbsReq.len - k = l
        BY <2>8, <3>2, <4>1
      <4>3. [AbsReq EXCEPT !.len = l] = WithLen(req, l)
        BY <2>8 DEF WithLen
      <4>4. WithLen(req', l) = WithLen(req, l)
        BY <2>1, <2>3, <2>6 DEF WithLen
      <4> QED BY <4>2, <4>3, <4>4
    <3>5. Abs!EraseSome
      BY <3>1, <3>2, <3>3, <3>4 DEF Abs!EraseSome
    <3> QED BY <3>5 DEF Abs!Next
  <2> QED BY <2>9, <2>10
<1>7. ~ InsertSplitFails
  BY DEF InsertSplitFails
<1> QED BY <1>5, <1>6, <1>7 DEF Edits

(* clear() takes effect at once, and its walk is not seen.                  *)
LEMMA ClearImplements ==
  ASSUME ~AllocMayFail, TypeOK, NEW r, NEW w, Good(r, w), Clear
  PROVE  Abs!Next \/ UNCHANGED <<AbsText, AbsReq>>
<1>1. CASE ClearStart
  <2>1. Whole /\ ~Whole' /\ req.op = "clear"
    BY <1>1 DEF ClearStart, WalkStart, Whole
  <2>2. AbsReq = req /\ AbsReq' = Abs!NoRequest /\ AbsText' = << >>
    BY <2>1, SeenNow, SeenThen DEF Seen, NoRequest, Abs!NoRequest
  <2>3. Abs!Clear
    BY <2>1, <2>2 DEF Abs!Clear
  <2> QED BY <2>3 DEF Abs!Next
<1>2. CASE ClearNode
  <2>1. ~Whole /\ ~Whole'
    BY <1>2 DEF ClearNode, Whole
  <2> QED BY <2>1, SeenNow, SeenThen DEF Seen, NoRequest
<1>3. CASE ClearDone
  <2>1. ~Whole /\ Whole' /\ req' = NoRequest /\ total_size' = 0
    BY <1>3 DEF ClearDone, Return, Whole
  <2>2. TypeOK' /\ \E w2 : Good(r, w2)'
    BY <1>3, ClearDoneKeeps
  <2>3. PICK w2 : Good(r, w2)'
    BY <2>2
  <2>4. Text' = w2[head]
    BY <2>1, <2>2, <2>3, MatchedNext
  <2>5. w2 \in [Cell -> Seq(Char)] /\ total_size' = Len(w2[head])
    BY <2>1, <2>3 DEF Good, Held, Sized, Texts
  <2>6. w2[head] = << >>
    <3>1. w2[head] \in Seq(Char) /\ Len(w2[head]) = 0
      BY <2>1, <2>5 DEF Cell
    <3> QED BY <3>1
  <2>7. AbsText' = << >> /\ AbsReq' = NoRequest
    BY <2>1, <2>4, <2>6, SeenThen DEF Seen, NoRequest
  <2> QED BY <2>1, <2>7, SeenNow DEF Seen
<1> QED BY <1>1, <1>2, <1>3 DEF Clear

(* The empty list is the empty text.                                        *)
LEMMA InitImplements ==
  ASSUME Init
  PROVE  Abs!Init
<1>1. TypeOK /\ \E r, w : Good(r, w)
  BY InitGood DEF IInv
<1>2. PICK r, w : Good(r, w)
  BY <1>1
<1>3. Whole /\ req = NoRequest /\ next[head][0] = Nil
  BY BiModalAssumption DEF Init, Whole, Cell, Levels
<1>4. Text = w[head] /\ w[head] = << >>
  <2>1. Texts(w) /\ Text = w[head]
    BY <1>1, <1>2, <1>3, Shape DEF Good, Held
  <2> QED BY <1>3, <2>1 DEF Texts, Cell
<1> QED BY <1>3, <1>4, SeenNow DEF Seen, NoRequest, Abs!Init, Abs!NoRequest

(* A step that changes nothing is not seen by the abstract text.            *)
LEMMA StutterUnseen ==
  ASSUME TypeOK, NEW r, NEW w, Good(r, w), UNCHANGED vars
  PROVE  UNCHANGED <<AbsText, AbsReq>>
<1>1. TypeOK' /\ Good(r, w)' /\ Whole' = Whole /\ req' = req
  BY StutterGood DEF vars, Whole
<1>2. CASE ~Whole
  BY <1>1, <1>2, SeenNow, SeenThen DEF Seen, NoRequest
<1>3. CASE Whole
  <2>1. Text' = Text
    BY <1>1, <1>3, Shape, MatchedNext
  <2>2. CASE req \in Request
    BY <1>1, <1>3, <2>1, <2>2, Unseen
  <2>3. CASE req = NoRequest
    BY <1>1, <1>3, <2>1, <2>3, SeenNow, SeenThen DEF Seen, NoRequest
  <2> QED BY <2>2, <2>3 DEF TypeOK
<1> QED BY <1>2, <1>3

(* Every step is one of the abstract text or is not seen.                   *)
LEMMA StepImplements ==
  ASSUME ~AllocMayFail, TypeOK, NEW r, NEW w, Good(r, w), Next
  PROVE  Abs!Next \/ UNCHANGED <<AbsText, AbsReq>>
<1>1. ~ InsertFirstLost
  BY DEF InsertFirstLost
<1> QED BY <1>1, StepKinds, StillImplements, EditImplements, ClearImplements

-----------------------------------------------------------------------------
(***************************************************************************)
(* Texts without empty nodes, when no empty string is inserted.            *)
(***************************************************************************)
(* Every node holds text, and so does every string inserted.                *)
Filled == /\ req.op = "insert" => req.str # << >>
          /\ \A n \in Node : level[n] > 0 => data[n] # << >>

(* An edit leaves text in the nodes it leaves linked.                       *)
LEMMA EditsFill ==
  ASSUME ~AllocMayFail, TypeOK, NEW r, NEW w, Good(r, w), Filled, Edits,
         NEW n \in Node, level'[n] > 0
  PROVE  data'[n] # << >>
<1>1. /\ data \in [Node -> Seq(Char)] /\ level \in [Cell -> 0 .. MaxLevel]
      /\ level[n] > 0 => data[n] # << >>
      /\ pc = "found" /\ Served(w) /\ n \in Cell
  BY DEF TypeOK, Filled, Good, Edits, InsertFirst, InsertFits, InsertSplits, InsertSplitFails,
         EraseShrinks, EraseRemoves, Found, Cell
<1>2. CASE InsertFirst
  <2>1. PICK v \in Free, k \in 1 .. MaxLevel :
          level' = [level EXCEPT ![v] = k] /\ data' = [data EXCEPT ![v] = req.str]
    BY <1>2 DEF InsertFirst
  <2>2. req.op = "insert"
    BY <1>2 DEF InsertFirst, Found
  <2>3. CASE n = v
    BY <1>1, <2>1, <2>2, <2>3 DEF Filled
  <2>4. CASE n # v
    BY <1>1, <2>1, <2>4
  <2> QED BY <2>3, <2>4
<1>3. ASSUME Found("insert"), x # Nil
      PROVE  /\ x \in Node /\ Edited \in Seq(Char) /\ Len(Edited) \in Nat /\ Len(Edited) > 0
             /\ SubSeq(Edited, 1, Len(Edited) \div 2) \in Seq(Char)
  <2>1. PICK e, z : InsertedAs(r, w, e, z)
    BY <1>3, InsertedIs
  <2>2. e = Edited /\ e \in Seq(Char) /\ Len(e) = Size(x) + Len(req.str)
    BY <2>1 DEF InsertedAs
  <2>3. x \in Node /\ Ordered(r) /\ req.op = "insert" /\ req.str \in Inputs /\ req.str # << >>
    BY <1>1, <1>3, TargetIs DEF Found, Good, Served, Filled
  <2>4. Size(x) \in Nat /\ req.str \in Seq(Char)
    BY <1>1, <2>3, BiModalAssumption DEF Size
  <2>5. Len(req.str) > 0 /\ Len(req.str) \in Nat
    BY <2>3, <2>4
  <2> QED BY <2>2, <2>3, <2>4, <2>5
<1>4. CASE InsertFits
  <2>1. /\ Found("insert") /\ x # Nil /\ level' = level
        /\ data' = [data EXCEPT ![x] = Edited]
    BY <1>4 DEF InsertFits
  <2>2. x \in Node /\ Edited # << >>
    BY <1>3, <2>1
  <2> QED BY <1>1, <2>1, <2>2
<1>5. CASE InsertSplits
  <2>1. Found("insert") /\ x # Nil /\ Len(Edited) > NodeMax
    BY <1>5 DEF InsertSplits, TooLong
  <2>2. PICK e : e = Edited
    OBVIOUS
  <2>3. PICK h : h = Len(e) \div 2
    OBVIOUS
  <2>4. PICK v \in Free, k \in 1 .. MaxLevel :
          /\ level' = [level EXCEPT ![v] = SplitLevel(x, k)]
          /\ data' = [data EXCEPT ![x] = SubSeq(e, 1, h), ![v] = SubSeq(e, h + 1, Len(e))]
    BY <1>5, <2>2, <2>3 DEF InsertSplits
  <2>5. x \in Node /\ e \in Seq(Char) /\ Len(e) \in Nat /\ Len(e) > 1
    BY <1>3, <2>1, <2>2, BiModalAssumption
  <2>6. h \in Nat /\ h > 0 /\ h < Len(e)
    <3>1. PICK l \in Nat : l = Len(e) /\ l > 1
      BY <2>5
    <3>2. l \div 2 \in Nat /\ l \div 2 > 0 /\ l \div 2 < l
      BY <3>1
    <3> QED BY <2>3, <3>1, <3>2
  <2>7. SubSeq(e, 1, h) # << >> /\ SubSeq(e, h + 1, Len(e)) # << >>
    <3>1. /\ Len(SubSeq(e, 1, h)) = h
          /\ Len(SubSeq(e, h + 1, Len(e))) = Len(e) - h
      BY <2>5, <2>6, Seqs!SeqParts
    <3>2. Len(SubSeq(e, 1, h)) # 0 /\ Len(SubSeq(e, h + 1, Len(e))) # 0
      BY <2>5, <2>6, <3>1
    <3>3. \A u : u = << >> => Len(u) = 0
      OBVIOUS
    <3> QED BY <3>2, <3>3, Zenon
  <2>8. CASE n = x \/ n = v
    <3>1. data'[n] = SubSeq(e, 1, h) \/ data'[n] = SubSeq(e, h + 1, Len(e))
      BY <1>1, <2>4, <2>8 DEF Free
    <3> QED BY <2>7, <3>1
  <2>9. CASE n # x /\ n # v
    BY <1>1, <2>4, <2>9
  <2> QED BY <2>8, <2>9
<1>6. CASE EraseShrinks
  <2>1. /\ Found("erase") /\ x # Nil /\ level' = level /\ Size(x) # DelLen
        /\ data' = [data EXCEPT ![x] = StringErase(data[x], Offset, DelLen)]
    BY <1>6 DEF EraseShrinks, Empties
  <2>2. PICK e, z : ErasedAs(r, w, e, z)
    BY <2>1, ErasedIs
  <2>3. CASE n = x
    <3>1. data'[n] = e /\ Len(e) = Size(n) - DelLen /\ DelLen \in Nat /\ Size(n) \in Nat
      BY <1>1, <2>1, <2>2, <2>3 DEF ErasedAs, Size
    <3>2. PICK i \in Nat, j \in Nat : i = Size(n) /\ j = DelLen /\ i # j
      BY <2>1, <2>3, <3>1
    <3>3. Len(e) # 0
      BY <3>1, <3>2
    <3> QED BY <3>1, <3>3
  <2>4. CASE n # x
    BY <1>1, <2>1, <2>4
  <2> QED BY <2>3, <2>4
<1>7. CASE EraseRemoves
  <2>1. level' = [level EXCEPT ![x] = 0] /\ data' = [data EXCEPT ![x] = << >>]
    BY <1>7 DEF EraseRemoves
  <2>2. n # x
    BY <1>1, <2>1
  <2> QED BY <1>1, <2>1, <2>2
<1>8. ~ InsertSplitFails
  BY DEF InsertSplitFails
<1> QED BY <1>2, <1>4, <1>5, <1>6, <1>7, <1>8 DEF Edits

(* Nodes stay filled while no allocation fails.                             *)
LEMMA StepFills ==
  ASSUME ~AllocMayFail, TypeOK, NEW r, NEW w, Good(r, w), Filled, Next,
         req'.op = "insert" => req'.str # << >>
  PROVE  Filled'
<1>1. ~ InsertFirstLost
  BY DEF InsertFirstLost
<1>2. CASE Still
  BY <1>2, StillKeeps DEF Filled
<1>3. CASE Edits
  BY <1>3, EditsFill DEF Filled
<1>4. CASE Clear
  <2>1. CASE ClearNode
    BY <2>1 DEF ClearNode, Filled, TypeOK, Cell
  <2>2. CASE ClearStart \/ ClearDone
    BY <2>2 DEF ClearStart, ClearDone, WalkStart, Filled, heap
  <2> QED BY <1>4, <2>1, <2>2 DEF Clear
<1> QED BY <1>1, <1>2, <1>3, <1>4, StepKinds

(* A step serves the request it finds, or answers it.                       *)
LEMMA StepRequest ==
  ASSUME ~AllocMayFail, TypeOK, NEW r, NEW w, Good(r, w), Step
  PROVE  /\ req'.op = "insert" => req.op = "insert" /\ req'.str = req.str
         /\ pc # "idle"
         /\ outcome' = outcome \/ outcome' = "ok" \/ InsertRejected
<1> DEFINE Keeps == /\ req'.op = "insert" => req.op = "insert" /\ req'.str = req.str
                    /\ pc # "idle"
                    /\ outcome' = outcome \/ outcome' = "ok"
<1>2. ASSUME Return("ok"), pc # "idle" PROVE Keeps
  BY <1>2 DEF Return, NoRequest
<1>3. ASSUME req' = req, outcome' = outcome, pc # "idle" PROVE Keeps
  BY <1>3
<1>4. CASE Find
  BY <1>3, <1>4 DEF Find, FindAdvance, FindDescend, FindSkip
<1>5. CASE Insert
  <2>1. CASE InsertSearch
    BY <1>3, <2>1 DEF InsertSearch
  <2>2. CASE InsertFirst \/ InsertFits \/ InsertSplits
    BY <1>2, <2>2 DEF InsertFirst, InsertFits, InsertSplits, Found
  <2>3. CASE InsertRejected
    BY <2>3 DEF InsertRejected, Return, NoRequest
  <2>4. ~ (InsertAllocFails \/ InsertFirstLost \/ InsertGrowFails \/ InsertSplitFails)
    BY DEF InsertAllocFails, InsertFirstLost, InsertGrowFails, InsertSplitFails
  <2> QED BY <1>5, <2>1, <2>2, <2>3, <2>4 DEF Insert
<1>6. CASE Erase
  <2>1. CASE EraseIgnored \/ EraseDone
    BY <1>2, <2>1 DEF EraseIgnored, EraseDone
  <2>2. CASE EraseSearch
    BY <1>3, <2>2 DEF EraseSearch
  <2>3. CASE EraseClamp \/ EraseShrinks \/ EraseRemoves
    <3>1. /\ pc # "idle" /\ req.op = "erase" /\ outcome' = outcome
          /\ \E k : req' = [req EXCEPT !.len = k]
      BY <2>3 DEF EraseClamp, EraseShrinks, EraseRemoves, EraseAgain, Found
    <3>2. req \in Request
      BY <3>1 DEF TypeOK
    <3> QED BY <3>1, <3>2 DEF Request
  <2>4. ~ EraseFails
    BY DEF EraseFails
  <2> QED BY <1>6, <2>1, <2>2, <2>3, <2>4 DEF Erase
<1>7. CASE Optimize
  <2>1. CASE OptimizeStart \/ OptimizeNode
    BY <1>3, <2>1 DEF OptimizeStart, WalkStart, OptimizeNode
  <2>2. CASE OptimizeDone
    BY <1>2, <2>2 DEF OptimizeDone
  <2>3. ~ OptimizeFails
    BY DEF OptimizeFails
  <2> QED BY <1>7, <2>1, <2>2, <2>3 DEF Optimize
<1>8. CASE Clear
  BY <1>2, <1>3, <1>8 DEF Clear, ClearStart, WalkStart, ClearNode, ClearDone
<1> QED BY <1>4, <1>5, <1>6, <1>7, <1>8 DEF Step

-----------------------------------------------------------------------------
(***************************************************************************)
(* What the text becomes when a request has been served.                   *)
(***************************************************************************)
(* Erasing in two parts.                                                    *)
LEMMA EraseTwice ==
  ASSUME NEW t \in Seq(Char), NEW p \in Nat, NEW k \in Nat, NEW m \in Nat, p + k + m <= Len(t)
  PROVE  /\ Len(StringErase(t, p, k)) = Len(t) - k
         /\ StringErase(StringErase(t, p, k), p, m) = StringErase(t, p, k + m)
<1>1. PICK h \in Nat : h = Len(t)
  OBVIOUS
<1>2. p \in 0 .. h /\ p + k \in 0 .. h /\ h - (p + k) \in Nat /\ m <= h - (p + k)
  BY <1>1
<1>3. PICK a \in Seq(Char) : a = SubSeq(t, 1, p) /\ Len(a) = p
  <2>1. p \in 0 .. Len(t)
    BY <1>1, <1>2
  <2>2. SubSeq(t, 1, p) \in Seq(Char) /\ Len(SubSeq(t, 1, p)) = p
    BY <2>1, Seqs!SeqParts
  <2> QED BY <2>2
<1>4. PICK j \in 0 .. Len(t) : j = p + k
  BY <1>1, <1>2
<1>5. PICK b \in Seq(Char), c \in Seq(Char) :
        /\ b = SubSeq(t, p + k + 1, h) /\ Len(b) = h - (p + k)
        /\ c = SubSeq(t, 1, p + k) /\ Len(c) = p + k
        /\ t = c \o b
  <2>1. /\ SubSeq(t, 1, j) \in Seq(Char) /\ Len(SubSeq(t, 1, j)) = j
        /\ SubSeq(t, j + 1, Len(t)) \in Seq(Char)
        /\ Len(SubSeq(t, j + 1, Len(t))) = Len(t) - j
        /\ t = SubSeq(t, 1, j) \o SubSeq(t, j + 1, Len(t))
    BY Seqs!SeqParts
  <2>2. PICK b \in Seq(Char), c \in Seq(Char) :
          /\ b = SubSeq(t, j + 1, Len(t)) /\ Len(b) = Len(t) - j
          /\ c = SubSeq(t, 1, j) /\ Len(c) = j /\ t = c \o b
    BY <2>1, Zenon
  <2> QED BY <1>1, <1>4, <2>2
<1>6. StringErase(t, p, k) = a \o b /\ Len(a \o b) = h - k
  <2>1. Len(a \o b) = p + (h - (p + k))
    BY <1>3, <1>5
  <2>2. p + (h - (p + k)) = h - k
    BY <1>1
  <2> QED BY <1>1, <1>3, <1>5, <2>1, <2>2 DEF StringErase
<1>7. SubSeq(a \o b, 1, p) = a
  <2>1. SubSeq(a, 1, p) = a /\ p \in 0 .. Len(a)
    BY <1>3, Seqs!ReadFromStart
  <2> QED BY <2>1, Seqs!PrefixLeft
<1>8. m + 1 \in 1 .. Len(b) + 1
  BY <1>2, <1>5
<1>9. SubSeq(a \o b, p + m + 1, Len(a \o b)) = SubSeq(b, m + 1, Len(b))
  <2>1. SubSeq(a \o b, Len(a) + (m + 1), Len(a \o b)) = SubSeq(b, m + 1, Len(b))
    BY <1>8, Seqs!SuffixRight
  <2>2. Len(a) + (m + 1) = p + m + 1
    BY <1>3
  <2> QED BY <2>1, <2>2
<1>10. SubSeq(t, p + (k + m) + 1, Len(t)) = SubSeq(b, m + 1, Len(b))
  <2>1. SubSeq(c \o b, Len(c) + (m + 1), Len(c \o b)) = SubSeq(b, m + 1, Len(b))
    BY <1>8, Seqs!SuffixRight
  <2>2. Len(c) + (m + 1) = p + (k + m) + 1
    BY <1>5
  <2> QED BY <1>5, <2>1, <2>2
<1> QED BY <1>1, <1>3, <1>6, <1>7, <1>9, <1>10 DEF StringErase

(* What will be of a text when a request has been served.                   *)
Completed(t, q) ==
  CASE q.op = "insert" -> StringInsert(t, q.pos, q.str)
    [] q.op = "erase"  -> StringErase(t, q.pos, q.len)
    [] q.op = "clear"  -> << >>
    [] OTHER           -> t

(* A request that stays inside a text.                                      *)
InBounds(t, q) == /\ q.op = "insert" => q.pos <= Len(t)
                  /\ q.op = "erase" => q.pos + q.len <= Len(t)

(* The text will be t when the request in hand has been served.             *)
Becomes(t) == /\ AbsText \in Seq(Char)
              /\ AbsReq \in Request \cup {NoRequest}
              /\ InBounds(AbsText, AbsReq)
              /\ Completed(AbsText, AbsReq) = t

(* While it is served, what the text will be does not change.               *)
LEMMA AbsBecomes ==
  ASSUME ~AllocMayFail, NEW t, Becomes(t), Abs!Next, ~Abs!Invoke
  PROVE  /\ Completed(AbsText', AbsReq') = t
         /\ InBounds(AbsText', AbsReq')
<1>1. PICK h \in Nat, p \in Nat, n \in Nat : h = Len(AbsText) /\ p = AbsReq.pos /\ n = AbsReq.len
  BY DEF Becomes, Request, NoRequest
<1>2. ASSUME AbsReq' = Abs!NoRequest, AbsText' = t
      PROVE  Completed(AbsText', AbsReq') = t /\ InBounds(AbsText', AbsReq')
  BY <1>2 DEF Completed, InBounds, Abs!NoRequest
<1>3. CASE Abs!Insert
  <2>1. AbsText' = t
    BY <1>3 DEF Abs!Insert, Abs!StringInsert, StringInsert, Becomes, Completed
  <2> QED BY <1>2, <1>3, <2>1 DEF Abs!Insert
<1>4. CASE Abs!Erase
  <2>1. AbsText' = t
    BY <1>4 DEF Abs!Erase, Abs!StringErase, StringErase, Becomes, Completed
  <2> QED BY <1>2, <1>4, <2>1 DEF Abs!Erase
<1>5. CASE Abs!Keep
  BY <1>2, <1>5 DEF Abs!Keep, Becomes, Completed
<1>6. CASE Abs!Clear
  BY <1>2, <1>6 DEF Abs!Clear, Becomes, Completed
<1>7. ~ (Abs!InsertBeyondEnd \/ Abs!EraseBeyondEnd \/ Abs!Fail)
  <2>1. AbsReq.op = "insert" => p <= h
    BY <1>1 DEF Becomes, InBounds
  <2>2. AbsReq.op = "erase" => p <= h
    <3>1. AbsReq.op = "erase" => p + n <= h
      BY <1>1 DEF Becomes, InBounds
    <3> QED BY <3>1
  <2> QED BY <1>1, <2>1, <2>2 DEF Abs!InsertBeyondEnd, Abs!EraseBeyondEnd, Abs!Fail
<1>8. CASE Abs!EraseSome
  <2>1. AbsReq.op = "erase" /\ AbsReq \in Request /\ p + n <= h
    BY <1>1, <1>8 DEF Abs!EraseSome, Becomes, InBounds, NoRequest
  <2>2. PICK k \in 1 .. h : /\ k <= n
                            /\ AbsText' = StringErase(AbsText, p, k)
                            /\ AbsReq' = [AbsReq EXCEPT !.len = n - k]
    BY <1>1, <1>8 DEF Abs!EraseSome, Abs!StringErase, StringErase
  <2>3. PICK m \in Nat : m = n - k
    BY <2>2
  <2>4. k \in Nat /\ k + m = n /\ p + k + m <= h
    BY <2>1, <2>2, <2>3
  <2>5. AbsReq'.op = "erase" /\ AbsReq'.pos = p /\ AbsReq'.len = m
    BY <1>1, <2>1, <2>2, <2>3 DEF Request
  <2>6. PICK u \in Seq(Char) : u = AbsText
    BY DEF Becomes
  <2>7. Len(StringErase(u, p, k)) = h - k /\ StringErase(StringErase(u, p, k), p, m) = StringErase(u, p, n)
    <3>1. p + k + m <= Len(u)
      BY <1>1, <2>4, <2>6
    <3>2. /\ Len(StringErase(u, p, k)) = Len(u) - k
          /\ StringErase(StringErase(u, p, k), p, m) = StringErase(u, p, k + m)
      BY <2>4, <3>1, EraseTwice
    <3> QED BY <1>1, <2>4, <2>6, <3>2
  <2>8. t = StringErase(u, p, n)
    BY <1>1, <2>1, <2>6 DEF Becomes, Completed
  <2>9. p + m <= h - k
    BY <2>4
  <2> QED BY <2>2, <2>5, <2>6, <2>7, <2>8, <2>9 DEF Completed, InBounds
<1> QED BY <1>3, <1>4, <1>5, <1>6, <1>7, <1>8 DEF Abs!Next

(* The types of what the abstract text sees.                                *)
LEMMA SeenTypes ==
  ASSUME ~AllocMayFail, TypeOK, NEW r, NEW w, Good(r, w)
  PROVE  AbsText \in Seq(Char) /\ AbsReq \in Request \cup {NoRequest}
<1>1. CASE ~Whole
  BY <1>1, SeenNow DEF Seen
<1>2. CASE Whole
  <2>1. /\ Text \in Seq(Char) /\ Len(Text) \in Nat /\ req.pos \in Nat /\ req.len \in Nat
    BY <1>2, WholeText
  <2>2. CASE req.op # "erase"
    BY <1>2, <2>1, <2>2, SeenNow DEF Seen, TypeOK
  <2>3. CASE req.op = "erase"
    <3>1. req \in Request
      BY <2>3 DEF TypeOK, NoRequest
    <3>2. LeftOf(req.pos, req.len, Len(Text)) \in Nat
      BY <2>1, LeftFacts
    <3> QED BY <1>2, <2>1, <2>3, <3>1, <3>2, SeenNow DEF Seen, WithLen, Request
  <2> QED BY <2>2, <2>3
<1> QED BY <1>1, <1>2

(* They have them after a step too.                                         *)
SeenTyped == TypeOK /\ (\E r, w : Good(r, w)) =>
               AbsText \in Seq(Char) /\ AbsReq \in Request \cup {NoRequest}

(* The types hold in the next state.                                        *)
LEMMA SeenTypesThen ==
  ASSUME ~AllocMayFail
  PROVE  SeenTyped'
<1>1. SeenTyped
  BY SeenTypes DEF SeenTyped
<1> QED BY <1>1, PTL

(* A step of the call being served invokes nothing.                         *)
LEMMA StepInvokesNothing ==
  ASSUME ~AllocMayFail, TypeOK, NEW r, NEW w, Good(r, w), Step
  PROVE  ~Abs!Invoke
<1>1. pc # "idle" /\ req # NoRequest
  BY StepRequest DEF TypeOK
<1>2. CASE Whole
  <2>1. req \in Request
    BY <1>1 DEF TypeOK
  <2>2. AbsReq.op # "none"
    BY <1>2, <2>1, SeenNow DEF Seen, Request, WithLen
  <2> QED BY <2>2 DEF Abs!Invoke, Abs!NoRequest
<1>3. CASE ~Whole
  <2>1. pc = "clear" /\ req.op = "clear"
    BY <1>3 DEF Whole, Good, Served
  <2>2. ClearNode \/ ClearDone
    BY <2>1 DEF Step, Find, FindAdvance, FindDescend, FindSkip, Insert, InsertRejected,
         InsertSearch, InsertFirst, InsertFits, InsertSplits, InsertAllocFails, InsertFirstLost,
         InsertGrowFails, InsertSplitFails, Erase, EraseIgnored, EraseClamp, EraseSearch,
         EraseDone, EraseShrinks, EraseRemoves, EraseFails, Optimize, OptimizeStart, WalkStart,
         OptimizeNode, OptimizeFails, OptimizeDone, Clear, ClearStart, Found
  <2>3. AbsReq'.op = "none"
    <3>1. CASE ClearNode
      <4>1. ~Whole'
        BY <2>1, <3>1 DEF ClearNode, Whole
      <4> QED BY <4>1, SeenThen DEF Seen, NoRequest
    <3>2. CASE ClearDone
      <4>1. Whole' /\ req' = NoRequest
        BY <3>2 DEF ClearDone, Return, Whole
      <4> QED BY <4>1, SeenThen DEF Seen, NoRequest
    <3> QED BY <2>2, <3>1, <3>2
  <2> QED BY <2>3 DEF Abs!Invoke, Abs!Request
<1> QED BY <1>2, <1>3

(* A step leads to the same text.                                           *)
LEMMA StepBecomes ==
  ASSUME ~AllocMayFail, TypeOK, NEW r, NEW w, Good(r, w), NEW t, Becomes(t), Step
  PROVE  Becomes(t)'
<1>1. Next
  BY DEF Next
<1>2. TypeOK' /\ \E r2, w2 : Good(r2, w2)'
  BY <1>1, StepGood
<1>3. AbsText' \in Seq(Char) /\ AbsReq' \in Request \cup {NoRequest}
  BY <1>2, SeenTypesThen DEF SeenTyped, Request, NoRequest
<1>4. Completed(AbsText', AbsReq') = t /\ InBounds(AbsText', AbsReq')
  <2>1. CASE Abs!Next
    BY <2>1, StepInvokesNothing, AbsBecomes
  <2>2. CASE UNCHANGED <<AbsText, AbsReq>>
    BY <2>2 DEF Becomes
  <2> QED BY <1>1, <2>1, <2>2, StepImplements
<1> QED BY <1>3, <1>4 DEF Becomes, InBounds, Completed

===============================================================================
