---- MODULE RopeProofs ----
(***************************************************************************)
(* Theorems about the rope, for every number of nodes and levels, every    *)
(* size of a node, alphabet of characters and set of inputs: the links and *)
(* skips are exact, the iterator stands where an edit has to write, and    *)
(* the rope is an abstract text.                                           *)
(***************************************************************************)
EXTENDS RopeLayout, FiniteSetTheorems, TLAPS

(* Sequences.                                                               *)
Seqs == INSTANCE TextLemmas WITH Char <- {}, Zero <- 0

(* t with s in the place of what lies between its positions p and q.        *)
Splice(t, p, s, q) == Seqs!Splice(t, p, s, q)

(* t is a and b one behind the other.                                       *)
Joined(t, a, b) == t = a \o b

(* The length of two strings put together.                                  *)
LEMMA JoinedLen ==
  ASSUME NEW t, NEW a \in Seq(Char), NEW b \in Seq(Char), Joined(t, a, b)
  PROVE  /\ t \in Seq(Char)
         /\ Len(t) \in Nat /\ Len(a) \in Nat /\ Len(b) \in Nat
         /\ Len(t) = Len(a) + Len(b)
BY DEF Joined

-----------------------------------------------------------------------------
(***************************************************************************)
(* Bytes.                                                                  *)
(***************************************************************************)
(* f[k] is the size of the first k characters of s.                         *)
Sums(s, n, f) == /\ f \in [0 .. n -> Nat] /\ f[0] = 0
                 /\ \A k \in 1 .. n : f[k] = f[k - 1] + Width[s[k]]

(* A character takes at least one byte.                                     *)
LEMMA WidthIs == \A c \in Char : Width[c] \in Nat /\ Width[c] <= NodeStrSize
BY RopeAssumption

(* The sizes exist, by induction on the number of characters.               *)
LEMMA SumsExist ==
  ASSUME NEW s \in Seq(Char)
  PROVE  \A n \in 0 .. Len(s) : \E f : Sums(s, n, f)
<1> DEFINE bad == {n \in 0 .. Len(s) : ~\E f : Sums(s, n, f)}
<1>1. ASSUME bad # {} PROVE FALSE
  <2>1. PICK n \in bad : \A j \in bad : n <= j
    <3>1. bad \subseteq Nat
      OBVIOUS
    <3> QED BY <1>1, <3>1, Seqs!LeastNat
  <2>2. n # 0
    <3>1. Sums(s, 0, [k \in 0 .. 0 |-> 0])
      BY DEF Sums
    <3> QED BY <3>1
  <2>3. n \in 1 .. Len(s) /\ n - 1 \in 0 .. Len(s) /\ n - 1 \notin bad
    <3>1. n \in 0 .. Len(s) /\ Len(s) \in Nat
      OBVIOUS
    <3>2. n \in 1 .. Len(s) /\ n - 1 \in 0 .. Len(s) /\ ~(n <= n - 1)
      BY <2>2, <3>1
    <3> HIDE DEF bad
    <3> QED BY <2>1, <3>2
  <2>4. PICK f : Sums(s, n - 1, f)
    BY <2>3
  <2> DEFINE last == f[n - 1] + Width[s[n]]
             g == [k \in 0 .. n |-> IF k = n THEN last ELSE f[k]]
  <2>5. last \in Nat
    <3>1. s[n] \in Char
      BY <2>3
    <3>2. f[n - 1] \in Nat
      BY <2>3, <2>4 DEF Sums
    <3> QED BY <3>1, <3>2, WidthIs
  <2>6. g[n] = f[n - 1] + Width[s[n]]
    BY <2>3
  <2> HIDE DEF last
  <2>7. g \in [0 .. n -> Nat] /\ g[0] = 0
    BY <2>3, <2>4, <2>5 DEF Sums
  <2>8. ASSUME NEW k \in 1 .. n PROVE g[k] = g[k - 1] + Width[s[k]]
    <3>1. CASE k = n
      <4>1. g[n - 1] = f[n - 1]
        BY <2>3
      <4> QED BY <2>6, <3>1, <4>1
    <3>2. CASE k # n
      <4>1. k \in 1 .. n - 1 /\ g[k] = f[k] /\ g[k - 1] = f[k - 1]
        BY <2>3, <3>2
      <4> QED BY <2>4, <4>1 DEF Sums
    <3> QED BY <3>1, <3>2
  <2>9. Sums(s, n, g)
    BY <2>7, <2>8 DEF Sums
  <2> QED BY <2>1, <2>9
<1> QED BY <1>1

(* The size of a string is the last of them.                                *)
LEMMA BytesIs ==
  ASSUME NEW s \in Seq(Char), NEW f, Sums(s, Len(s), f)
  PROVE  Bytes(s) = f[Len(s)]
<1> DEFINE body(h) == [k \in 0 .. Len(s) |-> IF k = 0 THEN 0 ELSE h[k - 1] + Width[s[k]]]
           g == CHOOSE h : h = body(h)
<1>1. f = body(f)
  BY DEF Sums
<1>2. g = body(g)
  BY <1>1
<1>3. Bytes(s) = g[Len(s)]
  BY DEF Bytes
<1> HIDE DEF g
<1> DEFINE bad == {k \in 0 .. Len(s) : g[k] # f[k]}
<1>4. ASSUME bad # {} PROVE FALSE
  <2>1. PICK k \in bad : \A j \in bad : k <= j
    <3>1. bad \subseteq Nat
      OBVIOUS
    <3> QED BY <1>4, <3>1, Seqs!LeastNat
  <2>2. g[k] = IF k = 0 THEN 0 ELSE g[k - 1] + Width[s[k]]
    BY <1>2
  <2>3. f[k] = IF k = 0 THEN 0 ELSE f[k - 1] + Width[s[k]]
    BY DEF Sums
  <2>4. k # 0 /\ g[k - 1] # f[k - 1]
    BY <2>2, <2>3
  <2>5. k - 1 \in bad
    BY <2>4
  <2> QED BY <2>1, <2>5
<1>5. Len(s) \in 0 .. Len(s)
  OBVIOUS
<1> QED BY <1>3, <1>4, <1>5

(* It is a natural number, zero for no character.                           *)
LEMMA BytesType == \A s \in Seq(Char) : Bytes(s) \in Nat
<1> TAKE s \in Seq(Char)
<1>1. PICK f : Sums(s, Len(s), f)
  BY SumsExist
<1> QED BY <1>1, BytesIs DEF Sums

(* The empty string has no bytes.                                           *)
LEMMA BytesNone == Bytes(<< >>) = 0
<1>1. << >> \in Seq(Char) /\ Len(<< >>) = 0 /\ Len(<< >>) \in 0 .. Len(<< >>)
  OBVIOUS
<1>2. PICK f : Sums(<< >>, Len(<< >>), f)
  BY <1>1, SumsExist
<1>3. f[0] = 0
  BY <1>2 DEF Sums
<1> QED BY <1>1, <1>2, <1>3, BytesIs

(* The size of one character.                                               *)
LEMMA BytesOne == \A s \in Seq(Char) : Len(s) = 1 => Bytes(s) = Width[s[1]]
<1> SUFFICES ASSUME NEW s \in Seq(Char), Len(s) = 1
             PROVE  Bytes(s) = Width[s[1]]
  OBVIOUS
<1>1. PICK f : Sums(s, Len(s), f)
  BY SumsExist
<1>2. Width[s[1]] \in Nat
  <2>1. s[1] \in Char
    OBVIOUS
  <2> QED BY <2>1, WidthIs
<1>3. f[1] = Width[s[1]]
  <2>1. Sums(s, 1, f)
    BY <1>1
  <2>2. f[0] = 0 /\ f[1] = f[1 - 1] + Width[s[1]] /\ 1 - 1 = 0
    BY <2>1 DEF Sums
  <2> QED BY <1>2, <2>2
<1> QED BY <1>1, <1>3, BytesIs

(* Sizes add up.                                                            *)
LEMMA BytesAdd ==
  ASSUME NEW a \in Seq(Char), NEW b \in Seq(Char)
  PROVE  Bytes(a \o b) = Bytes(a) + Bytes(b)
<1>1. PICK f : Sums(a, Len(a), f)
  BY SumsExist
<1>2. PICK g : Sums(b, Len(b), g)
  BY SumsExist
<1> DEFINE n == Len(a)
           m == Len(b)
           h == [k \in 0 .. n + m |-> IF k <= n THEN f[k] ELSE f[n] + g[k - n]]
<1>3. /\ a \o b \in Seq(Char) /\ Len(a \o b) = n + m /\ n \in Nat /\ m \in Nat
      /\ \A k \in 1 .. n : (a \o b)[k] = a[k]
      /\ \A k \in n + 1 .. n + m : (a \o b)[k] = b[k - n]
  OBVIOUS
<1> HIDE DEF n, m
<1>4. f \in [0 .. n -> Nat] /\ g \in [0 .. m -> Nat] /\ g[0] = 0 /\ f[0] = 0
  BY <1>1, <1>2 DEF Sums, n, m
<1> DEFINE nm == n + m
<1>5. /\ \A k \in 0 .. n : f[k] \in Nat
      /\ \A k \in 0 .. m : g[k] \in Nat
      /\ n \in 0 .. n /\ m \in 0 .. m /\ nm \in Nat
  BY <1>3, <1>4
<1>6. ASSUME NEW k \in 0 .. nm
      PROVE  /\ k <= n => h[k] = f[k] /\ f[k] \in Nat
             /\ k >= n => h[k] = f[n] + g[k - n] /\ g[k - n] \in Nat /\ f[n] \in Nat
             /\ h[k] \in Nat
  <2>1. h[k] = IF k <= n THEN f[k] ELSE f[n] + g[k - n]
    OBVIOUS
  <2> HIDE DEF h
  <2>2. k <= n => k \in 0 .. n
    BY <1>3
  <2>3. k >= n => k - n \in 0 .. m
    BY <1>3
  <2>4. k = n => g[k - n] = 0
    BY <1>3, <1>4
  <2>5. CASE k <= n
    BY <2>1, <2>2, <2>4, <2>5, <1>3, <1>4, <1>5
  <2>6. CASE k > n
    <3>1. ~(k <= n) /\ k >= n /\ h[k] = f[n] + g[k - n]
      BY <2>1, <2>6, <1>3
    <3>2. k - n \in 0 .. m
      BY <2>3, <3>1
    <3>3. g[k - n] \in Nat /\ f[n] \in Nat /\ f[n] + g[k - n] \in Nat
      BY <3>2, <1>5
    <3> QED BY <3>1, <3>3
  <2> QED BY <2>5, <2>6, <1>3
<1>7. h = [k \in 0 .. nm |-> h[k]] /\ h[0] = 0
  BY <1>3, <1>4
<1> HIDE DEF h
<1>8. h \in [0 .. nm -> Nat]
  BY <1>6, <1>7
<1> HIDE DEF nm
<1>9. ASSUME NEW k \in 1 .. nm PROVE h[k] = h[k - 1] + Width[(a \o b)[k]]
  <2>1. CASE k <= n
    <3>1. f[k] = f[k - 1] + Width[a[k]] /\ (a \o b)[k] = a[k]
      BY <2>1, <1>1, <1>3 DEF Sums, n
    <3>2. h[k] = f[k] /\ h[k - 1] = f[k - 1]
      BY <2>1, <1>3, <1>5, <1>6
    <3> QED BY <3>1, <3>2
  <2>2. CASE k > n
    <3>1. k \in n + 1 .. n + m /\ k - n \in 1 .. m
      BY <2>2, <1>3 DEF nm
    <3>2. g[k - n] = g[k - n - 1] + Width[b[k - n]]
      BY <3>1, <1>2 DEF Sums, m
    <3>3. h[k - 1] = f[n] + g[k - n - 1] /\ g[k - n - 1] \in Nat /\ f[n] \in Nat
      <4>1. k - 1 \in 0 .. nm /\ k - 1 >= n /\ k - 1 - n = k - n - 1
        BY <2>2, <1>3, <1>5
      <4> QED BY <4>1, <1>6
    <3>4. h[k] = f[n] + g[k - n]
      BY <2>2, <1>3, <1>5, <1>6
    <3>5. (a \o b)[k] = b[k - n]
      BY <3>1, <1>3
    <3>6. Width[b[k - n]] \in Nat
      <4>1. b[k - n] \in Char
        BY <3>1 DEF m
      <4> QED BY <4>1, WidthIs
    <3> QED BY <3>2, <3>3, <3>4, <3>5, <3>6
  <2>3. k <= n \/ k > n
    BY <1>3, <1>5
  <2> QED BY <2>1, <2>2, <2>3
<1>10. Sums(a \o b, Len(a \o b), h)
  BY <1>3, <1>7, <1>8, <1>9 DEF Sums, nm
<1>11. Bytes(a \o b) = h[nm]
  BY <1>3, <1>10, BytesIs DEF nm
<1>12. h[nm] = f[n] + g[m]
  <2>1. nm \in 0 .. nm /\ nm >= n /\ nm - n = m
    BY <1>3, <1>5 DEF nm
  <2> QED BY <2>1, <1>6
<1> QED BY <1>1, <1>2, <1>11, <1>12, BytesIs DEF n, m

(* The size of a string is that of its parts.                               *)
LEMMA BytesParts ==
  ASSUME NEW t \in Seq(Char), NEW k \in 0 .. Len(t)
  PROVE  /\ Bytes(t) = Bytes(SubSeq(t, 1, k)) + Bytes(SubSeq(t, k + 1, Len(t)))
         /\ Bytes(SubSeq(t, 1, k)) \in Nat /\ Bytes(SubSeq(t, k + 1, Len(t))) \in Nat
         /\ Bytes(t) \in Nat
<1>1. /\ SubSeq(t, 1, k) \in Seq(Char) /\ SubSeq(t, k + 1, Len(t)) \in Seq(Char)
      /\ t = SubSeq(t, 1, k) \o SubSeq(t, k + 1, Len(t))
  BY Seqs!SeqParts
<1>2. Bytes(SubSeq(t, 1, k) \o SubSeq(t, k + 1, Len(t)))
        = Bytes(SubSeq(t, 1, k)) + Bytes(SubSeq(t, k + 1, Len(t)))
  BY <1>1, BytesAdd
<1> QED BY <1>1, <1>2, BytesType

(* A part of a part.                                                        *)
LEMMA PartOfPart ==
  ASSUME NEW Sort, NEW t \in Seq(Sort), NEW p \in 0 .. Len(t), NEW q \in p + 1 .. Len(t) + 1
  PROVE  /\ SubSeq(t, p + 1, Len(t)) \in Seq(Sort)
         /\ Len(SubSeq(t, p + 1, Len(t))) = Len(t) - p
         /\ SubSeq(SubSeq(t, p + 1, Len(t)), 1, q - p - 1) = SubSeq(t, p + 1, q - 1)
         /\ SubSeq(SubSeq(t, p + 1, Len(t)), q - p, Len(t) - p) = SubSeq(t, q, Len(t))
<1>1. PICK n \in Nat : n = Len(t)
  OBVIOUS
<1>2. PICK y \in Seq(Sort) : y = SubSeq(t, p + 1, n)
  <2>1. SubSeq(t, p + 1, n) \in Seq(Sort)
    BY <1>1
  <2> QED BY <2>1, Zenon
<1>3. Len(y) = n - p /\ \A i \in 1 .. n - p : y[i] = t[p + i]
  BY <1>1, <1>2
<1>4. PICK k \in 0 .. n - p : k = q - p - 1
  <2>1. q - p - 1 \in 0 .. n - p
    BY <1>1
  <2> QED BY <2>1
<1>5. SubSeq(y, 1, k) = SubSeq(t, p + 1, q - 1)
  <2>1. \A i \in 1 .. k : y[i] = t[i + p]
    BY <1>1, <1>3
  <2>2. Len(y) = n - p /\ q - 1 = p + k /\ q - 1 <= n /\ k \in Nat /\ p \in Nat
    BY <1>1, <1>3, <1>4
  <2>3. SubSeq(y, 1, k) = [i \in 1 .. k |-> y[i]]
    BY <1>3
  <2>4. SubSeq(t, p + 1, p + k) = [i \in 1 .. k |-> t[i + p]]
    BY <1>1, <2>2
  <2> QED BY <2>1, <2>2, <2>3, <2>4
<1>6. SubSeq(y, q - p, n - p) = SubSeq(t, q, n)
  <2>1. PICK l \in Nat : l = n - p - k
    BY <1>1, <1>4
  <2>2. SubSeq(y, k + 1, k + l) = [i \in 1 .. l |-> y[i + k]]
    BY <1>3, <1>4, <2>1
  <2>3. SubSeq(t, (p + k) + 1, (p + k) + l) = [i \in 1 .. l |-> t[i + (p + k)]]
    BY <1>1, <1>4, <2>1
  <2>4. \A i \in 1 .. l : y[i + k] = t[i + (p + k)]
    <3>1. SUFFICES ASSUME NEW i \in 1 .. l PROVE y[i + k] = t[i + (p + k)]
      OBVIOUS
    <3>2. i + k \in 1 .. n - p /\ p + (i + k) = i + (p + k)
      BY <1>1, <1>4, <2>1
    <3> QED BY <1>3, <3>2
  <2>5. q - p = k + 1 /\ n - p = k + l /\ q = (p + k) + 1 /\ n = (p + k) + l
    BY <1>1, <1>4, <2>1
  <2> QED BY <2>2, <2>3, <2>4, <2>5
<1> QED BY <1>1, <1>2, <1>3, <1>4, <1>5, <1>6

(* What an edit leaves of the size.                                         *)
LEMMA BytesSplice ==
  ASSUME NEW t \in Seq(Char), NEW s \in Seq(Char),
         NEW p \in 0 .. Len(t), NEW q \in p + 1 .. Len(t) + 1
  PROVE  /\ Bytes(Splice(t, p, s, q)) = Bytes(t) - Bytes(SubSeq(t, p + 1, q - 1)) + Bytes(s)
         /\ Bytes(SubSeq(t, p + 1, q - 1)) <= Bytes(t)
         /\ Bytes(SubSeq(t, p + 1, q - 1)) \in Nat
<1> DEFINE f == SubSeq(t, 1, p)
           y == SubSeq(t, p + 1, Len(t))
           m == SubSeq(t, p + 1, q - 1)
           g == SubSeq(t, q, Len(t))
<1>1. Bytes(t) = Bytes(f) + Bytes(y) /\ Bytes(f) \in Nat /\ f \in Seq(Char)
  BY BytesParts, Seqs!SeqParts
<1>2. /\ y \in Seq(Char) /\ Len(y) = Len(t) - p
      /\ SubSeq(y, 1, q - p - 1) = m /\ SubSeq(y, q - p, Len(y)) = g
  BY PartOfPart
<1>3. q - p - 1 \in 0 .. Len(y) /\ (q - p - 1) + 1 = q - p
  <2>1. Len(t) \in Nat
    OBVIOUS
  <2> HIDE DEF y
  <2> QED BY <1>2, <2>1
<1> HIDE DEF y, f, m, g
<1>4. /\ Bytes(y) = Bytes(m) + Bytes(g) /\ Bytes(m) \in Nat /\ Bytes(g) \in Nat
      /\ g \in Seq(Char)
  BY <1>2, <1>3, BytesParts, Seqs!SeqParts
<1> DEFINE z == f \o s
<1>5. z \in Seq(Char) /\ Bytes(z) = Bytes(f) + Bytes(s)
  BY <1>1, BytesAdd
<1> HIDE DEF z
<1>6. Bytes(z \o g) = Bytes(z) + Bytes(g)
  BY <1>4, <1>5, BytesAdd
<1>7. Splice(t, p, s, q) = z \o g
  BY DEF Splice, Seqs!Splice, f, g, z
<1>8. PICK bf \in Nat, bm \in Nat, bg \in Nat, bs \in Nat :
         bf = Bytes(f) /\ bm = Bytes(m) /\ bg = Bytes(g) /\ bs = Bytes(s)
  <2>1. Bytes(s) \in Nat
    BY BytesType
  <2> QED BY <1>1, <1>4, <2>1, Zenon
<1>9. Bytes(t) = bf + (bm + bg) /\ Bytes(Splice(t, p, s, q)) = (bf + bs) + bg
  <2>1. Bytes(t) = Bytes(f) + (Bytes(m) + Bytes(g))
    BY <1>1, <1>4, Zenon
  <2>2. Bytes(Splice(t, p, s, q)) = (Bytes(f) + Bytes(s)) + Bytes(g)
    BY <1>5, <1>6, <1>7, Zenon
  <2> QED BY <1>8, <2>1, <2>2, Zenon
<1>10. PICK bt \in Nat, bw \in Nat : /\ bt = bf + (bm + bg) /\ bw = (bf + bs) + bg
                                     /\ bt = Bytes(t) /\ bw = Bytes(Splice(t, p, s, q))
  <2>1. bf + (bm + bg) \in Nat /\ (bf + bs) + bg \in Nat
    OBVIOUS
  <2> QED BY <1>9, <2>1, Zenon
<1>11. bw = bt - bm + bs /\ bm <= bt
  BY <1>10
<1>12. /\ Bytes(Splice(t, p, s, q)) = Bytes(t) - Bytes(m) + Bytes(s)
       /\ Bytes(m) <= Bytes(t)
  BY <1>8, <1>10, <1>11, Zenon
<1> QED BY <1>4, <1>12 DEF m

-----------------------------------------------------------------------------
(***************************************************************************)
(* Lists.                                                                  *)
(***************************************************************************)
(* A list without its skips.                                                *)
Laid(ht, nx, dt, r, w) ==
  /\ ht \in [Cell -> 0 .. MaxHeight] /\ ht[head] > 0
  /\ nx \in [Cell -> [Levels -> Pointer]]
  /\ dt \in [Cell -> Seq(Char)]
  /\ Ordered(ht, nx, r) /\ Texts(nx, dt, w)

(* The cells that are in the list.                                          *)
Live(ht) == {c \in Cell : ht[c] > 0}

(* The cells, the levels and the pointers.                                  *)
LEMMA CellsAre ==
  /\ head \in Cell /\ Nil \notin Cell /\ Node \subseteq Cell /\ head \notin Node /\ Nil \notin Node
  /\ \A c \in Cell : c \in Node \/ c = head
  /\ 0 \in Levels /\ 1 \in Levels /\ Levels \subseteq Nat
  /\ MaxHeight \in Nat /\ NodeStrSize \in Nat
  /\ \A p \in Pointer : p \in Node \/ p = Nil
BY RopeAssumption DEF Cell, Levels, Pointer

(* What the cells of a list hold.                                           *)
LEMMA LaidTypes ==
  ASSUME NEW ht, NEW nx, NEW dt, NEW r, NEW w, Laid(ht, nx, dt, r, w)
  PROVE  /\ \A c \in Cell : /\ ht[c] \in Nat /\ ht[c] <= MaxHeight /\ ht[c] <= ht[head]
                            /\ dt[c] \in Seq(Char) /\ Len(dt[c]) \in Nat
                            /\ w[c] \in Seq(Char) /\ Len(w[c]) \in Nat
                            /\ r[c] \in Nat
         /\ \A n \in Node : ht[n] < ht[head] /\ (ht[n] > 0 => r[n] < r[head])
         /\ \A c \in Cell, i \in Nat : i < ht[c] => i \in Levels /\ i < ht[head]
         /\ \A c \in Cell, i \in Levels : nx[c][i] \in Node \/ nx[c][i] = Nil
         /\ ht[head] > 0
<1>1. \A c \in Cell : /\ ht[c] \in Nat /\ ht[c] <= MaxHeight
                      /\ dt[c] \in Seq(Char) /\ w[c] \in Seq(Char) /\ r[c] \in Nat
  BY CellsAre DEF Laid, Ordered, Ranked, Texts
<1>2. \A c \in Cell : Len(dt[c]) \in Nat /\ Len(w[c]) \in Nat
  BY <1>1
<1>3. \A n \in Node : ht[n] < ht[head] /\ (ht[n] > 0 => r[n] < r[head])
  BY DEF Laid, Ordered, Ranked
<1>4. \A c \in Cell : ht[c] <= ht[head]
  BY <1>1, <1>3, CellsAre
<1>5. \A c \in Cell, i \in Nat : i < ht[c] => i \in Levels /\ i < ht[head]
  BY <1>1, <1>4, CellsAre DEF Levels
<1>6. \A c \in Cell, i \in Levels : nx[c][i] \in Pointer
  BY DEF Laid
<1> QED BY <1>1, <1>2, <1>3, <1>4, <1>5, <1>6, CellsAre DEF Laid

(* Two cells of the same rank are the same; the head has the highest.       *)
LEMMA Ranks ==
  ASSUME NEW ht, NEW nx, NEW dt, NEW r, NEW w, Laid(ht, nx, dt, r, w),
         NEW c \in Live(ht), NEW d \in Live(ht)
  PROVE  /\ r[c] = r[d] => c = d
         /\ r[c] < r[d] => c \in Node
         /\ r[c] <= r[head]
<1>1. c \in Cell /\ d \in Cell /\ ht[c] > 0 /\ ht[d] > 0
  BY DEF Live
<1>2. r[c] \in Nat /\ r[d] \in Nat /\ r[head] \in Nat
  BY <1>1, LaidTypes, CellsAre
<1>3. c \in Node => r[c] < r[head]
  BY <1>1, LaidTypes
<1>4. d \in Node => r[d] < r[head]
  BY <1>1, LaidTypes
<1>5. c \in Node /\ d \in Node /\ r[c] = r[d] => c = d
  BY <1>1 DEF Laid, Ordered, Ranked
<1> QED BY <1>1, <1>2, <1>3, <1>4, <1>5, CellsAre

(* Where a link leads.                                                      *)
LEMMA NextIs ==
  ASSUME NEW ht, NEW nx, NEW dt, NEW r, NEW w, Laid(ht, nx, dt, r, w),
         NEW c \in Cell, NEW i \in Levels, i < ht[c]
  PROVE  /\ nx[c][i] = Nil \/ /\ nx[c][i] \in Node /\ nx[c][i] \in Live(ht)
                              /\ i < ht[nx[c][i]] /\ r[nx[c][i]] < r[c]
         /\ \A n \in Node : i < ht[n] /\ r[n] < r[c] =>
              nx[c][i] # Nil /\ r[n] <= r[nx[c][i]]
<1>1. FirstBehind(ht, nx, r, c, i)
  BY DEF Laid, Ordered
<1>2. nx[c][i] # Nil => nx[c][i] \in Node /\ i < ht[nx[c][i]] /\ r[nx[c][i]] < r[c]
  BY <1>1 DEF FirstBehind
<1>3. nx[c][i] # Nil => nx[c][i] \in Live(ht)
  <2>1. i \in Nat
    BY CellsAre
  <2>2. nx[c][i] # Nil => nx[c][i] \in Cell /\ ht[nx[c][i]] \in Nat
    BY <1>2, CellsAre, LaidTypes
  <2> QED BY <1>2, <2>1, <2>2 DEF Live
<1> QED BY <1>1, <1>2, <1>3 DEF FirstBehind

(* A node that is behind c is the next one or behind it.                    *)
LEMMA NextIsFirst ==
  ASSUME NEW ht, NEW nx, NEW dt, NEW r, NEW w, Laid(ht, nx, dt, r, w),
         NEW c \in Live(ht), NEW d \in Live(ht), r[d] < r[c]
  PROVE  /\ nx[c][0] \in Node /\ nx[c][0] \in Live(ht) /\ r[nx[c][0]] < r[c]
         /\ nx[c][0] = d \/ r[d] < r[nx[c][0]]
         /\ Joined(w[c], dt[c], w[nx[c][0]])
<1>1. c \in Cell /\ d \in Cell /\ ht[c] > 0 /\ ht[d] > 0 /\ d \in Node
  BY Ranks DEF Live
<1> DEFINE m == nx[c][0]
<1>2. m # Nil /\ m \in Node /\ m \in Live(ht) /\ r[m] < r[c] /\ r[d] <= r[m]
  BY <1>1, NextIs, CellsAre
<1>3. r[d] \in Nat /\ r[m] \in Nat /\ (r[m] = r[d] => m = d)
  BY <1>1, <1>2, LaidTypes, Ranks, CellsAre
<1>4. w[c] = dt[c] \o w[m]
  BY <1>1, <1>2 DEF Laid, Texts, After
<1> HIDE DEF m
<1>5. m = d \/ r[d] < r[m]
  BY <1>2, <1>3
<1> QED BY <1>2, <1>4, <1>5 DEF m, Joined

(* The text from a cell on ends with that from any cell behind it.          *)
LEMMA Ends ==
  ASSUME NEW ht, NEW nx, NEW dt, NEW r, NEW w, Laid(ht, nx, dt, r, w),
         NEW d \in Live(ht)
  PROVE  \A c \in Live(ht) : r[d] <= r[c] => Seqs!EndsWith(Char, w[c], w[d])
<1> DEFINE bad == {c \in Live(ht) : r[d] <= r[c] /\ ~Seqs!EndsWith(Char, w[c], w[d])}
           ranks == {r[c] : c \in bad}
<1>1. \A c \in Live(ht) : c \in Cell /\ r[c] \in Nat /\ w[c] \in Seq(Char) /\ dt[c] \in Seq(Char)
  BY LaidTypes DEF Live
<1>2. ASSUME bad # {} PROVE FALSE
  <2>1. ranks \subseteq Nat /\ ranks # {}
    BY <1>1, <1>2
  <2>2. PICK k \in ranks : \A j \in ranks : k <= j
    BY <2>1, Seqs!LeastNat
  <2>3. PICK c \in bad : k = r[c]
    OBVIOUS
  <2>4. c \in Live(ht) /\ r[d] <= r[c] /\ ~Seqs!EndsWith(Char, w[c], w[d])
    OBVIOUS
  <2>5. c # d
    <3>1. << >> \in Seq(Char) /\ w[d] = << >> \o w[d]
      BY <1>1
    <3> QED BY <2>4, <3>1, Zenon DEF Seqs!EndsWith
  <2>6. r[d] < r[c]
    BY <1>1, <2>4, <2>5, Ranks
  <2>7. PICK m \in Live(ht) : /\ r[m] < r[c] /\ Joined(w[c], dt[c], w[m])
                              /\ m = d \/ r[d] < r[m]
    <3> HIDE DEF bad, ranks
    <3>1. /\ nx[c][0] \in Node /\ nx[c][0] \in Live(ht) /\ r[nx[c][0]] < r[c]
          /\ nx[c][0] = d \/ r[d] < r[nx[c][0]]
          /\ Joined(w[c], dt[c], w[nx[c][0]])
      BY <2>4, <2>6, NextIsFirst
    <3> QED BY <3>1
  <2>8. r[d] <= r[m]
    BY <1>1, <2>7
  <2>9. ~Seqs!EndsWith(Char, w[m], w[d])
    <3>1. ASSUME Seqs!EndsWith(Char, w[m], w[d]) PROVE FALSE
      <4>1. Seqs!EndsWith(Char, dt[c] \o w[m], w[d])
        BY <1>1, <2>4, <2>7, <3>1, Seqs!EndsLonger
      <4> QED BY <2>4, <2>7, <4>1 DEF Joined
    <3> QED BY <3>1
  <2>10. m \in bad
    BY <2>7, <2>8, <2>9
  <2>11. k <= r[m]
    BY <2>2, <2>10
  <2> QED BY <1>1, <2>3, <2>4, <2>7, <2>11
<1> QED BY <1>2

(* It reaches over every cell behind it.                                    *)
LEMMA Apart ==
  ASSUME NEW ht, NEW nx, NEW dt, NEW r, NEW w, Laid(ht, nx, dt, r, w),
         NEW c \in Live(ht), NEW d \in Live(ht)
  PROVE  /\ r[d] <= r[c] => Len(w[d]) <= Len(w[c])
         /\ r[d] < r[c] => Len(dt[c]) + Len(w[d]) <= Len(w[c])
         /\ Len(dt[c]) <= Len(w[c])
<1>1. \A b \in Live(ht) : /\ b \in Cell /\ r[b] \in Nat /\ w[b] \in Seq(Char)
                          /\ dt[b] \in Seq(Char) /\ Len(w[b]) \in Nat /\ Len(dt[b]) \in Nat
  BY LaidTypes DEF Live
<1>2. ASSUME NEW b \in Live(ht), r[d] <= r[b] PROVE Len(w[d]) <= Len(w[b])
  <2>1. PICK a \in Seq(Char) : w[b] = a \o w[d]
    BY <1>2, Ends DEF Seqs!EndsWith
  <2>2. Len(a \o w[d]) = Len(a) + Len(w[d]) /\ Len(a) \in Nat
    BY <1>1
  <2> QED BY <1>1, <2>1, <2>2
<1>3. ASSUME r[d] < r[c] PROVE Len(dt[c]) + Len(w[d]) <= Len(w[c])
  <2>1. PICK m \in Live(ht) : Joined(w[c], dt[c], w[m]) /\ (m = d \/ r[d] < r[m])
    <3>1. /\ nx[c][0] \in Node /\ nx[c][0] \in Live(ht) /\ r[nx[c][0]] < r[c]
          /\ nx[c][0] = d \/ r[d] < r[nx[c][0]]
          /\ Joined(w[c], dt[c], w[nx[c][0]])
      BY <1>3, NextIsFirst
    <3> QED BY <3>1
  <2>2. Len(w[d]) <= Len(w[m])
    BY <1>1, <1>2, <2>1
  <2>3. Len(w[c]) = Len(dt[c]) + Len(w[m])
    BY <1>1, <2>1, JoinedLen
  <2> QED BY <1>1, <2>1, <2>2, <2>3
<1>4. Len(dt[c]) <= Len(w[c])
  <2>1. c \in Cell /\ nx[c][0] \in Node \cup {Nil}
    BY <1>1, LaidTypes, CellsAre
  <2>2. After(w, nx[c][0]) \in Seq(Char)
    BY <2>1, LaidTypes, CellsAre DEF After
  <2>3. PICK y \in Seq(Char) : Joined(w[c], dt[c], y)
    BY <2>1, <2>2 DEF Laid, Texts, Joined
  <2>4. /\ Len(w[c]) = Len(dt[c]) + Len(y)
        /\ Len(y) \in Nat /\ Len(w[c]) \in Nat /\ Len(dt[c]) \in Nat
    BY <1>1, <2>3, JoinedLen, Zenon
  <2> QED BY <2>4
<1> QED BY <1>2, <1>3, <1>4

-----------------------------------------------------------------------------
(***************************************************************************)
(* What rope_write_cstr and a walk along level 0 find.                     *)
(***************************************************************************)
(* The text from c on is the one that fits.                                 *)
LEMMA TextFromIs ==
  ASSUME NEW r, NEW w, Laid(height, next, data, r, w)
  PROVE  \A c \in Live(height) : TextFrom[c] = w[c]
<1> DEFINE body(g) == [c \in Cell |-> data[c] \o (IF next[c][0] = Nil THEN << >>
                                                    ELSE g[next[c][0]])]
           g == TextFrom
           bad == {c \in Live(height) : g[c] # w[c]}
           ranks == {r[c] : c \in bad}
<1>1. w = body(w)
  BY Zenon DEF Laid, Texts, After
<1>2. TextFrom = CHOOSE h : h = body(h)
  BY DEF TextFrom
<1>3. g = body(g)
  BY <1>1, <1>2, Zenon
<1> HIDE DEF g
<1>4. ASSUME bad # {} PROVE FALSE
  <2>1. \A c \in Live(height) : c \in Cell /\ r[c] \in Nat
    BY LaidTypes DEF Live
  <2>2. ranks \subseteq Nat /\ ranks # {}
    BY <1>4, <2>1
  <2>3. PICK k \in ranks : \A j \in ranks : k <= j
    BY <2>2, Seqs!LeastNat, Zenon
  <2>4. PICK d \in bad : k = r[d]
    OBVIOUS
  <2>5. d \in Cell /\ d \in Live(height) /\ g[d] # w[d] /\ height[d] > 0
    BY <2>1, Zenon DEF Live
  <2>6. /\ w[d] = data[d] \o (IF next[d][0] = Nil THEN << >> ELSE w[next[d][0]])
        /\ g[d] = data[d] \o (IF next[d][0] = Nil THEN << >> ELSE g[next[d][0]])
    BY <1>1, <1>3, <2>5, Zenon
  <2>7. PICK m : m = next[d][0] /\ m # Nil /\ g[m] # w[m]
    BY <2>5, <2>6
  <2>8. m \in Live(height) /\ r[m] < r[d]
    BY <2>5, <2>7, NextIs, CellsAre
  <2>9. m \in bad
    BY <2>7, <2>8
  <2>10. k <= r[m]
    BY <2>3, <2>9
  <2> QED BY <2>1, <2>4, <2>5, <2>8, <2>10
<1> QED BY <1>4 DEF g

(* Behind a cell are the nodes of lower rank.                               *)
LEMMA BehindIs ==
  ASSUME NEW r, NEW w, Laid(height, next, data, r, w), Cleared(height, next, data)
  PROVE  \A c \in Live(height) : Behind[c] = {n \in Allocated : r[n] < r[c]}
<1> DEFINE body(g) == [c \in Cell |-> IF next[c][0] = Nil THEN {}
                                       ELSE {next[c][0]} \cup g[next[c][0]]]
           below(c) == {n \in Allocated : r[n] < r[c]}
           lower == [c \in Cell |-> IF c \in Live(height) THEN below(c) ELSE {}]
           g == Behind
           bad == {c \in Live(height) : g[c] # below(c)}
           ranks == {r[c] : c \in bad}
<1>1. /\ \A c \in Live(height) : c \in Cell /\ r[c] \in Nat /\ height[c] > 0
      /\ \A n \in Allocated : n \in Node /\ n \in Live(height)
  BY LaidTypes, CellsAre DEF Live, Allocated
<1>2. ASSUME NEW c \in Cell
      PROVE  lower[c] = IF next[c][0] = Nil THEN {} ELSE {next[c][0]} \cup lower[next[c][0]]
  <2>1. CASE c \notin Live(height)
    <3>1. c \in Node /\ height[c] = 0
      BY <2>1, LaidTypes, CellsAre DEF Live
    <3>2. next[c][0] = Nil
      BY <3>1 DEF Cleared
    <3> QED BY <2>1, <3>2
  <2>2. CASE c \in Live(height) /\ next[c][0] = Nil
    <3>1. \A n \in Allocated : ~(r[n] < r[c])
      BY <1>1, <2>2, NextIsFirst, CellsAre
    <3> QED BY <2>2, <3>1
  <2>3. CASE c \in Live(height) /\ next[c][0] # Nil
    <3>1. PICK m : m = next[c][0] /\ m \in Node /\ m \in Live(height) /\ r[m] < r[c]
      BY <1>1, <2>3, NextIs, CellsAre
    <3>2. m \in Allocated /\ m \in Cell
      BY <3>1, CellsAre DEF Live, Allocated
    <3>3. \A n \in Allocated : r[n] < r[c] => n = m \/ r[n] < r[m]
      BY <1>1, <2>3, <3>1, NextIsFirst
    <3>4. \A n \in Allocated : r[n] < r[m] => r[n] < r[c]
      BY <1>1, <2>3, <3>1
    <3>5. below(c) = {m} \cup below(m)
      BY <3>1, <3>2, <3>3, <3>4
    <3>6. lower[c] = below(c) /\ lower[m] = below(m)
      BY <2>3, <3>1, <3>2
    <3> QED BY <2>3, <3>1, <3>5, <3>6
  <2> QED BY <2>1, <2>2, <2>3
<1>3. lower = body(lower)
  <2>1. lower = [c \in Cell |-> lower[c]]
    OBVIOUS
  <2> HIDE DEF lower
  <2> QED BY <1>2, <2>1
<1>4. Behind = CHOOSE h : h = body(h)
  BY DEF Behind
<1>5. g = body(g)
  <2> HIDE DEF lower
  <2> QED BY <1>3, <1>4
<1> HIDE DEF g
<1>6. ASSUME bad # {} PROVE FALSE
  <2>1. ranks \subseteq Nat /\ ranks # {}
    BY <1>1, <1>6
  <2>2. PICK k \in ranks : \A j \in ranks : k <= j
    BY <2>1, Seqs!LeastNat
  <2>3. PICK d \in bad : k = r[d]
    OBVIOUS
  <2>4. d \in Cell /\ d \in Live(height) /\ g[d] # below(d) /\ height[d] > 0
    BY <1>1
  <2>5. /\ lower[d] = IF next[d][0] = Nil THEN {} ELSE {next[d][0]} \cup lower[next[d][0]]
        /\ g[d] = IF next[d][0] = Nil THEN {} ELSE {next[d][0]} \cup g[next[d][0]]
        /\ lower[d] = below(d)
    <3>1. lower[d] = below(d)
      BY <2>4
    <3> HIDE DEF lower
    <3> QED BY <1>2, <1>5, <2>4, <3>1
  <2> HIDE DEF lower
  <2>6. PICK m : m = next[d][0] /\ m # Nil /\ g[m] # lower[m]
    BY <2>4, <2>5
  <2>7. m \in Live(height) /\ r[m] < r[d]
    BY <2>4, <2>6, NextIs, CellsAre
  <2>8. m \in bad
    BY <1>1, <2>6, <2>7 DEF lower
  <2>9. k <= r[m]
    BY <2>2, <2>8
  <2> QED BY <1>1, <2>3, <2>4, <2>7, <2>9
<1> QED BY <1>6 DEF g

-----------------------------------------------------------------------------
(***************************************************************************)
(* An edit of the characters of one cell.                                  *)
(***************************************************************************)
(* The length of a text with an edit.                                       *)
LEMMA SplicedLen ==
  ASSUME NEW t \in Seq(Char), NEW s \in Seq(Char),
         NEW p \in 0 .. Len(t), NEW q \in p + 1 .. Len(t) + 1
  PROVE  /\ Splice(t, p, s, q) \in Seq(Char)
         /\ Len(Splice(t, p, s, q)) = Len(t) + (Len(s) - (q - p - 1))
         /\ Len(Splice(t, p, s, q)) \in Nat
<1>1. q \in 1 .. Len(t) + 1 /\ Len(t) \in Nat /\ Len(s) \in Nat /\ p \in Int /\ q \in Int
  OBVIOUS
<1>2. /\ Seqs!Splice(t, p, s, q) \in Seq(Char)
      /\ Len(Seqs!Splice(t, p, s, q)) = p + Len(s) + (Len(t) + 1 - q)
  BY <1>1, Seqs!SpliceLen
<1>3. PICK z \in Seq(Char) : z = Splice(t, p, s, q)
  BY <1>2 DEF Splice
<1>4. Len(z) = p + Len(s) + (Len(t) + 1 - q) /\ Len(z) \in Nat
  BY <1>2, <1>3 DEF Splice
<1>5. Len(z) = Len(t) + (Len(s) - (q - p - 1))
  BY <1>1, <1>4
<1> QED BY <1>3, <1>4, <1>5

(* An edit inside the left one of two strings edits them put together at    *)
(* the same place.                                                          *)
LEMMA SplicedLeft ==
  ASSUME NEW t, NEW a \in Seq(Char), NEW b \in Seq(Char), NEW s \in Seq(Char),
         NEW p \in 0 .. Len(a), NEW q \in p + 1 .. Len(a) + 1, Joined(t, a, b)
  PROVE  Joined(Splice(t, p, s, q), Splice(a, p, s, q), b)
<1>1. q \in 1 .. Len(a) + 1
  OBVIOUS
<1> QED BY <1>1, Seqs!SpliceLeft DEF Joined, Splice

(* An edit inside the right one edits them put together as far behind as    *)
(* the left one is long.                                                    *)
LEMMA SplicedRight ==
  ASSUME NEW t, NEW a \in Seq(Char), NEW b \in Seq(Char), NEW s \in Seq(Char),
         NEW p \in 0 .. Len(b), NEW q \in p + 1 .. Len(b) + 1, Joined(t, a, b)
  PROVE  Joined(Splice(t, Len(a) + p, s, Len(a) + q), a, Splice(b, p, s, q))
<1>1. q \in 1 .. Len(b) + 1
  OBVIOUS
<1> QED BY <1>1, Seqs!SpliceRight DEF Joined, Splice

(* The text from a cell on is its characters and what comes after.          *)
LEMMA TextsAre ==
  ASSUME NEW ht, NEW nx, NEW dt, NEW r, NEW w, Laid(ht, nx, dt, r, w), NEW c \in Cell
  PROVE  /\ After(w, nx[c][0]) \in Seq(Char)
         /\ Joined(w[c], dt[c], After(w, nx[c][0]))
<1>1. nx[c][0] \in Node \/ nx[c][0] = Nil
  BY LaidTypes, CellsAre
<1> QED BY <1>1, LaidTypes, CellsAre DEF After, Laid, Texts, Joined

(* dt2 is dt with s in the place of what lies between off and q in the cell *)
(* d: the strcpy and memmove of ROPE_insert_at_iter and ROPE_del_at_iter    *)
(* within a node.                                                           *)
EditOf(dt, dt2, d, off, s, q) ==
  /\ off \in 0 .. Len(dt[d]) /\ q \in off + 1 .. Len(dt[d]) + 1
  /\ s \in Seq(Char)
  /\ dt2 \in [Cell -> Seq(Char)]
  /\ dt2[d] = Splice(dt[d], off, s, q)
  /\ \A c \in Cell : c # d => dt2[c] = dt[c]

(* The texts after it; those from d on and before are the others.           *)
Before(w, d, c) == Len(w[c]) - Len(w[d])

(* The texts behind the links after such an edit.                           *)
Rewritten(ht, r, w, d, off, s, q) ==
  [c \in Cell |-> IF ht[c] > 0 /\ r[d] <= r[c]
                    THEN Splice(w[c], Before(w, d, c) + off, s, Before(w, d, c) + q)
                    ELSE w[c]]

(* Where an edit in d is in the text from a cell before it on.              *)
LEMMA EditPlace ==
  ASSUME NEW ht, NEW nx, NEW dt, NEW r, NEW w, Laid(ht, nx, dt, r, w),
         NEW d \in Live(ht), NEW c \in Live(ht), r[d] <= r[c],
         NEW off \in 0 .. Len(dt[d]), NEW q \in off + 1 .. Len(dt[d]) + 1
  PROVE  /\ Before(w, d, c) \in Nat
         /\ Before(w, d, c) + off \in 0 .. Len(w[c])
         /\ Before(w, d, c) + q \in (Before(w, d, c) + off) + 1 .. Len(w[c]) + 1
<1>1. Len(dt[d]) <= Len(w[d]) /\ Len(w[d]) <= Len(w[c])
  BY Apart
<1>2. d \in Cell /\ c \in Cell
  BY DEF Live
<1>3. PICK x \in Nat, y \in Nat, z \in Nat : x = Len(w[c]) /\ y = Len(w[d]) /\ z = Len(dt[d])
  BY <1>2, LaidTypes
<1>4. z <= y /\ y <= x /\ off \in 0 .. z /\ q \in off + 1 .. z + 1
  BY <1>1, <1>3
<1>5. Before(w, d, c) = x - y
  BY <1>3 DEF Before
<1>6. x - y \in Nat /\ x - y + off \in 0 .. x /\ x - y + q \in (x - y + off) + 1 .. x + 1
  BY <1>4
<1> QED BY <1>3, <1>5, <1>6

(* Those behind d do not change.                                            *)
LEMMA RewrittenBehind ==
  ASSUME NEW ht, NEW nx, NEW dt, NEW r, NEW w, Laid(ht, nx, dt, r, w),
         NEW d, NEW off, NEW s, NEW q, d \in Cell,
         NEW m, m \in Node => r[m] < r[d]
  PROVE  After(Rewritten(ht, r, w, d, off, s, q), m) = After(w, m) \/ (m \notin Node /\ m # Nil)
<1>1. CASE m \in Node
  <2>1. r[m] \in Nat /\ r[d] \in Nat /\ m \in Cell /\ m # Nil
    BY <1>1, LaidTypes, CellsAre
  <2> QED BY <1>1, <2>1 DEF After, Rewritten
<1>2. CASE m \notin Node
  BY <1>2 DEF After
<1> QED BY <1>1, <1>2

(* They fit the cells after it.                                             *)
LEMMA EditTexts ==
  ASSUME NEW ht, NEW nx, NEW dt, NEW r, NEW w, Laid(ht, nx, dt, r, w), Cleared(ht, nx, dt),
         NEW d \in Live(ht), NEW dt2, NEW off, NEW s, NEW q, EditOf(dt, dt2, d, off, s, q)
  PROVE  /\ Laid(ht, nx, dt2, r, Rewritten(ht, r, w, d, off, s, q))
         /\ Cleared(ht, nx, dt2)
         /\ \A c \in Cell :
              Len(Rewritten(ht, r, w, d, off, s, q)[c]) =
                IF ht[c] > 0 /\ r[d] <= r[c] THEN Len(w[c]) + (Len(s) - (q - off - 1))
                                             ELSE Len(w[c])
<1> DEFINE w2 == Rewritten(ht, r, w, d, off, s, q)
           p(c) == Before(w, d, c)
<1>1. /\ off \in 0 .. Len(dt[d]) /\ q \in off + 1 .. Len(dt[d]) + 1 /\ s \in Seq(Char)
      /\ dt2[d] = Splice(dt[d], off, s, q) /\ (\A c \in Cell : c # d => dt2[c] = dt[c])
      /\ d \in Cell /\ ht[d] > 0
  BY DEF EditOf, Live
<1>2. ASSUME NEW c \in Cell, ht[c] > 0, r[d] <= r[c]
      PROVE  /\ w2[c] = Splice(w[c], p(c) + off, s, p(c) + q)
             /\ w2[c] \in Seq(Char)
             /\ Len(w2[c]) = Len(w[c]) + (Len(s) - (q - off - 1))
  <2>1. w2[c] = Splice(w[c], p(c) + off, s, p(c) + q)
    BY <1>2 DEF Rewritten
  <2>2. c \in Live(ht)
    BY <1>2 DEF Live
  <2>3. /\ p(c) \in Nat /\ p(c) + off \in 0 .. Len(w[c])
        /\ p(c) + q \in (p(c) + off) + 1 .. Len(w[c]) + 1
    BY <1>1, <1>2, <2>2, EditPlace
  <2> HIDE DEF p, w2
  <2>4. w[c] \in Seq(Char)
    BY LaidTypes
  <2>5. /\ Splice(w[c], p(c) + off, s, p(c) + q) \in Seq(Char)
        /\ Len(Splice(w[c], p(c) + off, s, p(c) + q))
             = Len(w[c]) + (Len(s) - ((p(c) + q) - (p(c) + off) - 1))
    BY <1>1, <2>3, <2>4, SplicedLen
  <2>6. (p(c) + q) - (p(c) + off) - 1 = q - off - 1
    <3>1. q \in Int /\ off \in Int
      BY <1>1
    <3> QED BY <2>3, <3>1
  <2> QED BY <2>1, <2>5, <2>6
<1>3. ASSUME NEW c \in Cell, ~(ht[c] > 0 /\ r[d] <= r[c])
      PROVE  w2[c] = w[c]
  BY <1>3 DEF Rewritten
<1>4. w2 \in [Cell -> Seq(Char)]
  <2>1. \A c \in Cell : w2[c] \in Seq(Char)
    BY <1>2, <1>3, LaidTypes
  <2>2. w2 = [c \in Cell |-> w2[c]]
    BY DEF Rewritten
  <2> HIDE DEF w2
  <2> QED BY <2>1, <2>2
<1> HIDE DEF w2
<1>5. ASSUME NEW c \in Cell PROVE Joined(w2[c], dt2[c], After(w2, nx[c][0]))
  <2>1. /\ w[c] \in Seq(Char) /\ dt[c] \in Seq(Char) /\ After(w, nx[c][0]) \in Seq(Char)
        /\ Joined(w[c], dt[c], After(w, nx[c][0]))
        /\ r[c] \in Nat /\ r[d] \in Nat
    BY <1>1, LaidTypes, TextsAre
  <2>2. ASSUME ~(c \in Live(ht) /\ r[d] < r[c]) PROVE After(w2, nx[c][0]) = After(w, nx[c][0])
    <3>1. CASE c \notin Live(ht)
      <4>1. c \in Node /\ ht[c] = 0
        BY <3>1, LaidTypes, CellsAre DEF Live
      <4> QED BY <4>1 DEF Cleared, After
    <3>2. CASE c \in Live(ht)
      <4>1. ht[c] > 0
        BY <3>2 DEF Live
      <4>2. nx[c][0] = Nil \/ (nx[c][0] \in Node /\ r[nx[c][0]] < r[c])
        BY <4>1, NextIs, CellsAre
      <4>3. nx[c][0] \in Node => r[nx[c][0]] < r[d]
        <5>1. nx[c][0] \in Node => r[nx[c][0]] \in Nat
          BY LaidTypes, CellsAre
        <5> QED BY <2>1, <2>2, <3>2, <4>2, <5>1, CellsAre
      <4> QED BY <1>1, <4>2, <4>3, RewrittenBehind DEF w2
    <3> QED BY <3>1, <3>2
  <2>3. CASE c = d
    <3>1. p(c) + off = off /\ p(c) + q = q
      <4>1. Len(w[d]) \in Nat /\ off \in Int /\ q \in Int
        BY <1>1, LaidTypes
      <4> QED BY <2>3, <4>1 DEF Before
    <3>2. w2[d] = Splice(w[d], off, s, q)
      <4>1. r[d] <= r[d]
        BY <2>1
      <4> QED BY <1>1, <1>2, <2>3, <3>1, <4>1
    <3>3. Joined(Splice(w[d], off, s, q), Splice(dt[d], off, s, q), After(w, nx[d][0]))
      BY <1>1, <2>1, <2>3, SplicedLeft
    <3>4. After(w2, nx[d][0]) = After(w, nx[d][0])
      <4>1. ~(r[d] < r[d])
        BY <2>1
      <4> QED BY <2>2, <2>3, <4>1
    <3> QED BY <1>1, <2>3, <3>2, <3>3, <3>4
  <2>4. CASE c \in Live(ht) /\ r[d] < r[c]
    <3>1. PICK m \in Live(ht) : /\ m = nx[c][0] /\ m \in Node /\ r[m] < r[c]
                                /\ m = d \/ r[d] < r[m]
                                /\ Joined(w[c], dt[c], w[m])
      BY <2>4, NextIsFirst
    <3>2. m \in Cell /\ ht[m] > 0 /\ r[m] \in Nat /\ w[m] \in Seq(Char) /\ r[d] <= r[m] /\ m # Nil
      BY <2>1, <3>1, LaidTypes, CellsAre DEF Live
    <3>3. w2[m] = Splice(w[m], p(m) + off, s, p(m) + q)
      BY <1>2, <3>2
    <3>4. c # d /\ r[d] <= r[c] /\ ht[c] > 0
      BY <2>1, <2>4 DEF Live
    <3>5. w2[c] = Splice(w[c], p(c) + off, s, p(c) + q)
      BY <1>2, <3>4
    <3>6. /\ p(m) \in Nat /\ p(m) + off \in 0 .. Len(w[m])
          /\ p(m) + q \in (p(m) + off) + 1 .. Len(w[m]) + 1
      BY <1>1, <3>1, <3>2, EditPlace, Zenon
    <3>7. Len(dt[c]) + (p(m) + off) = p(c) + off /\ Len(dt[c]) + (p(m) + q) = p(c) + q
      <4>1. /\ Len(w[c]) = Len(dt[c]) + Len(w[m]) /\ Len(dt[c]) \in Nat /\ Len(w[m]) \in Nat
            /\ Len(w[c]) \in Nat
        BY <2>1, <3>1, <3>2, JoinedLen, Zenon
      <4>2. off \in Int /\ q \in Int /\ Len(w[d]) \in Nat
        BY <1>1, LaidTypes
      <4>3. PICK x \in Nat, y \in Nat, z \in Nat :
                x = Len(dt[c]) /\ y = Len(w[m]) /\ z = Len(w[d])
        BY <4>1, <4>2
      <4>4. p(m) = y - z /\ p(c) = (x + y) - z
        BY <4>1, <4>3 DEF Before
      <4>5. /\ x + ((y - z) + off) = ((x + y) - z) + off
            /\ x + ((y - z) + q) = ((x + y) - z) + q
        BY <4>2
      <4> HIDE DEF p
      <4> QED BY <4>3, <4>4, <4>5
    <3> HIDE DEF p
    <3>8. Joined(Splice(w[c], Len(dt[c]) + (p(m) + off), s, Len(dt[c]) + (p(m) + q)),
                 dt[c], Splice(w[m], p(m) + off, s, p(m) + q))
      BY <1>1, <2>1, <3>1, <3>2, <3>6, SplicedRight
    <3>9. After(w2, nx[c][0]) = w2[m] /\ dt2[c] = dt[c]
      BY <1>1, <3>1, <3>2, <3>4 DEF After
    <3> QED BY <3>3, <3>5, <3>7, <3>8, <3>9
  <2>5. CASE c # d /\ ~(c \in Live(ht) /\ r[d] < r[c])
    <3>1. ~(ht[c] > 0 /\ r[d] <= r[c])
      <4>1. c \in Live(ht) => r[c] # r[d]
        BY <2>5, Ranks
      <4> QED BY <2>1, <2>5, <4>1 DEF Live
    <3> QED BY <1>1, <1>3, <2>1, <2>2, <2>5, <3>1
  <2> QED BY <2>3, <2>4, <2>5
<1>6. Texts(nx, dt2, w2)
  BY <1>4, <1>5 DEF Texts, Joined
<1>7. Laid(ht, nx, dt2, r, w2)
  BY <1>6 DEF Laid, EditOf
<1>8. Cleared(ht, nx, dt2)
  BY <1>1, CellsAre DEF Cleared
<1> QED BY <1>2, <1>3, <1>7, <1>8 DEF w2

(* The links that span the start of d are at sp; they change by k.          *)
Spanning(ht, r, sp, d) ==
  \A i \in Levels : i < ht[head] => LastBefore(ht, r, sp[i], d, i)

(* The skips after update_offset_list: every link that spans the place has  *)
(* grown by k.                                                              *)
Reskipped(ht, sk, sk2, sp, k) ==
  /\ sk2 \in [Cell -> [Levels -> Int]]
  /\ \A c \in Cell, i \in Levels :
       sk2[c][i] = IF i < ht[head] /\ c = sp[i] THEN sk[c][i] + k ELSE sk[c][i]

(* The last cell before d is the one whose link leads past it.              *)
LEMMA SpansIf ==
  ASSUME NEW ht, NEW nx, NEW dt, NEW r, NEW w, Laid(ht, nx, dt, r, w),
         NEW d \in Live(ht), NEW i \in Levels, NEW b, LastBefore(ht, r, b, d, i),
         NEW c \in Cell, i < ht[c]
  PROVE  c = b <=> r[d] <= r[c] /\ (nx[c][i] # Nil => r[nx[c][i]] < r[d])
<1>1. b \in Cell /\ i < ht[b] /\ r[d] <= r[b] /\ i \in Nat
  BY CellsAre DEF LastBefore
<1>2. \A n \in Node : i < ht[n] /\ r[d] <= r[n] => r[b] <= r[n]
  BY DEF LastBefore
<1>3. /\ b \in Live(ht) /\ c \in Live(ht) /\ d \in Cell
      /\ r[b] \in Nat /\ r[c] \in Nat /\ r[d] \in Nat
  BY <1>1, LaidTypes DEF Live
<1>4. /\ nx[c][i] = Nil \/ (nx[c][i] \in Node /\ i < ht[nx[c][i]] /\ r[nx[c][i]] < r[c])
      /\ \A n \in Node : i < ht[n] /\ r[n] < r[c] => nx[c][i] # Nil /\ r[n] <= r[nx[c][i]]
  BY NextIs
<1>5. nx[c][i] # Nil => r[nx[c][i]] \in Nat
  BY <1>4, LaidTypes, CellsAre
<1>6. ASSUME c = b, nx[c][i] # Nil PROVE r[nx[c][i]] < r[d]
  BY <1>2, <1>3, <1>4, <1>5, <1>6
<1>7. ASSUME r[d] <= r[c], nx[c][i] # Nil => r[nx[c][i]] < r[d], c # b PROVE FALSE
  <2>1. r[b] <= r[c]
    <3>1. c \in Node => r[b] <= r[c]
      BY <1>2, <1>7
    <3>2. c = head => r[b] <= r[c]
      BY <1>3, Ranks
    <3> QED BY <3>1, <3>2, CellsAre
  <2>2. r[b] # r[c]
    BY <1>3, <1>7, Ranks
  <2>3. r[b] < r[c]
    BY <1>3, <2>1, <2>2
  <2>4. b \in Node
    BY <1>3, <2>3, Ranks
  <2>5. nx[c][i] # Nil /\ r[b] <= r[nx[c][i]]
    BY <1>1, <1>4, <2>3, <2>4
  <2> QED BY <1>1, <1>3, <1>5, <1>7, <2>5
<1> QED BY <1>1, <1>6, <1>7

(* Skips that fit are no less than zero.                                    *)
LEMMA SkipNat ==
  ASSUME NEW ht, NEW nx, NEW dt, NEW r, NEW w, NEW sk, Laid(ht, nx, dt, r, w),
         Spanned(ht, nx, sk, w), NEW c \in Cell, NEW i \in Levels, i < ht[c]
  PROVE  sk[c][i] \in Nat
<1>1. sk[c][i] = Len(w[c]) - Len(After(w, nx[c][i]))
  BY DEF Spanned
<1>2. c \in Live(ht) /\ Len(w[c]) \in Nat /\ r[c] \in Nat
  <2>1. i \in Nat /\ ht[c] \in Nat
    BY CellsAre, LaidTypes
  <2> QED BY <2>1, LaidTypes DEF Live
<1>3. CASE nx[c][i] = Nil
  <2>1. Len(After(w, nx[c][i])) = 0
    BY <1>3 DEF After
  <2> QED BY <1>1, <1>2, <2>1
<1>4. CASE nx[c][i] # Nil
  <2>1. PICK m \in Live(ht) : m = nx[c][i] /\ r[m] < r[c]
    BY <1>4, NextIs
  <2>2. r[m] \in Nat /\ Len(w[m]) \in Nat
    BY <2>1, LaidTypes DEF Live
  <2>3. Len(w[m]) <= Len(w[c])
    <3>1. r[m] <= r[c]
      BY <1>2, <2>1, <2>2
    <3> QED BY <1>2, <3>1, Apart
  <2>4. sk[c][i] = Len(w[c]) - Len(w[m])
    BY <1>1, <1>4, <2>1 DEF After
  <2> QED BY <1>2, <2>2, <2>3, <2>4
<1> QED BY <1>3, <1>4

(* The skips after an edit.                                                 *)
LEMMA EditSkips ==
  ASSUME NEW ht, NEW nx, NEW dt, NEW r, NEW w, Laid(ht, nx, dt, r, w),
         NEW sk, Spanned(ht, nx, sk, w), NEW sk2, NEW sp, NEW k \in Int,
         NEW d \in Live(ht), Spanning(ht, r, sp, d), Reskipped(ht, sk, sk2, sp, k),
         NEW w2,
         \A c \in Cell : Len(w2[c]) = IF ht[c] > 0 /\ r[d] <= r[c] THEN Len(w[c]) + k
                                                                  ELSE Len(w[c])
  PROVE  Spanned(ht, nx, sk2, w2)
<1> SUFFICES ASSUME NEW c \in Cell, NEW i \in Levels, i < ht[c]
             PROVE  sk2[c][i] = Len(w2[c]) - Len(After(w2, nx[c][i]))
  BY DEF Spanned
<1>1. i \in Nat /\ i < ht[head] /\ ht[c] > 0 /\ c \in Live(ht) /\ d \in Cell
  <2>1. i \in Nat /\ ht[c] \in Nat
    BY CellsAre, LaidTypes
  <2> QED BY <2>1, LaidTypes DEF Live
<1>2. sk2[c][i] = IF c = sp[i] THEN sk[c][i] + k ELSE sk[c][i]
  BY <1>1 DEF Reskipped
<1>3. LastBefore(ht, r, sp[i], d, i)
  BY <1>1 DEF Spanning
<1>4. c = sp[i] <=> r[d] <= r[c] /\ (nx[c][i] # Nil => r[nx[c][i]] < r[d])
  BY <1>3, SpansIf
<1>5. sk[c][i] = Len(w[c]) - Len(After(w, nx[c][i]))
  BY DEF Spanned
<1>6. Len(w2[c]) = IF r[d] <= r[c] THEN Len(w[c]) + k ELSE Len(w[c])
  BY <1>1
<1>7. Len(w[c]) \in Nat /\ r[c] \in Nat /\ r[d] \in Nat
  BY <1>1, LaidTypes
<1>8. CASE nx[c][i] = Nil
  <2>1. Len(After(w, nx[c][i])) = 0 /\ Len(After(w2, nx[c][i])) = 0
    BY <1>8 DEF After
  <2> QED BY <1>2, <1>4, <1>5, <1>6, <1>7, <1>8, <2>1
<1>9. CASE nx[c][i] # Nil
  <2>1. PICK m \in Live(ht) : m = nx[c][i] /\ r[m] < r[c] /\ m # Nil
    BY <1>9, NextIs
  <2>2. r[m] \in Nat /\ Len(w[m]) \in Nat /\ m \in Cell /\ ht[m] > 0
    BY <2>1, LaidTypes DEF Live
  <2>3. Len(w2[m]) = IF r[d] <= r[m] THEN Len(w[m]) + k ELSE Len(w[m])
    BY <2>2
  <2>4. sk[c][i] = Len(w[c]) - Len(w[m])
    BY <1>5, <2>1 DEF After
  <2>5. c = sp[i] <=> r[d] <= r[c] /\ r[m] < r[d]
    BY <1>4, <2>1
  <2>6. sk2[c][i] = Len(w2[c]) - Len(w2[m])
    <3>1. PICK x \in Nat, y \in Nat : x = Len(w[c]) /\ y = Len(w[m])
      BY <1>7, <2>2
    <3>2. CASE r[d] <= r[m]
      <4>1. r[d] <= r[c] /\ ~(r[m] < r[d])
        BY <1>7, <2>1, <2>2, <3>2
      <4>2. c # sp[i]
        BY <2>5, <4>1
      <4>3. sk2[c][i] = x - y
        BY <1>2, <2>4, <3>1, <4>2
      <4>4. Len(w2[c]) = x + k /\ Len(w2[m]) = y + k
        BY <1>6, <2>3, <3>1, <3>2, <4>1
      <4> QED BY <4>3, <4>4
    <3>3. CASE r[m] < r[d] /\ r[d] <= r[c]
      <4>1. ~(r[d] <= r[m])
        BY <1>7, <2>2, <3>3
      <4>2. c = sp[i]
        BY <2>5, <3>3
      <4>3. sk2[c][i] = x - y + k
        BY <1>2, <2>4, <3>1, <4>2
      <4>4. Len(w2[c]) = x + k /\ Len(w2[m]) = y
        BY <1>6, <2>3, <3>1, <3>3, <4>1
      <4> QED BY <4>3, <4>4
    <3>4. CASE r[c] < r[d]
      <4>1. ~(r[d] <= r[c]) /\ ~(r[d] <= r[m])
        BY <1>7, <2>1, <2>2, <3>4
      <4>2. c # sp[i]
        BY <2>5, <4>1
      <4>3. sk2[c][i] = x - y
        BY <1>2, <2>4, <3>1, <4>2
      <4>4. Len(w2[c]) = x /\ Len(w2[m]) = y
        BY <1>6, <2>3, <3>1, <4>1
      <4> QED BY <4>3, <4>4
    <3>5. r[d] <= r[m] \/ (r[m] < r[d] /\ r[d] <= r[c]) \/ r[c] < r[d]
      BY <1>7, <2>2
    <3> QED BY <3>2, <3>3, <3>4, <3>5
  <2> QED BY <2>1, <2>6 DEF After
<1> QED BY <1>8, <1>9

(* The list after it.                                                       *)
LEMMA Edit ==
  ASSUME NEW ht, NEW nx, NEW sk, NEW dt, NEW r, NEW w, Lists(ht, nx, sk, dt, r, w),
         NEW d \in Live(ht), NEW dt2, NEW off, NEW s, NEW q, EditOf(dt, dt2, d, off, s, q),
         NEW sp, Spanning(ht, r, sp, d),
         NEW sk2, Reskipped(ht, sk, sk2, sp, Len(s) - (q - off - 1))
  PROVE  /\ Lists(ht, nx, sk2, dt2, r, Rewritten(ht, r, w, d, off, s, q))
         /\ \A c \in Cell :
              Len(Rewritten(ht, r, w, d, off, s, q)[c]) =
                IF ht[c] > 0 /\ r[d] <= r[c] THEN Len(w[c]) + (Len(s) - (q - off - 1))
                                             ELSE Len(w[c])
<1> DEFINE k == Len(s) - (q - off - 1)
           w2 == Rewritten(ht, r, w, d, off, s, q)
<1>1. Laid(ht, nx, dt, r, w) /\ Cleared(ht, nx, dt) /\ Spanned(ht, nx, sk, w)
  BY DEF Lists, Laid, Shaped
<1>2. k \in Int
  <2>1. off \in Int /\ q \in Int /\ Len(s) \in Int
    BY DEF EditOf
  <2> QED BY <2>1
<1>3. /\ Laid(ht, nx, dt2, r, w2) /\ Cleared(ht, nx, dt2)
      /\ \A c \in Cell : Len(w2[c]) = IF ht[c] > 0 /\ r[d] <= r[c] THEN Len(w[c]) + k
                                                                  ELSE Len(w[c])
  BY <1>1, EditTexts
<1>4. Reskipped(ht, sk, sk2, sp, k)
  OBVIOUS
<1> HIDE DEF w2, k
<1>5. Spanned(ht, nx, sk2, w2)
  BY <1>1, <1>2, <1>3, <1>4, EditSkips
<1>6. sk2 \in [Cell -> [Levels -> Nat]]
  <2>1. ASSUME NEW c \in Cell, NEW i \in Levels PROVE sk2[c][i] \in Nat
    <3>1. CASE i < ht[c]
      BY <1>3, <1>5, <3>1, SkipNat
    <3>2. CASE ~(i < ht[c])
      <4>1. ~(i < ht[head] /\ c = sp[i])
        BY <3>2 DEF Spanning, LastBefore
      <4>2. sk2[c][i] = sk[c][i] /\ sk[c][i] \in Nat
        BY <4>1 DEF Reskipped, Lists, Shaped
      <4> QED BY <4>2
    <3> QED BY <3>1, <3>2
  <2>2. sk2 \in [Cell -> [Levels -> Int]]
    BY DEF Reskipped
  <2> QED BY <2>1, <2>2
<1>7. Lists(ht, nx, sk2, dt2, r, w2)
  BY <1>3, <1>5, <1>6 DEF Lists, Laid, Shaped
<1> QED BY <1>3, <1>7 DEF w2, k

-----------------------------------------------------------------------------
(***************************************************************************)
(* The head grows.                                                         *)
(***************************************************************************)
(* What the head has at its top level it has up to the level below top.     *)
Heightened(f, f2, h, top) ==
  \A c \in Cell, i \in Levels :
    f2[c][i] = IF c = head /\ h <= i /\ i < top THEN f[head][h - 1] ELSE f[c][i]

(* No node is as tall as the head.                                          *)
LEMMA TopIsNil ==
  ASSUME NEW ht, NEW nx, NEW dt, NEW r, NEW w, Laid(ht, nx, dt, r, w)
  PROVE  ht[head] - 1 \in Levels /\ nx[head][ht[head] - 1] = Nil
<1>1. ht[head] \in Nat /\ ht[head] > 0 /\ ht[head] <= MaxHeight /\ MaxHeight \in Nat
  BY LaidTypes, CellsAre
<1>2. ht[head] - 1 \in Levels /\ ht[head] - 1 < ht[head]
  BY <1>1 DEF Levels
<1>3. \A n \in Node : ~(ht[head] - 1 < ht[n])
  <2>1. \A n \in Node : ht[n] \in Nat /\ ht[n] < ht[head]
    BY LaidTypes, CellsAre
  <2> QED BY <1>1, <2>1
<1> DEFINE i == ht[head] - 1
<1>4. i \in Levels /\ i < ht[head] /\ head \in Cell
  BY <1>2, CellsAre
<1> HIDE DEF i
<1>5. nx[head][i] = Nil \/ (nx[head][i] \in Node /\ i < ht[nx[head][i]])
  BY <1>4, NextIs
<1>6. nx[head][i] = Nil
  BY <1>3, <1>5 DEF i
<1> QED BY <1>4, <1>6 DEF i

(* The head made higher (the top of insert_at): the lists stay lists.       *)
LEMMA Grow ==
  ASSUME NEW ht, NEW nx, NEW sk, NEW dt, NEW r, NEW w, Lists(ht, nx, sk, dt, r, w),
         NEW top \in Nat, ht[head] <= top, top <= MaxHeight,
         NEW nx2, nx2 \in [Cell -> [Levels -> Pointer]], Heightened(nx, nx2, ht[head], top),
         NEW sk2, sk2 \in [Cell -> [Levels -> Nat]], Heightened(sk, sk2, ht[head], top)
  PROVE  Lists([ht EXCEPT ![head] = top], nx2, sk2, dt, r, w)
<1> DEFINE ht2 == [ht EXCEPT ![head] = top]
           h == ht[head]
<1>1. Laid(ht, nx, dt, r, w) /\ Cleared(ht, nx, dt) /\ Spanned(ht, nx, sk, w)
  BY DEF Lists, Laid, Shaped
<1>2. /\ h \in Nat /\ h > 0 /\ h - 1 \in Levels /\ nx[head][h - 1] = Nil /\ h - 1 < h
      /\ ht \in [Cell -> 0 .. MaxHeight] /\ top \in 0 .. MaxHeight
  <2>1. h \in Nat /\ h > 0
    BY <1>1, LaidTypes, CellsAre
  <2>2. h - 1 \in Levels /\ nx[head][h - 1] = Nil
    BY <1>1, TopIsNil
  <2>3. ht \in [Cell -> 0 .. MaxHeight]
    BY <1>1 DEF Laid
  <2> QED BY <2>1, <2>2, <2>3, CellsAre
<1>3. /\ ht2 \in [Cell -> 0 .. MaxHeight] /\ ht2[head] = top /\ top > 0
      /\ \A n \in Node : ht2[n] = ht[n] /\ ht[n] < top /\ ht[n] < h /\ ht[n] \in Nat
  <2>1. \A n \in Node : ht[n] < h /\ ht[n] \in Nat
    BY <1>1, LaidTypes, CellsAre
  <2> QED BY <1>2, <2>1, CellsAre
<1> HIDE DEF ht2
<1>4. \A c \in Cell : nx2[c][0] = nx[c][0]
  BY <1>2, CellsAre DEF Heightened
<1>5. Cleared(ht2, nx2, dt)
  BY <1>1, <1>3, <1>4, CellsAre DEF Cleared
<1>6. Texts(nx2, dt, w)
  BY <1>1, <1>4 DEF Laid, Texts
<1>7. ASSUME NEW c \in Cell, NEW i \in Levels, i < ht2[c]
      PROVE  /\ FirstBehind(ht2, nx2, r, c, i)
             /\ sk2[c][i] = Len(w[c]) - Len(After(w, nx2[c][i]))
  <2>1. CASE c = head /\ h <= i
    <3>1. i \in Nat /\ i < top
      BY <1>3, <1>7, <2>1, CellsAre
    <3>2. nx2[c][i] = Nil /\ sk2[c][i] = sk[head][h - 1]
      BY <1>2, <2>1, <3>1 DEF Heightened
    <3>3. sk[head][h - 1] = Len(w[head]) - Len(After(w, Nil))
      BY <1>1, <1>2, CellsAre DEF Spanned
    <3>4. \A n \in Node : ~(i < ht2[n])
      BY <1>2, <1>3, <2>1, <3>1
    <3> QED BY <2>1, <3>2, <3>3, <3>4 DEF FirstBehind
  <2>2. CASE ~(c = head /\ h <= i)
    <3>1. nx2[c][i] = nx[c][i] /\ sk2[c][i] = sk[c][i]
      BY <2>2 DEF Heightened
    <3>2. i < ht[c]
      <4>1. i \in Nat
        BY CellsAre
      <4> QED BY <1>2, <1>3, <1>7, <2>2, <4>1, CellsAre
    <3>3. FirstBehind(ht, nx, r, c, i)
      BY <1>1, <3>2 DEF Laid, Ordered
    <3>4. FirstBehind(ht2, nx2, r, c, i)
      BY <1>3, <3>1, <3>3 DEF FirstBehind
    <3> QED BY <1>1, <3>1, <3>2, <3>4 DEF Spanned
  <2> QED BY <2>1, <2>2
<1>8. Ordered(ht2, nx2, r)
  <2>1. Ranked(ht2, r)
    BY <1>1, <1>3 DEF Laid, Ordered, Ranked
  <2> QED BY <1>3, <1>7, <2>1 DEF Ordered
<1>9. Spanned(ht2, nx2, sk2, w)
  BY <1>7 DEF Spanned
<1>10. Shaped(ht2, nx2, sk2, dt)
  BY <1>1, <1>3 DEF Shaped, Laid
<1> QED BY <1>5, <1>6, <1>8, <1>9, <1>10 DEF Lists, ht2

(* The iterator then, the same.                                             *)
Stretched(it, it2, h, top) ==
  \A i \in Levels : it2[i] = IF h <= i /\ i < top THEN it[h - 1] ELSE it[i]

(* The iterator is made higher with it, and stands where it stood.          *)
LEMMA GrowAlong ==
  ASSUME NEW ht, NEW nx, NEW dt, NEW r, NEW w, Laid(ht, nx, dt, r, w),
         NEW top \in Nat, ht[head] <= top,
         NEW it, NEW u, NEW k, Along(ht, r, w, it, u, k),
         NEW it2, Stretched(it, it2, ht[head], top)
  PROVE  /\ Along([ht EXCEPT ![head] = top], r, w, it2, u, k)
         /\ it2[0] = it[0]
<1> DEFINE ht2 == [ht EXCEPT ![head] = top]
           h == ht[head]
<1>1. /\ h \in Nat /\ h > 0 /\ h - 1 \in Levels /\ h - 1 < h
      /\ ht \in [Cell -> 0 .. MaxHeight]
  <2>1. h \in Nat /\ h > 0
    BY LaidTypes, CellsAre
  <2>2. h - 1 \in Levels
    BY TopIsNil
  <2>3. ht \in [Cell -> 0 .. MaxHeight]
    BY DEF Laid
  <2> QED BY <2>1, <2>2, <2>3
<1>2. /\ ht2[head] = top /\ top > 0
      /\ \A n \in Node : ht2[n] = ht[n] /\ ht[n] < h /\ ht[n] \in Nat
  <2>1. \A n \in Node : ht[n] < h /\ ht[n] \in Nat
    BY LaidTypes, CellsAre
  <2> QED BY <1>1, <2>1, CellsAre
<1> HIDE DEF ht2
<1>3. u \in Cell /\ ht[u] > 0 /\ it[0].node = u
  BY DEF Along
<1>4. it2[0] = it[0]
  BY <1>1, CellsAre DEF Stretched
<1>5. ht2[u] > 0
  BY <1>2, <1>3, CellsAre
<1>6. r[u] <= r[head]
  BY <1>3, Ranks, CellsAre, LaidTypes DEF Live
<1>7. LastBefore(ht, r, it[h - 1].node, u, h - 1)
      /\ it[h - 1].skip = Len(w[it[h - 1].node]) - k
  BY <1>1 DEF Along
<1>8. it[h - 1].node = head
  <2>1. it[h - 1].node \in Cell /\ h - 1 < ht[it[h - 1].node]
    BY <1>7 DEF LastBefore
  <2>2. it[h - 1].node \notin Node
    <3>1. ASSUME NEW n \in Node PROVE ~(h - 1 < ht[n])
      BY <1>1, <1>2
    <3> QED BY <2>1, <3>1
  <2> QED BY <2>1, <2>2, CellsAre
<1>9. ASSUME NEW i \in Levels, i < top
      PROVE  /\ LastBefore(ht2, r, it2[i].node, u, i)
             /\ it2[i].skip = Len(w[it2[i].node]) - k
  <2>0. i \in Nat
    BY CellsAre
  <2>1. CASE h <= i
    <3>1. it2[i] = it[h - 1]
      BY <1>9, <2>1 DEF Stretched
    <3>2. \A n \in Node : ~(i < ht2[n])
      BY <1>1, <1>2, <2>0, <2>1
    <3>3. LastBefore(ht2, r, head, u, i)
      BY <1>2, <1>6, <1>9, <3>2, CellsAre DEF LastBefore
    <3> QED BY <1>7, <1>8, <3>1, <3>3
  <2>2. CASE ~(h <= i)
    <3>1. it2[i] = it[i] /\ i < h
      BY <1>1, <2>0, <2>2 DEF Stretched
    <3>2. LastBefore(ht, r, it[i].node, u, i) /\ it[i].skip = Len(w[it[i].node]) - k
      BY <3>1 DEF Along
    <3>3. LastBefore(ht2, r, it[i].node, u, i)
      BY <1>2, <1>9, <3>2, CellsAre DEF LastBefore
    <3> QED BY <3>1, <3>2, <3>3
  <2> QED BY <2>1, <2>2
<1>10. Along(ht2, r, w, it2, u, k)
  BY <1>2, <1>3, <1>4, <1>5, <1>9 DEF Along
<1> QED BY <1>4, <1>10 DEF ht2

-----------------------------------------------------------------------------
(***************************************************************************)
(* A new node takes over the last characters of a cell.                    *)
(***************************************************************************)
(* n, of h levels, is linked in behind the cells sp.                        *)
Branched(nx, nx2, sp, n, h) ==
  \A c \in Cell, i \in Levels :
    nx2[c][i] = IF i < h /\ c = n THEN nx[sp[i]][i]
                ELSE IF i < h /\ c = sp[i] THEN n ELSE nx[c][i]

(* Its place in the order.                                                  *)
Wedged(r, u, n) == [c \in Cell |-> IF c = n THEN 2 * r[u] ELSE 2 * r[c] + 1]

(* sp[0] is the cell itself.                                                *)
LEMMA LastIsSelf ==
  ASSUME NEW ht, NEW nx, NEW dt, NEW r, NEW w, Laid(ht, nx, dt, r, w),
         NEW u \in Live(ht), NEW b, LastBefore(ht, r, b, u, 0)
  PROVE  b = u
<1>1. /\ b \in Cell /\ 0 < ht[b] /\ r[u] <= r[b]
      /\ \A n \in Node : 0 < ht[n] /\ r[u] <= r[n] => r[b] <= r[n]
  BY DEF LastBefore
<1>2. /\ b \in Live(ht) /\ u \in Cell /\ ht[u] > 0 /\ r[b] \in Nat /\ r[u] \in Nat
      /\ ht[u] \in Nat /\ ht[b] \in Nat
  BY <1>1, LaidTypes DEF Live
<1>3. u \in Node => r[b] <= r[u]
  BY <1>1, <1>2
<1>4. u = head => r[b] <= r[u]
  BY <1>2, Ranks
<1>5. r[b] = r[u]
  BY <1>1, <1>2, <1>3, <1>4, CellsAre
<1> QED BY <1>2, <1>5, Ranks

(* A new node behind u: the order of the cells is kept.                     *)
LEMMA SplitOrdered ==
  ASSUME NEW ht, NEW nx, NEW dt, NEW r, NEW w, Laid(ht, nx, dt, r, w),
         NEW u \in Live(ht), NEW n \in Node, ht[n] = 0,
         NEW h \in Nat, h > 0, h < ht[head],
         NEW sp, \A i \in Levels : i < h => LastBefore(ht, r, sp[i], u, i),
         NEW nx2, Branched(nx, nx2, sp, n, h)
  PROVE  Ordered([ht EXCEPT ![n] = h], nx2, Wedged(r, u, n))
<1> DEFINE ht2 == [ht EXCEPT ![n] = h]
           r2 == Wedged(r, u, n)
<1>1. /\ ht2[n] = h /\ \A c \in Cell : c # n => ht2[c] = ht[c]
      /\ n \in Cell /\ n # head /\ n # Nil /\ u \in Cell /\ u # n /\ ht[u] > 0
  BY LaidTypes, CellsAre DEF Laid, Live
<1>2. /\ r2[n] = 2 * r[u] /\ \A c \in Cell : c # n => r2[c] = 2 * r[c] + 1
      /\ \A c \in Cell : r[c] \in Nat
  BY <1>1, LaidTypes DEF Wedged
<1>3. r2 \in [Cell -> Nat]
  <2>1. \A c \in Cell : r2[c] \in Nat
    BY <1>1, <1>2
  <2>2. r2 = [c \in Cell |-> r2[c]]
    BY DEF Wedged
  <2> HIDE DEF r2
  <2> QED BY <2>1, <2>2
<1> HIDE DEF ht2, r2
<1>4. ASSUME NEW c \in Cell, NEW d \in Cell, c # n, d # n
      PROVE  /\ r2[c] < r2[d] <=> r[c] < r[d]
             /\ r2[c] <= r2[d] <=> r[c] <= r[d]
             /\ r2[c] = r2[d] <=> r[c] = r[d]
             /\ r2[c] < r2[n] <=> r[c] < r[u]
             /\ r2[n] < r2[c] <=> r[u] <= r[c]
             /\ r2[n] <= r2[c] <=> r[u] <= r[c]
             /\ r2[n] # r2[c]
  <2>1. r2[c] = 2 * r[c] + 1 /\ r2[d] = 2 * r[d] + 1 /\ r2[n] = 2 * r[u]
    BY <1>2, <1>4
  <2>2. PICK x \in Nat, y \in Nat, z \in Nat : x = r[c] /\ y = r[d] /\ z = r[u]
    BY <1>1, <1>2
  <2> QED BY <2>1, <2>2
<1>5. \A x \in Node : ht[x] \in Nat /\ ht[x] < ht[head] /\ (ht[x] > 0 => r[x] < r[head])
  BY LaidTypes, CellsAre
<1>6. Ranked(ht2, r2)
  <2>1. ASSUME NEW x \in Node, ht2[x] > 0 PROVE r2[x] < r2[head]
    <3>1. CASE x = n
      <4>1. r[u] <= r[head]
        BY Ranks, CellsAre, LaidTypes DEF Live
      <4> QED BY <1>1, <1>4, <3>1, <4>1, CellsAre
    <3>2. CASE x # n
      <4>1. r[x] < r[head]
        BY <1>1, <1>5, <2>1, <3>2, CellsAre
      <4> QED BY <1>1, <1>4, <3>2, <4>1, CellsAre
    <3> QED BY <3>1, <3>2
  <2>2. ASSUME NEW x \in Node, NEW y \in Node, ht2[x] > 0, ht2[y] > 0, r2[x] = r2[y]
        PROVE  x = y
    <3>1. CASE x # n /\ y # n
      <4>1. ht[x] > 0 /\ ht[y] > 0 /\ r[x] = r[y]
        BY <1>1, <1>4, <2>2, <3>1, CellsAre
      <4> QED BY <4>1 DEF Laid, Ordered, Ranked
    <3>2. CASE x = n /\ y # n
      BY <1>4, <2>2, <3>2, CellsAre
    <3>3. CASE x # n /\ y = n
      BY <1>4, <2>2, <3>3, CellsAre
    <3> QED BY <3>1, <3>2, <3>3
  <2> QED BY <1>3, <2>1, <2>2 DEF Ranked
<1>7. ASSUME NEW i \in Levels, i < h
      PROVE  /\ sp[i] \in Cell /\ i < ht[sp[i]] /\ sp[i] # n /\ r[u] <= r[sp[i]]
             /\ i \in Nat /\ sp[i] \in Live(ht)
             /\ \A x \in Node : i < ht[x] /\ r[u] <= r[x] => r[sp[i]] <= r[x]
  <2>1. i \in Nat
    BY CellsAre
  <2>2. LastBefore(ht, r, sp[i], u, i)
    BY <1>7
  <2>3. sp[i] \in Cell /\ i < ht[sp[i]] /\ r[u] <= r[sp[i]]
    BY <2>2 DEF LastBefore
  <2>4. sp[i] # n /\ ht[sp[i]] > 0
    <3>1. ht[sp[i]] \in Nat
      BY <2>3, LaidTypes
    <3> QED BY <2>1, <2>3, <3>1
  <2> QED BY <2>1, <2>2, <2>3, <2>4 DEF LastBefore, Live
<1>8. ASSUME NEW c \in Cell, NEW i \in Levels, i < ht2[c]
      PROVE  FirstBehind(ht2, nx2, r2, c, i)
  <2>0. i \in Nat
    BY CellsAre
  <2>1. CASE c = n
    <3>1. i < h /\ nx2[c][i] = nx[sp[i]][i]
      BY <1>1, <1>8, <2>1 DEF Branched
    <3>2. PICK b \in Cell : /\ b = sp[i] /\ i < ht[b] /\ b # n /\ r[u] <= r[b]
                            /\ \A x \in Node : i < ht[x] /\ r[u] <= r[x] => r[b] <= r[x]
      BY <1>7, <3>1
    <3>3. PICK m : m = nx[b][i]
      OBVIOUS
    <3>4. /\ m = Nil \/ (m \in Node /\ i < ht[m] /\ r[m] < r[b])
          /\ \A x \in Node : i < ht[x] /\ r[x] < r[b] => m # Nil /\ r[x] <= r[m]
      BY <3>2, <3>3, NextIs
    <3>5. ASSUME m # Nil PROVE m \in Node /\ i < ht2[m] /\ r2[m] < r2[n]
      <4>1. m \in Node /\ m \in Cell /\ m # n
        BY <2>0, <3>4, <3>5, CellsAre
      <4>2. r[m] < r[u]
        BY <1>1, <1>2, <3>2, <3>4, <3>5, <4>1
      <4> QED BY <1>1, <1>4, <3>4, <3>5, <4>1, <4>2
    <3>6. ASSUME NEW x \in Node, i < ht2[x], r2[x] < r2[n]
          PROVE  m # Nil /\ r2[x] <= r2[m]
      <4>1. x # n /\ x \in Cell
        <5>1. r2[n] \in Nat
          BY <1>1, <1>3
        <5> QED BY <3>6, <5>1, CellsAre
      <4>2. i < ht[x] /\ r[x] < r[u]
        BY <1>1, <1>4, <3>6, <4>1
      <4>3. r[x] < r[b]
        BY <1>1, <1>2, <3>2, <4>1, <4>2
      <4>4. m # Nil /\ r[x] <= r[m]
        BY <3>4, <4>2, <4>3
      <4>5. m \in Cell /\ m # n
        BY <2>0, <3>4, <4>4, CellsAre
      <4> QED BY <1>4, <4>1, <4>4, <4>5
    <3> QED BY <2>1, <3>1, <3>2, <3>3, <3>5, <3>6 DEF FirstBehind
  <2>2. CASE c # n /\ i < h /\ c = sp[i]
    <3>1. nx2[c][i] = n
      BY <2>2 DEF Branched
    <3>2. /\ r[u] <= r[c]
          /\ \A x \in Node : i < ht[x] /\ r[u] <= r[x] => r[c] <= r[x]
      BY <1>7, <2>2
    <3>3. n \in Node /\ i < ht2[n] /\ r2[n] < r2[c]
      BY <1>1, <1>4, <2>2, <3>2
    <3>4. ASSUME NEW x \in Node, i < ht2[x], r2[x] < r2[c] PROVE r2[x] <= r2[n]
      <4>1. CASE x = n
        BY <1>1, <1>3, <4>1
      <4>2. CASE x # n
        <5>1. x \in Cell /\ i < ht[x] /\ r[x] < r[c]
          BY <1>1, <1>4, <2>2, <3>4, <4>2, CellsAre
        <5>2. r[x] < r[u]
          BY <1>1, <1>2, <3>2, <5>1
        <5>3. r2[x] < r2[n]
          BY <1>4, <4>2, <5>1, <5>2
        <5> QED BY <1>1, <1>3, <5>1, <5>3
      <4> QED BY <4>1, <4>2
    <3> QED BY <1>1, <3>1, <3>3, <3>4 DEF FirstBehind
  <2>3. CASE c # n /\ ~(i < h /\ c = sp[i])
    <3>1. nx2[c][i] = nx[c][i] /\ i < ht[c]
      BY <1>1, <1>8, <2>3 DEF Branched
    <3>2. PICK m : m = nx[c][i]
      OBVIOUS
    <3>3. /\ m = Nil \/ (m \in Node /\ i < ht[m] /\ r[m] < r[c])
          /\ \A x \in Node : i < ht[x] /\ r[x] < r[c] => m # Nil /\ r[x] <= r[m]
      BY <3>1, <3>2, NextIs
    <3>4. m # Nil => m \in Cell /\ m # n
      BY <2>0, <3>3, CellsAre
    <3>5. m # Nil => m \in Node /\ i < ht2[m] /\ r2[m] < r2[c]
      BY <1>1, <1>4, <2>3, <3>3, <3>4
    <3>6. ASSUME NEW x \in Node, i < ht2[x], r2[x] < r2[c]
          PROVE  m # Nil /\ r2[x] <= r2[m]
      <4>1. CASE x = n
        <5>1. i < h /\ r[u] <= r[c]
          BY <1>1, <1>4, <2>3, <3>6, <4>1
        <5>2. PICK b \in Live(ht) : /\ b = sp[i] /\ b \in Cell /\ i < ht[b] /\ b # c /\ r[u] <= r[b]
                                /\ \A y \in Node : i < ht[y] /\ r[u] <= r[y] => r[b] <= r[y]
          BY <1>7, <2>3, <5>1
        <5>3. c \in Live(ht)
          <6>1. ht[c] \in Nat
            BY LaidTypes
          <6> QED BY <2>0, <3>1, <6>1 DEF Live
        <5>4. r[b] <= r[c]
          <6>1. c \in Node => r[b] <= r[c]
            BY <3>1, <5>1, <5>2
          <6>2. c = head => r[b] <= r[c]
            BY <5>2, Ranks
          <6> QED BY <6>1, <6>2, CellsAre
        <5>5. r[b] # r[c]
          BY <5>2, <5>3, Ranks
        <5>6. r[b] < r[c]
          BY <1>2, <5>2, <5>4, <5>5
        <5>7. b \in Node
          BY <5>3, <5>6, Ranks
        <5>8. m # Nil /\ r[b] <= r[m]
          BY <3>3, <5>2, <5>6, <5>7
        <5>9. r[u] <= r[m]
          BY <1>1, <1>2, <3>4, <5>2, <5>8
        <5> QED BY <1>4, <3>4, <4>1, <5>8, <5>9
      <4>2. CASE x # n
        <5>1. x \in Cell /\ i < ht[x] /\ r[x] < r[c]
          BY <1>1, <1>4, <2>3, <3>6, <4>2, CellsAre
        <5>2. m # Nil /\ r[x] <= r[m]
          BY <3>3, <5>1
        <5> QED BY <1>4, <3>4, <4>2, <5>1, <5>2
      <4> QED BY <4>1, <4>2
    <3> QED BY <3>1, <3>2, <3>5, <3>6 DEF FirstBehind
  <2> QED BY <2>1, <2>2, <2>3
<1>9. \A x \in Node : ht2[x] < ht2[head]
  BY <1>1, <1>5, CellsAre
<1> QED BY <1>6, <1>8, <1>9 DEF Ordered, ht2, r2

(* Three strings put together in either order.                              *)
LEMMA JoinedAssoc ==
  ASSUME NEW t, NEW ab, NEW bc, NEW a \in Seq(Char), NEW b \in Seq(Char), NEW c \in Seq(Char),
         Joined(ab, a, b), Joined(t, ab, c), Joined(bc, b, c)
  PROVE  Joined(t, a, bc)
BY Seqs!Assoc DEF Joined

(* The characters of u are divided between u and the new node n.            *)
Parted(dt, dt2, u, n, a, s) ==
  /\ Joined(dt[u], a, s) /\ dt2[u] = a /\ dt2[n] = s
  /\ \A c \in Cell : c # u /\ c # n => dt2[c] = dt[c]

(* The texts: t, that from the new node on, is its characters s and what    *)
(* followed u.                                                              *)
LEMMA SplitTexts ==
  ASSUME NEW ht, NEW nx, NEW dt, NEW r, NEW w, Laid(ht, nx, dt, r, w), Cleared(ht, nx, dt),
         NEW u \in Live(ht), NEW n \in Node, ht[n] = 0, NEW h \in Nat, h > 0,
         NEW sp, sp[0] = u, NEW nx2, Branched(nx, nx2, sp, n, h),
         NEW a \in Seq(Char), NEW s \in Seq(Char), NEW dt2, Parted(dt, dt2, u, n, a, s),
         NEW t, Joined(t, s, After(w, nx[u][0]))
  PROVE  /\ Texts(nx2, dt2, [w EXCEPT ![n] = t])
         /\ t \in Seq(Char)
         /\ nx2[n][0] = nx[u][0]
<1> DEFINE w2 == [w EXCEPT ![n] = t]
<1>1. /\ n \in Cell /\ u \in Cell /\ n # u /\ n # Nil /\ ht[u] > 0
      /\ After(w, nx[u][0]) \in Seq(Char) /\ Joined(w[u], dt[u], After(w, nx[u][0]))
      /\ w \in [Cell -> Seq(Char)] /\ 0 \in Levels /\ 0 \in Nat
  <2>1. n \in Cell /\ n # Nil /\ 0 \in Levels /\ 0 \in Nat
    BY CellsAre
  <2>2. u \in Cell /\ ht[u] > 0
    BY DEF Live
  <2>3. n # u
    BY <2>2
  <2>4. w \in [Cell -> Seq(Char)]
    BY DEF Laid, Texts
  <2> QED BY <2>1, <2>2, <2>3, <2>4, TextsAre
<1>2. t \in Seq(Char)
  BY <1>1, JoinedLen
<1>3. w2 \in [Cell -> Seq(Char)] /\ w2[n] = t /\ \A c \in Cell : c # n => w2[c] = w[c]
  BY <1>1, <1>2
<1> HIDE DEF w2
<1>4. /\ nx2[n][0] = nx[u][0] /\ nx2[u][0] = n
      /\ \A c \in Cell : c # n /\ c # u => nx2[c][0] = nx[c][0]
  BY <1>1 DEF Branched
<1>5. ASSUME NEW c \in Cell PROVE After(w2, nx[c][0]) = After(w, nx[c][0])
  <2>1. nx[c][0] = Nil \/ (nx[c][0] \in Cell /\ nx[c][0] # n)
    <3>1. CASE c \in Live(ht)
      <4>1. 0 < ht[c]
        BY <3>1 DEF Live
      <4>2. nx[c][0] = Nil \/ nx[c][0] \in Live(ht)
        BY <1>1, <4>1, NextIs
      <4>3. \A x \in Live(ht) : x \in Cell /\ x # n
        BY DEF Live
      <4> QED BY <4>2, <4>3
    <3>2. CASE c \notin Live(ht)
      <4>1. c \in Node /\ ht[c] = 0
        BY <3>2, LaidTypes, CellsAre DEF Live
      <4> QED BY <4>1 DEF Cleared
    <3> QED BY <3>1, <3>2
  <2> QED BY <1>3, <2>1 DEF After
<1>6. ASSUME NEW c \in Cell PROVE Joined(w2[c], dt2[c], After(w2, nx2[c][0]))
  <2>1. CASE c = n
    BY <1>1, <1>3, <1>4, <1>5, <2>1 DEF Parted
  <2>2. CASE c = u
    <3>1. After(w2, nx2[u][0]) = t /\ w2[u] = w[u]
      BY <1>1, <1>3, <1>4 DEF After
    <3>2. Joined(w[u], a, t)
      BY <1>1, JoinedAssoc DEF Parted
    <3> QED BY <2>2, <3>1, <3>2 DEF Parted
  <2>3. CASE c # n /\ c # u
    <3>1. Joined(w[c], dt[c], After(w, nx[c][0]))
      BY TextsAre
    <3> QED BY <1>3, <1>4, <1>5, <2>3, <3>1 DEF Parted
  <2> QED BY <2>1, <2>2, <2>3
<1>7. Texts(nx2, dt2, w2)
  BY <1>3, <1>6 DEF Texts, Joined
<1> QED BY <1>2, <1>4, <1>7 DEF w2

(* The skips: from the cells sp to the new node, and from there on.         *)
Bridged(sk, sk2, w, sp, n, h, t) ==
  \A c \in Cell, i \in Levels :
    sk2[c][i] = IF i < h /\ c = n THEN sk[sp[i]][i] - (Len(w[sp[i]]) - Len(t))
                ELSE IF i < h /\ c = sp[i] THEN Len(w[c]) - Len(t) ELSE sk[c][i]

(* The links that lead to the new node and on from it span what lies        *)
(* between.                                                                 *)
LEMMA SplitSkips ==
  ASSUME NEW ht, NEW nx, NEW dt, NEW r, NEW w, Laid(ht, nx, dt, r, w),
         NEW sk, Spanned(ht, nx, sk, w),
         NEW u \in Live(ht), NEW n \in Node, ht[n] = 0,
         NEW h \in Nat, NEW sp, \A i \in Levels : i < h => LastBefore(ht, r, sp[i], u, i),
         NEW nx2, Branched(nx, nx2, sp, n, h),
         NEW t \in Seq(Char), NEW sk2, Bridged(sk, sk2, w, sp, n, h, t)
  PROVE  Spanned([ht EXCEPT ![n] = h], nx2, sk2, [w EXCEPT ![n] = t])
<1> DEFINE ht2 == [ht EXCEPT ![n] = h]
           w2 == [w EXCEPT ![n] = t]
<1>1. /\ n \in Cell /\ n # Nil /\ w \in [Cell -> Seq(Char)]
      /\ ht2[n] = h /\ \A c \in Cell : c # n => ht2[c] = ht[c]
      /\ w2[n] = t /\ \A c \in Cell : c # n => w2[c] = w[c]
  BY CellsAre DEF Laid, Texts
<1> HIDE DEF ht2, w2
<1> SUFFICES ASSUME NEW c \in Cell, NEW i \in Levels, i < ht2[c]
             PROVE  sk2[c][i] = Len(w2[c]) - Len(After(w2, nx2[c][i]))
  BY DEF Spanned, ht2, w2
<1>2. i \in Nat /\ Len(t) \in Nat
  BY CellsAre
<1>3. ASSUME NEW b \in Cell, i < ht[b]
      PROVE  /\ After(w2, nx[b][i]) = After(w, nx[b][i])
             /\ sk[b][i] = Len(w[b]) - Len(After(w, nx[b][i]))
             /\ Len(w[b]) \in Nat /\ Len(After(w, nx[b][i])) \in Nat
             /\ b # n
  <2>1. nx[b][i] = Nil \/ (nx[b][i] \in Cell /\ i < ht[nx[b][i]])
    BY <1>3, NextIs, CellsAre
  <2>2. nx[b][i] # Nil => nx[b][i] # n
    BY <1>2, <2>1
  <2>3. After(w, nx[b][i]) \in Seq(Char)
    BY <1>1, <2>1 DEF After
  <2>4. b # n
    BY <1>2, <1>3
  <2>5. Len(After(w, nx[b][i])) \in Nat
    BY <2>3
  <2>6. After(w2, nx[b][i]) = After(w, nx[b][i])
    BY <1>1, <2>1, <2>2 DEF After
  <2> QED BY <1>3, <2>4, <2>5, <2>6, LaidTypes DEF Spanned
<1>4. ASSUME i < h PROVE sp[i] \in Cell /\ i < ht[sp[i]]
  BY <1>4 DEF LastBefore
<1>5. CASE c = n
  <2>1. i < h
    BY <1>1, <1>5
  <2>2. PICK b \in Cell : b = sp[i] /\ i < ht[b]
    BY <1>4, <2>1
  <2>3. nx2[c][i] = nx[b][i] /\ sk2[c][i] = sk[b][i] - (Len(w[b]) - Len(t))
    BY <1>5, <2>1, <2>2 DEF Branched, Bridged
  <2>4. PICK x \in Nat, y \in Nat, z \in Nat :
          x = Len(w[b]) /\ y = Len(After(w, nx[b][i])) /\ z = Len(t)
    BY <1>2, <1>3, <2>2
  <2>5. sk[b][i] = x - y /\ After(w2, nx2[c][i]) = After(w, nx[b][i])
    BY <1>3, <2>2, <2>3, <2>4
  <2>6. sk2[c][i] = (x - y) - (x - z)
    BY <2>3, <2>4, <2>5
  <2>7. (x - y) - (x - z) = z - y
    OBVIOUS
  <2> QED BY <1>1, <1>5, <2>4, <2>5, <2>6, <2>7
<1>6. CASE c # n /\ i < h /\ c = sp[i]
  <2>1. nx2[c][i] = n /\ sk2[c][i] = Len(w[c]) - Len(t)
    BY <1>6 DEF Branched, Bridged
  <2> QED BY <1>1, <1>6, <2>1 DEF After
<1>7. CASE c # n /\ ~(i < h /\ c = sp[i])
  <2>1. nx2[c][i] = nx[c][i] /\ sk2[c][i] = sk[c][i] /\ i < ht[c]
    BY <1>1, <1>7 DEF Branched, Bridged
  <2> QED BY <1>1, <1>3, <1>7, <2>1
<1> QED BY <1>5, <1>6, <1>7

(* The list after it.                                                       *)
LEMMA Split ==
  ASSUME NEW ht, NEW nx, NEW sk, NEW dt, NEW r, NEW w, Lists(ht, nx, sk, dt, r, w),
         NEW u \in Live(ht), NEW n \in Node, ht[n] = 0,
         NEW h \in Nat, h > 0, h < ht[head],
         NEW sp, \A i \in Levels : i < h => LastBefore(ht, r, sp[i], u, i),
         NEW nx2, nx2 \in [Cell -> [Levels -> Pointer]], Branched(nx, nx2, sp, n, h),
         NEW a \in Seq(Char), NEW s \in Seq(Char),
         NEW dt2, dt2 \in [Cell -> Seq(Char)], Parted(dt, dt2, u, n, a, s),
         NEW t, Joined(t, s, After(w, nx[u][0])),
         NEW sk2, sk2 \in [Cell -> [Levels -> Int]], Bridged(sk, sk2, w, sp, n, h, t)
  PROVE  Lists([ht EXCEPT ![n] = h], nx2, sk2, dt2, Wedged(r, u, n), [w EXCEPT ![n] = t])
<1> DEFINE ht2 == [ht EXCEPT ![n] = h]
           r2 == Wedged(r, u, n)
           w2 == [w EXCEPT ![n] = t]
<1>1. /\ Laid(ht, nx, dt, r, w) /\ Cleared(ht, nx, dt) /\ Spanned(ht, nx, sk, w)
      /\ ht \in [Cell -> 0 .. MaxHeight] /\ ht[head] > 0 /\ sk \in [Cell -> [Levels -> Nat]]
  BY DEF Lists, Laid, Shaped
<1>2. sp[0] = u
  BY <1>1, LastIsSelf, CellsAre
<1>3. Texts(nx2, dt2, w2) /\ t \in Seq(Char)
  <2> HIDE DEF ht2, r2
  <2> QED BY <1>1, <1>2, SplitTexts, Zenon
<1>4. Ordered(ht2, nx2, r2)
  BY <1>1, SplitOrdered
<1>5. Spanned(ht2, nx2, sk2, w2)
  BY <1>1, <1>3, SplitSkips
<1>6. /\ ht2 \in [Cell -> 0 .. MaxHeight] /\ ht2[head] > 0
      /\ ht2[n] = h /\ \A c \in Cell : c # n => ht2[c] = ht[c]
  <2>1. h \in 0 .. MaxHeight
    BY <1>1, LaidTypes, CellsAre
  <2> QED BY <1>1, <2>1, CellsAre
<1> HIDE DEF ht2, r2, w2
<1>7. Cleared(ht2, nx2, dt2)
  <2> SUFFICES ASSUME NEW x \in Node, ht2[x] = 0
               PROVE  nx2[x][0] = Nil /\ dt2[x] = << >>
    BY DEF Cleared
  <2>1. x # n /\ ht[x] = 0 /\ x \in Cell /\ x # u
    <3>1. x # n
      BY <1>6
    <3>2. x \in Cell /\ ht[x] = 0
      BY <1>6, <3>1, CellsAre
    <3>3. ht[u] > 0
      BY DEF Live
    <3> QED BY <3>1, <3>2, <3>3
  <2>2. nx2[x][0] = nx[x][0]
    BY <1>2, <2>1, CellsAre DEF Branched
  <2> QED BY <1>1, <2>1, <2>2, CellsAre DEF Cleared, Parted
<1>8. Laid(ht2, nx2, dt2, r2, w2)
  BY <1>3, <1>4, <1>6 DEF Laid
<1>9. sk2 \in [Cell -> [Levels -> Nat]]
  <2>1. ASSUME NEW c \in Cell, NEW i \in Levels PROVE sk2[c][i] \in Nat
    <3>1. CASE i < ht2[c]
      BY <1>5, <1>8, <3>1, SkipNat
    <3>2. CASE ~(i < ht2[c])
      <4>1. ~(i < h /\ c = n)
        BY <1>6, <3>2
      <4>2. ~(i < h /\ c = sp[i])
        <5>1. ASSUME i < h, c = sp[i] PROVE FALSE
          <6>1. i < ht[c] /\ ht[c] \in Nat /\ i \in Nat
            BY <1>1, <5>1, CellsAre, LaidTypes DEF LastBefore
          <6> QED BY <1>6, <3>2, <5>1, <6>1
        <5> QED BY <5>1
      <4>3. sk2[c][i] = sk[c][i]
        BY <4>1, <4>2 DEF Bridged
      <4> QED BY <1>1, <4>3
    <3> QED BY <3>1, <3>2
  <2> QED BY <2>1
<1> QED BY <1>7, <1>8, <1>9, <1>5, <1>6, <1>3, <1>4 DEF Lists, Shaped, ht2, r2, w2

(* The iterator, moved to the end of the new node, j characters from its    *)
(* start.                                                                   *)
Carried(ht, it, it2, n, h, j) ==
  \A i \in Levels :
    /\ i < h => it2[i].node = n /\ it2[i].skip = j
    /\ i < ht[head] /\ ~(i < h) => it2[i].node = it[i].node /\ it2[i].skip = it[i].skip

(* The iterator carried on to the new node, as insert_at leaves it.         *)
LEMMA SplitAlong ==
  ASSUME NEW ht, NEW nx, NEW dt, NEW r, NEW w, Laid(ht, nx, dt, r, w),
         NEW u \in Live(ht), NEW n \in Node, ht[n] = 0,
         NEW h \in Nat, h > 0, h < ht[head],
         NEW it, NEW k, Along(ht, r, w, it, u, k),
         NEW t, NEW it2, Carried(ht, it, it2, n, h, Len(t) - k)
  PROVE  Along([ht EXCEPT ![n] = h], Wedged(r, u, n), [w EXCEPT ![n] = t], it2, n, k)
<1> DEFINE ht2 == [ht EXCEPT ![n] = h]
           r2 == Wedged(r, u, n)
           w2 == [w EXCEPT ![n] = t]
<1>1. /\ n \in Cell /\ n # head /\ 0 \in Levels /\ u \in Cell
      /\ ht2[n] = h /\ \A c \in Cell : c # n => ht2[c] = ht[c]
      /\ w2[n] = t /\ \A c \in Cell : c # n => w2[c] = w[c]
      /\ r2[n] = 2 * r[u] /\ \A c \in Cell : c # n => r2[c] = 2 * r[c] + 1
      /\ \A c \in Cell : r[c] \in Nat
  <2>1. n \in Cell /\ n # head /\ 0 \in Levels /\ u \in Cell
    BY CellsAre DEF Live
  <2>2. ht2[n] = h /\ \A c \in Cell : c # n => ht2[c] = ht[c]
    BY <2>1 DEF Laid
  <2>3. w2[n] = t /\ \A c \in Cell : c # n => w2[c] = w[c]
    BY <2>1 DEF Laid, Texts
  <2>4. r2[n] = 2 * r[u] /\ \A c \in Cell : c # n => r2[c] = 2 * r[c] + 1
    BY <2>1 DEF Wedged
  <2> QED BY <2>1, <2>2, <2>3, <2>4, LaidTypes
<1> HIDE DEF ht2, r2, w2
<1>2. ASSUME NEW i \in Levels, i < ht2[head]
      PROVE  /\ LastBefore(ht2, r2, it2[i].node, n, i)
             /\ it2[i].skip = Len(w2[it2[i].node]) - k
  <2>1. i < ht[head] /\ i \in Nat
    BY <1>1, <1>2, CellsAre
  <2>2. CASE i < h
    <3>1. it2[i].node = n /\ it2[i].skip = Len(t) - k
      BY <2>2 DEF Carried
    <3>2. \A x \in Node : i < ht2[x] /\ r2[n] <= r2[x] => r2[n] <= r2[x]
      OBVIOUS
    <3>3. r2[n] <= r2[n]
      BY <1>1
    <3> QED BY <1>1, <2>2, <3>1, <3>2, <3>3 DEF LastBefore
  <2>3. CASE ~(i < h)
    <3>1. it2[i].node = it[i].node /\ it2[i].skip = it[i].skip
      BY <2>1, <2>3 DEF Carried
    <3>2. PICK b : b = it[i].node /\ LastBefore(ht, r, b, u, i) /\ it[i].skip = Len(w[b]) - k
      BY <2>1 DEF Along
    <3>3. /\ b \in Cell /\ i < ht[b] /\ r[u] <= r[b]
          /\ \A x \in Node : i < ht[x] /\ r[u] <= r[x] => r[b] <= r[x]
      BY <3>2 DEF LastBefore
    <3>4. b # n
      BY <2>1, <3>3
    <3>5. i < ht2[b] /\ r2[n] <= r2[b]
      <4>1. PICK x \in Nat, y \in Nat : x = r[b] /\ y = r[u]
        BY <1>1, <3>3
      <4>2. r2[b] = 2 * x + 1 /\ r2[n] = 2 * y /\ y <= x
        BY <1>1, <3>3, <3>4, <4>1
      <4> QED BY <1>1, <3>3, <3>4, <4>2
    <3>6. ASSUME NEW x \in Node, i < ht2[x], r2[n] <= r2[x] PROVE r2[b] <= r2[x]
      <4>1. x # n /\ x \in Cell
        BY <1>1, <2>3, <3>6, CellsAre
      <4>2. PICK y \in Nat, z \in Nat, v \in Nat : y = r[x] /\ z = r[u] /\ v = r[b]
        BY <1>1, <3>3, <4>1
      <4>3. r2[x] = 2 * y + 1 /\ r2[n] = 2 * z /\ r2[b] = 2 * v + 1
        BY <1>1, <3>3, <3>4, <4>1, <4>2
      <4>4. z <= y
        BY <3>6, <4>3
      <4>5. v <= y
        BY <1>1, <3>3, <3>6, <4>1, <4>2, <4>4
      <4> QED BY <4>3, <4>5
    <3>7. LastBefore(ht2, r2, b, n, i)
      BY <3>3, <3>5, <3>6 DEF LastBefore
    <3> QED BY <1>1, <3>1, <3>2, <3>3, <3>4, <3>7
  <2> QED BY <2>2, <2>3
<1>3. it2[0].node = n
  BY <1>1 DEF Carried
<1> QED BY <1>1, <1>2, <1>3 DEF Along, ht2, r2, w2

-----------------------------------------------------------------------------
(***************************************************************************)
(* A node that is empty is taken out.                                      *)
(***************************************************************************)
(* The links of the cells sp lead to d.                                     *)
Leading(ht, nx, sp, d) ==
  \A i \in Levels : i < ht[d] => sp[i] \in Cell /\ i < ht[sp[i]] /\ nx[sp[i]][i] = d

(* The links and the skips of the cells once d is taken out of the list.    *)
Unlinked(ht, nx, nx2, sp, d) ==
  \A c \in Cell, i \in Levels :
    nx2[c][i] = IF c = d THEN Nil
                ELSE IF i < ht[d] /\ c = sp[i] THEN nx[d][i] ELSE nx[c][i]

(* The skips once d is taken out: the link before it spans what both        *)
(* spanned.                                                                 *)
Absorbed(ht, sk, sk2, sp, d) ==
  \A c \in Cell, i \in Levels :
    sk2[c][i] = IF c = d THEN 0
                ELSE IF i < ht[d] /\ c = sp[i] THEN sk[c][i] + sk[d][i] ELSE sk[c][i]

(* No other links do.                                                       *)
LEMMA LeadsIf ==
  ASSUME NEW ht, NEW nx, NEW dt, NEW r, NEW w, Laid(ht, nx, dt, r, w),
         NEW i \in Levels, NEW b \in Cell, i < ht[b], NEW c \in Cell, i < ht[c],
         nx[b][i] # Nil, nx[c][i] = nx[b][i]
  PROVE  c = b
<1>1. PICK d : d = nx[b][i] /\ d = nx[c][i]
  OBVIOUS
<1>2. d \in Node /\ d \in Cell /\ r[d] < r[b] /\ r[d] < r[c]
  BY <1>1, NextIs, CellsAre
<1>3. r[b] \in Nat /\ r[c] \in Nat /\ r[d] \in Nat /\ b \in Live(ht) /\ c \in Live(ht)
  <2>1. i \in Nat /\ ht[b] \in Nat /\ ht[c] \in Nat
    BY LaidTypes, CellsAre
  <2> QED BY <1>2, <2>1, LaidTypes DEF Live
<1>4. ~(r[b] < r[c])
  <2>1. ASSUME r[b] < r[c] PROVE FALSE
    <3>1. b \in Node
      BY <1>3, <2>1, Ranks
    <3>2. r[b] <= r[d]
      BY <1>1, <2>1, <3>1, NextIs
    <3> QED BY <1>2, <1>3, <3>2
  <2> QED BY <2>1
<1>5. ~(r[c] < r[b])
  <2>1. ASSUME r[c] < r[b] PROVE FALSE
    <3>1. c \in Node
      BY <1>3, <2>1, Ranks
    <3>2. r[c] <= r[d]
      BY <1>1, <2>1, <3>1, NextIs
    <3> QED BY <1>2, <1>3, <3>2
  <2> QED BY <2>1
<1>6. r[b] = r[c]
  BY <1>3, <1>4, <1>5
<1> QED BY <1>3, <1>6, Ranks

(* An empty node taken out of the list (ROPE_del_at_iter) leaves a list.    *)
LEMMA Unlink ==
  ASSUME NEW ht, NEW nx, NEW sk, NEW dt, NEW r, NEW w, Lists(ht, nx, sk, dt, r, w),
         NEW d \in Node, ht[d] > 0, dt[d] = << >>,
         NEW sp, Leading(ht, nx, sp, d),
         NEW nx2, nx2 \in [Cell -> [Levels -> Pointer]], Unlinked(ht, nx, nx2, sp, d),
         NEW sk2, sk2 \in [Cell -> [Levels -> Nat]], Absorbed(ht, sk, sk2, sp, d)
  PROVE  Lists([ht EXCEPT ![d] = 0], nx2, sk2, dt, r, [w EXCEPT ![d] = << >>])
<1> DEFINE ht2 == [ht EXCEPT ![d] = 0]
           w2 == [w EXCEPT ![d] = << >>]
<1>1. /\ Laid(ht, nx, dt, r, w) /\ Cleared(ht, nx, dt) /\ Spanned(ht, nx, sk, w)
      /\ Ranked(ht, r) /\ Texts(nx, dt, w)
  BY DEF Lists, Laid, Shaped, Ordered
<1>2. /\ d \in Cell /\ d # head /\ d # Nil /\ 0 \in Levels
      /\ ht[d] \in Nat /\ dt[d] \in Seq(Char)
  BY <1>1, LaidTypes, CellsAre
<1>3. /\ ht2 \in [Cell -> 0 .. MaxHeight] /\ ht2[head] > 0
      /\ ht2[d] = 0 /\ \A c \in Cell : c # d => ht2[c] = ht[c]
  BY <1>1, <1>2, CellsAre DEF Laid
<1>4. /\ w2 \in [Cell -> Seq(Char)]
      /\ w2[d] = << >> /\ \A c \in Cell : c # d => w2[c] = w[c]
  <2>1. w \in [Cell -> Seq(Char)]
    BY <1>1 DEF Texts
  <2> QED BY <1>2, <2>1
<1> HIDE DEF ht2, w2
<1>5. ASSUME NEW c \in Cell, c # d, NEW i \in Levels, i < ht[c]
      PROVE  \/ i < ht[d] /\ c = sp[i] /\ nx[c][i] = d /\ nx2[c][i] = nx[d][i]
                /\ sk2[c][i] = sk[c][i] + sk[d][i]
             \/ nx[c][i] # d /\ nx2[c][i] = nx[c][i] /\ sk2[c][i] = sk[c][i]
                /\ ~(i < ht[d] /\ c = sp[i])
  <2>1. CASE i < ht[d] /\ c = sp[i]
    BY <1>5, <2>1 DEF Leading, Unlinked, Absorbed
  <2>2. CASE ~(i < ht[d] /\ c = sp[i])
    <3>1. nx2[c][i] = nx[c][i] /\ sk2[c][i] = sk[c][i]
      BY <1>5, <2>2 DEF Unlinked, Absorbed
    <3>2. ASSUME nx[c][i] = d PROVE FALSE
      <4>1. i < ht[d]
        BY <1>1, <1>2, <1>5, <3>2, NextIs
      <4>2. sp[i] \in Cell /\ i < ht[sp[i]] /\ nx[sp[i]][i] = d
        BY <4>1 DEF Leading
      <4>3. c = sp[i]
        BY <1>1, <1>2, <1>5, <3>2, <4>2, LeadsIf
      <4> QED BY <2>2, <4>1, <4>3
    <3> QED BY <2>2, <3>1, <3>2
  <2> QED BY <2>1, <2>2
<1>6. ASSUME NEW i \in Levels, i < ht[d]
      PROVE  /\ nx[d][i] # d /\ (nx[d][i] = Nil \/ nx[d][i] \in Node)
             /\ After(w2, nx[d][i]) = After(w, nx[d][i])
             /\ sk[d][i] = Len(w[d]) - Len(After(w, nx[d][i]))
             /\ Len(After(w, nx[d][i])) \in Nat /\ Len(w[d]) \in Nat
  <2>1. nx[d][i] = Nil \/ (nx[d][i] \in Node /\ nx[d][i] \in Cell /\ r[nx[d][i]] < r[d])
    BY <1>1, <1>2, <1>6, NextIs, CellsAre
  <2>2. r[d] \in Nat
    BY <1>1, <1>2, LaidTypes
  <2>3. nx[d][i] # d
    BY <1>2, <2>1, <2>2
  <2>4. After(w, nx[d][i]) \in Seq(Char)
    BY <1>1, <2>1, LaidTypes DEF After
  <2>5. Len(After(w, nx[d][i])) \in Nat
    BY <2>4
  <2>6. After(w2, nx[d][i]) = After(w, nx[d][i])
    BY <1>4, <2>1, <2>3 DEF After
  <2>7. sk[d][i] = Len(w[d]) - Len(After(w, nx[d][i])) /\ Len(w[d]) \in Nat
    BY <1>1, <1>2, <1>6, LaidTypes DEF Spanned
  <2> QED BY <2>1, <2>3, <2>5, <2>6, <2>7
<1>7. ASSUME NEW c \in Cell, NEW i \in Levels, i < ht2[c]
      PROVE  /\ FirstBehind(ht2, nx2, r, c, i)
             /\ sk2[c][i] = Len(w2[c]) - Len(After(w2, nx2[c][i]))
  <2>0. i \in Nat
    BY CellsAre
  <2>1. c # d /\ i < ht[c]
    BY <1>3, <1>7, <2>0
  <2>2. /\ nx[c][i] = Nil \/ (nx[c][i] \in Node /\ i < ht[nx[c][i]] /\ r[nx[c][i]] < r[c])
        /\ \A n \in Node : i < ht[n] /\ r[n] < r[c] => nx[c][i] # Nil /\ r[n] <= r[nx[c][i]]
    BY <1>1, <2>1, NextIs
  <2>3. sk[c][i] = Len(w[c]) - Len(After(w, nx[c][i])) /\ w2[c] = w[c] /\ Len(w[c]) \in Nat
    BY <1>1, <1>4, <2>1, LaidTypes DEF Spanned
  <2>4. ASSUME NEW n \in Node, i < ht2[n] PROVE n # d /\ i < ht[n] /\ n \in Cell
    <3>1. n # d
      BY <1>3, <2>0, <2>4
    <3> QED BY <1>3, <2>4, <3>1, CellsAre
  <2>5. CASE /\ i < ht[d] /\ c = sp[i] /\ nx[c][i] = d /\ nx2[c][i] = nx[d][i]
             /\ sk2[c][i] = sk[c][i] + sk[d][i]
    <3>1. PICK m : m = nx[d][i]
      OBVIOUS
    <3>2. /\ m = Nil \/ (m \in Node /\ m \in Cell /\ i < ht[m] /\ r[m] < r[d] /\ m # d)
          /\ \A n \in Node : i < ht[n] /\ r[n] < r[d] => m # Nil /\ r[n] <= r[m]
      BY <1>1, <1>2, <1>6, <2>5, <3>1, NextIs, CellsAre, Zenon
    <3>3. r[d] < r[c] /\ r[d] \in Nat /\ r[c] \in Nat /\ (m # Nil => r[m] \in Nat)
      BY <1>1, <1>2, <2>2, <2>5, <3>2, LaidTypes
    <3>4. m # Nil => m \in Node /\ i < ht2[m] /\ r[m] < r[c]
      BY <1>3, <3>2, <3>3
    <3>5. ASSUME NEW n \in Node, i < ht2[n], r[n] < r[c] PROVE m # Nil /\ r[n] <= r[m]
      <4>1. n # d /\ i < ht[n] /\ r[n] \in Nat
        BY <1>1, <2>4, <3>5, LaidTypes
      <4>2. r[n] <= r[d]
        BY <2>2, <2>5, <3>5, <4>1
      <4>3. r[n] # r[d]
        <5>1. ht[n] \in Nat
          BY <1>1, LaidTypes, CellsAre
        <5>2. ht[n] > 0
          BY <2>0, <4>1, <5>1
        <5> QED BY <1>1, <4>1, <5>2 DEF Ranked
      <4>4. r[n] < r[d]
        BY <3>3, <4>1, <4>2, <4>3
      <4> QED BY <3>2, <4>1, <4>4
    <3>6. FirstBehind(ht2, nx2, r, c, i)
      BY <2>5, <3>1, <3>4, <3>5 DEF FirstBehind
    <3>7. PICK x \in Nat, y \in Nat, z \in Nat :
            x = Len(w[c]) /\ y = Len(w[d]) /\ z = Len(After(w, m))
      BY <1>6, <2>3, <2>5, <3>1
    <3>8. sk[c][i] = x - y /\ sk[d][i] = y - z
      BY <1>2, <1>6, <2>3, <2>5, <3>1, <3>7 DEF After
    <3>9. sk2[c][i] = x - z
      BY <2>5, <3>8
    <3>10. After(w2, nx2[c][i]) = After(w, m)
      BY <1>6, <2>5, <3>1
    <3> QED BY <2>3, <3>6, <3>7, <3>9, <3>10
  <2>6. CASE nx[c][i] # d /\ nx2[c][i] = nx[c][i] /\ sk2[c][i] = sk[c][i]
    <3>1. nx[c][i] # Nil => nx[c][i] \in Cell /\ i < ht2[nx[c][i]]
      BY <1>3, <2>2, <2>6, CellsAre
    <3>2. FirstBehind(ht2, nx2, r, c, i)
      BY <2>2, <2>4, <2>6, <3>1 DEF FirstBehind
    <3>3. After(w2, nx2[c][i]) = After(w, nx[c][i])
      BY <1>4, <2>6, <3>1 DEF After
    <3> QED BY <2>3, <2>6, <3>2, <3>3
  <2>7. \/ i < ht[d] /\ c = sp[i] /\ nx[c][i] = d /\ nx2[c][i] = nx[d][i]
           /\ sk2[c][i] = sk[c][i] + sk[d][i]
        \/ nx[c][i] # d /\ nx2[c][i] = nx[c][i] /\ sk2[c][i] = sk[c][i]
    BY <1>5, <2>1
  <2> QED BY <2>5, <2>6, <2>7, Zenon
<1>8. ASSUME NEW c \in Cell PROVE w2[c] = dt[c] \o After(w2, nx2[c][0])
  <2>1. CASE c = d
    <3>1. nx2[d][0] = Nil /\ w2[d] = << >>
      BY <1>2, <1>4 DEF Unlinked
    <3> QED BY <2>1, <3>1 DEF After
  <2>2. CASE c # d /\ c \notin Live(ht)
    <3>1. c \in Node /\ ht[c] = 0
      BY <1>1, <2>2, LaidTypes, CellsAre DEF Live
    <3>2. nx2[c][0] = nx[c][0]
      <4>1. 0 < ht[d] => ht[sp[0]] > 0
        BY <1>2 DEF Leading
      <4>2. ~(0 < ht[d] /\ c = sp[0])
        BY <3>1, <4>1
      <4> QED BY <1>2, <2>2, <4>2 DEF Unlinked
    <3>3. nx[c][0] = Nil
      BY <1>1, <3>1 DEF Cleared
    <3> QED BY <1>1, <1>4, <2>2, <3>2, <3>3 DEF Texts, After
  <2>3. CASE c # d /\ c \in Live(ht)
    <3>1. 0 < ht[c] /\ w2[c] = w[c] /\ w[c] = dt[c] \o After(w, nx[c][0])
      BY <1>1, <1>4, <2>3 DEF Live, Texts
    <3>2. After(w2, nx2[c][0]) = After(w, nx[c][0])
      <4>1. CASE nx[c][0] = d /\ nx2[c][0] = nx[d][0]
        <5>1. After(w2, nx2[c][0]) = After(w, nx[d][0]) /\ After(w, nx[d][0]) \in Seq(Char)
          BY <1>1, <1>2, <1>6, <4>1, TextsAre
        <5>2. w[d] = << >> \o After(w, nx[d][0])
          BY <1>1, <1>2 DEF Texts
        <5>3. After(w, nx[c][0]) = w[d]
          BY <1>2, <4>1 DEF After
        <5> QED BY <5>1, <5>2, <5>3
      <4>2. CASE nx[c][0] # d /\ nx2[c][0] = nx[c][0]
        <5>1. nx[c][0] = Nil \/ nx[c][0] \in Cell
          BY <1>1, <1>2, LaidTypes, CellsAre
        <5> QED BY <1>4, <4>2, <5>1 DEF After
      <4> QED BY <1>2, <1>5, <2>3, <3>1, <4>1, <4>2
    <3> QED BY <3>1, <3>2
  <2> QED BY <2>1, <2>2, <2>3
<1>9. Texts(nx2, dt, w2)
  BY <1>4, <1>8 DEF Texts
<1>10. Cleared(ht2, nx2, dt)
  <2> SUFFICES ASSUME NEW x \in Node, ht2[x] = 0 PROVE nx2[x][0] = Nil /\ dt[x] = << >>
    BY DEF Cleared
  <2>1. CASE x = d
    BY <1>2, <2>1 DEF Unlinked
  <2>2. CASE x # d
    <3>1. x \in Cell /\ ht[x] = 0
      BY <1>3, <2>2, CellsAre
    <3>2. nx2[x][0] = nx[x][0]
      <4>1. 0 < ht[d] => ht[sp[0]] > 0
        BY <1>2 DEF Leading
      <4>2. ~(0 < ht[d] /\ x = sp[0])
        BY <3>1, <4>1
      <4> QED BY <1>2, <2>2, <3>1, <4>2 DEF Unlinked
    <3> QED BY <1>1, <3>1, <3>2 DEF Cleared
  <2> QED BY <2>1, <2>2
<1>11. Ordered(ht2, nx2, r)
  <2>1. Ranked(ht2, r)
    BY <1>1, <1>3, CellsAre DEF Ranked
  <2>2. \A n \in Node : ht2[n] < ht2[head]
    <3>1. \A n \in Node : ht[n] < ht[head] /\ ht[head] > 0
      BY <1>1, LaidTypes
    <3> QED BY <1>2, <1>3, <3>1, CellsAre
  <2> QED BY <1>7, <2>1, <2>2 DEF Ordered
<1>12. Spanned(ht2, nx2, sk2, w2)
  BY <1>7 DEF Spanned
<1>13. Shaped(ht2, nx2, sk2, dt)
  BY <1>1, <1>3 DEF Shaped, Laid
<1> QED BY <1>9, <1>10, <1>11, <1>12, <1>13 DEF Lists, ht2, w2

(* The iterator, which stands before the node, stays where it is.           *)
LEMMA UnlinkAlong ==
  ASSUME NEW ht, NEW nx, NEW dt, NEW r, NEW w, Laid(ht, nx, dt, r, w),
         NEW d \in Node, ht[d] > 0, NEW u \in Live(ht), r[d] < r[u],
         NEW it, NEW k, Along(ht, r, w, it, u, k)
  PROVE  Along([ht EXCEPT ![d] = 0], r, [w EXCEPT ![d] = << >>], it, u, k)
<1> DEFINE ht2 == [ht EXCEPT ![d] = 0]
           w2 == [w EXCEPT ![d] = << >>]
<1>1. /\ d \in Cell /\ d # head /\ u \in Cell /\ ht[u] > 0
      /\ r[d] \in Nat /\ r[u] \in Nat
  <2>1. d \in Cell /\ d # head /\ u \in Cell /\ ht[u] > 0
    BY CellsAre DEF Live
  <2> QED BY <2>1, LaidTypes
<1>2. ht2[d] = 0 /\ \A c \in Cell : c # d => ht2[c] = ht[c] /\ w2[c] = w[c]
  BY <1>1 DEF Laid, Texts
<1> HIDE DEF ht2, w2
<1>3. u # d
  BY <1>1
<1>4. ASSUME NEW i \in Levels, i < ht2[head]
      PROVE  /\ LastBefore(ht2, r, it[i].node, u, i)
             /\ it[i].skip = Len(w2[it[i].node]) - k
  <2>1. i < ht[head] /\ i \in Nat
    BY <1>1, <1>2, <1>4, CellsAre
  <2>2. PICK b : b = it[i].node /\ LastBefore(ht, r, b, u, i) /\ it[i].skip = Len(w[b]) - k
    BY <2>1 DEF Along
  <2>3. /\ b \in Cell /\ i < ht[b] /\ r[u] <= r[b]
        /\ \A x \in Node : i < ht[x] /\ r[u] <= r[x] => r[b] <= r[x]
    BY <2>2 DEF LastBefore
  <2>4. b # d
    BY <1>1, <2>3
  <2>5. \A x \in Node : i < ht2[x] => x \in Cell /\ i < ht[x]
    BY <1>2, <2>1, CellsAre
  <2>6. LastBefore(ht2, r, b, u, i)
    BY <1>2, <2>3, <2>4, <2>5 DEF LastBefore
  <2> QED BY <1>2, <2>2, <2>3, <2>4, <2>6
<1>5. u \in Cell /\ ht2[u] > 0 /\ it[0].node = u
  BY <1>1, <1>2, <1>3 DEF Along
<1> QED BY <1>4, <1>5 DEF Along, ht2, w2

-----------------------------------------------------------------------------
(***************************************************************************)
(* The iterator.                                                           *)
(***************************************************************************)
(* What it stands on at a level.                                            *)
LEMMA AlongAt ==
  ASSUME NEW ht, NEW nx, NEW dt, NEW r, NEW w, Laid(ht, nx, dt, r, w),
         NEW it, NEW u, NEW k, Along(ht, r, w, it, u, k)
  PROVE  /\ u \in Cell /\ ht[u] > 0 /\ u \in Live(ht) /\ it[0].node = u
         /\ it[0].skip = Len(w[u]) - k
         /\ \A i \in Levels : i < ht[head] =>
              /\ LastBefore(ht, r, it[i].node, u, i)
              /\ it[i].node \in Cell /\ it[i].node \in Live(ht) /\ i < ht[it[i].node]
              /\ r[u] <= r[it[i].node]
              /\ it[i].skip = Len(w[it[i].node]) - k
<1>1. u \in Cell /\ ht[u] > 0 /\ u \in Live(ht) /\ it[0].node = u
  BY DEF Along, Live
<1>2. ASSUME NEW i \in Levels, i < ht[head]
      PROVE  /\ LastBefore(ht, r, it[i].node, u, i)
             /\ it[i].node \in Cell /\ it[i].node \in Live(ht) /\ i < ht[it[i].node]
             /\ r[u] <= r[it[i].node]
             /\ it[i].skip = Len(w[it[i].node]) - k
  <2>1. LastBefore(ht, r, it[i].node, u, i) /\ it[i].skip = Len(w[it[i].node]) - k
    BY <1>2 DEF Along
  <2>2. it[i].node \in Cell /\ i < ht[it[i].node] /\ r[u] <= r[it[i].node]
    BY <2>1 DEF LastBefore
  <2>3. i \in Nat /\ ht[it[i].node] \in Nat
    BY <2>2, CellsAre, LaidTypes
  <2>4. it[i].node \in Live(ht)
    BY <2>2, <2>3 DEF Live
  <2> QED BY <2>1, <2>2, <2>4
<1>3. 0 \in Levels /\ 0 < ht[head]
  BY CellsAre, LaidTypes
<1>4. it[0].skip = Len(w[u]) - k
  BY <1>1, <1>2, <1>3
<1> QED BY <1>1, <1>2, <1>4

(* At level 0.                                                              *)
LEMMA AlongHere ==
  ASSUME NEW ht, NEW nx, NEW dt, NEW r, NEW w, Laid(ht, nx, dt, r, w),
         NEW it, NEW u, NEW k \in Int, Along(ht, r, w, it, u, k)
  PROVE  /\ u \in Cell /\ u \in Live(ht) /\ it[0].node = u
         /\ it[0].skip = Len(w[u]) - k
         /\ Len(w[u]) \in Nat
<1>1. u \in Cell /\ u \in Live(ht) /\ it[0].node = u
  BY AlongAt
<1>2. it[0].skip = Len(w[u]) - k
  BY AlongAt
<1> QED BY <1>1, <1>2, LaidTypes

(* The cells it stands on; and those whose links span the next node n.      *)
IterNodes(it) == [i \in Levels |-> it[i].node]

(* The iterator moved on to the node n.                                     *)
NextNodes(ht, it, n) == [i \in Levels |-> IF i < ht[n] THEN n ELSE it[i].node]

(* Its links span the cell it stands on.                                    *)
LEMMA AlongSpans ==
  ASSUME NEW ht, NEW r, NEW w, NEW it, NEW u, NEW k, Along(ht, r, w, it, u, k)
  PROVE  Spanning(ht, r, IterNodes(it), u)
BY DEF Along, Spanning, IterNodes

(* The lengths of the texts change by the same number from there on.        *)
LEMMA AlongMoves ==
  ASSUME NEW ht, NEW nx, NEW dt, NEW r, NEW w, Laid(ht, nx, dt, r, w),
         NEW it, NEW u, NEW k \in Int, Along(ht, r, w, it, u, k),
         NEW w2, NEW j \in Int,
         \A c \in Live(ht) : r[u] <= r[c] => Len(w2[c]) = Len(w[c]) + j
  PROVE  Along(ht, r, w2, it, u, k + j)
<1> SUFFICES ASSUME NEW i \in Levels, i < ht[head]
             PROVE  it[i].skip = Len(w2[it[i].node]) - (k + j)
  BY DEF Along
<1>1. PICK b \in Live(ht) : b = it[i].node /\ r[u] <= r[b] /\ it[i].skip = Len(w[b]) - k
  BY AlongAt
<1>2. Len(w2[b]) = Len(w[b]) + j /\ Len(w[b]) \in Nat
  BY <1>1, LaidTypes DEF Live
<1>3. PICK x \in Nat : x = Len(w[b])
  BY <1>2
<1>4. it[i].skip = x - k /\ Len(w2[b]) = x + j
  BY <1>1, <1>2, <1>3
<1>5. (x + j) - (k + j) = x - k
  OBVIOUS
<1> QED BY <1>1, <1>4, <1>5

(* The next node: the links that span it, and those that lead to it.        *)
LEMMA NextSpans ==
  ASSUME NEW ht, NEW nx, NEW dt, NEW r, NEW w, Laid(ht, nx, dt, r, w),
         NEW it, NEW u, NEW k, Along(ht, r, w, it, u, k),
         NEW n, n = nx[u][0], n # Nil
  PROVE  /\ n \in Node /\ n \in Live(ht) /\ r[n] < r[u]
         /\ Spanning(ht, r, NextNodes(ht, it, n), n)
         /\ Leading(ht, nx, IterNodes(it), n)
<1>1. u \in Cell /\ u \in Live(ht) /\ 0 < ht[u] /\ r[u] \in Nat
  BY AlongAt, LaidTypes
<1>2. n \in Node /\ n \in Live(ht) /\ r[n] < r[u] /\ n \in Cell /\ r[n] \in Nat /\ ht[n] > 0
  <2>1. n \in Node /\ n \in Live(ht) /\ r[n] < r[u]
    BY <1>1, NextIs, CellsAre
  <2> QED BY <2>1, LaidTypes, CellsAre DEF Live
<1>3. ASSUME NEW i \in Levels, NEW x \in Node, i < ht[x], r[n] <= r[x]
      PROVE  x = n \/ r[u] <= r[x]
  <2>1. x \in Cell /\ x \in Live(ht) /\ r[x] \in Nat
    <3>1. i \in Nat /\ x \in Cell
      BY CellsAre
    <3>2. ht[x] \in Nat
      BY <3>1, LaidTypes
    <3> QED BY <1>3, <3>1, <3>2, LaidTypes DEF Live
  <2>2. ASSUME r[x] < r[u] PROVE x = n
    <3>1. x = n \/ r[x] < r[n]
      BY <1>1, <2>1, <2>2, NextIsFirst
    <3> QED BY <1>2, <1>3, <2>1, <3>1
  <2> QED BY <1>1, <2>1, <2>2
<1>4. ASSUME NEW i \in Levels, i < ht[head]
      PROVE  LastBefore(ht, r, IF i < ht[n] THEN n ELSE it[i].node, n, i)
  <2>1. CASE i < ht[n]
    BY <1>2, <2>1 DEF LastBefore
  <2>2. CASE ~(i < ht[n])
    <3>1. PICK b \in Cell : /\ b = it[i].node /\ i < ht[b] /\ r[u] <= r[b]
                            /\ \A x \in Node : i < ht[x] /\ r[u] <= r[x] => r[b] <= r[x]
      BY <1>4, AlongAt DEF LastBefore
    <3>2. r[n] <= r[b]
      <4>1. r[b] \in Nat
        BY <3>1, LaidTypes
      <4> QED BY <1>1, <1>2, <3>1, <4>1
    <3>3. ASSUME NEW x \in Node, i < ht[x], r[n] <= r[x] PROVE r[b] <= r[x]
      BY <1>3, <2>2, <3>1, <3>3
    <3> QED BY <2>2, <3>1, <3>2, <3>3 DEF LastBefore
  <2> QED BY <2>1, <2>2
<1>5. ASSUME NEW i \in Levels, i < ht[n]
      PROVE  it[i].node \in Cell /\ i < ht[it[i].node] /\ nx[it[i].node][i] = n
  <2>1. i < ht[head]
    <3>1. i \in Nat /\ ht[n] \in Nat /\ ht[head] \in Nat /\ ht[n] < ht[head]
      BY <1>2, LaidTypes, CellsAre
    <3> QED BY <1>5, <3>1
  <2>2. PICK b \in Cell : /\ b = it[i].node /\ i < ht[b] /\ r[u] <= r[b]
                          /\ \A x \in Node : i < ht[x] /\ r[u] <= r[x] => r[b] <= r[x]
    BY <2>1, AlongAt DEF LastBefore
  <2>3. r[b] \in Nat /\ r[n] < r[b]
    <3>1. r[b] \in Nat
      BY <2>2, LaidTypes
    <3> QED BY <1>1, <1>2, <2>2, <3>1
  <2>4. PICK m : m = nx[b][i]
    OBVIOUS
  <2>5. m \in Node /\ i < ht[m] /\ r[m] < r[b] /\ r[n] <= r[m]
    BY <1>2, <1>5, <2>2, <2>3, <2>4, NextIs
  <2>6. m = n \/ r[u] <= r[m]
    BY <1>3, <2>5
  <2>7. m = n
    <3>1. r[m] \in Nat
      BY <2>5, LaidTypes, CellsAre
    <3> QED BY <2>2, <2>3, <2>5, <2>6, <3>1
  <2> QED BY <2>2, <2>4, <2>7
<1>6. Spanning(ht, r, NextNodes(ht, it, n), n)
  BY <1>4 DEF Spanning, NextNodes
<1>7. Leading(ht, nx, IterNodes(it), n)
  BY <1>5 DEF Leading, IterNodes
<1> QED BY <1>2, <1>6, <1>7

(* The end of the cell it stands on is where the next begins.               *)
LEMMA AlongEnd ==
  ASSUME NEW ht, NEW nx, NEW dt, NEW r, NEW w, Laid(ht, nx, dt, r, w),
         NEW it, NEW u, NEW k \in Int, Along(ht, r, w, it, u, k), it[0].skip = Len(dt[u])
  PROVE  /\ Len(After(w, nx[u][0])) = k
         /\ After(w, nx[u][0]) \in Seq(Char) /\ Joined(w[u], dt[u], After(w, nx[u][0]))
         /\ k > 0 => nx[u][0] # Nil
<1>1. u \in Cell /\ it[0].skip = Len(w[u]) - k
  BY AlongAt
<1>2. PICK y \in Seq(Char) : y = After(w, nx[u][0]) /\ Joined(w[u], dt[u], y)
  BY <1>1, TextsAre
<1>3. Len(w[u]) = Len(dt[u]) + Len(y) /\ Len(dt[u]) \in Nat /\ Len(y) \in Nat /\ Len(w[u]) \in Nat
  BY <1>1, <1>2, LaidTypes, JoinedLen, Zenon
<1>4. Len(y) = k
  BY <1>1, <1>3
<1>5. nx[u][0] = Nil => Len(y) = 0
  BY <1>2 DEF After
<1> QED BY <1>2, <1>4, <1>5

(* The bytes of two strings put together.                                   *)
LEMMA JoinedBytes ==
  ASSUME NEW t, NEW a \in Seq(Char), NEW b \in Seq(Char), Joined(t, a, b)
  PROVE  /\ Bytes(t) = Bytes(a) + Bytes(b)
         /\ Bytes(t) \in Nat /\ Bytes(a) \in Nat /\ Bytes(b) \in Nat
<1>1. t \in Seq(Char)
  BY JoinedLen
<1> QED BY <1>1, BytesAdd, BytesType DEF Joined

(* What an edit does to the size of a text, and to the cells.               *)
LEMMA EditBytes ==
  ASSUME NEW ht, NEW nx, NEW dt, NEW r, NEW w, Laid(ht, nx, dt, r, w),
         NEW d \in Live(ht), NEW dt2, NEW off, NEW s, NEW q, EditOf(dt, dt2, d, off, s, q),
         NEW c \in Live(ht), r[d] <= r[c]
  PROVE  /\ Bytes(Rewritten(ht, r, w, d, off, s, q)[c])
              = Bytes(w[c]) - Bytes(SubSeq(dt[d], off + 1, q - 1)) + Bytes(s)
         /\ Bytes(w[c]) \in Nat /\ Bytes(s) \in Nat
         /\ Bytes(SubSeq(dt[d], off + 1, q - 1)) \in Nat
         /\ Bytes(SubSeq(dt[d], off + 1, q - 1)) <= Bytes(w[c])
         /\ Bytes(dt2[d]) = Bytes(dt[d]) - Bytes(SubSeq(dt[d], off + 1, q - 1)) + Bytes(s)
<1>1. /\ off \in 0 .. Len(dt[d]) /\ q \in off + 1 .. Len(dt[d]) + 1 /\ s \in Seq(Char)
      /\ dt2[d] = Splice(dt[d], off, s, q)
      /\ d \in Cell /\ c \in Cell /\ ht[c] > 0
  BY DEF EditOf, Live
<1>2. PICK y \in Seq(Char) : Joined(w[d], dt[d], y)
  BY <1>1, TextsAre
<1>3. PICK a \in Seq(Char) : Joined(w[c], a, w[d])
  BY Ends DEF Seqs!EndsWith, Joined
<1>4. w[c] \in Seq(Char) /\ w[d] \in Seq(Char) /\ dt[d] \in Seq(Char)
  BY <1>1, LaidTypes
<1>5. /\ Bytes(w[c]) = Bytes(a) + Bytes(w[d]) /\ Bytes(w[d]) = Bytes(dt[d]) + Bytes(y)
      /\ Bytes(a) \in Nat /\ Bytes(y) \in Nat /\ Bytes(dt[d]) \in Nat /\ Bytes(w[c]) \in Nat
      /\ Bytes(s) \in Nat
  <2>1. Bytes(w[c]) = Bytes(a) + Bytes(w[d]) /\ Bytes(a) \in Nat /\ Bytes(w[c]) \in Nat
    BY <1>3, <1>4, JoinedBytes
  <2>2. Bytes(w[d]) = Bytes(dt[d]) + Bytes(y) /\ Bytes(y) \in Nat /\ Bytes(dt[d]) \in Nat
    BY <1>2, <1>4, JoinedBytes
  <2> QED BY <1>1, <2>1, <2>2, BytesType
<1>6. Before(w, d, c) = Len(a)
  <2>1. Len(w[c]) = Len(a) + Len(w[d]) /\ Len(a) \in Nat /\ Len(w[d]) \in Nat
    BY <1>3, <1>4, JoinedLen
  <2> QED BY <2>1 DEF Before
<1>7. off \in 0 .. Len(w[d]) /\ q \in off + 1 .. Len(w[d]) + 1
  <2>1. Len(w[d]) = Len(dt[d]) + Len(y) /\ Len(y) \in Nat /\ Len(dt[d]) \in Nat
    BY <1>2, <1>4, JoinedLen
  <2> QED BY <1>1, <2>1
<1>8. PICK v \in Seq(Char) : v = dt2[d]
  BY <1>1 DEF EditOf
<1>9. PICK x \in Seq(Char) : x = Splice(w[d], off, s, q) /\ Joined(x, v, y)
  <2>1. Joined(Splice(w[d], off, s, q), Splice(dt[d], off, s, q), y)
    BY <1>1, <1>2, <1>4, SplicedLeft
  <2>2. Splice(w[d], off, s, q) \in Seq(Char)
    BY <1>1, <1>4, <1>7, SplicedLen
  <2> QED BY <1>1, <1>8, <2>1, <2>2
<1>10. PICK z : z = Rewritten(ht, r, w, d, off, s, q)[c] /\ Joined(z, a, x)
  <2>1. Joined(Splice(w[c], Len(a) + off, s, Len(a) + q), a, Splice(w[d], off, s, q))
    BY <1>1, <1>3, <1>4, <1>7, SplicedRight
  <2>2. Rewritten(ht, r, w, d, off, s, q)[c] = Splice(w[c], Len(a) + off, s, Len(a) + q)
    BY <1>1, <1>6 DEF Rewritten
  <2> QED BY <1>9, <2>1, <2>2
<1>11. Bytes(z) = Bytes(a) + Bytes(x) /\ Bytes(x) = Bytes(v) + Bytes(y)
  BY <1>8, <1>9, <1>10, JoinedBytes
<1>12. PICK m \in Nat : m = Bytes(SubSeq(dt[d], off + 1, q - 1)) /\ m <= Bytes(dt[d])
                        /\ Bytes(v) = Bytes(dt[d]) - m + Bytes(s)
  BY <1>1, <1>4, <1>8, BytesSplice
<1>13. Bytes(z) = Bytes(w[c]) - m + Bytes(s) /\ m <= Bytes(w[c])
  <2>1. PICK f \in Nat, g \in Nat, h \in Nat, j \in Nat :
          f = Bytes(a) /\ g = Bytes(y) /\ h = Bytes(dt[d]) /\ j = Bytes(s)
    BY <1>5
  <2>2. Bytes(w[c]) = f + (h + g) /\ Bytes(z) = f + ((h - m + j) + g) /\ m <= h
    BY <1>5, <1>11, <1>12, <2>1
  <2>3. f + ((h - m + j) + g) = (f + (h + g)) - m + j /\ (m <= h => m <= f + (h + g))
    OBVIOUS
  <2> QED BY <2>1, <2>2, <2>3
<1> QED BY <1>5, <1>8, <1>10, <1>12, <1>13

(* An edit that leaves the cell it edits neither empty nor too full leaves  *)
(* all cells so.                                                            *)
LEMMA EditFilled ==
  ASSUME NEW ht, NEW dt, NEW d \in Live(ht), NEW dt2, NEW off, NEW s, NEW q,
         EditOf(dt, dt2, d, off, s, q), Filled(ht, dt),
         d # head => dt2[d] # << >>, Bytes(dt2[d]) <= NodeStrSize
  PROVE  Filled(ht, dt2)
<1>1. d \in Cell /\ \A c \in Cell : c # d => dt2[c] = dt[c]
  BY DEF EditOf, Live
<1>2. ASSUME NEW n \in Node, ht[n] > 0 PROVE dt2[n] # << >>
  BY <1>1, <1>2, CellsAre DEF Filled
<1>3. ASSUME NEW c \in Cell PROVE Bytes(dt2[c]) <= NodeStrSize
  BY <1>1, <1>3 DEF Filled
<1> QED BY <1>2, <1>3 DEF Filled

-----------------------------------------------------------------------------
(***************************************************************************)
(* The invariant.                                                          *)
(***************************************************************************)
(* What the links and skips of a list are is known of its parts.            *)
LEMMA ListsLaid ==
  ASSUME NEW ht, NEW nx, NEW sk, NEW dt, NEW r, NEW w, Lists(ht, nx, sk, dt, r, w)
  PROVE  /\ Laid(ht, nx, dt, r, w) /\ Cleared(ht, nx, dt) /\ Spanned(ht, nx, sk, w)
         /\ head \in Live(ht) /\ w[head] \in Seq(Char) /\ Len(w[head]) \in Nat
         /\ Bytes(w[head]) \in Nat
         /\ ht \in [Cell -> 0 .. MaxHeight] /\ ht[head] > 0
         /\ nx \in [Cell -> [Levels -> Pointer]]
         /\ sk \in [Cell -> [Levels -> Nat]]
         /\ dt \in [Cell -> Seq(Char)]
<1>1. Laid(ht, nx, dt, r, w) /\ Cleared(ht, nx, dt) /\ Spanned(ht, nx, sk, w)
  BY DEF Lists, Laid, Shaped
<1>2. head \in Live(ht) /\ w[head] \in Seq(Char) /\ Len(w[head]) \in Nat
  BY <1>1, LaidTypes, CellsAre DEF Live
<1> QED BY <1>1, <1>2, BytesType DEF Lists, Shaped

(* A rope that holds nothing.                                               *)
LEMMA EmptyLists ==
  ASSUME NEW ht, NEW nx, NEW sk, NEW dt, Shaped(ht, nx, sk, dt),
         ht[head] = 1, \A n \in Node : ht[n] = 0, \A c \in Cell : nx[c][0] = Nil,
         sk[head][0] = 0, \A c \in Cell : dt[c] = << >>
  PROVE  /\ Lists(ht, nx, sk, dt, [c \in Cell |-> 0], [c \in Cell |-> << >>])
         /\ Filled(ht, dt)
         /\ [c \in Cell |-> << >>][head] = << >>
<1> DEFINE r == [c \in Cell |-> 0]
           w == [c \in Cell |-> << >>]
<1>1. r \in [Cell -> Nat] /\ w \in [Cell -> Seq(Char)]
  <2>1. << >> \in Seq(Char)
    OBVIOUS
  <2> QED BY <2>1
<1>2. \A c \in Cell : w[c] = << >>
  OBVIOUS
<1> HIDE DEF r, w
<1>3. Ranked(ht, r)
  BY <1>1 DEF Ranked
<1>4. ASSUME NEW c \in Cell, NEW i \in Levels, i < ht[c] PROVE c = head /\ i = 0
  <2>1. i \in Nat
    BY CellsAre
  <2>2. c \notin Node
    BY <1>4, <2>1
  <2> QED BY <1>4, <2>1, <2>2, CellsAre
<1>5. \A i \in Levels, n \in Node : ~(i < ht[n])
  <2>1. \A i \in Levels : i \in Nat
    BY CellsAre
  <2> QED BY <2>1
<1>6. Ordered(ht, nx, r)
  BY <1>3, <1>4, <1>5, CellsAre DEF Ordered, FirstBehind
<1>7. Texts(nx, dt, w)
  <2>1. << >> \o << >> = << >>
    OBVIOUS
  <2> QED BY <1>1, <1>2, <2>1 DEF Texts, After
<1>8. Spanned(ht, nx, sk, w)
  <2>1. Len(<< >>) = 0
    OBVIOUS
  <2>2. sk[head][0] = Len(w[head]) - Len(After(w, nx[head][0]))
    BY <1>2, <2>1, CellsAre DEF After
  <2> QED BY <1>4, <2>2 DEF Spanned
<1>9. Cleared(ht, nx, dt)
  BY CellsAre DEF Cleared
<1>10. Filled(ht, dt)
  BY BytesNone, CellsAre DEF Filled
<1> QED BY <1>2, <1>6, <1>7, <1>8, <1>9, <1>10, CellsAre DEF Lists, r, w

(* Between calls.                                                           *)
LEMMA AtRest ==
  ASSUME pc = "idle", req = NoRequest, e = head, offset = 0, lvl = 0, iter = NoIter,
         rest = << >>, tail = << >>,
         NEW r, NEW w, Lists(height, next, skip, data, r, w), Filled(height, data),
         num_chars = Len(w[head]), num_bytes = Bytes(w[head])
  PROVE  IInv
<1>1. /\ Cleared(height, next, data)
      /\ height \in [Cell -> 0 .. MaxHeight] /\ height[head] > 0
      /\ next \in [Cell -> [Levels -> Pointer]]
      /\ skip \in [Cell -> [Levels -> Nat]]
      /\ data \in [Cell -> Seq(Char)]
      /\ num_chars \in Nat /\ num_bytes \in Nat
  BY ListsLaid
<1>2. iter \in [Levels -> [node : Cell \cup {Nil}, skip : Nat]]
  BY DEF NoIter, NoLink
<1>3. << >> \in Seq(Char)
  OBVIOUS
<1>4. TypeOK
  BY <1>1, <1>2, <1>3, CellsAre DEF TypeOK
<1>5. Good(r, w)
  BY <1>1 DEF Good, Held, Counted, Served, Whole
<1> QED BY <1>4, <1>5 DEF IInv

(* The invariant holds of the rope rope_new makes.                          *)
LEMMA InitIInv == Init => IInv
<1> SUFFICES ASSUME Init PROVE IInv
  OBVIOUS
<1>1. /\ height[head] = 1 /\ \A n \in Node : height[n] = 0
      /\ \A c \in Cell : next[c][0] = Nil /\ data[c] = << >>
      /\ skip[head][0] = 0
  BY CellsAre DEF Init
<1>2. Shaped(height, next, skip, data)
  <2>1. height \in [Cell -> 0 .. MaxHeight]
    BY RopeAssumption DEF Init
  <2>2. next \in [Cell -> [Levels -> Pointer]]
    BY DEF Init, Pointer
  <2>3. skip \in [Cell -> [Levels -> Nat]]
    BY DEF Init
  <2>4. data \in [Cell -> Seq(Char)]
    BY DEF Init
  <2> QED BY <1>1, <2>1, <2>2, <2>3, <2>4 DEF Shaped
<1> DEFINE r == [c \in Cell |-> 0]
           w == [c \in Cell |-> << >>]
<1>3. Lists(height, next, skip, data, r, w) /\ Filled(height, data) /\ w[head] = << >>
  BY <1>1, <1>2, EmptyLists
<1>4. num_chars = Len(w[head]) /\ num_bytes = Bytes(w[head])
  BY <1>3, BytesNone DEF Init
<1> HIDE DEF r, w
<1> QED BY <1>3, <1>4, AtRest DEF Init

-----------------------------------------------------------------------------
(***************************************************************************)
(* Every step keeps it: the calls and the search.                          *)
(***************************************************************************)
(* The C string of an input has no zero.                                    *)
LEMMA CStrType ==
  ASSUME NEW s \in Seq(Char \cup {Nul, Bad})
  PROVE  CStr(s) \in Seq(Char \cup {Bad})
<1> DEFINE ends(k) == k = Len(s) \/ s[k + 1] = Nul
           P(k) == ends(k) /\ \A j \in 0 .. k - 1 : ~ends(j)
           S == {k \in 0 .. Len(s) : ends(k)}
           m == CHOOSE k \in 0 .. Len(s) : P(k)
<1>1. Len(s) \in Nat /\ Len(s) \in S
  OBVIOUS
<1>2. S \subseteq Nat /\ S # {}
  BY <1>1
<1>3. PICK k \in S : \A j \in S : k <= j
  BY <1>2, Seqs!LeastNat
<1>4. k \in 0 .. Len(s) /\ ends(k)
  OBVIOUS
<1>5. ASSUME NEW j \in 0 .. k - 1, ends(j) PROVE FALSE
  <2>1. j \in 0 .. Len(s) /\ j < k
    BY <1>1, <1>4
  <2>2. j \in S
    BY <1>5, <2>1
  <2>3. k <= j
    BY <1>3, <2>2
  <2> QED BY <1>4, <2>1, <2>3
<1>6. P(k)
  BY <1>4, <1>5
<1>7. m \in 0 .. Len(s) /\ P(m)
  <2> HIDE DEF P
  <2> QED BY <1>4, <1>6
<1>8. CStr(s) = SubSeq(s, 1, m)
  BY DEF CStr
<1>9. ASSUME NEW i \in 1 .. m PROVE s[i] \in Char \cup {Bad}
  <2>1. i - 1 \in 0 .. m - 1 /\ i \in 1 .. Len(s) /\ (i - 1) + 1 = i
    BY <1>1, <1>7
  <2>2. ~ends(i - 1)
    BY <1>7, <2>1
  <2> HIDE DEF m
  <2> QED BY <2>1, <2>2
<1> HIDE DEF m
<1>10. SubSeq(s, 1, m) = [i \in 1 .. m |-> s[i]]
  BY <1>1, <1>7
<1>11. [i \in 1 .. m |-> s[i]] \in Seq(Char \cup {Bad})
  BY <1>7, <1>9
<1> QED BY <1>8, <1>10, <1>11

(* A call only sets its arguments down.                                     *)
LEMMA CallKept ==
  ASSUME IInv, NEW q \in Request, Call(q)
  PROVE  IInv'
<1>1. PICK r, w : Good(r, w)
  BY DEF IInv
<1>2. TypeOK'
  BY DEF IInv, TypeOK, Call, heap, locals
<1>3. /\ pc = "idle" /\ pc' = "entry" /\ req' = q /\ q.op # "none"
      /\ height' = height /\ next' = next /\ skip' = skip /\ data' = data
      /\ num_chars' = num_chars /\ num_bytes' = num_bytes
  BY DEF Call, heap, Request
<1>4. /\ Lists(height, next, skip, data, r, w) /\ Filled(height, data)
      /\ num_chars = Len(w[head]) /\ num_bytes = Bytes(w[head])
      /\ Cleared(height, next, data)
  <2>1. Len(w[head]) - 0 = Len(w[head])
    <3>1. Lists(height, next, skip, data, r, w)
      BY <1>1, <1>3 DEF Good, Whole, Held
    <3> QED BY <3>1, ListsLaid
  <2> QED BY <1>1, <1>3, <2>1 DEF Good, Whole, Held, Counted
<1>5. num_chars = Len(w[head]) - 0
  BY <1>4, ListsLaid
<1>6. Good(r, w)'
  BY <1>3, <1>4, <1>5 DEF Good, Whole, Held, Counted, Served
<1> QED BY <1>2, <1>6 DEF IInv

(* The three calls keep the invariant.                                      *)
LEMMA CallsKept == IInv /\ (CallInsert \/ CallErase \/ CallDestroy) => IInv'
<1> SUFFICES ASSUME IInv, CallInsert \/ CallErase \/ CallDestroy PROVE IInv'
  OBVIOUS
<1>0. num_chars \in Nat /\ << >> \in Seq(Char \cup {Bad})
  BY DEF IInv, TypeOK
<1>1. CASE CallInsert
  <2>1. PICK s \in Inputs, p \in 0 .. num_chars + 1 :
          Call([op |-> "insert", pos |-> p, str |-> CStr(s), len |-> 0])
    BY <1>1 DEF CallInsert
  <2>2. CStr(s) \in Seq(Char \cup {Bad})
    BY RopeAssumption, CStrType
  <2>3. [op |-> "insert", pos |-> p, str |-> CStr(s), len |-> 0] \in Request
    BY <1>0, <2>2 DEF Request
  <2> QED BY <2>1, <2>3, CallKept
<1>2. CASE CallErase
  <2>1. PICK n \in DelLens, p \in 0 .. num_chars + 1 :
          Call([op |-> "erase", pos |-> p, str |-> << >>, len |-> n])
    BY <1>2 DEF CallErase
  <2>2. [op |-> "erase", pos |-> p, str |-> << >>, len |-> n] \in Request
    BY <1>0, RopeAssumption DEF Request
  <2> QED BY <2>1, <2>2, CallKept
<1>3. CASE CallDestroy
  <2>1. [op |-> "clear", pos |-> 0, str |-> << >>, len |-> 0] \in Request
    BY <1>0 DEF Request
  <2> QED BY <1>3, <2>1, CallKept DEF CallDestroy
<1> QED BY <1>1, <1>2, <1>3

(* Between steps that change nothing but where the call is.                 *)
LEMMA HeldIs ==
  ASSUME NEW r, NEW w, Good(r, w), Whole
  PROVE  /\ Lists(height, next, skip, data, r, w) /\ Filled(height, data)
         /\ Laid(height, next, data, r, w) /\ Cleared(height, next, data)
         /\ Spanned(height, next, skip, w)
         /\ Counted(w) /\ Served(w)
         /\ head \in Live(height) /\ w[head] \in Seq(Char) /\ Len(w[head]) \in Nat
         /\ pc # "del" => num_chars = Len(w[head])
<1>1. /\ Lists(height, next, skip, data, r, w) /\ Filled(height, data)
      /\ Counted(w) /\ Served(w)
  BY DEF Good, Held
<1>2. Len(w[head]) \in Nat
  BY <1>1, ListsLaid
<1>3. pc # "del" => num_chars = Len(w[head])
  BY <1>1, <1>2 DEF Counted
<1> QED BY <1>1, <1>3, ListsLaid

(* A search begins at the head, with what is left of the clamped position.  *)
LEMMA StartKept == IInv /\ Start => IInv'
<1> SUFFICES ASSUME IInv, Start PROVE IInv'
  OBVIOUS
<1>1. PICK r, w : Good(r, w)
  BY DEF IInv
<1>2. /\ pc = "entry" /\ req.op \in {"insert", "erase"} /\ pc' = "find"
      /\ req' = [req EXCEPT !.len = MinOf(@, num_chars - Clamped(req.pos))]
      /\ offset' = Clamped(req.pos)
      /\ e' = head /\ lvl' = height[head] - 1
      /\ height' = height /\ next' = next /\ skip' = skip /\ data' = data
      /\ num_chars' = num_chars /\ num_bytes' = num_bytes
      /\ iter' = iter /\ rest' = rest /\ tail' = tail
  BY DEF Start, heap
<1>3. /\ Lists(height, next, skip, data, r, w) /\ Filled(height, data)
      /\ Laid(height, next, data, r, w) /\ Cleared(height, next, data)
      /\ Counted(w) /\ Len(w[head]) \in Nat /\ num_chars = Len(w[head])
  BY <1>1, <1>2, HeldIs DEF Whole
<1>4. req \in Request
  BY <1>2 DEF IInv, TypeOK, NoRequest
<1>5. req.pos \in Nat /\ req.len \in Nat /\ req.str \in Seq(Char \cup {Bad})
      /\ req.op \in {"insert", "erase", "clear"}
  BY <1>4 DEF Request
<1> DEFINE n == MinOf(req.len, num_chars - Clamped(req.pos))
<1>6. /\ offset' \in Nat /\ offset' = Len(w[head]) - Behindhand(w)
      /\ n \in Nat /\ n <= Behindhand(w)
  <2>1. PICK x \in Nat, y \in Nat, z \in Nat : x = Len(w[head]) /\ y = req.pos /\ z = req.len
    BY <1>3, <1>5
  <2>2. offset' = MinOf(y, x) /\ Behindhand(w) = x - MinOf(y, x) /\ n = MinOf(z, x - MinOf(y, x))
    BY <1>2, <1>3, <2>1 DEF Clamped, Behindhand
  <2> HIDE DEF n
  <2> QED BY <2>1, <2>2 DEF MinOf
<1> HIDE DEF n
<1>7. req' = [op |-> req.op, pos |-> req.pos, str |-> req.str, len |-> n]
  BY <1>2, <1>4 DEF Request, n
<1>8. req' \in Request /\ req'.pos = req.pos /\ req'.op = req.op /\ req'.len = n
  BY <1>5, <1>6, <1>7 DEF Request
<1>9. /\ height[head] - 1 \in Levels /\ height[head] - 1 < height[head]
      /\ \A i \in Levels : ~(height[head] - 1 < i /\ i < height[head])
  <2>1. height[head] \in Nat /\ height[head] - 1 \in Levels
    BY <1>3, LaidTypes, CellsAre, TopIsNil
  <2>2. \A i \in Levels : i \in Nat
    BY CellsAre
  <2> QED BY <2>1, <2>2
<1>10. TypeOK'
  BY <1>2, <1>6, <1>8, <1>9, CellsAre DEF IInv, TypeOK
<1>11. Behindhand(w)' = Behindhand(w)
  BY <1>8 DEF Behindhand
<1>12. Finding(r, w)'
  <2>1. offset' = Len(w[head]) - Behindhand(w)'
    BY <1>6, <1>11
  <2> QED BY <1>2, <1>9, <2>1, CellsAre DEF Finding
<1>13. Served(w)'
  BY <1>2, <1>6, <1>8, <1>11 DEF Served
<1>14. Counted(w)'
  BY <1>2, <1>3 DEF Counted
<1>15. Good(r, w)'
  BY <1>2, <1>3, <1>12, <1>13, <1>14 DEF Good, Whole, Held
<1> QED BY <1>10, <1>15 DEF IInv

(* Where a call is at work: as far from the end as its clamped position     *)
(* says, with no more left to erase than that.                              *)
LEMMA BehindhandIs ==
  ASSUME TypeOK, pc \in {"find", "found", "del"}, NEW r, NEW w, Good(r, w)
  PROVE  /\ req \in Request /\ req.pos \in Nat /\ req.len \in Nat
         /\ Behindhand(w) \in Nat /\ Behindhand(w) <= Len(w[head])
         /\ Len(w[head]) - Behindhand(w) = MinOf(req.pos, Len(w[head]))
         /\ req.len <= Behindhand(w)
<1>1. Served(w) /\ Len(w[head]) \in Nat
  BY HeldIs DEF Whole
<1>2. req \in Request
  BY <1>1 DEF TypeOK, Served, NoRequest
<1>3. req.pos \in Nat /\ req.len \in Nat
  BY <1>2 DEF Request
<1>4. PICK x \in Nat, y \in Nat : x = Len(w[head]) /\ y = req.pos
  BY <1>1, <1>3
<1>5. Behindhand(w) = x - MinOf(y, x)
  BY <1>4 DEF Behindhand
<1>6. x - MinOf(y, x) \in Nat /\ x - MinOf(y, x) <= x /\ x - (x - MinOf(y, x)) = MinOf(y, x)
  BY DEF MinOf
<1>7. req.len <= Behindhand(w)
  BY <1>1 DEF Served
<1> QED BY <1>2, <1>3, <1>4, <1>5, <1>6, <1>7

(* The link the search is on.                                               *)
LEMMA FindingAt ==
  ASSUME TypeOK, pc = "find", NEW r, NEW w, Good(r, w)
  PROVE  /\ Finding(r, w) /\ e \in Cell /\ e \in Live(height) /\ lvl \in Levels
         /\ lvl < height[e] /\ lvl < height[head]
         /\ offset = Len(w[e]) - Behindhand(w)
         /\ Len(w[e]) \in Nat /\ Behindhand(w) \in Nat
         /\ next[e][lvl] = Nil \/ /\ next[e][lvl] \in Node /\ next[e][lvl] \in Live(height)
                                  /\ r[next[e][lvl]] < r[e]
         /\ Len(After(w, next[e][lvl])) \in Nat
         /\ skip[e][lvl] = Len(w[e]) - Len(After(w, next[e][lvl]))
<1>1. Finding(r, w) /\ lvl \in Levels
  BY DEF Good, TypeOK
<1>2. e \in Cell /\ lvl < height[e] /\ lvl < height[head] /\ offset = Len(w[e]) - Behindhand(w)
  BY <1>1 DEF Finding
<1>3. Laid(height, next, data, r, w) /\ Spanned(height, next, skip, w)
  BY HeldIs DEF Whole
<1>4. e \in Live(height)
  <2>1. lvl \in Nat /\ height[e] \in Nat
    BY <1>1, <1>2, <1>3, CellsAre, LaidTypes
  <2> QED BY <1>2, <2>1 DEF Live
<1>5. next[e][lvl] = Nil \/ /\ next[e][lvl] \in Node /\ next[e][lvl] \in Live(height)
                            /\ r[next[e][lvl]] < r[e]
  BY <1>1, <1>2, <1>3, NextIs
<1>6. After(w, next[e][lvl]) \in Seq(Char)
  BY <1>3, <1>5, LaidTypes, CellsAre DEF After
<1>7. Len(After(w, next[e][lvl])) \in Nat
  BY <1>6
<1>8. skip[e][lvl] = Len(w[e]) - Len(After(w, next[e][lvl]))
  BY <1>1, <1>2, <1>3 DEF Spanned
<1> QED BY <1>1, <1>2, <1>3, <1>4, <1>5, <1>7, <1>8, LaidTypes, BehindhandIs

(* A step to the right of the search keeps the invariant.                   *)
LEMMA FindRightKept == IInv /\ FindRight => IInv'
<1> SUFFICES ASSUME IInv, FindRight PROVE IInv'
  OBVIOUS
<1>1. PICK r, w : Good(r, w)
  BY DEF IInv
<1>2. /\ pc = "find" /\ pc' = "find" /\ offset > skip[e][lvl]
      /\ offset' = offset - skip[e][lvl] /\ e' = next[e][lvl]
      /\ height' = height /\ next' = next /\ skip' = skip /\ data' = data
      /\ num_chars' = num_chars /\ num_bytes' = num_bytes
      /\ req' = req /\ lvl' = lvl /\ iter' = iter /\ rest' = rest /\ tail' = tail
  BY DEF FindRight, Beyond, heap
<1>3. /\ Lists(height, next, skip, data, r, w) /\ Filled(height, data)
      /\ Laid(height, next, data, r, w) /\ Cleared(height, next, data)
      /\ Counted(w) /\ Served(w)
  BY <1>1, <1>2, HeldIs DEF Whole
<1>4. TypeOK
  BY DEF IInv
<1> DEFINE k == Behindhand(w)
           a == After(w, next[e][lvl])
<1>5. /\ Finding(r, w) /\ e \in Cell /\ lvl \in Levels
      /\ lvl < height[e] /\ lvl < height[head]
      /\ offset = Len(w[e]) - k
      /\ Len(w[e]) \in Nat /\ k \in Nat
      /\ next[e][lvl] = Nil \/ /\ next[e][lvl] \in Node /\ next[e][lvl] \in Live(height)
                               /\ r[next[e][lvl]] < r[e]
      /\ Len(a) \in Nat
      /\ skip[e][lvl] = Len(w[e]) - Len(a)
  BY <1>1, <1>2, <1>4, FindingAt
<1> HIDE DEF k, a
<1>6. Len(a) > k /\ offset' = Len(a) - k
  BY <1>2, <1>5
<1>7. next[e][lvl] # Nil
  <2>1. Len(<< >>) = 0
    OBVIOUS
  <2> QED BY <1>5, <1>6, <2>1 DEF After, a
<1>8. PICK m \in Node : /\ m = next[e][lvl] /\ m \in Live(height) /\ r[m] < r[e]
                        /\ m \in Cell /\ lvl < height[m] /\ a = w[m]
  <2>1. lvl < height[next[e][lvl]]
    BY <1>3, <1>5, <1>7, NextIs
  <2> QED BY <1>5, <1>7, <2>1, CellsAre DEF After, a
<1>9. offset' = Len(w[m]) - k /\ offset' \in Nat /\ offset' > 0 /\ e' = m
  <2>1. PICK x \in Nat, y \in Nat : x = Len(a) /\ y = k
    BY <1>5
  <2>2. offset' = x - y /\ x > y /\ Len(w[m]) = x
    BY <1>6, <1>8, <2>1
  <2>3. x - y \in Nat /\ x - y > 0
    BY <2>2
  <2> QED BY <1>2, <1>8, <2>1, <2>2, <2>3
<1>10. TypeOK'
  BY <1>2, <1>4, <1>8, <1>9 DEF TypeOK
<1>11. Behindhand(w)' = k
  BY <1>2 DEF Behindhand, k
<1>12. ASSUME NEW i \in Levels, lvl < i, i < height[head]
       PROVE  /\ iter[i].node \in Cell /\ i < height[iter[i].node]
              /\ r[m] <= r[iter[i].node]
              /\ iter[i].skip = Len(w[iter[i].node]) - k
              /\ \A n \in Node : i < height[n] /\ r[n] < r[iter[i].node] => Len(w[n]) <= k
  <2>1. /\ iter[i].node \in Cell /\ i < height[iter[i].node]
        /\ r[e] <= r[iter[i].node]
        /\ iter[i].skip = Len(w[iter[i].node]) - k
        /\ \A n \in Node : i < height[n] /\ r[n] < r[iter[i].node] => Len(w[n]) <= k
    BY <1>5, <1>12 DEF Finding, k
  <2>2. r[m] \in Nat /\ r[e] \in Nat /\ r[iter[i].node] \in Nat
    BY <1>3, <1>5, <1>8, <2>1, LaidTypes
  <2>3. r[m] <= r[iter[i].node]
    BY <1>8, <2>1, <2>2
  <2> QED BY <2>1, <2>3
<1>13. Finding(r, w)'
  BY <1>2, <1>5, <1>8, <1>9, <1>11, <1>12 DEF Finding
<1>14. Served(w)' /\ Counted(w)'
  BY <1>2, <1>3 DEF Served, Counted, Behindhand
<1>15. Good(r, w)'
  BY <1>2, <1>3, <1>13, <1>14 DEF Good, Whole, Held
<1> QED BY <1>10, <1>15 DEF IInv

(* A step down of the search, which sets one level of the iterator down,    *)
(* keeps the invariant.                                                     *)
LEMMA FindDownKept == IInv /\ FindDown => IInv'
<1> SUFFICES ASSUME IInv, FindDown PROVE IInv'
  OBVIOUS
<1>1. PICK r, w : Good(r, w)
  BY DEF IInv
<1>2. /\ pc = "find" /\ ~(offset > skip[e][lvl])
      /\ iter' = [iter EXCEPT ![lvl] = [node |-> e, skip |-> offset]]
      /\ IF lvl > 0 THEN lvl' = lvl - 1 /\ pc' = "find" ELSE pc' = "found" /\ lvl' = lvl
      /\ height' = height /\ next' = next /\ skip' = skip /\ data' = data
      /\ num_chars' = num_chars /\ num_bytes' = num_bytes
      /\ req' = req /\ e' = e /\ offset' = offset /\ rest' = rest /\ tail' = tail
  BY DEF FindDown, Beyond, heap
<1>3. /\ Lists(height, next, skip, data, r, w) /\ Filled(height, data)
      /\ Laid(height, next, data, r, w) /\ Cleared(height, next, data)
      /\ Counted(w) /\ Served(w)
  BY <1>1, <1>2, HeldIs DEF Whole
<1>4. TypeOK
  BY DEF IInv
<1> DEFINE k == Behindhand(w)
           a == After(w, next[e][lvl])
<1>5. /\ Finding(r, w) /\ e \in Cell /\ e \in Live(height) /\ lvl \in Levels
      /\ lvl < height[e] /\ lvl < height[head]
      /\ offset = Len(w[e]) - k
      /\ Len(w[e]) \in Nat /\ k \in Nat
      /\ next[e][lvl] = Nil \/ /\ next[e][lvl] \in Node /\ next[e][lvl] \in Live(height)
                               /\ r[next[e][lvl]] < r[e]
      /\ Len(a) \in Nat
      /\ skip[e][lvl] = Len(w[e]) - Len(a)
  BY <1>1, <1>2, <1>4, FindingAt
<1>6. offset \in Nat /\ (e = head \/ offset > 0)
  BY <1>4, <1>5 DEF TypeOK, Finding
<1> HIDE DEF k, a
<1>7. Len(a) <= k
  BY <1>2, <1>5
<1>8. /\ iter'[lvl] = [node |-> e, skip |-> offset]
      /\ \A i \in Levels : i # lvl => iter'[i] = iter[i]
      /\ iter' \in [Levels -> [node : Cell \cup {Nil}, skip : Nat]]
  <2>1. iter \in [Levels -> [node : Cell \cup {Nil}, skip : Nat]]
    BY <1>4 DEF TypeOK
  <2>2. [node |-> e, skip |-> offset] \in [node : Cell \cup {Nil}, skip : Nat]
    BY <1>5, <1>6
  <2> QED BY <1>2, <1>5, <2>1, <2>2
<1>9. lvl \in Nat /\ (lvl > 0 => lvl - 1 \in Levels)
  <2>1. lvl \in Nat /\ MaxHeight \in Nat
    BY <1>5, CellsAre
  <2> QED BY <1>5, <2>1 DEF Levels
<1>10. TypeOK'
  BY <1>2, <1>4, <1>5, <1>8, <1>9 DEF TypeOK
<1>11. Behindhand(w)' = k
  BY <1>2 DEF Behindhand, k
<1>12. ASSUME NEW i \in Levels, lvl <= i, i < height[head]
       PROVE  /\ iter'[i].node \in Cell /\ i < height[iter'[i].node]
              /\ r[e] <= r[iter'[i].node]
              /\ iter'[i].skip = Len(w[iter'[i].node]) - k
              /\ \A n \in Node : i < height[n] /\ r[n] < r[iter'[i].node] => Len(w[n]) <= k
  <2>1. CASE i = lvl
    <3>1. iter'[i].node = e /\ iter'[i].skip = offset
      BY <1>8, <2>1
    <3>2. r[e] <= r[e]
      <4>1. r[e] \in Nat
        BY <1>3, <1>5, LaidTypes
      <4> QED BY <4>1
    <3>3. ASSUME NEW n \in Node, i < height[n], r[n] < r[e] PROVE Len(w[n]) <= k
      <4>1. PICK m \in Live(height) : m = next[e][lvl] /\ r[n] <= r[m] /\ m # Nil /\ m \in Cell
        BY <1>3, <1>5, <2>1, <3>3, NextIs, CellsAre
      <4>2. n \in Live(height) /\ n \in Cell
        <5>1. height[n] \in Nat /\ n \in Cell
          BY <1>3, LaidTypes, CellsAre
        <5> QED BY <1>9, <2>1, <3>3, <5>1 DEF Live
      <4>3. Len(w[n]) <= Len(w[m])
        BY <1>3, <4>1, <4>2, Apart
      <4>4. a = w[m] /\ Len(w[n]) \in Nat
        BY <1>3, <4>1, <4>2, LaidTypes DEF After, a
      <4> QED BY <1>5, <1>7, <4>3, <4>4
    <3> QED BY <1>5, <2>1, <3>1, <3>2, <3>3
  <2>2. CASE i # lvl
    <3>1. iter'[i] = iter[i] /\ lvl < i
      <4>1. i \in Nat
        BY CellsAre
      <4> QED BY <1>8, <1>9, <1>12, <2>2, <4>1
    <3> QED BY <1>5, <1>12, <3>1 DEF Finding, k
  <2> QED BY <2>1, <2>2
<1>13. ASSUME lvl > 0 PROVE Finding(r, w)' /\ pc' = "find" /\ lvl' = lvl - 1
  <2>1. \A i \in Levels : lvl - 1 < i => lvl <= i
    <3>1. \A i \in Levels : i \in Nat
      BY CellsAre
    <3> QED BY <1>9, <3>1
  <2>2. lvl' < height[e] /\ lvl' < height[head]
    <3>1. height[e] \in Nat /\ height[head] \in Nat
      BY <1>3, <1>5, LaidTypes, CellsAre
    <3> QED BY <1>2, <1>5, <1>9, <1>13, <3>1
  <2>3. pc' = "find" /\ lvl' = lvl - 1
    BY <1>2, <1>13
  <2>4. \A i \in Levels : lvl' < i /\ i < height'[head] => lvl <= i /\ i < height[head]
    BY <1>2, <2>1, <2>3
  <2>5. \A i \in Levels : lvl' < i /\ i < height'[head] =>
          /\ iter'[i].node \in Cell /\ i < height'[iter'[i].node]
          /\ r[e'] <= r[iter'[i].node]
          /\ iter'[i].skip = Len(w[iter'[i].node]) - Behindhand(w)'
          /\ \A n \in Node : i < height'[n] /\ r[n] < r[iter'[i].node] =>
               Len(w[n]) <= Behindhand(w)'
    BY <1>2, <1>11, <1>12, <2>4
  <2>6. /\ e' \in Cell /\ lvl' < height'[e'] /\ lvl' < height'[head]
        /\ offset' = Len(w[e']) - Behindhand(w)'
        /\ e' = head \/ offset' > 0
    BY <1>2, <1>5, <1>6, <1>11, <2>2
  <2> QED BY <2>3, <2>5, <2>6, Zenon DEF Finding
<1>14. ASSUME ~(lvl > 0)
       PROVE  /\ pc' = "found" /\ Standing(r, w, Behindhand(w))'
              /\ e' = iter'[0].node /\ offset' = iter'[0].skip
  <2>1. lvl = 0 /\ pc' = "found"
    BY <1>2, <1>9, <1>14
  <2>2. iter'[0].node = e /\ iter'[0].skip = offset
    BY <1>8, <2>1
  <2>3. ASSUME NEW i \in Levels, i < height[head]
        PROVE  LastBefore(height, r, iter'[i].node, e, i)
    <3>1. 0 <= i
      <4>1. i \in Nat
        BY CellsAre
      <4> QED BY <4>1
    <3>2. PICK b : b = iter'[i].node
      OBVIOUS
    <3>3. /\ b \in Cell /\ i < height[b] /\ r[e] <= r[b]
          /\ \A n \in Node : i < height[n] /\ r[n] < r[b] => Len(w[n]) <= k
      BY <1>12, <2>1, <2>3, <3>1, <3>2
    <3>4. ASSUME NEW n \in Node, i < height[n], r[e] <= r[n], ~(r[b] <= r[n]) PROVE FALSE
      <4>1. n \in Cell /\ n \in Live(height) /\ r[n] \in Nat /\ r[b] \in Nat /\ r[e] \in Nat
            /\ Len(w[n]) \in Nat
        <5>1. height[n] \in Nat /\ n \in Cell /\ i \in Nat
          BY <1>3, LaidTypes, CellsAre
        <5> QED BY <1>3, <1>5, <3>3, <3>4, <5>1, LaidTypes DEF Live
      <4>2. Len(w[n]) <= k
        BY <3>3, <3>4, <4>1
      <4>3. Len(w[e]) <= Len(w[n])
        BY <1>3, <1>5, <3>4, <4>1, Apart
      <4>4. e = head
        BY <1>5, <1>6, <4>1, <4>2, <4>3
      <4>5. r[n] < r[head]
        BY <1>3, <4>1, LaidTypes DEF Live
      <4> QED BY <3>4, <4>1, <4>4, <4>5
    <3> QED BY <3>2, <3>3, <3>4 DEF LastBefore
  <2>4. \A i \in Levels : i < height[head] => iter'[i].skip = Len(w[iter'[i].node]) - k
    <3>1. \A i \in Levels : 0 <= i
      <4>1. \A i \in Levels : i \in Nat
        BY CellsAre
      <4> QED BY <4>1
    <3> QED BY <1>12, <2>1, <3>1
  <2>5. Along(height, r, w, iter', e, k)
    <3>1. height[e] > 0
      BY <1>5 DEF Live
    <3> QED BY <1>5, <2>2, <2>3, <2>4, <3>1 DEF Along
  <2>6. offset <= Len(data[e])
    <3>1. PICK y \in Seq(Char) : y = a /\ Joined(w[e], data[e], y)
      BY <1>3, <1>5, <2>1, TextsAre DEF a
    <3>2. data[e] \in Seq(Char)
      BY <1>3, <1>5, LaidTypes
    <3>3. /\ Len(w[e]) = Len(data[e]) + Len(y) /\ Len(y) \in Nat /\ Len(data[e]) \in Nat
      BY <3>1, <3>2, JoinedLen
    <3>4. PICK x \in Nat, z \in Nat, v \in Nat : x = Len(data[e]) /\ z = Len(y) /\ v = k
      BY <1>5, <3>3
    <3>5. offset = (x + z) - v /\ skip[e][lvl] = (x + z) - z
      BY <1>5, <3>1, <3>3, <3>4
    <3>6. (x + z) - z = x
      OBVIOUS
    <3>7. ~((x + z) - v > x)
      BY <1>2, <3>5, <3>6
    <3> QED BY <3>4, <3>5, <3>7
  <2>7. Inside(e)'
    BY <1>2, <1>6, <2>2, <2>6 DEF Inside
  <2>8. Standing(r, w, Behindhand(w))'
    BY <1>2, <1>11, <2>2, <2>5, <2>7 DEF Standing
  <2> QED BY <1>2, <2>1, <2>2, <2>8
<1>15. Served(w)' /\ Counted(w)'
  BY <1>2, <1>3 DEF Served, Counted, Behindhand
<1>16. Good(r, w)'
  BY <1>2, <1>3, <1>9, <1>13, <1>14, <1>15 DEF Good, Whole, Held
<1> QED BY <1>10, <1>16 DEF IInv

-----------------------------------------------------------------------------
(***************************************************************************)
(* Every step keeps it: the insertion.                                     *)
(***************************************************************************)
(* A call that ends and leaves a list behind.                               *)
LEMMA ReturnKept ==
  ASSUME Return, NEW r, NEW w, Lists(height', next', skip', data', r, w),
         Filled(height', data'), num_chars' = Len(w[head]), num_bytes' = Bytes(w[head])
  PROVE  IInv'
<1>1. /\ Cleared(height', next', data')
      /\ height' \in [Cell -> 0 .. MaxHeight] /\ height'[head] > 0
      /\ next' \in [Cell -> [Levels -> Pointer]]
      /\ skip' \in [Cell -> [Levels -> Nat]]
      /\ data' \in [Cell -> Seq(Char)]
      /\ num_chars' \in Nat /\ num_bytes' \in Nat
  BY ListsLaid
<1>2. iter' \in [Levels -> [node : Cell \cup {Nil}, skip : Nat]]
  BY DEF Return, NoIter, NoLink
<1>3. << >> \in Seq(Char)
  OBVIOUS
<1>4. TypeOK'
  BY <1>1, <1>2, <1>3, CellsAre DEF TypeOK, Return
<1>5. Good(r, w)'
  BY <1>1 DEF Good, Held, Counted, Served, Whole, Return
<1> QED BY <1>4, <1>5 DEF IInv

(* The position found: where the iterator stands and how much room is left. *)
LEMMA FoundAt ==
  ASSUME TypeOK, pc = "found", NEW r, NEW w, Good(r, w)
  PROVE  /\ Standing(r, w, Behindhand(w))
         /\ Along(height, r, w, iter, e, Behindhand(w))
         /\ e \in Cell /\ e \in Live(height) /\ r[e] <= r[head]
         /\ e = iter[0].node /\ offset = iter[0].skip
         /\ offset \in Nat /\ offset <= Len(data[e]) /\ Len(data[e]) \in Nat
         /\ data[e] \in Seq(Char) /\ data \in [Cell -> Seq(Char)]
         /\ e = head \/ offset > 0
         /\ offset = Len(w[e]) - Behindhand(w) /\ Len(w[e]) \in Nat
<1>1. /\ Standing(r, w, Behindhand(w)) /\ e = iter[0].node /\ offset = iter[0].skip
  BY DEF Good
<1>2. /\ Along(height, r, w, iter, e, Behindhand(w))
      /\ offset <= Len(data[e]) /\ (e = head \/ offset > 0)
  BY <1>1 DEF Standing, Inside
<1>3. Laid(height, next, data, r, w) /\ head \in Live(height)
  BY HeldIs DEF Whole
<1>4. e \in Cell /\ e \in Live(height) /\ iter[0].skip = Len(w[e]) - Behindhand(w)
  BY <1>2, <1>3, AlongAt
<1>5. offset \in Nat /\ data \in [Cell -> Seq(Char)]
  BY DEF TypeOK
<1>6. Len(w[e]) \in Nat /\ data[e] \in Seq(Char) /\ Len(data[e]) \in Nat /\ r[e] <= r[head]
  BY <1>3, <1>4, LaidTypes, Ranks
<1> QED BY <1>1, <1>2, <1>4, <1>5, <1>6

(* A string that is no UTF-8 is refused without a change.                   *)
LEMMA InvalidUtf8Kept == IInv /\ InvalidUtf8 => IInv'
<1> SUFFICES ASSUME IInv, InvalidUtf8 PROVE IInv'
  OBVIOUS
<1>1. PICK r, w : Good(r, w)
  BY DEF IInv
<1>2. /\ pc = "found" /\ Return
      /\ height' = height /\ next' = next /\ skip' = skip /\ data' = data
      /\ num_chars' = num_chars /\ num_bytes' = num_bytes
  BY DEF InvalidUtf8, Found, heap
<1>3. /\ Lists(height, next, skip, data, r, w) /\ Filled(height, data)
      /\ num_chars = Len(w[head]) /\ num_bytes = Bytes(w[head])
  BY <1>1, <1>2, HeldIs DEF Whole, Counted
<1> QED BY <1>2, <1>3, ReturnKept

(* An insertion or a removal is an edit of the characters of the node.      *)
LEMMA InsertIsEdit ==
  ASSUME NEW d \in Cell, NEW dt \in [Cell -> Seq(Char)], NEW off \in 0 .. Len(dt[d]),
         NEW s \in Seq(Char)
  PROVE  EditOf(dt, [dt EXCEPT ![d] = StringInsert(@, off, s)], d, off, s, off + 1)
<1>1. PICK t \in Seq(Char) : t = dt[d] /\ off \in 0 .. Len(t)
  OBVIOUS
<1>2. off + 1 \in off + 1 .. Len(t) + 1 /\ off \in Nat /\ Len(t) \in Nat
  BY <1>1
<1>3. StringInsert(t, off, s) = Splice(t, off, s, off + 1)
  BY DEF StringInsert, Splice, Seqs!Splice
<1>4. Splice(t, off, s, off + 1) \in Seq(Char)
  BY <1>1, <1>2, SplicedLen
<1>5. PICK v \in Seq(Char) : v = StringInsert(dt[d], off, s) /\ v = Splice(dt[d], off, s, off + 1)
  BY <1>1, <1>3, <1>4
<1>6. [dt EXCEPT ![d] = StringInsert(@, off, s)] = [dt EXCEPT ![d] = v]
  BY <1>5
<1>7. /\ [dt EXCEPT ![d] = v] \in [Cell -> Seq(Char)] /\ [dt EXCEPT ![d] = v][d] = v
      /\ \A c \in Cell : c # d => [dt EXCEPT ![d] = v][c] = dt[c]
  OBVIOUS
<1> QED BY <1>1, <1>2, <1>5, <1>6, <1>7 DEF EditOf

(* Erasing within a node is such an edit, with nothing put in.              *)
LEMMA EraseIsEdit ==
  ASSUME NEW d \in Cell, NEW dt \in [Cell -> Seq(Char)], NEW off \in 0 .. Len(dt[d]),
         NEW n \in 0 .. Len(dt[d]) - off
  PROVE  EditOf(dt, [dt EXCEPT ![d] = StringErase(@, off, n)], d, off, << >>, off + n + 1)
<1>1. PICK t \in Seq(Char) : t = dt[d] /\ off \in 0 .. Len(t) /\ n \in 0 .. Len(t) - off
  OBVIOUS
<1>2. off + n + 1 \in off + 1 .. Len(t) + 1 /\ off \in Nat /\ Len(t) \in Nat
  BY <1>1
<1>3. << >> \in Seq(Char)
  OBVIOUS
<1>4. StringErase(t, off, n) = Splice(t, off, << >>, off + n + 1)
  <2>1. SubSeq(t, 1, off) \in Seq(Char)
    BY <1>1, <1>2
  <2>2. SubSeq(t, 1, off) \o << >> = SubSeq(t, 1, off)
    BY <2>1
  <2> QED BY <2>2 DEF StringErase, Splice, Seqs!Splice
<1>5. Splice(t, off, << >>, off + n + 1) \in Seq(Char)
  BY <1>1, <1>2, <1>3, SplicedLen
<1>6. PICK v \in Seq(Char) : v = StringErase(dt[d], off, n) /\ v = Splice(dt[d], off, << >>, off + n + 1)
  BY <1>1, <1>4, <1>5
<1>7. [dt EXCEPT ![d] = StringErase(@, off, n)] = [dt EXCEPT ![d] = v]
  BY <1>6
<1>8. /\ [dt EXCEPT ![d] = v] \in [Cell -> Seq(Char)] /\ [dt EXCEPT ![d] = v][d] = v
      /\ \A c \in Cell : c # d => [dt EXCEPT ![d] = v][c] = dt[c]
  OBVIOUS
<1> QED BY <1>1, <1>2, <1>3, <1>6, <1>7, <1>8 DEF EditOf

(* A valid string is characters.                                            *)
LEMMA ValidType ==
  ASSUME NEW s \in Seq(Char \cup {Bad}), Valid(s)
  PROVE  s \in Seq(Char) /\ Len(s) \in Nat /\ Bytes(s) \in Nat
<1>1. \A i \in 1 .. Len(s) : s[i] \in Char
  BY DEF Valid, ToSet
<1>2. s = [i \in 1 .. Len(s) |-> s[i]] /\ Len(s) \in Nat
  OBVIOUS
<1>3. s \in Seq(Char)
  BY <1>1, <1>2
<1> QED BY <1>2, <1>3, BytesType

(* update_offset_list.                                                      *)
LEMMA SpansAre ==
  ASSUME NEW k \in Int, NEW it, skip \in [Cell -> [Levels -> Nat]], height[head] \in Nat
  PROVE  Reskipped(height, skip, Spans(it, k), IterNodes(it), k)
<1>1. \A i \in Levels : i \in Reached <=> i < height[head]
  <2>1. \A i \in Levels : i \in Nat
    BY CellsAre
  <2> QED BY <2>1 DEF Reached
<1>2. Spans(it, k) \in [Cell -> [Levels -> Int]]
  <2>1. \A c \in Cell, i \in Levels : skip[c][i] \in Int /\ skip[c][i] + k \in Int
    OBVIOUS
  <2> QED BY <2>1 DEF Spans
<1>3. ASSUME NEW c \in Cell, NEW i \in Levels
      PROVE  Spans(it, k)[c][i] = IF i < height[head] /\ c = IterNodes(it)[i]
                                    THEN skip[c][i] + k ELSE skip[c][i]
  BY <1>1 DEF Spans, IterNodes
<1> QED BY <1>2, <1>3 DEF Reskipped

(* The characters an edit adds.                                             *)
Growth(s, off, q) == Len(s) - (q - off - 1)

(* An edit of the rope, the cells and the skips.                            *)
Editing(ht, sk, sk2, dt, dt2, r, d, off, s, q) ==
  /\ EditOf(dt, dt2, d, off, s, q)
  /\ \E sp : /\ Spanning(ht, r, sp, d)
             /\ Reskipped(ht, sk, sk2, sp, Growth(s, off, q))

(* The list it leaves behind: its lengths, its size and its text.           *)
Reworked(ht, nx, sk2, dt, dt2, r, w, w2, d, off, s, q) ==
  /\ Lists(ht, nx, sk2, dt2, r, w2)
  /\ \A c \in Live(ht) :
       Len(w2[c]) = IF r[d] <= r[c] THEN Len(w[c]) + Growth(s, off, q) ELSE Len(w[c])
  /\ Len(w2[head]) = Len(w[head]) + Growth(s, off, q)
  /\ Bytes(w2[head]) = Bytes(w[head]) - Bytes(SubSeq(dt[d], off + 1, q - 1)) + Bytes(s)
  /\ Bytes(dt2[d]) = Bytes(dt[d]) - Bytes(SubSeq(dt[d], off + 1, q - 1)) + Bytes(s)
  /\ Bytes(SubSeq(dt[d], off + 1, q - 1)) <= Bytes(w[head])
  /\ Bytes(SubSeq(dt[d], off + 1, q - 1)) \in Nat
  /\ w2[head] = Splice(w[head], Before(w, d, head) + off, s, Before(w, d, head) + q)

(* The text with s between its first p characters and those from q on is    *)
(* that of the next state.                                                  *)
Spliced(w, p, s, q) ==
  \E r2, w2 : /\ Lists(height', next', skip', data', r2, w2)
              /\ w2[head] = Splice(w[head], p, s, q)

(* off characters into the cell d is the position of the call.              *)
AtPlace(w, d, off) == off = Len(w[d]) - Behindhand(w)

(* The position of the call in the text, seen from a cell d before it.      *)
LEMMA PlaceIs ==
  ASSUME TypeOK, pc \in {"find", "found", "del"}, NEW r, NEW w, Good(r, w),
         NEW d \in Live(height), NEW off \in Nat, AtPlace(w, d, off)
  PROVE  /\ Before(w, d, head) + off = MinOf(req.pos, Len(w[head]))
         /\ MinOf(req.pos, Len(w[head])) \in Nat
         /\ MinOf(req.pos, Len(w[head])) = Len(w[head]) - Behindhand(w)
<1>1. /\ Behindhand(w) \in Nat /\ Behindhand(w) <= Len(w[head])
      /\ Len(w[head]) - Behindhand(w) = MinOf(req.pos, Len(w[head]))
  BY BehindhandIs
<1>2. Len(w[head]) \in Nat /\ Len(w[d]) \in Nat
  BY HeldIs, LaidTypes DEF Whole, Live
<1>3. PICK x \in Nat, y \in Nat, k \in Nat :
        x = Len(w[head]) /\ y = Len(w[d]) /\ k = Behindhand(w) /\ k <= x /\ off = y - k
  BY <1>1, <1>2 DEF AtPlace
<1>4. (x - y) + (y - k) = x - k /\ x - k \in Nat
  <2>1. k <= x
    BY <1>3
  <2> QED BY <2>1
<1>5. Before(w, d, head) = x - y
  BY <1>3 DEF Before
<1> QED BY <1>1, <1>3, <1>4, <1>5

(* Every edit leaves such a list behind.                                    *)
LEMMA Edited ==
  ASSUME NEW ht, NEW nx, NEW sk, NEW dt, NEW r, NEW w, Lists(ht, nx, sk, dt, r, w),
         NEW d \in Live(ht), NEW sk2, NEW dt2, NEW off, NEW s, NEW q,
         Editing(ht, sk, sk2, dt, dt2, r, d, off, s, q)
  PROVE  \E w2 : Reworked(ht, nx, sk2, dt, dt2, r, w, w2, d, off, s, q)
<1>0. PICK sp : /\ EditOf(dt, dt2, d, off, s, q) /\ Spanning(ht, r, sp, d)
                /\ Reskipped(ht, sk, sk2, sp, Len(s) - (q - off - 1))
  BY DEF Editing, Growth
<1>1. /\ Laid(ht, nx, dt, r, w) /\ head \in Live(ht) /\ d \in Live(ht)
      /\ head \in Cell /\ ht[head] > 0
  BY ListsLaid, CellsAre
<1>2. r[d] <= r[head]
  BY <1>1, Ranks
<1>3. PICK w2 : w2 = Rewritten(ht, r, w, d, off, s, q)
  OBVIOUS
<1>4. /\ Lists(ht, nx, sk2, dt2, r, w2)
      /\ \A c \in Cell :
           Len(w2[c]) = IF ht[c] > 0 /\ r[d] <= r[c] THEN Len(w[c]) + (Len(s) - (q - off - 1))
                                                     ELSE Len(w[c])
  BY <1>0, <1>3, Edit
<1>5. \A c \in Live(ht) :
        Len(w2[c]) = IF r[d] <= r[c] THEN Len(w[c]) + (Len(s) - (q - off - 1)) ELSE Len(w[c])
  BY <1>4 DEF Live
<1>6. Len(w2[head]) = Len(w[head]) + (Len(s) - (q - off - 1))
  BY <1>1, <1>2, <1>4
<1>7. w2[head] = Splice(w[head], Before(w, d, head) + off, s, Before(w, d, head) + q)
  BY <1>1, <1>2, <1>3 DEF Rewritten
<1>8. /\ Bytes(w2[head]) = Bytes(w[head]) - Bytes(SubSeq(dt[d], off + 1, q - 1)) + Bytes(s)
      /\ Bytes(dt2[d]) = Bytes(dt[d]) - Bytes(SubSeq(dt[d], off + 1, q - 1)) + Bytes(s)
      /\ Bytes(SubSeq(dt[d], off + 1, q - 1)) <= Bytes(w[head])
      /\ Bytes(SubSeq(dt[d], off + 1, q - 1)) \in Nat
  BY <1>0, <1>1, <1>2, <1>3, EditBytes
<1> QED BY <1>4, <1>5, <1>6, <1>7, <1>8 DEF Reworked, Growth

(* The insertion that the call asks for.                                    *)
Inserts(w) == \E p \in Nat : /\ p = MinOf(req.pos, Len(w[head]))
                             /\ Spliced(w, p, req.str, p + 1)

(* The string put into d.                                                   *)
LEMMA PutKept ==
  ASSUME TypeOK, pc = "found", NEW r, NEW w, Good(r, w),
         NEW d \in Live(height), NEW off \in 0 .. Len(data[d]), NEW it, Put(d, off, it),
         req.str \in Seq(Char), Room(d),
         Spanning(height, r, IterNodes(it), d), AtPlace(w, d, off)
  PROVE  IInv' /\ Inserts(w)
<1>1. /\ Return /\ height' = height /\ next' = next
      /\ data' = [data EXCEPT ![d] = StringInsert(@, off, req.str)]
      /\ skip' = Spans(it, Len(req.str))
      /\ num_chars' = num_chars + Len(req.str)
      /\ num_bytes' = num_bytes + Bytes(req.str)
  BY DEF Put
<1>2. /\ Lists(height, next, skip, data, r, w) /\ Filled(height, data)
      /\ num_chars = Len(w[head]) /\ num_bytes = Bytes(w[head])
  BY HeldIs DEF Whole, Counted
<1>3. /\ data \in [Cell -> Seq(Char)] /\ skip \in [Cell -> [Levels -> Nat]]
      /\ height[head] \in Nat /\ d \in Cell /\ data[d] \in Seq(Char)
      /\ height[d] > 0 /\ Laid(height, next, data, r, w)
  BY <1>2, ListsLaid, LaidTypes, CellsAre DEF Live
<1>4. PICK s \in Seq(Char) : s = req.str
  OBVIOUS
<1>5. PICK q \in Nat : /\ q = off + 1 /\ q - 1 = off /\ Growth(s, off, q) = Len(s)
                       /\ Len(s) \in Nat /\ Bytes(s) \in Nat /\ off \in Nat
  BY <1>3, BytesType DEF Growth
<1>6. EditOf(data, data', d, off, s, q)
  BY <1>1, <1>3, <1>4, <1>5, InsertIsEdit
<1>7. Editing(height, skip, skip', data, data', r, d, off, s, q)
  <2>1. PICK k \in Int : k = Len(s) /\ skip' = Spans(it, k) /\ k = Growth(s, off, q)
    BY <1>1, <1>4, <1>5
  <2>2. Reskipped(height, skip, skip', IterNodes(it), k)
    BY <1>3, <2>1, SpansAre
  <2> QED BY <1>6, <2>1, <2>2 DEF Editing
<1>8. PICK w2 : Reworked(height, next, skip', data, data', r, w, w2, d, off, s, q)
  BY <1>2, <1>7, Edited
<1>9. Bytes(SubSeq(data[d], off + 1, q - 1)) = 0
  <2>1. SubSeq(data[d], off + 1, off) = << >>
    BY <1>3, <1>5
  <2> QED BY <1>5, <2>1, BytesNone
<1>10. /\ Bytes(w[head]) \in Nat /\ Bytes(data[d]) \in Nat /\ Len(w[head]) \in Nat
  BY <1>2, <1>3, ListsLaid, BytesType
<1>11. /\ Len(w2[head]) = Len(w[head]) + Len(s)
       /\ Bytes(w2[head]) = Bytes(w[head]) + Bytes(s)
       /\ Bytes(data'[d]) = Bytes(data[d]) + Bytes(s)
  <2>1. PICK x \in Nat, y \in Nat, z \in Nat, l \in Nat, m \in Nat :
          /\ x = Bytes(w[head]) /\ y = Bytes(data[d]) /\ z = Len(w[head])
          /\ l = Len(s) /\ m = Bytes(s)
    BY <1>5, <1>10
  <2>2. /\ Len(w2[head]) = z + l /\ Bytes(w2[head]) = x - 0 + m /\ Bytes(data'[d]) = y - 0 + m
    BY <1>5, <1>8, <1>9, <2>1 DEF Reworked
  <2>3. x - 0 + m = x + m /\ y - 0 + m = y + m
    OBVIOUS
  <2> QED BY <2>1, <2>2, <2>3
<1>12. d # head => data'[d] # << >>
  <2>1. ASSUME d # head PROVE data'[d] # << >>
    <3>1. data[d] # << >>
      BY <1>2, <1>3, <2>1, CellsAre DEF Filled
    <3>2. Len(data[d]) > 0
      BY <1>3, <3>1
    <3>3. data'[d] = Splice(data[d], off, s, q)
      BY <1>6 DEF EditOf
    <3>4. q \in off + 1 .. Len(data[d]) + 1
      BY <1>3, <1>5
    <3>5. Len(data'[d]) = Len(data[d]) + Growth(s, off, q)
      BY <1>3, <3>3, <3>4, SplicedLen DEF Growth
    <3>6. Len(data'[d]) > 0
      <4>1. PICK x \in Nat, y \in Nat : x = Len(data[d]) /\ x > 0 /\ y = Len(s)
        <5>1. Len(data[d]) \in Nat
          BY <1>3
        <5> QED BY <1>5, <3>2, <5>1
      <4>2. Len(data'[d]) = x + y
        BY <1>5, <3>5, <4>1
      <4>3. x + y > 0
        BY <4>1
      <4> QED BY <4>2, <4>3
    <3>7. Len(<< >>) = 0
      OBVIOUS
    <3> QED BY <3>6, <3>7
  <2> QED BY <2>1
<1>13. Filled(height, data')
  <2>1. Bytes(data'[d]) <= NodeStrSize
    BY <1>4, <1>11 DEF Room
  <2> QED BY <1>2, <1>6, <1>12, <2>1, EditFilled
<1>14. num_chars' = Len(w2[head]) /\ num_bytes' = Bytes(w2[head])
  BY <1>1, <1>2, <1>4, <1>11
<1>15. Lists(height', next', skip', data', r, w2) /\ Filled(height', data')
  BY <1>1, <1>8, <1>13 DEF Reworked
<1>16. IInv'
  BY <1>1, <1>14, <1>15, ReturnKept
<1>17. PICK p \in Nat : p = MinOf(req.pos, Len(w[head])) /\ p = Before(w, d, head) + off
  <2>1. off \in Nat
    BY <1>5
  <2>2. /\ Before(w, d, head) + off = MinOf(req.pos, Len(w[head]))
        /\ MinOf(req.pos, Len(w[head])) \in Nat
    BY <2>1, PlaceIs
  <2> QED BY <2>2
<1>18. Before(w, d, head) + q = p + 1
  <2>1. Before(w, d, head) \in Int
    <3>1. Len(w[d]) \in Nat
      BY <1>3, LaidTypes
    <3> QED BY <1>10, <3>1 DEF Before
  <2> QED BY <1>5, <1>17, <2>1
<1>19. w2[head] = Splice(w[head], p, req.str, p + 1)
  BY <1>4, <1>8, <1>17, <1>18 DEF Reworked
<1>20. Inserts(w)
  BY <1>15, <1>17, <1>19 DEF Inserts, Spliced
<1> QED BY <1>16, <1>20

(* The string goes into the node found.                                     *)
LEMMA InsertHereShown ==
  ASSUME TypeOK, NEW r, NEW w, Good(r, w), InsertHere
  PROVE  IInv' /\ Inserts(w)
<1>1. pc = "found" /\ Valid(req.str) /\ Room(e) /\ Put(e, offset, iter)
  BY DEF InsertHere, Found
<1>3. /\ Along(height, r, w, iter, e, Behindhand(w)) /\ e \in Live(height)
      /\ offset \in 0 .. Len(data[e]) /\ AtPlace(w, e, offset)
  BY <1>1, FoundAt DEF AtPlace
<1>4. req.str \in Seq(Char)
  <2>1. req.str \in Seq(Char \cup {Bad})
    BY <1>1, BehindhandIs DEF Request
  <2> QED BY <1>1, <2>1, ValidType
<1>5. Spanning(height, r, IterNodes(iter), e)
  BY <1>3, AlongSpans
<1> QED BY <1>1, <1>3, <1>4, <1>5, PutKept

(* The insertion into the node found keeps the invariant.                    *)
LEMMA InsertHereKept == IInv /\ InsertHere => IInv'
<1> SUFFICES ASSUME IInv, InsertHere PROVE IInv'
  OBVIOUS
<1>1. PICK r, w : Good(r, w)
  BY DEF IInv
<1> QED BY <1>1, InsertHereShown DEF IInv

(* It goes to the start of the next one.                                    *)
LEMMA InsertIntoNextShown ==
  ASSUME TypeOK, NEW r, NEW w, Good(r, w), InsertIntoNext
  PROVE  IInv' /\ Inserts(w)
<1>1. /\ pc = "found" /\ Valid(req.str) /\ next[e][0] # Nil /\ Room(next[e][0])
      /\ Put(next[e][0], 0, MovedTo(next[e][0])) /\ AtEnd
  BY DEF InsertIntoNext, Found, NextHasRoom
<1>3. PICK n : n = next[e][0]
  OBVIOUS
<1>4. /\ Along(height, r, w, iter, e, Behindhand(w)) /\ Laid(height, next, data, r, w)
      /\ e = iter[0].node /\ offset = iter[0].skip /\ Behindhand(w) \in Int
  BY <1>1, FoundAt, HeldIs, BehindhandIs DEF Whole
<1>5. /\ n \in Node /\ n \in Live(height) /\ r[n] < r[e]
      /\ Spanning(height, r, NextNodes(height, iter, n), n)
  BY <1>1, <1>3, <1>4, NextSpans
<1>6. 0 \in 0 .. Len(data[n])
  <2>1. Len(data[n]) \in Nat
    BY <1>4, <1>5, LaidTypes DEF Live
  <2> QED BY <2>1
<1>7. req.str \in Seq(Char)
  <2>1. req.str \in Seq(Char \cup {Bad})
    BY <1>1, BehindhandIs DEF Request
  <2> QED BY <1>1, <2>1, ValidType
<1>8. IterNodes(MovedTo(n)) = NextNodes(height, iter, n)
  <2>1. iter \in [Levels -> [node : Cell \cup {Nil}, skip : Nat]]
    BY <1>1 DEF TypeOK
  <2>2. ASSUME NEW i \in Levels
        PROVE  MovedTo(n)[i].node = IF i < height[n] THEN n ELSE iter[i].node
    <3>1. iter[i] \in [node : Cell \cup {Nil}, skip : Nat]
      BY <2>1
    <3>2. [iter[i] EXCEPT !.node = n].node = n
      BY <3>1
    <3> QED BY <3>2 DEF MovedTo
  <2> QED BY <2>2 DEF IterNodes, NextNodes
<1>9. Spanning(height, r, IterNodes(MovedTo(n)), n)
  BY <1>5, <1>8
<1>10. Put(n, 0, MovedTo(n)) /\ Room(n)
  BY <1>1, <1>3
<1>11. AtPlace(w, n, 0)
  <2>1. iter[0].skip = Len(data[e])
    BY <1>1, <1>4 DEF AtEnd
  <2>2. Len(After(w, n)) = Behindhand(w)
    BY <1>3, <1>4, <2>1, AlongEnd
  <2>3. After(w, n) = w[n]
    BY <1>1, <1>3 DEF After
  <2> QED BY <1>4, <2>2, <2>3 DEF AtPlace
<1> QED BY <1>1, <1>5, <1>6, <1>7, <1>9, <1>10, <1>11, PutKept

(* The insertion into the node behind it keeps the invariant.                *)
LEMMA InsertIntoNextKept == IInv /\ InsertIntoNext => IInv'
<1> SUFFICES ASSUME IInv, InsertIntoNext PROVE IInv'
  OBVIOUS
<1>1. PICK r, w : Good(r, w)
  BY DEF IInv
<1> QED BY <1>1, InsertIntoNextShown DEF IInv

(* The skip of level 0 is the number of characters of the cell.             *)
LEMMA SkipOfCell ==
  ASSUME NEW ht, NEW nx, NEW sk, NEW dt, NEW r, NEW w, Lists(ht, nx, sk, dt, r, w),
         NEW c \in Live(ht)
  PROVE  sk[c][0] = Len(dt[c]) /\ Len(dt[c]) \in Nat
<1>1. c \in Cell /\ 0 < ht[c] /\ Laid(ht, nx, dt, r, w) /\ Spanned(ht, nx, sk, w)
  <2>1. c \in Cell /\ ht[c] > 0 /\ Laid(ht, nx, dt, r, w) /\ Spanned(ht, nx, sk, w)
    BY ListsLaid DEF Live
  <2>2. ht[c] \in Nat
    BY <2>1, LaidTypes
  <2> QED BY <2>1, <2>2
<1>2. PICK y \in Seq(Char) : y = After(w, nx[c][0]) /\ Joined(w[c], dt[c], y)
  BY <1>1, TextsAre
<1>3. dt[c] \in Seq(Char)
  BY <1>1, LaidTypes
<1>4. Len(w[c]) = Len(dt[c]) + Len(y) /\ Len(y) \in Nat /\ Len(dt[c]) \in Nat
  BY <1>2, <1>3, JoinedLen
<1>5. sk[c][0] = Len(w[c]) - Len(y)
  BY <1>1, <1>2, CellsAre DEF Spanned
<1> QED BY <1>4, <1>5

(* A part of a sequence is the same part of what it begins with.            *)
LEMMA PartOfPrefix ==
  ASSUME NEW t \in Seq(Char), NEW b \in Nat, NEW p \in Nat, b <= p, p <= Len(t)
  PROVE  SubSeq(SubSeq(t, 1, p), b + 1, p) = SubSeq(t, b + 1, p)
<1>1. PICK x \in Seq(Char) : /\ x = SubSeq(t, 1, p) /\ Len(x) = p
                             /\ \A i \in 1 .. p : x[i] = t[i]
  <2>1. p \in 0 .. Len(t)
    OBVIOUS
  <2>2. SubSeq(t, 1, p) \in Seq(Char) /\ Len(SubSeq(t, 1, p)) = p
    BY <2>1, Seqs!SeqParts
  <2>3. \A i \in 1 .. p : SubSeq(t, 1, p)[i] = t[i]
    BY <2>1
  <2> QED BY <2>2, <2>3
<1>2. PICK y \in Seq(Char) : /\ y = SubSeq(t, b + 1, p) /\ Len(y) = p - b
                             /\ \A i \in 1 .. p - b : y[i] = t[i + b]
  <2>1. SubSeq(t, b + 1, p) \in Seq(Char) /\ Len(SubSeq(t, b + 1, p)) = p - b
    OBVIOUS
  <2>2. \A i \in 1 .. p - b : SubSeq(t, b + 1, p)[i] = t[i + b]
    OBVIOUS
  <2> QED BY <2>1, <2>2
<1>3. PICK z \in Seq(Char) : /\ z = SubSeq(x, b + 1, p) /\ Len(z) = p - b
                             /\ \A i \in 1 .. p - b : z[i] = x[i + b]
  <2>1. SubSeq(x, b + 1, p) \in Seq(Char) /\ Len(SubSeq(x, b + 1, p)) = p - b
    BY <1>1
  <2>2. \A i \in 1 .. p - b : SubSeq(x, b + 1, p)[i] = x[i + b]
    BY <1>1
  <2> QED BY <2>1, <2>2
<1>4. ASSUME NEW i \in 1 .. p - b PROVE z[i] = y[i]
  <2>1. i + b \in 1 .. p
    OBVIOUS
  <2> QED BY <1>1, <1>2, <1>3, <2>1
<1>5. z = y
  <2>1. Len(z) = Len(y) /\ \A i \in 1 .. Len(z) : z[i] = y[i]
    BY <1>2, <1>3, <1>4
  <2> QED BY <2>1
<1> QED BY <1>1, <1>2, <1>3, <1>5

(* Characters o + 1 to n of b are a part of it; o characters into it are p  *)
(* into a string that begins with a.                                        *)
PartOf(b, o, n) == o \in Nat /\ n \in Nat /\ o <= n /\ n <= Len(b)

(* p is the place o behind the whole of a.                                  *)
Past(a, o, p) == p \in Nat /\ p = Len(a) + o

(* p is the place, in the whole text, of the place o in the cell d.         *)
PastIn(w, d, o, p) == p \in Nat /\ p = Before(w, d, head) + o

(* What lies between p and q in t is what lies between o and n in b.        *)
Copied(t, p, q, b, o, n) == SubSeq(t, p + 1, q) = SubSeq(b, o + 1, n) /\ q <= Len(t)

(* A part of a string in a longer one.                                      *)
LEMMA PartBehind ==
  ASSUME NEW t, NEW a \in Seq(Char), NEW b \in Seq(Char), Joined(t, a, b),
         NEW o, NEW n, PartOf(b, o, n), NEW p, Past(a, o, p), NEW q, Past(a, n, q)
  PROVE  Copied(t, p, q, b, o, n)
<1>1. PICK k \in Nat : k = Len(a)
  OBVIOUS
<1>2. t = a \o b /\ t \in Seq(Char) /\ Len(t) = k + Len(b)
  BY <1>1 DEF Joined
<1>3. /\ o \in Nat /\ n \in Nat /\ o <= n /\ n <= Len(b)
      /\ p = k + o /\ q = k + n
  BY <1>1 DEF PartOf, Past
<1>4. SubSeq(t, k + o + 1, k + n) = SubSeq(b, o + 1, n) /\ k + n <= Len(t)
  BY <1>1, <1>2, <1>3
<1> QED BY <1>3, <1>4 DEF Copied

(* A part of what a string begins with.                                     *)
LEMMA PartBefore ==
  ASSUME NEW t, NEW b \in Seq(Char), NEW y \in Seq(Char), Joined(t, b, y),
         NEW o, NEW n, PartOf(b, o, n)
  PROVE  SubSeq(t, o + 1, n) = SubSeq(b, o + 1, n) /\ PartOf(t, o, n)
<1>1. t \in Seq(Char) /\ Len(t) = Len(b) + Len(y) /\ Len(b) \in Nat /\ Len(y) \in Nat
  BY JoinedLen
<1>2. o \in Nat /\ n \in Nat /\ o <= n /\ n <= Len(b) /\ n <= Len(t)
  BY <1>1 DEF PartOf
<1>3. SubSeq(t, 1, n) = SubSeq(b, 1, n)
  <2>1. n \in 0 .. Len(b)
    BY <1>2
  <2>2. SubSeq(b \o y, 1, n) = SubSeq(b, 1, n)
    BY <2>1, Seqs!PrefixLeft
  <2> QED BY <2>2 DEF Joined
<1>4. SubSeq(SubSeq(t, 1, n), o + 1, n) = SubSeq(t, o + 1, n)
  BY <1>1, <1>2, PartOfPrefix
<1>5. SubSeq(SubSeq(b, 1, n), o + 1, n) = SubSeq(b, o + 1, n)
  BY <1>2, PartOfPrefix
<1> QED BY <1>2, <1>3, <1>4, <1>5 DEF PartOf

(* Where the characters of a cell are in the text.                          *)
LEMMA PartIs ==
  ASSUME NEW ht, NEW nx, NEW dt, NEW r, NEW w, Laid(ht, nx, dt, r, w),
         NEW d \in Live(ht), NEW o, NEW n, PartOf(dt[d], o, n),
         NEW p, PastIn(w, d, o, p), NEW q, PastIn(w, d, n, q)
  PROVE  Copied(w[head], p, q, dt[d], o, n)
<1>1. d \in Cell /\ head \in Live(ht) /\ r[d] <= r[head]
  BY Ranks, LaidTypes, CellsAre DEF Live
<1>2. PICK y \in Seq(Char) : Joined(w[d], dt[d], y)
  BY <1>1, TextsAre
<1>3. PICK a \in Seq(Char) : Joined(w[head], a, w[d])
  <2>1. Seqs!EndsWith(Char, w[head], w[d])
    BY <1>1, Ends
  <2> QED BY <2>1 DEF Seqs!EndsWith, Joined
<1>4. w[d] \in Seq(Char) /\ dt[d] \in Seq(Char)
  BY <1>1, LaidTypes
<1>5. Past(a, o, p) /\ Past(a, n, q)
  <2>1. Len(w[head]) = Len(a) + Len(w[d]) /\ Len(a) \in Nat /\ Len(w[d]) \in Nat
    BY <1>3, <1>4, JoinedLen
  <2>2. Before(w, d, head) = Len(a)
    BY <2>1 DEF Before
  <2> QED BY <2>2 DEF Past, PastIn
<1>6. SubSeq(w[d], o + 1, n) = SubSeq(dt[d], o + 1, n) /\ PartOf(w[d], o, n)
  BY <1>2, <1>4, PartBefore
<1>7. Copied(w[head], p, q, w[d], o, n)
  BY <1>3, <1>4, <1>5, <1>6, PartBehind, Zenon
<1> QED BY <1>6, <1>7 DEF Copied

(* The end of a cell cut off.                                               *)
LEMMA CutIsEdit ==
  ASSUME NEW d \in Cell, NEW dt \in [Cell -> Seq(Char)], NEW off \in 0 .. Len(dt[d])
  PROVE  /\ EditOf(dt, [dt EXCEPT ![d] = SubSeq(@, 1, off)], d, off, << >>, Len(dt[d]) + 1)
         /\ SubSeq(dt[d], 1, off) \in Seq(Char) /\ Len(SubSeq(dt[d], 1, off)) = off
         /\ SubSeq(dt[d], off + 1, Len(dt[d])) \in Seq(Char)
         /\ Len(SubSeq(dt[d], off + 1, Len(dt[d]))) = Len(dt[d]) - off
<1>1. PICK t \in Seq(Char), n \in Nat : t = dt[d] /\ n = Len(t) /\ off \in 0 .. n
  OBVIOUS
<1>2. n + 1 \in off + 1 .. n + 1 /\ off \in Nat
  BY <1>1
<1>3. << >> \in Seq(Char)
  OBVIOUS
<1>4. SubSeq(t, 1, off) \in Seq(Char) /\ Len(SubSeq(t, 1, off)) = off
      /\ SubSeq(t, off + 1, n) \in Seq(Char) /\ Len(SubSeq(t, off + 1, n)) = n - off
  BY <1>1, <1>2
<1>5. SubSeq(t, 1, off) = Splice(t, off, << >>, n + 1)
  <2>1. SubSeq(t, n + 1, Len(t)) = << >>
    BY <1>1
  <2>2. SubSeq(t, 1, off) \o << >> = SubSeq(t, 1, off)
    BY <1>4
  <2> QED BY <2>1, <2>2 DEF Splice, Seqs!Splice
<1>6. PICK v \in Seq(Char) : v = SubSeq(dt[d], 1, off) /\ v = Splice(dt[d], off, << >>, n + 1)
  BY <1>1, <1>4, <1>5
<1>7. [dt EXCEPT ![d] = SubSeq(@, 1, off)] = [dt EXCEPT ![d] = v]
  BY <1>6
<1>8. /\ [dt EXCEPT ![d] = v] \in [Cell -> Seq(Char)] /\ [dt EXCEPT ![d] = v][d] = v
      /\ \A c \in Cell : c # d => [dt EXCEPT ![d] = v][c] = dt[c]
  OBVIOUS
<1>9. EditOf(dt, [dt EXCEPT ![d] = SubSeq(@, 1, off)], d, off, << >>, n + 1)
  BY <1>1, <1>2, <1>3, <1>6, <1>7, <1>8 DEF EditOf
<1> QED BY <1>1, <1>4, <1>9

(* The end of the node cut off at the position, to be put back.             *)
Cuts(w) == \E p, m \in Nat :
  /\ p = MinOf(req.pos, Len(w[head])) /\ m = Len(tail') /\ p + m <= Len(w[head])
  /\ tail' = SubSeq(w[head], p + 1, p + m) /\ Spliced(w, p, << >>, p + m + 1)

(* It is.                                                                   *)
LEMMA InsertCutShown ==
  ASSUME TypeOK, NEW r, NEW w, Good(r, w), InsertCut
  PROVE  IInv' /\ Cuts(w)
<1>1. /\ pc = "found" /\ req.op = "insert" /\ Valid(req.str)
      /\ tail' = SubSeq(data[e], offset + 1, Len(data[e]))
      /\ data' = [data EXCEPT ![e] = SubSeq(@, 1, offset)]
      /\ skip' = Spans(iter, -(skip[e][0] - offset))
      /\ num_chars' = num_chars - (skip[e][0] - offset)
      /\ num_bytes' = num_bytes - Bytes(tail')
      /\ rest' = req.str /\ pc' = "pieces"
      /\ height' = height /\ next' = next /\ req' = req /\ e' = e /\ offset' = offset
      /\ lvl' = lvl /\ iter' = iter
  BY DEF InsertCut, Found
<1>3. PICK k \in Nat : k = Behindhand(w) /\ k <= Len(w[head])
                       /\ Len(w[head]) - k = MinOf(req.pos, Len(w[head]))
  BY <1>1, BehindhandIs
<1>4. /\ Along(height, r, w, iter, e, k) /\ e \in Cell /\ e \in Live(height)
      /\ r[e] <= r[head] /\ e = iter[0].node /\ offset = iter[0].skip
      /\ offset \in Nat /\ offset <= Len(data[e]) /\ Len(data[e]) \in Nat
      /\ data[e] \in Seq(Char) /\ data \in [Cell -> Seq(Char)]
      /\ e = head \/ offset > 0
      /\ offset = Len(w[e]) - k /\ Len(w[e]) \in Nat
  BY <1>1, <1>3, FoundAt
<1>5. /\ Lists(height, next, skip, data, r, w) /\ Filled(height, data)
      /\ Laid(height, next, data, r, w)
      /\ num_chars = Len(w[head]) /\ num_bytes = Bytes(w[head])
      /\ skip \in [Cell -> [Levels -> Nat]] /\ height[head] \in Nat
      /\ Len(w[head]) \in Nat /\ Bytes(w[head]) \in Nat
  BY <1>1, HeldIs, ListsLaid, LaidTypes, CellsAre DEF Whole, Counted
<1>6. PICK n \in Nat, o \in Nat, m \in Nat :
        n = Len(data[e]) /\ o = offset /\ o \in 0 .. n /\ m = n - o /\ skip[e][0] - offset = m
  <2>1. PICK n \in Nat, o \in Nat : n = Len(data[e]) /\ o = offset /\ o <= n
    BY <1>4
  <2>2. skip[e][0] = n
    BY <1>4, <1>5, <2>1, SkipOfCell
  <2>3. o \in 0 .. n /\ n - o \in Nat
    BY <2>1
  <2> QED BY <2>1, <2>2, <2>3
<1>7. req.str \in Seq(Char) /\ Len(req.str) \in Nat
  <2>1. req.str \in Seq(Char \cup {Bad})
    BY <1>1, BehindhandIs DEF Request
  <2> QED BY <1>1, <2>1, ValidType
<1>8. /\ EditOf(data, data', e, o, << >>, n + 1)
      /\ data'[e] = SubSeq(data[e], 1, o)
      /\ SubSeq(data[e], 1, o) \in Seq(Char) /\ Len(SubSeq(data[e], 1, o)) = o
      /\ tail' \in Seq(Char) /\ Len(tail') = m
  BY <1>1, <1>4, <1>6, CutIsEdit, Zenon
<1>9. Growth(<< >>, o, n + 1) = -m
  <2>1. m = n - o /\ Len(<< >>) = 0
    BY <1>6
  <2>2. 0 - (n + 1 - o - 1) = -(n - o)
    OBVIOUS
  <2> QED BY <2>1, <2>2 DEF Growth
<1>10. Editing(height, skip, skip', data, data', r, e, o, << >>, n + 1)
  <2>1. PICK j \in Int : j = -m /\ skip' = Spans(iter, j)
    <3>1. skip' = Spans(iter, -m)
      BY <1>1, <1>6
    <3>2. -m \in Int
      BY <1>6
    <3> QED BY <3>1, <3>2
  <2>2. Reskipped(height, skip, skip', IterNodes(iter), j)
    BY <1>5, <2>1, SpansAre
  <2>3. Spanning(height, r, IterNodes(iter), e)
    BY <1>4, AlongSpans
  <2> QED BY <1>8, <1>9, <2>1, <2>2, <2>3 DEF Editing
<1>11. PICK w2 : Reworked(height, next, skip', data, data', r, w, w2, e, o, << >>, n + 1)
  BY <1>4, <1>5, <1>10, Edited
<1>12. /\ Lists(height, next, skip', data', r, w2)
       /\ \A c \in Live(height) : r[e] <= r[c] => Len(w2[c]) = Len(w[c]) - m
       /\ Len(w2[head]) = Len(w[head]) - m
  <2>1. \A c \in Live(height) : Len(w[c]) \in Nat
    BY <1>5, LaidTypes DEF Live
  <2>2. \A x \in Nat : x + (-m) = x - m
    OBVIOUS
  <2>3. /\ Lists(height, next, skip', data', r, w2)
        /\ \A c \in Live(height) : r[e] <= r[c] => Len(w2[c]) = Len(w[c]) + (-m)
        /\ Len(w2[head]) = Len(w[head]) + (-m)
    BY <1>9, <1>11 DEF Reworked
  <2> QED BY <1>5, <2>1, <2>2, <2>3
<1>13. /\ Bytes(w2[head]) = Bytes(w[head]) - Bytes(tail')
       /\ Bytes(data'[e]) = Bytes(data[e]) - Bytes(tail')
       /\ Bytes(tail') \in Nat /\ Bytes(data[e]) \in Nat
  <2>1. n + 1 - 1 = n
    OBVIOUS
  <2>2. tail' = SubSeq(data[e], o + 1, n + 1 - 1)
    BY <1>1, <1>6, <2>1
  <2>3. /\ Bytes(w2[head]) = Bytes(w[head]) - Bytes(tail') + 0
        /\ Bytes(data'[e]) = Bytes(data[e]) - Bytes(tail') + 0
        /\ Bytes(tail') \in Nat
    BY <1>11, <2>2, BytesNone DEF Reworked
  <2>4. Bytes(data[e]) \in Nat
    BY <1>4, BytesType
  <2> QED BY <1>5, <2>3, <2>4
<1>14. Bytes(data'[e]) <= NodeStrSize /\ Bytes(tail') <= NodeStrSize
  <2>1. Bytes(data[e]) <= NodeStrSize
    BY <1>4, <1>5 DEF Filled
  <2>2. Bytes(data'[e]) \in Nat
    BY <1>8, BytesType
  <2> QED BY <1>13, <2>1, <2>2, CellsAre
<1>15. Filled(height, data')
  <2>1. e # head => data'[e] # << >>
    <3>1. ASSUME e # head PROVE data'[e] # << >>
      <4>1. Len(data'[e]) = o /\ o > 0
        BY <1>4, <1>6, <1>8, <3>1
      <4>2. Len(<< >>) = 0
        OBVIOUS
      <4> QED BY <4>1, <4>2
    <3> QED BY <3>1
  <2> QED BY <1>4, <1>5, <1>8, <1>14, <2>1, EditFilled, Zenon
<1>16. num_chars' = Len(w2[head]) /\ num_bytes' = Bytes(w2[head])
  BY <1>1, <1>5, <1>6, <1>12, <1>13
<1>17. TypeOK'
  <2>1. /\ height \in [Cell -> 0 .. MaxHeight] /\ height[head] > 0
        /\ next \in [Cell -> [Levels -> Pointer]]
        /\ skip' \in [Cell -> [Levels -> Nat]] /\ data' \in [Cell -> Seq(Char)]
        /\ num_chars' \in Nat /\ num_bytes' \in Nat
    BY <1>12, <1>16, ListsLaid
  <2> QED BY <1>1, <1>7, <1>8, <2>1 DEF TypeOK
<1>18. Along(height, r, w2, iter, e, k + (-m))
  <2>1. PICK j \in Int : j = -m
    <3>1. -m \in Int
      OBVIOUS
    <3> QED BY <3>1
  <2>2. \A c \in Live(height) : r[e] <= r[c] => Len(w2[c]) = Len(w[c]) + j
    <3>1. \A c \in Live(height) : Len(w[c]) \in Nat
      BY <1>5, LaidTypes DEF Live
    <3>2. \A x \in Nat : x + (-m) = x - m
      OBVIOUS
    <3> QED BY <1>12, <2>1, <3>1, <3>2
  <2>3. k \in Int /\ Along(height, r, w, iter, e, k) /\ Laid(height, next, data, r, w)
    BY <1>4, <1>5
  <2>4. Along(height, r, w2, iter, e, k + j)
    BY <2>2, <2>3, AlongMoves, Zenon
  <2> QED BY <2>1, <2>4
<1>19. PICK x \in Nat, y \in Nat, p \in Nat :
         /\ x = Len(w[head]) /\ y = Len(w[e]) /\ p = x - k
         /\ p = MinOf(req.pos, x) /\ o = y - k /\ k <= x /\ n <= y
  <2>1. Len(data[e]) <= Len(w[e])
    BY <1>4, <1>5, Apart
  <2>2. PICK x \in Nat, y \in Nat : x = Len(w[head]) /\ y = Len(w[e])
    BY <1>4, <1>5
  <2>3. x - k \in Nat
    BY <1>3, <2>2
  <2>4. k <= x /\ x - k = MinOf(req.pos, x) /\ o = y - k /\ n <= y
    BY <1>3, <1>4, <1>6, <2>1, <2>2
  <2> QED BY <2>2, <2>3, <2>4
<1>20. /\ x - m \in Nat /\ (x - m) + m = x /\ p + 0 <= x - m
       /\ (y - m) - o = k + (-m)
       /\ (y - m) - o = (x - m) - p - 0
  <2>1. m = n - o /\ m \in Nat /\ p = x - k /\ o = y - k /\ n <= y /\ k <= x
    BY <1>6, <1>19
  <2> QED BY <2>1
<1>21. Done' = 0 /\ Len(rest') = Len(req.str) /\ rest' = SubSeq(req.str, 0 + 1, Len(req.str))
  BY <1>1, <1>7 DEF Done
<1>22. Began(w2)' = p
  <2>1. req'.pos = req.pos /\ Len(tail') = m /\ Len(w2[head]) = x - m
    BY <1>1, <1>8, <1>12, <1>19
  <2>2. Began(w2)' = MinOf(req'.pos, Len(w2[head]) + Len(tail') - Done')
    BY DEF Began
  <2>3. (x - m) + m - 0 = x
    BY <1>20
  <2> QED BY <1>19, <1>21, <2>1, <2>2, <2>3
<1>23. r[e] <= r[e]
  BY <1>4, <1>5, LaidTypes
<1>24. Len(w2[e]) = y - m /\ Len(w2[head]) = x - m
  BY <1>4, <1>12, <1>19, <1>23
<1>25. Standing(r, w2, Len(w2[e]) - iter[0].skip)' /\ AtEndOf(e)'
  <2>1. Len(data'[e]) = o
    BY <1>8
  <2>2. Inside(e)' /\ AtEndOf(e)'
    <3>1. o <= o
      BY <1>6
    <3> QED BY <1>1, <1>4, <1>6, <2>1, <3>1 DEF Inside, AtEndOf
  <2>3. Len(w2[e]) - iter[0].skip = k + (-m)
    BY <1>4, <1>6, <1>20, <1>24
  <2> QED BY <1>1, <1>4, <1>18, <2>2, <2>3, Zenon DEF Standing
<1>26. SubSeq(w2[head], p + 1, p + 0) = SubSeq(req.str, 1, 0)
  <2>1. w2[head] \in Seq(Char)
    BY <1>12, ListsLaid
  <2>2. SubSeq(w2[head], p + 1, p + 0) = << >>
    BY <2>1
  <2>3. SubSeq(req.str, 1, 0) = << >>
    BY <1>7
  <2> QED BY <2>2, <2>3
<1>27. Piecing(r, w2)'
  <2>1. /\ Bytes(tail') <= NodeStrSize
        /\ Done' \in 0 .. Len(w2[head]) /\ rest' = SubSeq(req'.str, Done' + 1, Len(req'.str))
    <3>1. 0 \in 0 .. (x - m)
      BY <1>20
    <3> QED BY <1>1, <1>14, <1>21, <1>24, <3>1
  <2>2. /\ Began(w2)' + Done' <= Len(w2[head])
        /\ SubSeq(w2[head], Began(w2)' + 1, Began(w2)' + Done') = SubSeq(req'.str, 1, Done')
    BY <1>1, <1>20, <1>21, <1>22, <1>24, <1>26
  <2>3. Len(w2[e]) - iter'[0].skip = Len(w2[head]) - Began(w2)' - Done'
    BY <1>1, <1>4, <1>6, <1>20, <1>21, <1>22, <1>24, Zenon
  <2>4. iter'[0].node = e
    BY <1>1, <1>4
  <2> QED BY <1>1, <1>25, <2>1, <2>2, <2>3, <2>4 DEF Piecing, Standing
<1>28. Good(r, w2)'
  <2>1. Lists(height', next', skip', data', r, w2) /\ Filled(height', data')
    BY <1>1, <1>12, <1>15
  <2>2. Counted(w2)' /\ Served(w2)'
    <3>1. Len(w2[head]) - 0 = Len(w2[head])
      BY <1>20, <1>24
    <3> QED BY <1>1, <1>16, <3>1 DEF Counted, Served
  <2>3. Cleared(height', next', data')
    BY <2>1, ListsLaid
  <2> QED BY <1>1, <1>27, <2>1, <2>2, <2>3 DEF Good, Whole, Held
<1>29. IInv'
  BY <1>17, <1>28 DEF IInv
<1>30. /\ p = Before(w, e, head) + o /\ p + m = Before(w, e, head) + n
       /\ p + m + 1 = Before(w, e, head) + (n + 1) /\ p + m \in Nat
       /\ p = MinOf(req.pos, Len(w[head]))
  <2>1. AtPlace(w, e, o)
    BY <1>3, <1>4, <1>6 DEF AtPlace
  <2>2. Before(w, e, head) + o = MinOf(req.pos, Len(w[head]))
    BY <1>1, <1>4, <1>6, <2>1, PlaceIs
  <2>3. PICK b \in Int : b = Before(w, e, head)
    <3>1. Before(w, e, head) = x - y
      BY <1>19 DEF Before
    <3>2. x - y \in Int
      OBVIOUS
    <3> QED BY <3>1, <3>2, Zenon
  <2>4. p = b + o /\ m = n - o /\ p \in Nat /\ m \in Nat
    BY <1>6, <1>19, <2>2, <2>3
  <2>5. p + m = b + n /\ p + m + 1 = b + (n + 1) /\ p + m \in Nat
    BY <2>4
  <2> QED BY <1>19, <2>3, <2>4, <2>5, Zenon
<1>31. Copied(w[head], p, p + m, data[e], o, n)
  <2>1. PICK pm \in Nat : pm = p + m
    BY <1>30
  <2>2. PartOf(data[e], o, n)
    BY <1>6 DEF PartOf
  <2>3. PastIn(w, e, o, p) /\ PastIn(w, e, n, pm)
    BY <1>30, <2>1 DEF PastIn
  <2>4. Copied(w[head], p, pm, data[e], o, n)
    BY <1>4, <1>5, <2>2, <2>3, PartIs
  <2> QED BY <2>1, <2>4
<1>32. p + m <= Len(w[head]) /\ tail' = SubSeq(w[head], p + 1, p + m)
  BY <1>1, <1>6, <1>31 DEF Copied
<1>33. Spliced(w, p, << >>, p + m + 1)
  <2>1. Lists(height', next', skip', data', r, w2)
    BY <1>1, <1>12
  <2>2. w2[head] = Splice(w[head], p, << >>, p + m + 1)
    BY <1>11, <1>30 DEF Reworked
  <2> QED BY <2>1, <2>2 DEF Spliced
<1>34. Cuts(w)
  BY <1>8, <1>30, <1>32, <1>33 DEF Cuts
<1> QED BY <1>29, <1>34

(* The cut keeps the invariant.                                              *)
LEMMA InsertCutKept == IInv /\ InsertCut => IInv'
<1> SUFFICES ASSUME IInv, InsertCut PROVE IInv'
  OBVIOUS
<1>1. PICK r, w : Good(r, w)
  BY DEF IInv
<1> QED BY <1>1, InsertCutShown DEF IInv

-----------------------------------------------------------------------------
(***************************************************************************)
(* Every step keeps it: a new node.                                        *)
(***************************************************************************)
(* A string put at the end of a cell.                                       *)
LEMMA AppendIsEdit ==
  ASSUME NEW d \in Cell, NEW dt \in [Cell -> Seq(Char)], NEW s \in Seq(Char)
  PROVE  /\ EditOf(dt, [dt EXCEPT ![d] = @ \o s], d, Len(dt[d]), s, Len(dt[d]) + 1)
         /\ Joined([dt EXCEPT ![d] = @ \o s][d], dt[d], s)
<1>1. PICK t \in Seq(Char), n \in Nat : t = dt[d] /\ n = Len(t)
  OBVIOUS
<1>2. n \in 0 .. n /\ n + 1 \in n + 1 .. n + 1
  OBVIOUS
<1>3. t \o s = Splice(t, n, s, n + 1)
  <2>1. SubSeq(t, 1, n) = t /\ SubSeq(t, n + 1, n) = << >>
    BY <1>1
  <2>2. (t \o s) \o << >> = t \o s
    <3>1. t \o s \in Seq(Char)
      OBVIOUS
    <3> QED BY <3>1
  <2> QED BY <1>1, <2>1, <2>2 DEF Splice, Seqs!Splice
<1>4. PICK v \in Seq(Char) : v = t \o s
  <2>1. t \o s \in Seq(Char)
    OBVIOUS
  <2> QED BY <2>1
<1>5. [dt EXCEPT ![d] = @ \o s] = [dt EXCEPT ![d] = v]
  BY <1>1, <1>4
<1>6. /\ [dt EXCEPT ![d] = v] \in [Cell -> Seq(Char)] /\ [dt EXCEPT ![d] = v][d] = v
      /\ \A c \in Cell : c # d => [dt EXCEPT ![d] = v][c] = dt[c]
  OBVIOUS
<1> QED BY <1>1, <1>2, <1>3, <1>4, <1>5, <1>6 DEF EditOf, Joined

(* The texts from u and the cells before it on are j characters longer.     *)
Longer(ht, r, w, w2, u, j) ==
  \A c \in Live(ht) : r[u] <= r[c] => Len(w2[c]) = Len(w[c]) + j

(* The iterator moved j characters on within its cell.                      *)
Shifted(it, it2, j) ==
  \A i \in Levels : it2[i].node = it[i].node /\ it2[i].skip = it[i].skip + j

(* The iterator, moved along with what is put behind the cell it stands on. *)
LEMMA AlongShift ==
  ASSUME NEW ht, NEW nx, NEW dt, NEW r, NEW w, Laid(ht, nx, dt, r, w),
         NEW it, NEW u, NEW k \in Int, Along(ht, r, w, it, u, k),
         NEW w2, NEW j \in Int, Longer(ht, r, w, w2, u, j), NEW it2, Shifted(it, it2, j)
  PROVE  Along(ht, r, w2, it2, u, k)
<1>1. u \in Cell /\ ht[u] > 0 /\ it2[0].node = u
  BY AlongAt, CellsAre DEF Shifted
<1>2. ASSUME NEW i \in Levels, i < ht[head]
      PROVE  LastBefore(ht, r, it2[i].node, u, i) /\ it2[i].skip = Len(w2[it2[i].node]) - k
  <2>1. PICK b \in Live(ht) : /\ b = it[i].node /\ r[u] <= r[b] /\ it[i].skip = Len(w[b]) - k
                              /\ LastBefore(ht, r, it[i].node, u, i)
    BY <1>2, AlongAt
  <2>2. Len(w2[b]) = Len(w[b]) + j /\ Len(w[b]) \in Nat
    BY <2>1, LaidTypes DEF Live, Longer
  <2>3. PICK x \in Nat : x = Len(w[b])
    BY <2>2
  <2>4. it2[i].skip = (x - k) + j /\ Len(w2[b]) = x + j /\ it2[i].node = b
    BY <2>1, <2>2, <2>3 DEF Shifted
  <2>5. (x - k) + j = (x + j) - k
    OBVIOUS
  <2> QED BY <2>1, <2>4, <2>5
<1> QED BY <1>1, <1>2 DEF Along

(* What insert_at does to the skips, from the cells of the iterator.        *)
Threaded(ht, sk, sk2, it, n, h, len) ==
  \A c \in Cell, i \in Levels :
    sk2[c][i] = IF i < h /\ c = n THEN len + sk[it[i].node][i] - it[i].skip
                ELSE IF i < h /\ c = it[i].node THEN it[i].skip
                ELSE IF i < ht[head] /\ c = it[i].node THEN sk[c][i] + len
                ELSE sk[c][i]

(* The iterator behind the new node.                                        *)
Following(ht, it, it2, n, h, len) ==
  \A i \in Levels :
    /\ i < h => it2[i].node = n /\ it2[i].skip = len
    /\ i < ht[head] /\ ~(i < h) => it2[i].node = it[i].node /\ it2[i].skip = it[i].skip + len
(* The new node behind the iterator.                                        *)
Adding(ht, nx, sk, dt, nx2, sk2, dt2, it, n, h, s) ==
  /\ nx2 \in [Cell -> [Levels -> Pointer]] /\ Branched(nx, nx2, IterNodes(it), n, h)
  /\ sk2 \in [Cell -> [Levels -> Int]] /\ Threaded(ht, sk, sk2, it, n, h, Len(s))
  /\ dt2 = [dt EXCEPT ![n] = s]

(* The list then, and the iterator.                                         *)
Added(ht, nx2, sk2, dt2, r2, w, w2, it2, n, h, s, k) ==
  /\ Lists([ht EXCEPT ![n] = h], nx2, sk2, dt2, r2, w2)
  /\ Along([ht EXCEPT ![n] = h], r2, w2, it2, n, k)
  /\ Len(w2[head]) = Len(w[head]) + Len(s)
  /\ Bytes(w2[head]) = Bytes(w[head]) + Bytes(s)
  /\ \E p \in Nat : /\ p = Len(w[head]) - k
                    /\ w2[head] = Splice(w[head], p, s, p + 1)

(* The nodes, skips and texts after insert_at: the lists are lists again,   *)
(* with the text s behind the iterator.                                     *)
LEMMA AddNode ==
  ASSUME NEW ht, NEW nx, NEW sk, NEW dt, NEW r, NEW w, Lists(ht, nx, sk, dt, r, w),
         NEW it,
         NEW u, NEW k \in Nat, Along(ht, r, w, it, u, k), it[0].skip = Len(dt[u]),
         NEW n \in Node, ht[n] = 0, NEW h \in Nat, h > 0, h < ht[head],
         NEW s \in Seq(Char), NEW nx2, NEW sk2, NEW dt2,
         Adding(ht, nx, sk, dt, nx2, sk2, dt2, it, n, h, s),
         NEW it2, Following(ht, it, it2, n, h, Len(s))
  PROVE  \E r2, w2 : Added(ht, nx2, sk2, dt2, r2, w, w2, it2, n, h, s, k)
<1>1. /\ Laid(ht, nx, dt, r, w) /\ head \in Live(ht) /\ ht[head] \in Nat
      /\ dt \in [Cell -> Seq(Char)] /\ sk \in [Cell -> [Levels -> Nat]]
      /\ w[head] \in Seq(Char) /\ Len(w[head]) \in Nat /\ Bytes(w[head]) \in Nat
  <2>1. /\ Laid(ht, nx, dt, r, w) /\ head \in Live(ht)
        /\ dt \in [Cell -> Seq(Char)] /\ sk \in [Cell -> [Levels -> Nat]]
        /\ w[head] \in Seq(Char) /\ Len(w[head]) \in Nat /\ Bytes(w[head]) \in Nat
    BY ListsLaid
  <2> QED BY <2>1, LaidTypes, CellsAre
<1>2. /\ u \in Cell /\ u \in Live(ht) /\ ht[u] > 0 /\ it[0].node = u
      /\ it[0].skip = Len(w[u]) - k
      /\ dt[u] \in Seq(Char) /\ Len(dt[u]) \in Nat /\ Len(w[u]) \in Nat /\ r[u] <= r[head]
      /\ n # u /\ n # head /\ n \in Cell
  <2>1. /\ u \in Cell /\ u \in Live(ht) /\ ht[u] > 0 /\ it[0].node = u
        /\ it[0].skip = Len(w[u]) - k
    <3>1. Laid(ht, nx, dt, r, w)
      BY <1>1
    <3>2. u \in Cell /\ u \in Live(ht) /\ it[0].node = u
      BY <3>1, AlongHere
    <3>3. it[0].skip = Len(w[u]) - k
      BY <3>1, AlongHere
    <3> QED BY <3>2, <3>3 DEF Live
  <2>2. n # u /\ n # head /\ n \in Cell
    BY <2>1, CellsAre
  <2> QED BY <1>1, <2>1, <2>2, LaidTypes, Ranks
<1>3. PICK l \in Nat : l = Len(s)
  OBVIOUS
<1>4. PICK m \in Nat, q \in Nat : m = Len(dt[u]) /\ q = m + 1 /\ q - 1 = m /\ Growth(s, m, q) = l
  <2>1. PICK m \in Nat : m = Len(dt[u])
    BY <1>2
  <2>2. m + 1 \in Nat /\ m + 1 - 1 = m /\ m + 1 - m - 1 = 0 /\ l - 0 = l
    OBVIOUS
  <2> QED BY <1>3, <2>1, <2>2 DEF Growth
<1>5. PICK dt1 : /\ dt1 \in [Cell -> Seq(Char)]
                 /\ EditOf(dt, dt1, u, m, s, q) /\ Joined(dt1[u], dt[u], s)
                 /\ \A c \in Cell : c # u => dt1[c] = dt[c]
  <2>1. PICK f : f = [dt EXCEPT ![u] = @ \o s]
    OBVIOUS
  <2>2. EditOf(dt, f, u, m, s, q) /\ Joined(f[u], dt[u], s)
    BY <1>1, <1>2, <1>4, <2>1, AppendIsEdit
  <2> QED BY <2>2 DEF EditOf
<1>6. PICK sk1 : /\ sk1 \in [Cell -> [Levels -> Int]]
                 /\ \A c \in Cell, i \in Levels :
                      sk1[c][i] = IF i < ht[head] /\ c = it[i].node THEN sk[c][i] + l ELSE sk[c][i]
  <2>1. \A c \in Cell, i \in Levels : sk[c][i] \in Int /\ sk[c][i] + l \in Int
    BY <1>1
  <2>2. PICK f : f = [c \in Cell |-> [i \in Levels |->
                       IF i < ht[head] /\ c = it[i].node THEN sk[c][i] + l ELSE sk[c][i]]]
    OBVIOUS
  <2>3. f \in [Cell -> [Levels -> Int]]
    BY <2>1, <2>2
  <2>4. \A c \in Cell, i \in Levels :
          f[c][i] = IF i < ht[head] /\ c = it[i].node THEN sk[c][i] + l ELSE sk[c][i]
    BY <2>2
  <2> QED BY <2>3, <2>4
<1>7. Editing(ht, sk, sk1, dt, dt1, r, u, m, s, q)
  <2>1. Reskipped(ht, sk, sk1, IterNodes(it), l)
    BY <1>6 DEF Reskipped, IterNodes
  <2>2. Spanning(ht, r, IterNodes(it), u)
    BY AlongSpans
  <2> QED BY <1>4, <1>5, <2>1, <2>2 DEF Editing
<1>8. PICK w1 : Reworked(ht, nx, sk1, dt, dt1, r, w, w1, u, m, s, q)
  BY <1>2, <1>7, Edited
<1>9. /\ Lists(ht, nx, sk1, dt1, r, w1) /\ Laid(ht, nx, dt1, r, w1)
      /\ \A c \in Live(ht) : r[u] <= r[c] => Len(w1[c]) = Len(w[c]) + l
      /\ Len(w1[head]) = Len(w[head]) + l
      /\ w1[head] = Splice(w[head], Before(w, u, head) + m, s, Before(w, u, head) + q)
  BY <1>4, <1>8, ListsLaid DEF Reworked
<1>10. Bytes(w1[head]) = Bytes(w[head]) + Bytes(s)
  <2>1. SubSeq(dt[u], m + 1, q - 1) = << >>
    BY <1>2, <1>4
  <2>2. Bytes(w1[head]) = Bytes(w[head]) - 0 + Bytes(s)
    BY <1>8, <2>1, BytesNone DEF Reworked
  <2>3. Bytes(s) \in Nat
    BY BytesType
  <2> QED BY <1>1, <2>2, <2>3
<1>11. PICK it1 : \A i \in Levels : it1[i].node = it[i].node /\ it1[i].skip = it[i].skip + l
  <2>1. PICK f : f = [i \in Levels |-> [node |-> it[i].node, skip |-> it[i].skip + l]]
    OBVIOUS
  <2>2. \A i \in Levels : f[i].node = it[i].node /\ f[i].skip = it[i].skip + l
    BY <2>1
  <2> QED BY <2>2
<1>12. Along(ht, r, w1, it1, u, k)
  <2>1. k \in Int /\ l \in Int
    OBVIOUS
  <2>2. Laid(ht, nx, dt, r, w)
    BY <1>1
  <2>3. Longer(ht, r, w, w1, u, l) /\ Shifted(it, it1, l)
    BY <1>9, <1>11 DEF Longer, Shifted
  <2> QED BY <2>1, <2>2, <2>3, AlongShift
<1>13. PICK y \in Seq(Char) : y = After(w1, nx[u][0]) /\ Len(y) = k
  <2>1. it1[0].skip = Len(dt1[u])
    <3>1. Len(dt1[u]) = m + l
      BY <1>2, <1>3, <1>4, <1>5, JoinedLen
    <3> QED BY <1>4, <1>11, <3>1, CellsAre
  <2>2. k \in Int /\ Laid(ht, nx, dt1, r, w1)
    BY <1>9
  <2> QED BY <1>12, <2>1, <2>2, AlongEnd
<1>14. PICK t \in Seq(Char) : Joined(t, s, y) /\ Len(t) = l + k /\ Len(t) - k = l
  <2>1. PICK t : Joined(t, s, y)
    BY DEF Joined
  <2>2. t \in Seq(Char) /\ Len(t) = l + k
    BY <1>3, <1>13, <2>1, JoinedLen
  <2>3. l + k - k = l
    OBVIOUS
  <2> QED BY <2>1, <2>2, <2>3
<1>15. /\ nx2 \in [Cell -> [Levels -> Pointer]] /\ Branched(nx, nx2, IterNodes(it), n, h)
       /\ sk2 \in [Cell -> [Levels -> Int]] /\ Threaded(ht, sk, sk2, it, n, h, l)
       /\ dt2 = [dt EXCEPT ![n] = s] /\ dt2 \in [Cell -> Seq(Char)]
       /\ dt2[n] = s /\ \A c \in Cell : c # n => dt2[c] = dt[c]
  <2>1. dt2 = [dt EXCEPT ![n] = s]
    BY DEF Adding
  <2> QED BY <1>1, <1>2, <1>3, <2>1 DEF Adding
<1>16. Parted(dt1, dt2, u, n, dt[u], s)
  BY <1>2, <1>5, <1>15 DEF Parted
<1>17. \A i \in Levels : i < h =>
         /\ LastBefore(ht, r, it[i].node, u, i)
         /\ IterNodes(it)[i] = it[i].node /\ i < ht[head]
         /\ it[i].node \in Cell /\ it[i].node \in Live(ht) /\ it[i].node # n
         /\ r[u] <= r[it[i].node]
         /\ it[i].skip = Len(w[it[i].node]) - k
  <2>1. \A i \in Levels : i < h => i < ht[head]
    <3>1. \A i \in Levels : i \in Nat
      BY CellsAre
    <3> QED BY <1>1, <3>1
  <2>2. Laid(ht, nx, dt, r, w)
    BY <1>1
  <2>3. \A i \in Levels : i < ht[head] =>
         /\ LastBefore(ht, r, it[i].node, u, i)
         /\ it[i].node \in Cell /\ it[i].node \in Live(ht)
         /\ r[u] <= r[it[i].node]
         /\ it[i].skip = Len(w[it[i].node]) - k
    BY <2>2, AlongAt
  <2>4. n \notin Live(ht)
    BY DEF Live
  <2> QED BY <2>1, <2>3, <2>4 DEF IterNodes
<1>18. Bridged(sk1, sk2, w1, IterNodes(it), n, h, t)
  <2> SUFFICES ASSUME NEW c \in Cell, NEW i \in Levels
               PROVE  sk2[c][i] =
                        IF i < h /\ c = n
                          THEN sk1[IterNodes(it)[i]][i] - (Len(w1[IterNodes(it)[i]]) - Len(t))
                        ELSE IF i < h /\ c = IterNodes(it)[i] THEN Len(w1[c]) - Len(t) ELSE sk1[c][i]
    BY DEF Bridged
  <2>1. sk2[c][i] = IF i < h /\ c = n THEN l + sk[it[i].node][i] - it[i].skip
                ELSE IF i < h /\ c = it[i].node THEN it[i].skip
                ELSE IF i < ht[head] /\ c = it[i].node THEN sk[c][i] + l
                ELSE sk[c][i]
    BY <1>15 DEF Threaded
  <2>2. IterNodes(it)[i] = it[i].node
    BY DEF IterNodes
  <2>3. ASSUME i < h
        PROVE  \E b \in Cell, x \in Nat, z \in Nat :
                 /\ b = it[i].node /\ x = Len(w[b]) /\ z = sk[b][i] /\ it[i].skip = x - k
                 /\ Len(w1[b]) = x + l /\ sk1[b][i] = z + l
    <3>1. PICK b \in Cell : /\ b = it[i].node /\ b \in Live(ht) /\ r[u] <= r[b]
                            /\ it[i].skip = Len(w[b]) - k /\ i < ht[head]
      BY <1>17, <2>3
    <3>2. Len(w[b]) \in Nat /\ sk[b][i] \in Nat
      BY <1>1, LaidTypes
    <3>3. Len(w1[b]) = Len(w[b]) + l
      BY <1>9, <3>1
    <3>4. sk1[b][i] = sk[b][i] + l
      BY <1>6, <3>1
    <3> QED BY <3>1, <3>2, <3>3, <3>4
  <2>4. CASE i < h /\ c = n
    <3>1. PICK b \in Cell, x \in Nat, z \in Nat :
            /\ b = it[i].node /\ x = Len(w[b]) /\ z = sk[b][i] /\ it[i].skip = x - k
            /\ Len(w1[b]) = x + l /\ sk1[b][i] = z + l
      BY <2>3, <2>4
    <3>2. sk2[c][i] = l + z - (x - k)
      BY <2>1, <2>4, <3>1
    <3>3. sk1[IterNodes(it)[i]][i] - (Len(w1[IterNodes(it)[i]]) - Len(t)) = (z + l) - ((x + l) - (l + k))
      BY <1>14, <2>2, <3>1
    <3>4. l + z - (x - k) = (z + l) - ((x + l) - (l + k))
      OBVIOUS
    <3> QED BY <2>4, <3>2, <3>3, <3>4
  <2>5. CASE i < h /\ c # n /\ c = it[i].node
    <3>1. PICK b \in Cell, x \in Nat, z \in Nat :
            /\ b = it[i].node /\ x = Len(w[b]) /\ z = sk[b][i] /\ it[i].skip = x - k
            /\ Len(w1[b]) = x + l /\ sk1[b][i] = z + l
      BY <2>3, <2>5
    <3>2. sk2[c][i] = x - k
      BY <2>1, <2>5, <3>1
    <3>3. Len(w1[c]) - Len(t) = (x + l) - (l + k)
      BY <1>14, <2>5, <3>1
    <3>4. (x + l) - (l + k) = x - k
      OBVIOUS
    <3> QED BY <2>2, <2>5, <3>2, <3>3, <3>4
  <2>6. CASE ~(i < h /\ c = n) /\ ~(i < h /\ c = it[i].node)
    <3>1. sk2[c][i] = sk1[c][i]
      BY <1>6, <2>1, <2>6
    <3> QED BY <2>2, <2>6, <3>1
  <2> QED BY <2>4, <2>5, <2>6
<1>19. PICK w2 : w2 = [w1 EXCEPT ![n] = t]
  OBVIOUS
<1>20. Lists([ht EXCEPT ![n] = h], nx2, sk2, dt2, Wedged(r, u, n), w2)
  <2>1. Joined(t, s, After(w1, nx[u][0]))
    BY <1>13, <1>14
  <2>2. \A i \in Levels : i < h => LastBefore(ht, r, IterNodes(it)[i], u, i)
    BY <1>17
  <2>3. Lists([ht EXCEPT ![n] = h], nx2, sk2, dt2, Wedged(r, u, n), [w1 EXCEPT ![n] = t])
    BY <1>2, <1>9, <1>15, <1>16, <1>18, <2>1, <2>2, Split
  <2> QED BY <1>19, <2>3
<1>21. Along([ht EXCEPT ![n] = h], Wedged(r, u, n), w2, it2, n, k)
  <2>1. Carried(ht, it1, it2, n, h, Len(t) - k)
    BY <1>3, <1>11, <1>14 DEF Following, Carried
  <2>3. Laid(ht, nx, dt1, r, w1)
    BY <1>9
  <2>4. Along([ht EXCEPT ![n] = h], Wedged(r, u, n), [w1 EXCEPT ![n] = t], it2, n, k)
    BY <1>2, <1>12, <2>1, <2>3, SplitAlong
  <2> QED BY <1>19, <2>4
<1>22. w2[head] = w1[head]
  <2>1. head \in Cell /\ w1 \in [Cell -> Seq(Char)]
    BY <1>9, CellsAre DEF Laid, Texts
  <2> QED BY <1>2, <1>19, <2>1
<1>23. PICK p \in Nat : /\ p = Len(w[head]) - k
                        /\ w2[head] = Splice(w[head], p, s, p + 1)
  <2>1. Len(w[u]) <= Len(w[head])
    BY <1>1, <1>2, Apart
  <2>2. PICK x \in Nat, z \in Nat : x = Len(w[head]) /\ z = Len(w[u]) /\ z <= x /\ z - k = m
    BY <1>1, <1>2, <1>4, <2>1
  <2>3. x - z + m = x - k /\ x - z + q = x - k + 1 /\ x - k \in Nat
    <3>1. q = m + 1 /\ z - k = m /\ z <= x
      BY <1>4, <2>2
    <3> QED BY <3>1
  <2>4. w2[head] = Splice(w[head], x - z + m, s, x - z + q)
    BY <1>9, <1>22, <2>2 DEF Before
  <2> QED BY <2>2, <2>3, <2>4
<1> QED BY <1>3, <1>9, <1>10, <1>20, <1>21, <1>22, <1>23 DEF Added

(* A node n that holds s has come behind the iterator.                      *)
LinkedIn(r2, w2, n, w, s, k) ==
  /\ Lists(height', next', skip', data', r2, w2) /\ Filled(height', data')
  /\ Along(height', r2, w2, iter', n, k)
  /\ n \in Cell /\ data'[n] = s /\ iter'[0].skip = Len(s) /\ iter'[0].node = n
  /\ iter' \in [Levels -> [node : Cell \cup {Nil}, skip : Nat]]
  /\ Len(w2[head]) = Len(w[head]) + Len(s)
  /\ Bytes(w2[head]) = Bytes(w[head]) + Bytes(s)
  /\ num_chars' = num_chars + Len(s) /\ num_bytes' = num_bytes + Bytes(s)
  /\ \E p \in Nat : /\ p = Len(w[head]) - k
                    /\ w2[head] = Splice(w[head], p, s, p + 1)

(* LinkNew, from the rope to the rope.                                      *)
LEMMA LinkNewIs ==
  ASSUME TypeOK, NEW r, NEW w, Lists(height, next, skip, data, r, w), Filled(height, data),
         NEW u, NEW k \in Nat, Along(height, r, w, iter, u, k), iter[0].skip = Len(data[u]),
         NEW s \in Seq(Char), s # << >>, Bytes(s) <= NodeStrSize, LinkNew(s)
  PROVE  \E r2, w2, n : LinkedIn(r2, w2, n, w, s, k)
<1> DEFINE it(hh) == Raised(iter, hh)
           nx(hh) == [next EXCEPT ![head] = Raised(@, hh)]
           sk(hh) == [skip EXCEPT ![head] = Raised(@, hh)]
           tp(hh) == IF height[head] <= hh THEN hh + 1 ELSE height[head]
<1>1. PICK n \in Free, h \in 1 .. MaxHeight - 1 :
        /\ height' = [height EXCEPT ![n] = h, ![head] = tp(h)]
        /\ data' = [data EXCEPT ![n] = s]
        /\ next' = [c \in Cell |-> [i \in Levels |->
                      CASE i < h /\ c = n -> nx(h)[it(h)[i].node][i]
                        [] i < h /\ c = it(h)[i].node -> n
                        [] OTHER -> nx(h)[c][i]]]
        /\ skip' = [c \in Cell |-> [i \in Levels |->
                      CASE i < h /\ c = n ->
                             Len(s) + sk(h)[it(h)[i].node][i] - it(h)[i].skip
                        [] i < h /\ c = it(h)[i].node -> it(h)[i].skip
                        [] i \in h .. tp(h) - 1 /\ c = it(h)[i].node -> sk(h)[c][i] + Len(s)
                        [] OTHER -> sk(h)[c][i]]]
        /\ iter' = IterBehind(it(h), n, h, tp(h), Len(s))
        /\ num_chars' = num_chars + Len(s)
        /\ num_bytes' = num_bytes + Bytes(s)
  BY DEF LinkNew
<1>2. /\ Laid(height, next, data, r, w) /\ height \in [Cell -> 0 .. MaxHeight] /\ height[head] > 0
      /\ next \in [Cell -> [Levels -> Pointer]] /\ skip \in [Cell -> [Levels -> Nat]]
      /\ data \in [Cell -> Seq(Char)]
      /\ iter \in [Levels -> [node : Cell \cup {Nil}, skip : Nat]]
  BY ListsLaid DEF TypeOK
<1>3. n \in Node /\ height[n] = 0 /\ n # head /\ n \in Cell /\ head \in Cell
  <2>1. n \in Node /\ ~(height[n] > 0)
    BY DEF Free, Allocated
  <2>2. n \in Cell /\ n # head /\ head \in Cell
    BY <2>1, CellsAre
  <2>3. height[n] \in Nat
    BY <1>2, <2>2, LaidTypes
  <2> QED BY <2>1, <2>2, <2>3
<1>4. PICK hd \in Nat, top \in Nat :
        /\ hd = height[head] /\ hd > 0 /\ top = tp(h) /\ hd <= top /\ top <= MaxHeight /\ h < top
        /\ top = IF hd <= h THEN h + 1 ELSE hd
  <2>1. PICK hd \in Nat : hd = height[head] /\ hd > 0 /\ hd <= MaxHeight
    BY <1>2, <1>3, LaidTypes
  <2>2. PICK top \in Nat : top = IF hd <= h THEN h + 1 ELSE hd
    OBVIOUS
  <2>3. hd <= top /\ top <= MaxHeight /\ h < top
    BY <2>1, <2>2, CellsAre
  <2> QED BY <2>1, <2>2, <2>3
<1>5. h \in Nat /\ h > 0 /\ \A i \in Levels : i \in Nat
  BY CellsAre
<1> HIDE DEF it, nx, sk, tp
<1>6. \A i \in Levels : i \in height[head] .. h <=> hd <= i /\ i < top
  BY <1>4, <1>5
<1>7. PICK nx1 : /\ nx1 = nx(h) /\ nx1 \in [Cell -> [Levels -> Pointer]]
                 /\ Heightened(next, nx1, hd, top)
  <2>1. hd - 1 \in Levels
    BY <1>2, <1>4, TopIsNil
  <2>2. PICK f : f = Raised(next[head], h)
    OBVIOUS
  <2>3. f = [i \in Levels |-> IF i \in height[head] .. h THEN next[head][hd - 1] ELSE next[head][i]]
    BY <1>4, <2>2 DEF Raised
  <2>4. /\ f \in [Levels -> Pointer]
        /\ \A i \in Levels : f[i] = IF hd <= i /\ i < top THEN next[head][hd - 1] ELSE next[head][i]
    <3>1. PICK g : g = next[head] /\ g \in [Levels -> Pointer]
      BY <1>2, <1>3
    <3>2. f = [i \in Levels |-> IF i \in height[head] .. h THEN g[hd - 1] ELSE g[i]]
      BY <2>3, <3>1
    <3>3. f \in [Levels -> Pointer]
      BY <2>1, <3>1, <3>2
    <3>4. \A i \in Levels : f[i] = IF hd <= i /\ i < top THEN g[hd - 1] ELSE g[i]
      BY <1>6, <3>2
    <3> QED BY <3>1, <3>3, <3>4
  <2>5. PICK g : g = nx(h) /\ g = [next EXCEPT ![head] = f]
    BY <2>2 DEF nx
  <2>6. g \in [Cell -> [Levels -> Pointer]] /\ g[head] = f /\ \A c \in Cell : c # head => g[c] = next[c]
    BY <1>2, <1>3, <2>4, <2>5
  <2>7. Heightened(next, g, hd, top)
    BY <2>4, <2>6 DEF Heightened
  <2> QED BY <2>5, <2>6, <2>7
<1>8. PICK sk1 : /\ sk1 = sk(h) /\ sk1 \in [Cell -> [Levels -> Nat]]
                 /\ Heightened(skip, sk1, hd, top)
  <2>1. hd - 1 \in Levels
    BY <1>2, <1>4, TopIsNil
  <2>2. PICK f : f = Raised(skip[head], h)
    OBVIOUS
  <2>3. f = [i \in Levels |-> IF i \in height[head] .. h THEN skip[head][hd - 1] ELSE skip[head][i]]
    BY <1>4, <2>2 DEF Raised
  <2>4. /\ f \in [Levels -> Nat]
        /\ \A i \in Levels : f[i] = IF hd <= i /\ i < top THEN skip[head][hd - 1] ELSE skip[head][i]
    <3>1. PICK g : g = skip[head] /\ g \in [Levels -> Nat]
      BY <1>2, <1>3
    <3>2. f = [i \in Levels |-> IF i \in height[head] .. h THEN g[hd - 1] ELSE g[i]]
      BY <2>3, <3>1
    <3>3. f \in [Levels -> Nat]
      BY <2>1, <3>1, <3>2
    <3>4. \A i \in Levels : f[i] = IF hd <= i /\ i < top THEN g[hd - 1] ELSE g[i]
      BY <1>6, <3>2
    <3> QED BY <3>1, <3>3, <3>4
  <2>5. PICK g : g = sk(h) /\ g = [skip EXCEPT ![head] = f]
    BY <2>2 DEF sk
  <2>6. g \in [Cell -> [Levels -> Nat]] /\ g[head] = f /\ \A c \in Cell : c # head => g[c] = skip[c]
    BY <1>2, <1>3, <2>4, <2>5
  <2>7. Heightened(skip, g, hd, top)
    BY <2>4, <2>6 DEF Heightened
  <2> QED BY <2>5, <2>6, <2>7
<1>9. PICK it1 : /\ it1 = it(h) /\ it1 \in [Levels -> [node : Cell \cup {Nil}, skip : Nat]]
                 /\ \A i \in Levels : it1[i] = IF hd <= i /\ i < top THEN iter[hd - 1] ELSE iter[i]
  <2>1. hd - 1 \in Levels
    BY <1>2, <1>4, TopIsNil
  <2>2. PICK f : f = it(h) /\ f = Raised(iter, h)
    BY DEF it
  <2>3. f = [i \in Levels |-> IF i \in height[head] .. h THEN iter[hd - 1] ELSE iter[i]]
    BY <1>4, <2>2 DEF Raised
  <2>4. /\ f \in [Levels -> [node : Cell \cup {Nil}, skip : Nat]]
        /\ \A i \in Levels : f[i] = IF hd <= i /\ i < top THEN iter[hd - 1] ELSE iter[i]
    BY <1>2, <1>6, <2>1, <2>3
  <2> QED BY <2>2, <2>4
<1>10. PICK ht1 : /\ ht1 = [height EXCEPT ![head] = top] /\ ht1[n] = 0 /\ ht1[head] = top
                  /\ height' = [ht1 EXCEPT ![n] = h]
  <2>1. [height EXCEPT ![n] = h, ![head] = top] = [[height EXCEPT ![head] = top] EXCEPT ![n] = h]
    BY <1>2, <1>3
  <2>2. PICK f : f = [height EXCEPT ![head] = top]
    OBVIOUS
  <2>3. f[n] = 0 /\ f[head] = top
    BY <1>2, <1>3, <2>2
  <2> QED BY <1>1, <1>4, <2>1, <2>2, <2>3
<1>11. Lists(ht1, nx1, sk1, data, r, w)
  BY <1>4, <1>7, <1>8, <1>10, Grow
<1>12. Along(ht1, r, w, it1, u, k) /\ it1[0] = iter[0]
  <2>1. Stretched(iter, it1, height[head], top)
    BY <1>4, <1>9 DEF Stretched
  <2>2. /\ Along([height EXCEPT ![head] = top], r, w, it1, u, k)
        /\ it1[0] = iter[0]
    <3>1. Laid(height, next, data, r, w) /\ height[head] <= top
      BY <1>2, <1>4
    <3> QED BY <2>1, <3>1, GrowAlong
  <2> QED BY <1>10, <2>2
<1>13. PICK l \in Nat : l = Len(s)
  OBVIOUS
<1>14. \A i \in Levels : i \in h .. tp(h) - 1 <=> h <= i /\ i < top
  BY <1>4, <1>5
<1>15. Branched(nx1, next', IterNodes(it1), n, h)
  <2>1. next' = [c \in Cell |-> [i \in Levels |->
                  CASE i < h /\ c = n -> nx1[it1[i].node][i]
                    [] i < h /\ c = it1[i].node -> n
                    [] OTHER -> nx1[c][i]]]
    BY <1>1, <1>7, <1>9
  <2>2. ASSUME NEW c \in Cell, NEW i \in Levels
        PROVE  next'[c][i] = IF i < h /\ c = n THEN nx1[it1[i].node][i]
                             ELSE IF i < h /\ c = it1[i].node THEN n ELSE nx1[c][i]
    <3>1. next'[c][i] = CASE i < h /\ c = n -> nx1[it1[i].node][i]
                          [] i < h /\ c = it1[i].node -> n
                          [] OTHER -> nx1[c][i]
      BY <2>1
    <3>2. n # it1[i].node \/ ~(i < h)
      <4>1. ASSUME i < h PROVE n # it1[i].node
        <5>1. i < ht1[head]
          BY <1>4, <1>5, <1>10, <4>1
        <5>2. i < ht1[it1[i].node]
          BY <1>12, <5>1 DEF Along, LastBefore
        <5> QED BY <1>5, <1>10, <5>2
      <4> QED BY <4>1
    <3> QED BY <3>1, <3>2
  <2> QED BY <2>2 DEF Branched, IterNodes
<1>16. Threaded(ht1, sk1, skip', it1, n, h, l)
  <2>1. skip' = [c \in Cell |-> [i \in Levels |->
                  CASE i < h /\ c = n -> l + sk1[it1[i].node][i] - it1[i].skip
                    [] i < h /\ c = it1[i].node -> it1[i].skip
                    [] i \in h .. tp(h) - 1 /\ c = it1[i].node -> sk1[c][i] + l
                    [] OTHER -> sk1[c][i]]]
    BY <1>1, <1>8, <1>9, <1>13
  <2>2. ASSUME NEW c \in Cell, NEW i \in Levels
        PROVE  skip'[c][i] = IF i < h /\ c = n THEN l + sk1[it1[i].node][i] - it1[i].skip
                ELSE IF i < h /\ c = it1[i].node THEN it1[i].skip
                ELSE IF i < ht1[head] /\ c = it1[i].node THEN sk1[c][i] + l
                ELSE sk1[c][i]
    <3>1. skip'[c][i] = CASE i < h /\ c = n -> l + sk1[it1[i].node][i] - it1[i].skip
                    [] i < h /\ c = it1[i].node -> it1[i].skip
                    [] i \in h .. tp(h) - 1 /\ c = it1[i].node -> sk1[c][i] + l
                    [] OTHER -> sk1[c][i]
      BY <2>1
    <3>2. n # it1[i].node \/ ~(i < h)
      <4>1. ASSUME i < h PROVE n # it1[i].node
        <5>1. i < ht1[head]
          BY <1>4, <1>5, <1>10, <4>1
        <5>2. i < ht1[it1[i].node]
          BY <1>12, <5>1 DEF Along, LastBefore
        <5> QED BY <1>5, <1>10, <5>2
      <4> QED BY <4>1
    <3>3. i \in h .. tp(h) - 1 <=> ~(i < h) /\ i < ht1[head]
      BY <1>5, <1>10, <1>14
    <3> QED BY <3>1, <3>2, <3>3
  <2> QED BY <2>2 DEF Threaded
<1>17. next' \in [Cell -> [Levels -> Pointer]]
  <2>1. ASSUME NEW c \in Cell, NEW i \in Levels PROVE next'[c][i] \in Pointer
    <3>1. next'[c][i] = IF i < h /\ c = n THEN nx1[IterNodes(it1)[i]][i]
                        ELSE IF i < h /\ c = IterNodes(it1)[i] THEN n ELSE nx1[c][i]
      BY <1>15 DEF Branched
    <3>2. i < h => IterNodes(it1)[i] \in Cell
      <4>1. ASSUME i < h PROVE it1[i].node \in Cell
        <5>1. i < ht1[head]
          BY <1>4, <1>5, <1>10, <4>1
        <5> QED BY <1>12, <5>1 DEF Along, LastBefore
      <4> QED BY <4>1 DEF IterNodes
    <3> QED BY <1>3, <1>7, <3>1, <3>2 DEF Pointer
  <2>2. PICK f : /\ f = next'
                 /\ f = [c \in Cell |-> [i \in Levels |->
                           CASE i < h /\ c = n -> nx1[it1[i].node][i]
                             [] i < h /\ c = it1[i].node -> n
                             [] OTHER -> nx1[c][i]]]
    BY <1>1, <1>7, <1>9
  <2>3. f = [c \in Cell |-> [i \in Levels |-> f[c][i]]]
    BY <2>2
  <2>4. \A c \in Cell, i \in Levels : f[c][i] \in Pointer
    BY <2>1, <2>2
  <2>5. f \in [Cell -> [Levels -> Pointer]]
    BY <2>3, <2>4
  <2> QED BY <2>2, <2>5
<1>18. skip' \in [Cell -> [Levels -> Int]]
  <2>1. ASSUME NEW c \in Cell, NEW i \in Levels PROVE skip'[c][i] \in Int
    <3>1. skip'[c][i] = IF i < h /\ c = n THEN l + sk1[it1[i].node][i] - it1[i].skip
                        ELSE IF i < h /\ c = it1[i].node THEN it1[i].skip
                        ELSE IF i < ht1[head] /\ c = it1[i].node THEN sk1[c][i] + l
                        ELSE sk1[c][i]
      BY <1>16 DEF Threaded
    <3>2. i < h => it1[i].node \in Cell
      <4>1. ASSUME i < h PROVE it1[i].node \in Cell
        <5>1. i < ht1[head]
          BY <1>4, <1>5, <1>10, <4>1
        <5> QED BY <1>12, <5>1 DEF Along, LastBefore
      <4> QED BY <4>1
    <3>3. it1[i].skip \in Nat /\ sk1[c][i] \in Nat
      BY <1>8, <1>9
    <3>4. i < h => sk1[it1[i].node][i] \in Nat
      BY <1>8, <3>2
    <3> QED BY <3>1, <3>3, <3>4
  <2>2. PICK f : /\ f = skip'
                 /\ f = [c \in Cell |-> [i \in Levels |->
                  CASE i < h /\ c = n -> l + sk1[it1[i].node][i] - it1[i].skip
                    [] i < h /\ c = it1[i].node -> it1[i].skip
                    [] i \in h .. tp(h) - 1 /\ c = it1[i].node -> sk1[c][i] + l
                    [] OTHER -> sk1[c][i]]]
    BY <1>1, <1>8, <1>9, <1>13
  <2>3. f = [c \in Cell |-> [i \in Levels |-> f[c][i]]]
    BY <2>2
  <2>4. \A c \in Cell, i \in Levels : f[c][i] \in Int
    BY <2>1, <2>2
  <2>5. f \in [Cell -> [Levels -> Int]]
    BY <2>3, <2>4
  <2> QED BY <2>2, <2>5
<1>19. Adding(ht1, nx1, sk1, data, next', skip', data', it1, n, h, s)
  BY <1>1, <1>13, <1>15, <1>16, <1>17, <1>18 DEF Adding
<1>20. /\ iter' \in [Levels -> [node : Cell \cup {Nil}, skip : Nat]]
       /\ Following(ht1, it1, iter', n, h, l)
       /\ iter'[0].node = n /\ iter'[0].skip = l
  <2>1. PICK f : /\ f = iter'
                 /\ f = [i \in Levels |-> CASE i < h -> [node |-> n, skip |-> l]
                           [] i \in h .. tp(h) - 1 -> [it1[i] EXCEPT !.skip = @ + l]
                           [] OTHER -> it1[i]]
    <3>1. iter' = IterBehind(it1, n, h, tp(h), l)
      BY <1>1, <1>9, <1>13
    <3> QED BY <3>1 DEF IterBehind
  <2>2. ASSUME NEW i \in Levels
        PROVE  /\ f[i] \in [node : Cell \cup {Nil}, skip : Nat]
               /\ i < h => f[i].node = n /\ f[i].skip = l
               /\ i < ht1[head] /\ ~(i < h) =>
                    f[i].node = it1[i].node /\ f[i].skip = it1[i].skip + l
    <3>1. PICK g \in [node : Cell \cup {Nil}, skip : Nat] : g = it1[i]
      BY <1>9
    <3>2. /\ [g EXCEPT !.skip = @ + l] \in [node : Cell \cup {Nil}, skip : Nat]
          /\ [g EXCEPT !.skip = @ + l].node = g.node
          /\ [g EXCEPT !.skip = @ + l].skip = g.skip + l
      BY <3>1
    <3>3. f[i] = CASE i < h -> [node |-> n, skip |-> l]
                   [] i \in h .. tp(h) - 1 -> [g EXCEPT !.skip = @ + l]
                   [] OTHER -> g
      BY <2>1, <3>1
    <3>4. CASE i < h
      <4>1. f[i] = [node |-> n, skip |-> l]
        <5>1. i \notin h .. tp(h) - 1
          BY <1>5, <1>14, <3>4
        <5> QED BY <3>3, <3>4, <5>1
      <4> QED BY <1>3, <3>4, <4>1
    <3>5. CASE ~(i < h) /\ i < ht1[head]
      <4>1. i \in h .. tp(h) - 1
        BY <1>5, <1>10, <1>14, <3>5
      <4>2. f[i] = [g EXCEPT !.skip = @ + l]
        BY <3>3, <3>5, <4>1
      <4> QED BY <3>1, <3>2, <3>5, <4>2
    <3>6. CASE ~(i < h) /\ ~(i < ht1[head])
      <4>1. i \notin h .. tp(h) - 1
        BY <1>5, <1>10, <1>14, <3>6
      <4>2. f[i] = g
        BY <3>3, <3>6, <4>1
      <4> QED BY <3>1, <3>6, <4>2
    <3> QED BY <3>4, <3>5, <3>6
  <2>3. f = [i \in Levels |-> f[i]]
    BY <2>1
  <2>4. f \in [Levels -> [node : Cell \cup {Nil}, skip : Nat]]
    BY <2>2, <2>3
  <2>5. 0 \in Levels /\ 0 < h
    BY <1>5, CellsAre
  <2>6. Following(ht1, it1, f, n, h, l)
    BY <2>2 DEF Following
  <2>7. f[0].node = n /\ f[0].skip = l
    BY <2>2, <2>5
  <2> QED BY <2>1, <2>4, <2>6, <2>7
<1>21. PICK r2, w2 : Added(ht1, next', skip', data', r2, w, w2, iter', n, h, s, k)
  <2>1. h < ht1[head] /\ ht1[n] = 0 /\ it1[0].skip = Len(data[u])
    BY <1>4, <1>10, <1>12
  <2>2. Following(ht1, it1, iter', n, h, Len(s))
    BY <1>13, <1>20
  <2>3. Along(ht1, r, w, it1, u, k)
    BY <1>12
  <2> QED BY <1>3, <1>5, <1>11, <1>19, <2>1, <2>2, <2>3, AddNode
<1>22. data'[n] = s /\ \A c \in Cell : c # n => data'[c] = data[c]
  BY <1>1, <1>2, <1>3
<1>23. Filled(height', data')
  <2>1. ASSUME NEW c \in Node, height'[c] > 0 PROVE data'[c] # << >>
    <3>1. CASE c = n
      BY <1>22, <3>1
    <3>2. CASE c # n
      <4>1. height'[c] = height[c]
        BY <1>2, <1>10, <3>2, CellsAre
      <4> QED BY <1>22, <2>1, <3>2, <4>1, CellsAre DEF Filled
    <3> QED BY <3>1, <3>2
  <2>2. ASSUME NEW c \in Cell PROVE Bytes(data'[c]) <= NodeStrSize
    BY <1>22 DEF Filled
  <2> QED BY <2>1, <2>2 DEF Filled
<1>24. /\ Lists(height', next', skip', data', r2, w2)
       /\ Along(height', r2, w2, iter', n, k)
       /\ Len(w2[head]) = Len(w[head]) + Len(s)
       /\ Bytes(w2[head]) = Bytes(w[head]) + Bytes(s)
       /\ \E p \in Nat : /\ p = Len(w[head]) - k
                         /\ w2[head] = Splice(w[head], p, s, p + 1)
  BY <1>10, <1>21 DEF Added
<1>25. /\ n \in Cell /\ data'[n] = s /\ iter'[0].skip = Len(s) /\ iter'[0].node = n
       /\ iter' \in [Levels -> [node : Cell \cup {Nil}, skip : Nat]]
       /\ num_chars' = num_chars + Len(s) /\ num_bytes' = num_bytes + Bytes(s)
  BY <1>1, <1>3, <1>13, <1>20, <1>22
<1>26. LinkedIn(r2, w2, n, w, s, k)
  BY <1>23, <1>24, <1>25, Zenon DEF LinkedIn
<1> QED BY <1>26

(* Where an insertion into new nodes stands.                                *)
LEMMA PiecingAt ==
  ASSUME TypeOK, pc = "pieces", NEW r, NEW w, Good(r, w)
  PROVE  /\ Lists(height, next, skip, data, r, w) /\ Filled(height, data)
         /\ Laid(height, next, data, r, w)
         /\ Counted(w) /\ Served(w) /\ Piecing(r, w)
         /\ w[head] \in Seq(Char) /\ Len(w[head]) \in Nat /\ Bytes(w[head]) \in Nat
         /\ num_chars = Len(w[head]) /\ num_bytes = Bytes(w[head])
         /\ req \in Request /\ req.op = "insert" /\ Valid(req.str) /\ req.pos \in Nat
         /\ req.str \in Seq(Char) /\ Len(req.str) \in Nat
         /\ iter[0].skip = Len(data[iter[0].node])
         /\ \E k \in Nat : /\ k = Len(w[iter[0].node]) - iter[0].skip
                           /\ Along(height, r, w, iter, iter[0].node, k)
<1>1. /\ Lists(height, next, skip, data, r, w) /\ Filled(height, data)
      /\ Laid(height, next, data, r, w)
      /\ Counted(w) /\ Served(w) /\ Piecing(r, w)
      /\ w[head] \in Seq(Char) /\ Len(w[head]) \in Nat
      /\ num_chars = Len(w[head])
  BY HeldIs DEF Whole, Good
<1>2. num_bytes = Bytes(w[head]) /\ Bytes(w[head]) \in Nat
  BY <1>1, BytesType DEF Counted
<1>3. req.op = "insert" /\ Valid(req.str) /\ req \in Request
  BY <1>1 DEF Served, TypeOK, NoRequest
<1>4. req.pos \in Nat /\ req.str \in Seq(Char \cup {Bad})
  BY <1>3 DEF Request
<1>5. req.str \in Seq(Char) /\ Len(req.str) \in Nat
  BY <1>3, <1>4, ValidType
<1>6. PICK u, kk : /\ u = iter[0].node /\ kk = Len(w[u]) - iter[0].skip
                   /\ Along(height, r, w, iter, u, kk) /\ iter[0].skip = Len(data[u])
  BY <1>1 DEF Piecing, Standing, AtEndOf
<1>7. u \in Cell /\ u \in Live(height)
  <2>1. u \in Cell /\ height[u] > 0
    BY <1>6 DEF Along
  <2> QED BY <2>1 DEF Live
<1>8. Len(data[u]) \in Nat /\ Len(w[u]) \in Nat /\ Len(data[u]) <= Len(w[u])
  BY <1>1, <1>7, LaidTypes, Apart
<1>9. kk \in Nat
  BY <1>6, <1>8
<1> QED BY <1>1, <1>2, <1>3, <1>4, <1>5, <1>6, <1>9

(* What a new node has changed: iter stands at its end, and s was put       *)
(* before the last k characters of the text.                                *)
Grew(r2, w2, w, s, k) ==
  /\ Held(r2, w2)' /\ Cleared(height', next', data')
  /\ \E v : /\ v = iter'[0].node /\ Standing(r2, w2, Len(w2[v]) - iter[0].skip)'
            /\ AtEndOf(v)' /\ Len(w2[v]) - iter'[0].skip = k
  /\ Len(w2[head]) = Len(w[head]) + Len(s)
  /\ \E p \in Nat : /\ p = Len(w[head]) - k
                    /\ w2[head] = Splice(w[head], p, s, p + 1)

(* What a new node keeps, but for what is known of rest and tail.           *)
LEMMA LinkKept ==
  ASSUME TypeOK, pc = "pieces", NEW r, NEW w, Good(r, w),
         NEW k \in Nat, k = Len(w[iter[0].node]) - iter[0].skip,
         NEW s \in Seq(Char), s # << >>, Bytes(s) <= NodeStrSize, LinkNew(s),
         pc' = pc, req' = req, e' = e, offset' = offset, lvl' = lvl,
         rest' \in Seq(Char), tail' \in Seq(Char)
  PROVE  TypeOK' /\ \E r2, w2 : Grew(r2, w2, w, s, k)
<1>1. /\ Lists(height, next, skip, data, r, w) /\ Filled(height, data)
      /\ w[head] \in Seq(Char) /\ Len(w[head]) \in Nat /\ Bytes(w[head]) \in Nat
      /\ num_chars = Len(w[head]) /\ num_bytes = Bytes(w[head])
      /\ Served(w)
      /\ iter[0].skip = Len(data[iter[0].node])
      /\ Along(height, r, w, iter, iter[0].node, k)
  BY PiecingAt
<1>0. PICK r2, w2, n : LinkedIn(r2, w2, n, w, s, k)
  <2>1. PICK u : /\ u = iter[0].node /\ iter[0].skip = Len(data[u])
                 /\ Along(height, r, w, iter, u, k)
    BY <1>1
  <2>2. Lists(height, next, skip, data, r, w) /\ Filled(height, data)
    BY <1>1
  <2> QED BY <2>1, <2>2, LinkNewIs
<1>2. /\ Lists(height', next', skip', data', r2, w2) /\ Filled(height', data')
      /\ Along(height', r2, w2, iter', n, k)
      /\ n \in Cell /\ data'[n] = s /\ iter'[0].skip = Len(s) /\ iter'[0].node = n
      /\ iter' \in [Levels -> [node : Cell \cup {Nil}, skip : Nat]]
      /\ Len(w2[head]) = Len(w[head]) + Len(s)
      /\ Bytes(w2[head]) = Bytes(w[head]) + Bytes(s)
      /\ num_chars' = num_chars + Len(s) /\ num_bytes' = num_bytes + Bytes(s)
      /\ \E p \in Nat : /\ p = Len(w[head]) - k
                        /\ w2[head] = Splice(w[head], p, s, p + 1)
  BY <1>0 DEF LinkedIn
<1>3. /\ Laid(height', next', data', r2, w2) /\ Cleared(height', next', data')
      /\ height' \in [Cell -> 0 .. MaxHeight] /\ height'[head] > 0
      /\ next' \in [Cell -> [Levels -> Pointer]]
      /\ skip' \in [Cell -> [Levels -> Nat]]
      /\ data' \in [Cell -> Seq(Char)]
      /\ Len(w2[head]) \in Nat /\ Bytes(w2[head]) \in Nat
  BY <1>2, ListsLaid
<1>4. num_chars' = Len(w2[head]) /\ num_bytes' = Bytes(w2[head])
  BY <1>1, <1>2
<1>5. TypeOK'
  BY <1>2, <1>3, <1>4 DEF TypeOK
<1>6. Counted(w2)' /\ Served(w2)'
  <2>1. Len(w2[head]) - 0 = Len(w2[head])
    BY <1>3
  <2> QED BY <1>1, <1>4, <2>1 DEF Counted, Served
<1>7. Held(r2, w2)'
  BY <1>2, <1>6 DEF Held
<1>8. PICK x \in Nat, l \in Nat : x = Len(w2[n]) /\ l = Len(s) /\ l = x - k /\ l > 0
  <2>1. Len(s) \in Nat /\ Len(s) > 0
    OBVIOUS
  <2>2. k \in Int
    OBVIOUS
  <2>3. Len(s) = Len(w2[n]) - k /\ Len(w2[n]) \in Nat
    <3>1. PICK f, g : f = height' /\ g = iter' /\ Along(f, r2, w2, g, n, k)
                      /\ Laid(f, next', data', r2, w2)
      BY <1>2, <1>3
    <3>2. g[0].skip = Len(w2[n]) - k /\ Len(w2[n]) \in Nat
      BY <2>2, <3>1, AlongHere
    <3> QED BY <1>2, <3>1, <3>2
  <2> QED BY <2>1, <2>3
<1>9. x - l = k /\ l <= l
  BY <1>8
<1>10. Len(w2[n]) - iter'[0].skip = k
  BY <1>2, <1>8, <1>9
<1>11. Standing(r2, w2, Len(w2[n]) - iter[0].skip)' /\ AtEndOf(n)'
  <2>1. AtEndOf(n)'
    BY <1>2 DEF AtEndOf
  <2>2. Inside(n)'
    BY <1>2, <1>8, <1>9 DEF Inside
  <2> QED BY <1>2, <1>10, <2>1, <2>2 DEF Standing
<1>12. PICK v : v = iter'[0].node /\ v = n
  BY <1>2
<1>13. /\ Standing(r2, w2, Len(w2[v]) - iter[0].skip)' /\ AtEndOf(v)'
       /\ Len(w2[v]) - iter'[0].skip = k
  BY <1>10, <1>11, <1>12
<1>14. Grew(r2, w2, w, s, k)
  BY <1>2, <1>3, <1>7, <1>12, <1>13 DEF Grew
<1> QED BY <1>5, <1>14

(* A piece fits a node.                                                     *)
LEMMA PieceFits ==
  ASSUME rest \in Seq(Char), rest # << >>
  PROVE  /\ PieceLen \in 1 .. Len(rest) /\ PieceLen \in Nat
         /\ Bytes(SubSeq(rest, 1, PieceLen)) <= NodeStrSize
<1> DEFINE fits(k) == Bytes(SubSeq(rest, 1, k)) <= NodeStrSize
           P(k) == fits(k) /\ (k = Len(rest) \/ ~fits(k + 1))
           S == {k \in 1 .. Len(rest) : k = Len(rest) \/ ~fits(k + 1)}
<1>1. Len(rest) \in Nat /\ Len(rest) > 0
  OBVIOUS
<1>2. S \subseteq Nat /\ S # {}
  BY <1>1
<1>3. PICK m \in S : \A j \in S : m <= j
  BY <1>2, Seqs!LeastNat
<1>4. m \in 1 .. Len(rest) /\ (m = Len(rest) \/ ~fits(m + 1))
  OBVIOUS
<1>5. fits(m)
  <2>1. CASE m = 1
    <3>1. SubSeq(rest, 1, 1) \in Seq(Char) /\ Len(SubSeq(rest, 1, 1)) = 1
          /\ SubSeq(rest, 1, 1)[1] \in Char
      BY <1>1
    <3>2. Bytes(SubSeq(rest, 1, 1)) = Width[SubSeq(rest, 1, 1)[1]]
      BY <3>1, BytesOne
    <3> QED BY <2>1, <3>1, <3>2, WidthIs
  <2>2. CASE m # 1
    <3>1. m - 1 \in 1 .. Len(rest) /\ m - 1 # Len(rest) /\ (m - 1) + 1 = m
      BY <1>1, <1>4, <2>2
    <3>2. m - 1 \notin S
      <4>1. ASSUME m - 1 \in S PROVE m <= m - 1
        BY <1>3, <4>1
      <4> QED BY <1>4, <4>1
    <3> HIDE DEF fits
    <3> QED BY <3>1, <3>2
  <2> QED BY <2>1, <2>2
<1>6. P(m)
  BY <1>4, <1>5
<1>7. PieceLen = CHOOSE k \in 1 .. Len(rest) : P(k)
  BY DEF PieceLen
<1> HIDE DEF P
<1>8. PieceLen \in 1 .. Len(rest) /\ P(PieceLen)
  BY <1>4, <1>6, <1>7
<1> QED BY <1>8 DEF P

(* The end of the part that is new, after a piece was put behind it.        *)
LEMMA GrownPart ==
  ASSUME NEW t \in Seq(Char), NEW s \in Seq(Char),
         NEW b \in Nat, NEW p \in Nat, b <= p, p <= Len(t)
  PROVE  /\ Joined(SubSeq(Splice(t, p, s, p + 1), b + 1, p + Len(s)), SubSeq(t, b + 1, p), s)
         /\ SubSeq(Splice(t, p, s, p + 1), b + 1, p) = SubSeq(t, b + 1, p)
<1>1. PICK x \in Seq(Char), f \in Seq(Char), n \in Nat, l \in Nat :
        /\ x = SubSeq(t, 1, p) /\ f = SubSeq(t, p + 1, Len(t)) /\ Len(x) = p
        /\ n = Len(t) /\ l = Len(s)
  <2>1. p \in 0 .. Len(t)
    OBVIOUS
  <2>2. Len(t) \in Nat /\ Len(s) \in Nat
    OBVIOUS
  <2>3. /\ SubSeq(t, 1, p) \in Seq(Char) /\ Len(SubSeq(t, 1, p)) = p
        /\ SubSeq(t, p + 1, Len(t)) \in Seq(Char)
    BY <2>1, Seqs!SeqParts
  <2> QED BY <2>2, <2>3
<1>2. PICK g \in Seq(Char) : g = x \o s /\ Len(g) = p + l
  <2>1. x \o s \in Seq(Char) /\ Len(x \o s) = Len(x) + Len(s)
    OBVIOUS
  <2> QED BY <1>1, <2>1
<1>3. PICK z \in Seq(Char) : z = g \o f /\ z = Splice(t, p, s, p + 1) /\ Len(z) >= p + l
  <2>1. Splice(t, p, s, p + 1) = (x \o s) \o f
    BY <1>1 DEF Splice, Seqs!Splice
  <2>2. g \o f \in Seq(Char) /\ Len(g \o f) = Len(g) + Len(f) /\ Len(f) \in Nat
    OBVIOUS
  <2>3. Splice(t, p, s, p + 1) = g \o f
    BY <1>2, <2>1, Zenon
  <2>4. p \in Nat /\ l \in Nat /\ Len(g) = p + l
    BY <1>1, <1>2
  <2>5. Len(g \o f) >= p + l
    BY <2>2, <2>4
  <2> QED BY <2>2, <2>3, <2>5
<1>4. SubSeq(z, 1, p + l) = g /\ SubSeq(z, 1, p) = x
  <2>1. p + l \in 0 .. Len(g) /\ p \in 0 .. Len(g) /\ p \in 0 .. Len(x)
    BY <1>1, <1>2
  <2>2. \A m \in 0 .. Len(g) : SubSeq(z, 1, m) = SubSeq(g, 1, m)
    <3>1. \A m \in 0 .. Len(g) : SubSeq(g \o f, 1, m) = SubSeq(g, 1, m)
      BY Seqs!PrefixLeft
    <3>2. z = g \o f
      BY <1>3
    <3> QED BY <3>1, <3>2, Zenon
  <2>3. SubSeq(g, 1, p) = SubSeq(x, 1, p)
    BY <1>1, <1>2, <2>1, Seqs!PrefixLeft
  <2>4. SubSeq(g, 1, p + l) = g
    BY <1>2
  <2>5. SubSeq(x, 1, p) = x
    BY <1>1
  <2> QED BY <2>1, <2>2, <2>3, <2>4, <2>5
<1>5. SubSeq(z, b + 1, p + l) = SubSeq(g, b + 1, p + l)
  <2>1. b <= p + l /\ p + l \in Nat /\ p + l <= Len(z)
    BY <1>1, <1>3
  <2> QED BY <1>3, <1>4, <2>1, PartOfPrefix
<1>6. SubSeq(z, b + 1, p) = SubSeq(x, b + 1, p)
  <2>1. p <= Len(z)
    BY <1>1, <1>3
  <2> QED BY <1>3, <1>4, <2>1, PartOfPrefix
<1>7. SubSeq(x, b + 1, p) = SubSeq(t, b + 1, p)
  BY <1>1, PartOfPrefix
<1>8. SubSeq(g, b + 1, p + l) = SubSeq(x, b + 1, p) \o s
  <2>1. b + 1 \in 1 .. Len(x) + 1
    BY <1>1
  <2>2. SubSeq(x \o s, b + 1, Len(x \o s)) = SubSeq(x, b + 1, Len(x)) \o s
    BY <2>1, Seqs!SuffixLeft
  <2> QED BY <1>1, <1>2, <2>2
<1> QED BY <1>1, <1>3, <1>5, <1>6, <1>7, <1>8 DEF Joined

(* What is left of str behind its first d characters, and a part of t that  *)
(* is those.                                                                *)
RestOf(str, d, rst) == rst = SubSeq(str, d + 1, Len(str))

(* The d characters of t from b on are the first d of str.                  *)
SamePart(t, b, d, str) == SubSeq(t, b + 1, b + d) = SubSeq(str, 1, d)

(* The size of a text with s put in.                                        *)
LEMMA InsertedLen ==
  ASSUME NEW t \in Seq(Char), NEW s \in Seq(Char), NEW p \in Nat, p <= Len(t)
  PROVE  /\ Splice(t, p, s, p + 1) \in Seq(Char)
         /\ Len(Splice(t, p, s, p + 1)) = Len(t) + Len(s)
<1>1. PICK q \in Nat, n \in Nat, l \in Nat : q = p + 1 /\ n = Len(t) /\ l = Len(s)
  <2>1. p + 1 \in Nat /\ Len(t) \in Nat /\ Len(s) \in Nat
    OBVIOUS
  <2> QED BY <2>1, Zenon
<1>2. p \in 0 .. Len(t) /\ q \in p + 1 .. Len(t) + 1
  BY <1>1
<1>3. Splice(t, p, s, q) \in Seq(Char) /\ Len(Splice(t, p, s, q)) = Len(t) + (Len(s) - (q - p - 1))
  BY <1>2, SplicedLen
<1>4. n + (l - (q - p - 1)) = n + l
  BY <1>1
<1> QED BY <1>1, <1>3, <1>4

(* A sequence is a prefix of its own, and the part behind it.               *)
LEMMA PrefixGrows ==
  ASSUME NEW t \in Seq(Char), NEW d \in Nat, NEW m \in Nat, d + m <= Len(t)
  PROVE  Joined(SubSeq(t, 1, d + m), SubSeq(t, 1, d), SubSeq(t, d + 1, d + m))
<1>1. PICK n \in Nat : n = d + m /\ d <= n /\ n <= Len(t)
  OBVIOUS
<1>2. PICK x \in Seq(Char), y \in Seq(Char) :
        x = SubSeq(t, 1, n) /\ Len(x) = n /\ Joined(t, x, y)
  <2>1. n \in 0 .. Len(t)
    BY <1>1
  <2>2. /\ SubSeq(t, 1, n) \in Seq(Char) /\ Len(SubSeq(t, 1, n)) = n
        /\ SubSeq(t, n + 1, Len(t)) \in Seq(Char)
    BY <2>1, Seqs!SeqParts
  <2>3. t = SubSeq(t, 1, n) \o SubSeq(t, n + 1, Len(t))
    BY <2>1, Seqs!SeqParts
  <2>4. Joined(t, SubSeq(t, 1, n), SubSeq(t, n + 1, Len(t)))
    BY <2>3 DEF Joined
  <2> QED BY <2>2, <2>4, Zenon
<1>3. d \in 0 .. Len(x)
  BY <1>1, <1>2
<1>4. Joined(x, SubSeq(x, 1, d), SubSeq(x, d + 1, Len(x)))
  BY <1>3, Seqs!SeqParts DEF Joined
<1>5. SubSeq(x, d + 1, n) = SubSeq(t, d + 1, n)
  BY <1>1, <1>2, PartOfPrefix
<1>6. SubSeq(x, 1, d) = SubSeq(t, 1, d)
  <2>1. SubSeq(x \o y, 1, d) = SubSeq(x, 1, d)
    BY <1>3, Seqs!PrefixLeft
  <2>2. t = x \o y
    BY <1>2 DEF Joined
  <2> QED BY <2>1, <2>2, Zenon
<1> QED BY <1>1, <1>2, <1>4, <1>5, <1>6

(* The next m characters of rst have been put into t, at p.                 *)
NextPut(t, str, rst, d2, b, m, p) ==
  /\ RestOf(str, d2, SubSeq(rst, m + 1, Len(rst)))
  /\ SamePart(Splice(t, p, SubSeq(rst, 1, m), p + 1), b, d2, str)
  /\ SubSeq(rst, 1, m) \in Seq(Char) /\ Len(SubSeq(rst, 1, m)) = m
  /\ SubSeq(rst, m + 1, Len(rst)) \in Seq(Char)
  /\ Len(SubSeq(rst, m + 1, Len(rst))) = Len(rst) - m

(* The next piece of m characters.                                          *)
LEMMA PieceParts ==
  ASSUME NEW t \in Seq(Char), NEW str \in Seq(Char), NEW rst, NEW d \in Nat, NEW b \in Nat,
         NEW m \in Nat, m >= 1, NEW d2 \in Nat, d2 = d + m, d2 <= Len(str),
         NEW p \in Nat, p = b + d, p <= Len(t),
         RestOf(str, d, rst), SamePart(t, b, d, str)
  PROVE  NextPut(t, str, rst, d2, b, m, p)
<1>1. PICK l \in Nat : l = Len(str)
  OBVIOUS
<1>2. PICK q \in Nat, j \in Nat : q = d2 + 1 /\ j = l - d
  <2>1. l - d \in Nat /\ d2 + 1 \in Nat
    BY <1>1
  <2> QED BY <2>1
<1>3. /\ d \in 0 .. l /\ q \in d + 1 .. l + 1 /\ q - d - 1 = m /\ q - 1 = d2
      /\ q - d = m + 1 /\ m \in 0 .. j
  BY <1>1, <1>2
<1>4. /\ SubSeq(str, d + 1, l) \in Seq(Char) /\ Len(SubSeq(str, d + 1, l)) = l - d
      /\ SubSeq(SubSeq(str, d + 1, l), 1, q - d - 1) = SubSeq(str, d + 1, q - 1)
      /\ SubSeq(SubSeq(str, d + 1, l), q - d, l - d) = SubSeq(str, q, l)
  BY <1>1, <1>3, PartOfPart
<1>5. rst = SubSeq(str, d + 1, l)
  BY <1>1 DEF RestOf
<1>6. /\ rst \in Seq(Char) /\ Len(rst) = j
      /\ SubSeq(rst, 1, m) = SubSeq(str, d + 1, d2)
      /\ SubSeq(rst, m + 1, j) = SubSeq(str, q, l)
  BY <1>2, <1>3, <1>4, <1>5
<1>7. /\ SubSeq(rst, 1, m) \in Seq(Char) /\ Len(SubSeq(rst, 1, m)) = m
      /\ SubSeq(rst, m + 1, Len(rst)) \in Seq(Char)
      /\ Len(SubSeq(rst, m + 1, Len(rst))) = Len(rst) - m
  <2>1. rst \in Seq(Char) /\ m \in 0 .. Len(rst)
    BY <1>3, <1>6
  <2> QED BY <2>1, Seqs!SeqParts
<1>8. RestOf(str, d2, SubSeq(rst, m + 1, Len(rst)))
  BY <1>1, <1>2, <1>6 DEF RestOf
<1>9. PICK s \in Seq(Char) : s = SubSeq(rst, 1, m) /\ Len(s) = m /\ s = SubSeq(str, d + 1, d2)
  BY <1>6, <1>7
<1>10. Joined(SubSeq(Splice(t, p, s, p + 1), b + 1, p + m), SubSeq(t, b + 1, p), s)
  <2>1. b <= p
    OBVIOUS
  <2>2. Joined(SubSeq(Splice(t, p, s, p + 1), b + 1, p + Len(s)), SubSeq(t, b + 1, p), s)
    BY <2>1, GrownPart
  <2> QED BY <1>9, <2>2
<1>11. SubSeq(t, b + 1, p) = SubSeq(str, 1, d)
  BY DEF SamePart
<1>12. Joined(SubSeq(str, 1, d2), SubSeq(str, 1, d), s)
  <2>1. Joined(SubSeq(str, 1, d + m), SubSeq(str, 1, d), SubSeq(str, d + 1, d + m))
    BY PrefixGrows
  <2> QED BY <1>9, <2>1
<1>13. SamePart(Splice(t, p, s, p + 1), b, d2, str)
  <2>1. b + d2 = p + m
    OBVIOUS
  <2>2. SubSeq(Splice(t, p, s, p + 1), b + 1, p + m) = SubSeq(str, 1, d2)
    BY <1>10, <1>11, <1>12 DEF Joined
  <2> QED BY <2>1, <2>2 DEF SamePart
<1> QED BY <1>7, <1>8, <1>9, <1>13 DEF NextPut

(* What is put in behind the part.                                          *)
LEMMA PartStays ==
  ASSUME NEW t \in Seq(Char), NEW str, NEW s \in Seq(Char), NEW d \in Nat, NEW b \in Nat,
         NEW p \in Nat, p = b + d, p <= Len(t), SamePart(t, b, d, str)
  PROVE  SamePart(Splice(t, p, s, p + 1), b, d, str)
<1>1. b <= p
  OBVIOUS
<1>2. SubSeq(Splice(t, p, s, p + 1), b + 1, p) = SubSeq(t, b + 1, p)
  <2>1. /\ Joined(SubSeq(Splice(t, p, s, p + 1), b + 1, p + Len(s)), SubSeq(t, b + 1, p), s)
        /\ SubSeq(Splice(t, p, s, p + 1), b + 1, p) = SubSeq(t, b + 1, p)
    BY <1>1, GrownPart
  <2> QED BY <2>1
<1> QED BY <1>2 DEF SamePart

(* Of str all but rst has been put into t, where pos says or at its end; tl *)
(* is to follow it, and k characters of t do.                               *)
PutIn(t, tl, str, rst, pos, k) ==
  \E d, b \in Nat :
    /\ d = Len(str) - Len(rst) /\ b = MinOf(pos, Len(t) + Len(tl) - d)
    /\ RestOf(str, d, rst) /\ b + d <= Len(t) /\ SamePart(t, b, d, str)
    /\ rst # << >> \/ tl # << >> => k = Len(t) - b - d

(* A piece more.                                                            *)
LEMMA PieceIn ==
  ASSUME NEW t \in Seq(Char), NEW tl \in Seq(Char), NEW str \in Seq(Char),
         NEW rst \in Seq(Char), NEW pos \in Nat, NEW k \in Nat,
         PutIn(t, tl, str, rst, pos, k), rst # << >>,
         NEW m \in 1 .. Len(rst), NEW p \in Nat, p = Len(t) - k
  PROVE  PutIn(Splice(t, p, SubSeq(rst, 1, m), p + 1), tl, str,
               SubSeq(rst, m + 1, Len(rst)), pos, k)
<1>1. PICK l \in Nat, j \in Nat, x \in Nat, y \in Nat :
        l = Len(str) /\ j = Len(rst) /\ x = Len(t) /\ y = Len(tl)
  <2>1. Len(str) \in Nat /\ Len(rst) \in Nat /\ Len(t) \in Nat /\ Len(tl) \in Nat
    OBVIOUS
  <2> QED BY <2>1, Zenon
<1>2. PICK d \in Nat, b \in Nat :
        /\ d = l - j /\ b = MinOf(pos, x + y - d)
        /\ RestOf(str, d, rst) /\ b + d <= x /\ SamePart(t, b, d, str)
        /\ k = x - b - d
  BY <1>1 DEF PutIn
<1>3. PICK d2 \in Nat : /\ d2 = d + m /\ m \in Nat /\ m >= 1 /\ m <= j
                        /\ p = b + d /\ p <= x /\ d2 <= l /\ j - m \in Nat
  <2>1. m \in 1 .. j /\ p = x - k /\ d = l - j /\ b + d <= x /\ k = x - b - d
    BY <1>1, <1>2
  <2>2. /\ d + m \in Nat /\ m \in Nat /\ m >= 1 /\ m <= j
        /\ p = b + d /\ p <= x /\ d + m <= l /\ j - m \in Nat
    <3>1. m \in Nat /\ m >= 1 /\ m <= j
      BY <2>1
    <3>2. d + m \in Nat /\ d + m <= l /\ j - m \in Nat
      BY <2>1, <3>1
    <3>3. p = b + d
      <4>1. p = x - (x - b - d)
        BY <2>1, Zenon
      <4>2. x - (x - b - d) = b + d
        OBVIOUS
      <4> QED BY <4>1, <4>2
    <3>4. p <= x
      BY <2>1, <3>3
    <3> QED BY <3>1, <3>2, <3>3, <3>4
  <2> QED BY <2>2, Zenon
<1>4. PICK s \in Seq(Char), rs \in Seq(Char) :
        /\ s = SubSeq(rst, 1, m) /\ rs = SubSeq(rst, m + 1, Len(rst))
        /\ Len(s) = m /\ Len(rs) = j - m
        /\ RestOf(str, d2, rs) /\ SamePart(Splice(t, p, s, p + 1), b, d2, str)
  <2>1. d2 <= Len(str) /\ p <= Len(t)
    BY <1>1, <1>3
  <2>2. NextPut(t, str, rst, d2, b, m, p)
    <3>1. /\ RestOf(str, d, rst) /\ SamePart(t, b, d, str)
          /\ m \in Nat /\ m >= 1 /\ d2 = d + m /\ p = b + d
      BY <1>2, <1>3
    <3> QED BY <2>1, <3>1, PieceParts
  <2> QED BY <1>1, <2>2 DEF NextPut
<1>5. PICK t2 \in Seq(Char) : t2 = Splice(t, p, s, p + 1) /\ Len(t2) = x + m
  <2>1. p <= Len(t)
    BY <1>1, <1>3
  <2>2. Splice(t, p, s, p + 1) \in Seq(Char) /\ Len(Splice(t, p, s, p + 1)) = Len(t) + Len(s)
    BY <2>1, InsertedLen
  <2> QED BY <1>1, <1>4, <2>2
<1>6. /\ d2 = l - (j - m) /\ b = MinOf(pos, (x + m) + y - d2)
      /\ b + d2 <= x + m /\ k = (x + m) - b - d2
  <2>1. d = l - j /\ b + d <= x /\ k = x - b - d /\ d2 = d + m /\ m \in Nat
    BY <1>2, <1>3
  <2>2. x + y - d = (x + m) + y - d2
    BY <2>1
  <2>3. b = MinOf(pos, (x + m) + y - d2)
    BY <1>2, <2>2
  <2>4. d2 = l - (j - m) /\ b + d2 <= x + m /\ k = (x + m) - b - d2
    BY <2>1
  <2> QED BY <2>3, <2>4
<1>7. PutIn(t2, tl, str, rs, pos, k)
  <2>1. RestOf(str, d2, rs) /\ SamePart(t2, b, d2, str)
    BY <1>4, <1>5
  <2>2. Len(str) = l /\ Len(rs) = j - m /\ Len(t2) = x + m /\ Len(tl) = y
    BY <1>1, <1>4, <1>5
  <2> QED BY <1>6, <2>1, <2>2, Zenon DEF PutIn
<1> QED BY <1>4, <1>5, <1>7

(* The end that was cut off.                                                *)
LEMMA TailIn ==
  ASSUME NEW t \in Seq(Char), NEW tl \in Seq(Char), NEW str \in Seq(Char),
         NEW pos \in Nat, NEW k \in Nat, NEW k2,
         PutIn(t, tl, str, << >>, pos, k), tl # << >>, NEW p \in Nat, p = Len(t) - k
  PROVE  PutIn(Splice(t, p, tl, p + 1), << >>, str, << >>, pos, k2)
<1>1. PICK l \in Nat, x \in Nat, y \in Nat :
        l = Len(str) /\ x = Len(t) /\ y = Len(tl) /\ Len(<< >>) = 0
  <2>1. Len(str) \in Nat /\ Len(t) \in Nat /\ Len(tl) \in Nat /\ Len(<< >>) = 0
    OBVIOUS
  <2> QED BY <2>1, Zenon
<1>2. PICK d \in Nat, b \in Nat :
        /\ d = l - 0 /\ b = MinOf(pos, x + y - d)
        /\ RestOf(str, d, << >>) /\ b + d <= x /\ SamePart(t, b, d, str)
        /\ k = x - b - d
  BY <1>1 DEF PutIn
<1>3. p = b + d /\ p <= x
  <2>1. p = x - k /\ b + d <= x /\ k = x - b - d
    BY <1>1, <1>2
  <2> QED BY <2>1
<1>4. PICK t2 \in Seq(Char) : t2 = Splice(t, p, tl, p + 1) /\ Len(t2) = x + y
  <2>1. p <= Len(t)
    BY <1>1, <1>3
  <2>2. /\ Splice(t, p, tl, p + 1) \in Seq(Char)
        /\ Len(Splice(t, p, tl, p + 1)) = Len(t) + Len(tl)
    BY <2>1, InsertedLen
  <2> QED BY <1>1, <2>2
<1>5. SamePart(t2, b, d, str)
  <2>1. p <= Len(t)
    BY <1>1, <1>3
  <2>2. SamePart(Splice(t, p, tl, p + 1), b, d, str)
    BY <1>2, <1>3, <2>1, PartStays
  <2> QED BY <1>4, <2>2
<1>6. b = MinOf(pos, (x + y) + 0 - d) /\ b + d <= x + y
  <2>1. (x + y) + 0 - d = x + y - d
    OBVIOUS
  <2>2. b + d <= x
    BY <1>2
  <2>3. b + d <= x + y
    BY <2>2
  <2> QED BY <1>2, <2>1, <2>3
<1>7. PutIn(t2, << >>, str, << >>, pos, k2)
  BY <1>1, <1>2, <1>4, <1>5, <1>6 DEF PutIn
<1> QED BY <1>4, <1>7

(* The text a caller sees while d characters have been put into t and tl    *)
(* waits to be put back: AbsText.                                           *)
Shown(t, tl, d, pos) ==
  LET p == MinOf(pos, Len(t) + Len(tl) - d)
  IN  SubSeq(t, 1, p) \o tl \o SubSeq(t, p + d + 1, Len(t))

(* A text cut at b and at p.                                                *)
Cut3(t, b, p, x, y, z) ==
  /\ x \in Seq(Char) /\ y \in Seq(Char) /\ z \in Seq(Char)
  /\ t = x \o y \o z /\ SubSeq(t, 1, p) = x \o y /\ Len(x) = b /\ Len(x) + Len(y) = p
  /\ x = SubSeq(t, 1, b) /\ y = SubSeq(t, b + 1, p) /\ z = SubSeq(t, p + 1, Len(t))

(* It can be.                                                               *)
LEMMA CutIn3 ==
  ASSUME NEW t \in Seq(Char), NEW b \in Nat, NEW p \in Nat, b <= p, p <= Len(t)
  PROVE  \E x, y, z : Cut3(t, b, p, x, y, z)
<1>1. PICK g \in Seq(Char), z \in Seq(Char) :
        /\ g = SubSeq(t, 1, p) /\ z = SubSeq(t, p + 1, Len(t)) /\ t = g \o z /\ Len(g) = p
  <2>1. p \in 0 .. Len(t)
    OBVIOUS
  <2>2. /\ SubSeq(t, 1, p) \in Seq(Char) /\ Len(SubSeq(t, 1, p)) = p
        /\ SubSeq(t, p + 1, Len(t)) \in Seq(Char)
    BY <2>1, Seqs!SeqParts
  <2>3. t = SubSeq(t, 1, p) \o SubSeq(t, p + 1, Len(t))
    BY <2>1, Seqs!SeqParts
  <2> QED BY <2>2, <2>3, Zenon
<1>2. PICK x \in Seq(Char), y \in Seq(Char) :
        x = SubSeq(g, 1, b) /\ y = SubSeq(g, b + 1, p) /\ g = x \o y /\ Len(x) = b
  <2>1. b \in 0 .. Len(g)
    BY <1>1
  <2>2. /\ SubSeq(g, 1, b) \in Seq(Char) /\ Len(SubSeq(g, 1, b)) = b
        /\ SubSeq(g, b + 1, Len(g)) \in Seq(Char)
    BY <2>1, Seqs!SeqParts
  <2>3. g = SubSeq(g, 1, b) \o SubSeq(g, b + 1, Len(g))
    BY <2>1, Seqs!SeqParts
  <2> QED BY <1>1, <2>2, <2>3, Zenon
<1>3. y = SubSeq(t, b + 1, p)
  BY <1>1, <1>2, PartOfPrefix
<1>4. x = SubSeq(t, 1, b)
  <2>1. b \in 0 .. Len(g)
    BY <1>1
  <2>2. SubSeq(g \o z, 1, b) = SubSeq(g, 1, b)
    BY <2>1, Seqs!PrefixLeft
  <2> QED BY <1>1, <1>2, <2>2
<1>5. Len(x) + Len(y) = p
  BY <1>1, <1>2
<1> QED BY <1>1, <1>2, <1>3, <1>4, <1>5 DEF Cut3

(* Three strings one behind the other, and where they were put together.    *)
Joined3(t, x, y, z) == t = x \o y \o z

(* The three parts, told apart by the two places.                           *)
LEMMA PartsOf3 ==
  ASSUME NEW x \in Seq(Char), NEW y \in Seq(Char), NEW z \in Seq(Char),
         NEW b \in Nat, NEW p \in Nat, Past(<< >>, Len(x), b), Past(x, Len(y), p),
         NEW t, Joined3(t, x, y, z)
  PROVE  t \in Seq(Char) /\ Cut3(t, b, p, x, y, z)
<1>0. b = Len(x) /\ p = b + Len(y)
  BY DEF Past
<1>1. PICK g \in Seq(Char) : g = x \o y /\ t = g \o z /\ Len(g) = p /\ t \in Seq(Char)
  <2>1. x \o y \in Seq(Char) /\ (x \o y) \o z \in Seq(Char) /\ Len(x \o y) = p
    BY <1>0
  <2> QED BY <2>1, Zenon DEF Joined3
<1>2. SubSeq(t, 1, p) = g /\ SubSeq(t, p + 1, Len(t)) = z
  BY <1>1
<1>3. SubSeq(g, 1, b) = x /\ SubSeq(g, b + 1, p) = y
  BY <1>0, <1>1
<1>4. b <= p /\ p <= Len(t)
  BY <1>0, <1>1
<1>5. SubSeq(SubSeq(t, 1, p), b + 1, p) = SubSeq(t, b + 1, p)
  BY <1>1, <1>4, PartOfPrefix
<1>6. SubSeq(t, 1, b) = SubSeq(g, 1, b)
  <2>1. b \in 0 .. Len(g)
    BY <1>1, <1>4
  <2>2. SubSeq(g \o z, 1, b) = SubSeq(g, 1, b)
    BY <2>1, Seqs!PrefixLeft
  <2> QED BY <1>1, <2>2
<1>7. t = x \o y \o z /\ Len(x) = b /\ Len(x) + Len(y) = p
  BY <1>0 DEF Joined3
<1> QED BY <1>1, <1>2, <1>3, <1>5, <1>6, <1>7 DEF Cut3

(* The parts of a cut string.                                               *)
LEMMA Cut3Is ==
  ASSUME NEW t, NEW b, NEW p, NEW x, NEW y, NEW z, Cut3(t, b, p, x, y, z)
  PROVE  /\ x \in Seq(Char) /\ y \in Seq(Char) /\ z \in Seq(Char)
         /\ Len(x) \in Nat /\ Len(y) \in Nat /\ Len(z) \in Nat
         /\ b = Len(x) /\ p = Len(x) + Len(y) /\ Joined3(t, x, y, z)
<1>1. /\ x \in Seq(Char) /\ y \in Seq(Char) /\ z \in Seq(Char)
      /\ Len(x) = b /\ Len(x) + Len(y) = p /\ t = x \o y \o z
  BY Zenon DEF Cut3
<1>2. Len(x) \in Nat /\ Len(y) \in Nat /\ Len(z) \in Nat
  BY <1>1
<1> QED BY <1>1, <1>2, Zenon DEF Joined3

(* Their length.                                                            *)
Len3(t, x, y, z) == Len(t) = Len(x) + Len(y) + Len(z)

(* It is that.                                                              *)
LEMMA Joined3Len ==
  ASSUME NEW t, NEW x \in Seq(Char), NEW y \in Seq(Char), NEW z \in Seq(Char), Joined3(t, x, y, z)
  PROVE  t \in Seq(Char) /\ Len(t) \in Nat /\ Len3(t, x, y, z)
BY DEF Joined3, Len3

(* The place where a text is shown without the d characters put in.         *)
PutAt(b, t, tl, d, pos) == b = MinOf(pos, Len(t) + Len(tl) - d)

(* From b, d characters on is p.                                            *)
Reaches(p, b, d) == p = b + d

(* What the parts are used for: the text shown is two of them, with the     *)
(* waiting end between them,                                                *)
LEMMA ShownIs ==
  ASSUME NEW t, NEW tl, NEW d, NEW pos, NEW b, NEW p, NEW x, NEW y, NEW z,
         Cut3(t, b, p, x, y, z), PutAt(b, t, tl, d, pos), Reaches(p, b, d)
  PROVE  Joined3(Shown(t, tl, d, pos), x, tl, z)
BY Zenon DEF Shown, Cut3, PutAt, Reaches, Joined3

(* and one with s in the place of the part in the middle,                   *)
LEMMA SpliceMid ==
  ASSUME NEW t, NEW b, NEW p, NEW x, NEW y, NEW z, Cut3(t, b, p, x, y, z),
         NEW s \in Seq(Char)
  PROVE  Joined3(Splice(t, b, s, p + 1), x, s, z)
BY Zenon DEF Cut3, Splice, Seqs!Splice, Joined3

(* with s behind it,                                                        *)
LEMMA SpliceEnd ==
  ASSUME NEW t, NEW b, NEW p, NEW x, NEW y, NEW z, Cut3(t, b, p, x, y, z),
         NEW s \in Seq(Char), NEW g, Joined(g, y, s)
  PROVE  Joined3(Splice(t, p, s, p + 1), x, g, z)
<1>1. x \in Seq(Char) /\ y \in Seq(Char) /\ z \in Seq(Char)
  BY Cut3Is, Zenon
<1>2. SubSeq(t, 1, p) = x \o y /\ SubSeq(t, p + 1, Len(t)) = z
  BY Zenon DEF Cut3
<1>3. Splice(t, p, s, p + 1) = ((x \o y) \o s) \o z
  BY <1>2 DEF Splice, Seqs!Splice
<1>4. PICK f, h : Joined(f, x, y) /\ Joined(h, f, s)
  BY Zenon DEF Joined
<1>5. Joined(h, x, g)
  BY <1>1, <1>4, JoinedAssoc
<1> QED BY <1>3, <1>4, <1>5, Zenon DEF Joined3, Joined

(* or before the last.                                                      *)
LEMMA SpliceNext ==
  ASSUME NEW t, NEW b, NEW p, NEW x, NEW y, NEW z, Cut3(t, b, p, x, y, z),
         NEW s \in Seq(Char), NEW g, Joined(g, s, z)
  PROVE  Joined3(Splice(t, p, s, p + 1), x, y, g)
<1>1. x \in Seq(Char) /\ y \in Seq(Char) /\ z \in Seq(Char)
  BY Cut3Is, Zenon
<1>2. SubSeq(t, 1, p) = x \o y /\ SubSeq(t, p + 1, Len(t)) = z
  BY Zenon DEF Cut3
<1>3. Splice(t, p, s, p + 1) = ((x \o y) \o s) \o z
  BY <1>2 DEF Splice, Seqs!Splice
<1>4. PICK f, h, v : Joined(f, x, y) /\ Joined(h, f, s) /\ Joined(v, h, z)
  BY DEF Joined
<1>5. f \in Seq(Char)
  BY <1>1, <1>4, JoinedLen
<1>6. Joined(v, f, g)
  BY <1>1, <1>4, <1>5, JoinedAssoc
<1> QED BY <1>3, <1>4, <1>6, Zenon DEF Joined3, Joined

(* t2 is t with s put in at p, and t2 is shown as t was.                    *)
PutInto(t2, t, p, s) == p <= Len(t) /\ t2 = Splice(t, p, s, p + 1)

(* A caller sees the same in both.                                          *)
ShownSame(t2, tl2, d2, t, tl, d, pos) == Shown(t2, tl2, d2, pos) = Shown(t, tl, d, pos)

(* A piece more: what a caller sees stays.                                  *)
LEMMA PieceShown ==
  ASSUME NEW t \in Seq(Char), NEW tl \in Seq(Char), NEW s \in Seq(Char), NEW pos \in Nat,
         NEW d \in Nat, NEW b \in Nat, NEW p \in Nat, Reaches(p, b, d),
         PutAt(b, t, tl, d, pos), NEW d2 \in Nat, Reaches(d2, d, Len(s)),
         NEW t2, PutInto(t2, t, p, s)
  PROVE  ShownSame(t2, tl, d2, t, tl, d, pos)
<1>1. PICK x, y, z : Cut3(t, b, p, x, y, z)
  <2>1. b <= p
    BY DEF Reaches
  <2> QED BY <2>1, CutIn3 DEF PutInto
<1>2. /\ x \in Seq(Char) /\ y \in Seq(Char) /\ z \in Seq(Char)
      /\ Len(x) \in Nat /\ Len(y) \in Nat /\ Len(z) \in Nat
      /\ b = Len(x) /\ p = Len(x) + Len(y) /\ Joined3(t, x, y, z)
  BY <1>1, Cut3Is
<1>3. Joined3(Shown(t, tl, d, pos), x, tl, z)
  BY <1>1, ShownIs
<1>4. PICK g : Joined(g, y, s)
  BY DEF Joined
<1>5. g \in Seq(Char) /\ Len(g) = Len(y) + Len(s) /\ Len(g) \in Nat /\ Len(s) \in Nat
  BY <1>2, <1>4, JoinedLen
<1>6. t2 = Splice(t, p, s, p + 1)
  BY DEF PutInto
<1>7. Joined3(t2, x, g, z)
  BY <1>1, <1>4, <1>6, SpliceEnd
<1>8. PICK lx \in Nat, ly \in Nat, lz \in Nat, ls \in Nat, ll \in Nat :
        lx = Len(x) /\ ly = Len(y) /\ lz = Len(z) /\ ls = Len(s) /\ ll = Len(tl)
  <2>1. Len(tl) \in Nat
    OBVIOUS
  <2> QED BY <1>2, <1>5, <2>1
<1>9. ly = d /\ d2 = d + ls
  BY <1>2, <1>8 DEF Reaches
<1>10. PICK q \in Nat : q = lx + (ly + ls)
  OBVIOUS
<1>11. Past(<< >>, Len(x), b) /\ Past(x, Len(g), q) /\ Reaches(q, b, d2)
  <2>1. Len(<< >>) = 0
    OBVIOUS
  <2>2. b = 0 + Len(x) /\ q = Len(x) + Len(g) /\ q = b + d2
    BY <1>2, <1>5, <1>8, <1>9, <1>10
  <2> QED BY <2>1, <2>2 DEF Past, Reaches
<1>12. Cut3(t2, b, q, x, g, z)
  BY <1>2, <1>5, <1>7, <1>11, PartsOf3
<1>13. Len(t) = lx + ly + lz /\ Len(t2) = lx + (ly + ls) + lz
  <2>1. Len3(t, x, y, z)
    BY <1>2, Joined3Len, Zenon
  <2>2. Len3(t2, x, g, z)
    BY <1>2, <1>5, <1>7, Joined3Len, Zenon
  <2> QED BY <1>5, <1>8, <2>1, <2>2 DEF Len3
<1>14. Len(t2) + Len(tl) - d2 = Len(t) + Len(tl) - d
  <2>1. (lx + (ly + ls) + lz) + ll - d2 = (lx + ly + lz) + ll - d
    BY <1>9
  <2> QED BY <1>8, <1>13, <2>1
<1>15. PutAt(b, t2, tl, d2, pos)
  BY <1>14 DEF PutAt
<1>16. Joined3(Shown(t2, tl, d2, pos), x, tl, z)
  BY <1>11, <1>12, <1>15, ShownIs
<1> QED BY <1>3, <1>16 DEF Joined3, ShownSame

(* The end put back.                                                        *)
LEMMA TailShown ==
  ASSUME NEW t \in Seq(Char), NEW tl \in Seq(Char), NEW pos \in Nat,
         NEW d \in Nat, NEW b \in Nat, NEW p \in Nat, Reaches(p, b, d),
         PutAt(b, t, tl, d, pos), NEW t2, PutInto(t2, t, p, tl)
  PROVE  ShownSame(t2, << >>, d, t, tl, d, pos)
<1>1. PICK x, y, z : Cut3(t, b, p, x, y, z)
  <2>1. b <= p
    BY DEF Reaches
  <2> QED BY <2>1, CutIn3 DEF PutInto
<1>2. /\ x \in Seq(Char) /\ y \in Seq(Char) /\ z \in Seq(Char)
      /\ Len(x) \in Nat /\ Len(y) \in Nat /\ Len(z) \in Nat
      /\ b = Len(x) /\ p = Len(x) + Len(y) /\ Joined3(t, x, y, z)
  BY <1>1, Cut3Is
<1>3. Joined3(Shown(t, tl, d, pos), x, tl, z)
  BY <1>1, ShownIs
<1>4. PICK g : Joined(g, tl, z)
  BY DEF Joined
<1>5. g \in Seq(Char) /\ Len(g) = Len(tl) + Len(z) /\ Len(tl) \in Nat
  BY <1>2, <1>4, JoinedLen
<1>6. t2 = Splice(t, p, tl, p + 1)
  BY DEF PutInto
<1>7. Joined3(t2, x, y, g)
  BY <1>1, <1>4, <1>6, SpliceNext
<1>8. Past(<< >>, Len(x), b) /\ Past(x, Len(y), p)
  <2>1. Len(<< >>) = 0 /\ b = 0 + Len(x)
    BY <1>2
  <2> QED BY <1>2, <2>1 DEF Past
<1>9. Cut3(t2, b, p, x, y, g)
  BY <1>2, <1>5, <1>7, <1>8, PartsOf3
<1>10. PICK lx \in Nat, ly \in Nat, lz \in Nat, ll \in Nat :
        lx = Len(x) /\ ly = Len(y) /\ lz = Len(z) /\ ll = Len(tl)
  BY <1>2, <1>5
<1>11. Len(t) = lx + ly + lz /\ Len(t2) = lx + ly + (ll + lz)
  <2>1. Len3(t, x, y, z)
    BY <1>2, Joined3Len, Zenon
  <2>2. Len3(t2, x, y, g)
    BY <1>2, <1>5, <1>7, Joined3Len, Zenon
  <2> QED BY <1>5, <1>10, <2>1, <2>2 DEF Len3
<1>12. Len(t2) + Len(<< >>) - d = Len(t) + Len(tl) - d
  <2>1. Len(<< >>) = 0
    OBVIOUS
  <2>2. (lx + ly + (ll + lz)) + 0 - d = (lx + ly + lz) + ll - d
    OBVIOUS
  <2> QED BY <1>10, <1>11, <2>1, <2>2
<1>13. PutAt(b, t2, << >>, d, pos)
  BY <1>12 DEF PutAt
<1>14. Joined3(Shown(t2, << >>, d, pos), x, << >>, g)
  BY <1>9, <1>13, ShownIs
<1>15. x \o << >> = x /\ x \o (tl \o z) = (x \o tl) \o z
  <2>1. x \o << >> = x
    BY <1>2
  <2>2. PICK f, h : Joined(f, x, tl) /\ Joined(h, f, z)
    BY DEF Joined
  <2>3. Joined(h, x, g)
    BY <1>2, <1>4, <2>2, JoinedAssoc
  <2> QED BY <1>4, <2>1, <2>2, <2>3, Zenon DEF Joined
<1> QED BY <1>3, <1>4, <1>14, <1>15 DEF Joined3, Joined, ShownSame

(* What lies between p and q.                                               *)
Lying(tl, t, p, q) == tl = SubSeq(t, p + 1, q)

(* The end cut off.                                                         *)
LEMMA CutShown ==
  ASSUME NEW t \in Seq(Char), NEW pos \in Nat, NEW p \in Nat, p = MinOf(pos, Len(t)),
         NEW q \in Nat, p <= q, q <= Len(t), NEW tl, Lying(tl, t, p, q)
  PROVE  Shown(Splice(t, p, << >>, q + 1), tl, 0, pos) = t
<1>1. PICK x, z : Cut3(t, p, q, x, tl, z)
  <2>1. PICK x, y, z : Cut3(t, p, q, x, y, z)
    BY CutIn3, Zenon
  <2>2. y = tl
    BY <2>1, Zenon DEF Cut3, Lying
  <2> QED BY <2>1, <2>2
<1>2. /\ x \in Seq(Char) /\ tl \in Seq(Char) /\ z \in Seq(Char)
      /\ Len(x) \in Nat /\ Len(tl) \in Nat /\ Len(z) \in Nat
      /\ p = Len(x) /\ q = Len(x) + Len(tl) /\ Joined3(t, x, tl, z)
  BY <1>1, Cut3Is
<1>3. << >> \in Seq(Char) /\ Len(<< >>) = 0
  OBVIOUS
<1>4. PICK t2 : t2 = Splice(t, p, << >>, q + 1)
  OBVIOUS
<1>5. Joined3(t2, x, << >>, z)
  BY <1>1, <1>3, <1>4, SpliceMid
<1>6. Past(<< >>, Len(x), p) /\ Past(x, Len(<< >>), p)
  <2>1. p = 0 + Len(x) /\ p = Len(x) + 0
    BY <1>2
  <2> QED BY <1>3, <2>1 DEF Past
<1>7. Cut3(t2, p, p, x, << >>, z)
  BY <1>2, <1>3, <1>5, <1>6, PartsOf3
<1>8. Len(t2) + Len(tl) - 0 = Len(t)
  <2>1. Len3(t, x, tl, z)
    BY <1>2, Joined3Len, Zenon
  <2>2. Len3(t2, x, << >>, z)
    BY <1>2, <1>3, <1>5, Joined3Len, Zenon
  <2>3. PICK lx \in Nat, lz \in Nat, ll \in Nat : lx = Len(x) /\ lz = Len(z) /\ ll = Len(tl)
    BY <1>2
  <2>4. (lx + 0 + lz) + ll - 0 = lx + ll + lz
    OBVIOUS
  <2> QED BY <1>3, <2>1, <2>2, <2>3, <2>4 DEF Len3
<1>9. PutAt(p, t2, tl, 0, pos) /\ Reaches(p, p, 0)
  BY <1>8 DEF PutAt, Reaches
<1>10. Joined3(Shown(t2, tl, 0, pos), x, tl, z)
  BY <1>7, <1>9, ShownIs
<1> QED BY <1>2, <1>4, <1>10, Zenon DEF Joined3

(* Everything is in: the text is the one a caller saw, and str in it.       *)
LEMMA AllShown ==
  ASSUME NEW t \in Seq(Char), NEW str \in Seq(Char), NEW pos \in Nat, NEW k,
         PutIn(t, << >>, str, << >>, pos, k)
  PROVE  \E v \in Seq(Char), b \in Nat :
           /\ v = Shown(t, << >>, Len(str) - Len(<< >>), pos)
           /\ b = MinOf(pos, Len(v)) /\ t = Splice(v, b, str, b + 1)
<1>1. PICK d \in Nat, b \in Nat :
        /\ d = Len(str) - Len(<< >>) /\ b = MinOf(pos, Len(t) + Len(<< >>) - d)
        /\ b + d <= Len(t) /\ SamePart(t, b, d, str)
  BY DEF PutIn
<1>2. d = Len(str) /\ Len(<< >>) = 0 /\ << >> \in Seq(Char)
  BY <1>1
<1>3. PICK p \in Nat : p = b + d /\ b <= p /\ p <= Len(t)
  BY <1>1
<1>4. PICK x, y, z : Cut3(t, b, p, x, y, z)
  BY <1>3, CutIn3, Zenon
<1>5. y = str
  <2>1. SubSeq(str, 1, d) = str
    BY <1>2
  <2> QED BY <1>1, <1>3, <1>4, <2>1, Zenon DEF Cut3, SamePart
<1>6. /\ x \in Seq(Char) /\ z \in Seq(Char) /\ Len(x) \in Nat /\ Len(z) \in Nat
      /\ Len(str) \in Nat /\ b = Len(x) /\ Joined3(t, x, str, z)
  BY <1>4, <1>5, Cut3Is
<1>7. PICK v : v = Shown(t, << >>, d, pos)
  OBVIOUS
<1>8. Joined3(v, x, << >>, z)
  <2>1. PutAt(b, t, << >>, d, pos) /\ Reaches(p, b, d)
    BY <1>1, <1>3 DEF PutAt, Reaches
  <2> QED BY <1>4, <1>7, <2>1, ShownIs
<1>9. Past(<< >>, Len(x), b) /\ Past(x, Len(<< >>), b)
  <2>1. b = 0 + Len(x) /\ b = Len(x) + 0
    BY <1>6
  <2> QED BY <1>2, <2>1 DEF Past
<1>10. v \in Seq(Char) /\ Cut3(v, b, b, x, << >>, z)
  BY <1>2, <1>6, <1>8, <1>9, PartsOf3
<1>11. Joined3(Splice(v, b, str, b + 1), x, str, z)
  BY <1>10, SpliceMid
<1>12. Len(v) = Len(t) + Len(<< >>) - d
  <2>1. Len3(t, x, str, z)
    BY <1>6, Joined3Len, Zenon
  <2>2. Len3(v, x, << >>, z)
    BY <1>2, <1>6, <1>8, Joined3Len, Zenon
  <2>3. PICK lx \in Nat, lz \in Nat, ls \in Nat : lx = Len(x) /\ lz = Len(z) /\ ls = Len(str)
    BY <1>6
  <2>4. lx + 0 + lz = (lx + ls + lz) + 0 - ls
    OBVIOUS
  <2> QED BY <1>2, <2>1, <2>2, <2>3, <2>4 DEF Len3
<1>13. b = MinOf(pos, Len(v)) /\ t = Splice(v, b, str, b + 1)
  BY <1>1, <1>6, <1>11, <1>12 DEF Joined3
<1> QED BY <1>1, <1>7, <1>10, <1>13

(* What the invariant says of an insertion, as of its texts.                *)
LEMMA PiecingPut ==
  ASSUME TypeOK, pc = "pieces", NEW r, NEW w, Good(r, w)
  PROVE  PutIn(w[head], tail, req.str, rest, req.pos, Len(w[iter[0].node]) - iter[0].skip)
<1>1. /\ Piecing(r, w) /\ w[head] \in Seq(Char) /\ Len(w[head]) \in Nat
      /\ req.pos \in Nat /\ req.str \in Seq(Char)
      /\ tail \in Seq(Char) /\ Len(tail) \in Nat
  BY PiecingAt DEF TypeOK
<1>2. PICK x \in Nat, y \in Nat, p \in Nat : x = Len(w[head]) /\ y = Len(tail) /\ p = req.pos
  BY <1>1
<1>3. PICK d : /\ d = Done /\ d \in 0 .. x
               /\ rest = SubSeq(req.str, d + 1, Len(req.str))
  BY <1>1, <1>2 DEF Piecing
<1>4. PICK b : b = MinOf(p, x + y - d) /\ b = Began(w)
  BY <1>2, <1>3 DEF Began
<1>5. d \in Nat /\ b \in Nat
  <2>1. d \in Nat /\ x + y - d \in Nat
    BY <1>3
  <2> QED BY <1>4, <2>1 DEF MinOf
<1>6. /\ b + d <= x /\ SubSeq(w[head], b + 1, b + d) = SubSeq(req.str, 1, d)
      /\ rest # << >> \/ tail # << >> => Len(w[iter[0].node]) - iter[0].skip = x - b - d
  BY <1>1, <1>2, <1>3, <1>4 DEF Piecing
<1>7. d = Len(req.str) - Len(rest)
  BY <1>3 DEF Done
<1>8. RestOf(req.str, d, rest) /\ SamePart(w[head], b, d, req.str)
  BY <1>3, <1>6 DEF RestOf, SamePart
<1> QED BY <1>2, <1>4, <1>5, <1>6, <1>7, <1>8 DEF PutIn

(* And back.                                                                *)
LEMMA PutPiecing ==
  ASSUME pc' = "pieces", NEW w, NEW s, NEW k, NEW r2, NEW w2, TypeOK', Grew(r2, w2, w, s, k),
         Bytes(tail') <= NodeStrSize,
         PutIn(w2[head], tail', req'.str, rest', req'.pos, k)
  PROVE  Good(r2, w2)'
<1>1. PICK v : /\ v = iter'[0].node /\ Standing(r2, w2, Len(w2[v]) - iter[0].skip)'
               /\ AtEndOf(v)' /\ Len(w2[v]) - iter'[0].skip = k
  BY DEF Grew
<1>2. Held(r2, w2)' /\ Cleared(height', next', data')
  BY DEF Grew
<1>3. PICK d \in Nat, b \in Nat :
        /\ d = Len(req'.str) - Len(rest')
        /\ b = MinOf(req'.pos, Len(w2[head]) + Len(tail') - d)
        /\ RestOf(req'.str, d, rest') /\ b + d <= Len(w2[head])
        /\ SamePart(w2[head], b, d, req'.str)
        /\ rest' # << >> \/ tail' # << >> => k = Len(w2[head]) - b - d
  BY DEF PutIn
<1>4. Len(w2[head]) \in Nat
  <2>1. Lists(height', next', skip', data', r2, w2)
    BY <1>2 DEF Held
  <2> QED BY <2>1, ListsLaid
<1>5. Done' = d
  BY <1>3 DEF Done
<1>6. Began(w2)' = b
  BY <1>3, <1>5 DEF Began
<1>7. d \in 0 .. Len(w2[head])
  <2>1. PICK x \in Nat : x = Len(w2[head]) /\ b + d <= x
    BY <1>3, <1>4
  <2>2. d \in 0 .. x
    BY <2>1
  <2> QED BY <2>1, <2>2
<1>8. /\ rest' = SubSeq(req'.str, d + 1, Len(req'.str))
      /\ SubSeq(w2[head], b + 1, b + d) = SubSeq(req'.str, 1, d)
  BY <1>3 DEF RestOf, SamePart
<1>9. Piecing(r2, w2)'
  <2>1. /\ Standing(r2, w2, Len(w2[v]) - iter[0].skip)' /\ AtEndOf(v)' /\ v = iter'[0].node
        /\ Bytes(tail') <= NodeStrSize
    BY <1>1
  <2>2. /\ Done' \in 0 .. Len(w2[head])
        /\ rest' = SubSeq(req'.str, Done' + 1, Len(req'.str))
        /\ Began(w2)' + Done' <= Len(w2[head])
        /\ SubSeq(w2[head], Began(w2)' + 1, Began(w2)' + Done') = SubSeq(req'.str, 1, Done')
    BY <1>3, <1>5, <1>6, <1>7, <1>8
  <2>3. rest' # << >> \/ tail' # << >> =>
           Len(w2[v]) - iter'[0].skip = Len(w2[head]) - Began(w2)' - Done'
    BY <1>1, <1>3, <1>5, <1>6
  <2> QED BY <2>1, <2>2, <2>3 DEF Piecing
<1> QED BY <1>2, <1>9 DEF Good, Whole

(* What a caller sees of an insertion under way is what it saw before.      *)
SeenSame(w) ==
  \E r2, w2 : /\ Lists(height', next', skip', data', r2, w2)
              /\ Shown(w2[head], tail', Len(req'.str) - Len(rest'), req'.pos)
                   = Shown(w[head], tail, Len(req.str) - Len(rest), req.pos)

(* It goes before the last k characters, and there is something to put.     *)
Leaves(p, t, k) == p = Len(t) - k

(* Something is still to be put in or back.                                 *)
Waiting(rst, tl) == rst # << >> \/ tl # << >>

(* p is where the next piece is due.                                        *)
PlaceFound(t, tl, str, rst, pos, p) ==
  \E d \in Nat, b \in Nat : /\ d = Len(str) - Len(rst) /\ PutAt(b, t, tl, d, pos)
                          /\ Reaches(p, b, d) /\ p <= Len(t)

(* Where the next piece goes.                                               *)
LEMMA PutPlace ==
  ASSUME NEW t \in Seq(Char), NEW tl, NEW str, NEW rst, NEW pos, NEW k,
         PutIn(t, tl, str, rst, pos, k), Waiting(rst, tl), NEW p \in Nat, Leaves(p, t, k)
  PROVE  PlaceFound(t, tl, str, rst, pos, p)
<1>1. PICK x \in Nat : x = Len(t)
  OBVIOUS
<1>2. PICK d \in Nat, b \in Nat : /\ d = Len(str) - Len(rst)
                                /\ b = MinOf(pos, Len(t) + Len(tl) - d)
                                /\ b + d <= x /\ k = x - b - d
  BY <1>1 DEF PutIn, Waiting
<1>3. p = b + d /\ p <= x
  <2>1. p = x - (x - b - d)
    BY <1>1, <1>2, Zenon DEF Leaves
  <2>2. x - (x - b - d) = b + d
    OBVIOUS
  <2> QED BY <1>2, <2>1, <2>2
<1> QED BY <1>1, <1>2, <1>3 DEF PutAt, Reaches, PlaceFound

(* A piece of the string goes into a new node.                              *)
LEMMA InsertPieceShown ==
  ASSUME TypeOK, NEW r, NEW w, Good(r, w), InsertPiece
  PROVE  IInv' /\ SeenSame(w)
<1>1. /\ TypeOK /\ pc = "pieces" /\ rest # << >> /\ LinkNew(SubSeq(rest, 1, PieceLen))
      /\ rest' = SubSeq(rest, PieceLen + 1, Len(rest))
      /\ pc' = pc /\ req' = req /\ e' = e /\ offset' = offset /\ lvl' = lvl /\ tail' = tail
  BY DEF InsertPiece
<1>2. Good(r, w)
  OBVIOUS
<1>3. rest \in Seq(Char) /\ tail \in Seq(Char)
  BY <1>1 DEF TypeOK
<1>4. PICK m \in 1 .. Len(rest) : m = PieceLen /\ Bytes(SubSeq(rest, 1, m)) <= NodeStrSize
  BY <1>1, <1>3, PieceFits
<1>5. PICK s \in Seq(Char) : /\ s = SubSeq(rest, 1, m) /\ s # << >>
                             /\ Bytes(s) <= NodeStrSize /\ LinkNew(s)
  <2>1. m \in 0 .. Len(rest) /\ m > 0
    BY <1>3
  <2>2. SubSeq(rest, 1, m) \in Seq(Char) /\ Len(SubSeq(rest, 1, m)) = m
    BY <1>3, <2>1, Seqs!SeqParts
  <2>3. SubSeq(rest, 1, m) # << >>
    <3>1. Len(<< >>) = 0
      OBVIOUS
    <3> QED BY <2>1, <2>2, <3>1
  <2> QED BY <1>1, <1>4, <2>2, <2>3
<1>6. rest' \in Seq(Char) /\ rest' = SubSeq(rest, m + 1, Len(rest)) /\ tail' \in Seq(Char)
  <2>1. m \in 0 .. Len(rest)
    BY <1>3
  <2>2. SubSeq(rest, m + 1, Len(rest)) \in Seq(Char)
    BY <1>3, <2>1, Seqs!SeqParts
  <2> QED BY <1>1, <1>3, <1>4, <2>2
<1>7. PICK k \in Nat : k = Len(w[iter[0].node]) - iter[0].skip
  BY <1>1, <1>2, PiecingAt
<1>8. PICK r2, w2 : Grew(r2, w2, w, s, k) /\ TypeOK'
  BY <1>1, <1>2, <1>5, <1>6, <1>7, LinkKept
<1>9. PICK p \in Nat : p = Len(w[head]) - k /\ w2[head] = Splice(w[head], p, s, p + 1)
  BY <1>8 DEF Grew
<1>10. /\ w[head] \in Seq(Char) /\ req.str \in Seq(Char) /\ req.pos \in Nat
       /\ Bytes(tail) <= NodeStrSize
  BY <1>1, <1>2, PiecingAt DEF Piecing
<1>11. PutIn(w[head], tail, req.str, rest, req.pos, k)
  BY <1>1, <1>2, <1>7, PiecingPut
<1>12. PutIn(Splice(w[head], p, SubSeq(rest, 1, m), p + 1), tail, req.str,
             SubSeq(rest, m + 1, Len(rest)), req.pos, k)
  BY <1>1, <1>3, <1>9, <1>10, <1>11, PieceIn
<1>13. PutIn(w2[head], tail', req'.str, rest', req'.pos, k)
  BY <1>1, <1>5, <1>6, <1>9, <1>12
<1>14. Good(r2, w2)'
  BY <1>1, <1>8, <1>10, <1>13, PutPiecing
<1>15. PICK d \in Nat, b \in Nat :
         /\ d = Len(req.str) - Len(rest) /\ PutAt(b, w[head], tail, d, req.pos)
         /\ Reaches(p, b, d) /\ p <= Len(w[head])
  <2>1. Waiting(rest, tail) /\ Leaves(p, w[head], k)
    BY <1>1, <1>9 DEF Waiting, Leaves
  <2>2. PlaceFound(w[head], tail, req.str, rest, req.pos, p)
    BY <1>10, <1>11, <2>1, PutPlace, Zenon
  <2> QED BY <2>2 DEF PlaceFound
<1>16. PICK d2 \in Nat : d2 = Len(req'.str) - Len(rest') /\ Reaches(d2, d, Len(s))
  <2>1. PICK x \in Nat, y \in Nat, z \in Nat :
          x = Len(req.str) /\ y = Len(rest) /\ z = Len(s) /\ m \in 1 .. y
    BY <1>3, <1>5, <1>10
  <2>2. Len(s) = m /\ Len(rest') = y - m
    <3>1. m \in 0 .. Len(rest)
      BY <2>1
    <3>2. /\ Len(SubSeq(rest, 1, m)) = m
          /\ Len(SubSeq(rest, m + 1, Len(rest))) = Len(rest) - m
      BY <1>3, <3>1, Seqs!SeqParts
    <3> QED BY <1>5, <1>6, <2>1, <3>2
  <2>3. d = x - y /\ z = m
    BY <1>15, <2>1, <2>2
  <2>4. d + z \in Nat /\ d + z = x - (y - m)
    BY <2>1, <2>3
  <2>5. req'.str = req.str
    BY <1>1
  <2> QED BY <2>1, <2>2, <2>4, <2>5 DEF Reaches
<1>17. Shown(w2[head], tail', d2, req'.pos) = Shown(w[head], tail, d, req.pos)
  <2>1. PutInto(w2[head], w[head], p, s)
    BY <1>9, <1>15 DEF PutInto
  <2>2. ShownSame(w2[head], tail, d2, w[head], tail, d, req.pos)
    BY <1>3, <1>5, <1>9, <1>10, <1>15, <1>16, <2>1, PieceShown, Zenon
  <2> QED BY <1>1, <2>2 DEF ShownSame
<1>18. SeenSame(w)
  <2>1. Lists(height', next', skip', data', r2, w2)
    BY <1>8 DEF Grew, Held
  <2> QED BY <1>15, <1>16, <1>17, <2>1 DEF SeenSame
<1> QED BY <1>8, <1>14, <1>18 DEF IInv

(* It keeps the invariant.                                                  *)
LEMMA InsertPieceKept == IInv /\ InsertPiece => IInv'
BY InsertPieceShown DEF IInv

(* The end that was cut off goes into a new node behind them.               *)
LEMMA InsertTailShown ==
  ASSUME TypeOK, NEW r, NEW w, Good(r, w), InsertTail
  PROVE  IInv' /\ SeenSame(w)
<1>1. /\ TypeOK /\ pc = "pieces" /\ rest = << >> /\ tail # << >> /\ LinkNew(tail)
      /\ tail' = << >>
      /\ pc' = pc /\ req' = req /\ e' = e /\ offset' = offset /\ lvl' = lvl /\ rest' = rest
  BY DEF InsertTail
<1>2. Good(r, w)
  OBVIOUS
<1>3. tail \in Seq(Char) /\ rest' \in Seq(Char) /\ tail' \in Seq(Char)
  BY <1>1 DEF TypeOK
<1>4. PICK k \in Nat : k = Len(w[iter[0].node]) - iter[0].skip
  BY <1>1, <1>2, PiecingAt
<1>5. /\ w[head] \in Seq(Char) /\ req.str \in Seq(Char) /\ req.pos \in Nat
      /\ Bytes(tail) <= NodeStrSize
  BY <1>1, <1>2, PiecingAt DEF Piecing
<1>6. PICK s \in Seq(Char) : s = tail /\ s # << >> /\ Bytes(s) <= NodeStrSize /\ LinkNew(s)
  BY <1>1, <1>3, <1>5
<1>7. PICK r2, w2 : Grew(r2, w2, w, s, k) /\ TypeOK'
  BY <1>1, <1>2, <1>3, <1>4, <1>6, LinkKept
<1>8. PICK p \in Nat : p = Len(w[head]) - k /\ w2[head] = Splice(w[head], p, s, p + 1)
  BY <1>7 DEF Grew
<1>9. PutIn(w[head], s, req.str, << >>, req.pos, k)
  BY <1>1, <1>2, <1>4, <1>6, PiecingPut
<1>10. PutIn(w2[head], << >>, req.str, << >>, req.pos, k)
  <2>1. PutIn(Splice(w[head], p, s, p + 1), << >>, req.str, << >>, req.pos, k)
    BY <1>5, <1>6, <1>8, <1>9, TailIn
  <2> QED BY <1>8, <2>1
<1>11. PutIn(w2[head], tail', req'.str, rest', req'.pos, k)
  BY <1>1, <1>10
<1>12. Bytes(tail') <= NodeStrSize
  BY <1>1, BytesNone, CellsAre
<1>13. Good(r2, w2)'
  BY <1>1, <1>7, <1>11, <1>12, PutPiecing
<1>14. PICK d \in Nat, b \in Nat :
         /\ d = Len(req.str) - Len(<< >>) /\ PutAt(b, w[head], s, d, req.pos)
         /\ Reaches(p, b, d) /\ p <= Len(w[head])
  <2>1. Waiting(<< >>, s) /\ Leaves(p, w[head], k)
    BY <1>6, <1>8 DEF Waiting, Leaves
  <2>2. PlaceFound(w[head], s, req.str, << >>, req.pos, p)
    BY <1>5, <1>9, <2>1, PutPlace, Zenon
  <2> QED BY <2>2 DEF PlaceFound
<1>15. Shown(w2[head], << >>, d, req.pos) = Shown(w[head], s, d, req.pos)
  <2>1. PutInto(w2[head], w[head], p, s)
    BY <1>8, <1>14 DEF PutInto
  <2>2. ShownSame(w2[head], << >>, d, w[head], s, d, req.pos)
    BY <1>5, <1>6, <1>8, <1>14, <2>1, TailShown, Zenon
  <2> QED BY <2>2 DEF ShownSame
<1>16. SeenSame(w)
  <2>1. Lists(height', next', skip', data', r2, w2)
    BY <1>7 DEF Grew, Held
  <2>2. Shown(w2[head], tail', Len(req'.str) - Len(rest'), req'.pos)
          = Shown(w[head], tail, Len(req.str) - Len(rest), req.pos)
    BY <1>1, <1>6, <1>14, <1>15
  <2> QED BY <2>1, <2>2 DEF SeenSame
<1> QED BY <1>7, <1>13, <1>16 DEF IInv

(* It keeps the invariant.                                                  *)
LEMMA InsertTailKept == IInv /\ InsertTail => IInv'
BY InsertTailShown DEF IInv

(* The insertion ends.                                                      *)
LEMMA InsertDoneKept == IInv /\ InsertDone => IInv'
<1> SUFFICES ASSUME IInv, InsertDone PROVE IInv'
  OBVIOUS
<1>1. /\ TypeOK /\ pc = "pieces" /\ Return
      /\ height' = height /\ next' = next /\ skip' = skip /\ data' = data
      /\ num_chars' = num_chars /\ num_bytes' = num_bytes
  BY DEF IInv, InsertDone, heap
<1>2. PICK r, w : Good(r, w)
  BY DEF IInv
<1>3. /\ Lists(height, next, skip, data, r, w) /\ Filled(height, data)
      /\ num_chars = Len(w[head]) /\ num_bytes = Bytes(w[head])
  BY <1>1, <1>2, PiecingAt
<1>4. /\ Lists(height', next', skip', data', r, w) /\ Filled(height', data')
      /\ num_chars' = Len(w[head]) /\ num_bytes' = Bytes(w[head])
  BY <1>1, <1>3
<1> QED BY <1>1, <1>4, ReturnKept

(* The deletion begins.                                                     *)
LEMMA DelStartKept == IInv /\ DelStart => IInv'
<1> SUFFICES ASSUME IInv, DelStart PROVE IInv'
  OBVIOUS
<1>1. /\ TypeOK /\ pc = "found" /\ req.op = "erase"
      /\ num_chars' = num_chars - req.len /\ pc' = "del"
      /\ height' = height /\ next' = next /\ skip' = skip /\ data' = data
      /\ num_bytes' = num_bytes /\ req' = req /\ e' = e /\ offset' = offset
      /\ lvl' = lvl /\ iter' = iter /\ rest' = rest /\ tail' = tail
  BY DEF IInv, DelStart, Found, locals
<1>2. PICK r, w : Good(r, w)
  BY DEF IInv
<1>3. /\ Standing(r, w, Behindhand(w)) /\ e = iter[0].node /\ offset = iter[0].skip
  BY <1>1, <1>2, FoundAt
<1>4. /\ req \in Request /\ req.len \in Nat /\ Behindhand(w) \in Nat
      /\ Behindhand(w) <= Len(w[head]) /\ req.len <= Behindhand(w)
  BY <1>1, <1>2, BehindhandIs
<1>5. /\ Lists(height, next, skip, data, r, w) /\ Filled(height, data)
      /\ Cleared(height, next, data) /\ num_chars = Len(w[head])
      /\ num_bytes = Bytes(w[head]) /\ Len(w[head]) \in Nat
  BY <1>1, <1>2, HeldIs DEF Whole, Counted
<1>6. num_chars' \in Nat /\ num_chars' = Len(w[head]) - req.len
  BY <1>1, <1>4, <1>5
<1>7. TypeOK'
  BY <1>1, <1>6 DEF TypeOK
<1>8. Behindhand(w)' = Behindhand(w)
  BY <1>1 DEF Behindhand
<1>9. Counted(w)' /\ Served(w)'
  BY <1>1, <1>4, <1>5, <1>6, <1>8 DEF Counted, Served
<1>10. Deleting(r, w)'
  <2>1. Standing(r, w, Behindhand(w))'
    BY <1>1, <1>3, <1>8 DEF Standing, Inside
  <2> QED BY <1>1, <1>3, <2>1 DEF Deleting
<1>11. Lists(height', next', skip', data', r, w) /\ Filled(height', data')
       /\ Cleared(height', next', data')
  BY <1>1, <1>5
<1>12. Good(r, w)'
  BY <1>1, <1>9, <1>10, <1>11 DEF Good, Whole, Held
<1> QED BY <1>7, <1>12 DEF IInv

(* Where a round of the deletion takes its n characters: behind off in d,   *)
(* the node u the iterator stands on or the next one.                       *)
DelIn(r, w, u, k, d, off, n) ==
  /\ u = iter[0].node /\ u \in Live(height) /\ d \in Live(height)
  /\ k \in Nat /\ k = Behindhand(w) /\ Along(height, r, w, iter, u, k)
  /\ d = DelNode /\ off = DelOffset /\ n = Removed
  /\ off \in Nat /\ n \in Nat /\ n > 0 /\ n <= req.len /\ req.len <= k
  /\ off + n <= Len(data[d]) /\ skip[d][0] = Len(data[d])
  /\ Spanning(height, r, NextNodes(height, iter, d), d)
  /\ r[d] <= r[u]
  /\ Inside(u)
  /\ \/ d = u /\ off = iter[0].skip
     \/ /\ d = next[u][0] /\ d \in Node /\ r[d] < r[u]
        /\ off = 0 /\ AtEndOf(u)
        /\ Leading(height, next, IterNodes(iter), d)

(* The node itself leads its levels.                                        *)
LEMMA HereSpans ==
  ASSUME NEW ht, NEW nx, NEW dt, NEW r, NEW w, Laid(ht, nx, dt, r, w),
         NEW it, NEW u, NEW k, Along(ht, r, w, it, u, k)
  PROVE  Spanning(ht, r, NextNodes(ht, it, u), u)
<1>1. /\ u \in Cell /\ u \in Live(ht)
      /\ \A i \in Levels : i < ht[head] => LastBefore(ht, r, it[i].node, u, i)
  BY AlongAt
<1>2. r[u] \in Nat
  BY <1>1, LaidTypes
<1>3. ASSUME NEW i \in Levels, i < ht[head]
      PROVE  LastBefore(ht, r, NextNodes(ht, it, u)[i], u, i)
  <2>1. CASE i < ht[u]
    <3>1. NextNodes(ht, it, u)[i] = u
      BY <2>1 DEF NextNodes
    <3>2. r[u] <= r[u]
      BY <1>2
    <3>3. LastBefore(ht, r, u, u, i)
      BY <1>1, <2>1, <3>2 DEF LastBefore
    <3> QED BY <3>1, <3>3
  <2>2. CASE ~(i < ht[u])
    <3>1. NextNodes(ht, it, u)[i] = it[i].node
      BY <2>2 DEF NextNodes
    <3> QED BY <1>1, <1>3, <3>1
  <2> QED BY <2>1, <2>2
<1> QED BY <1>3 DEF Spanning

(* The smaller of two numbers.                                              *)
LEMMA MinIs ==
  ASSUME NEW a \in Nat, NEW b \in Nat
  PROVE  /\ MinOf(a, b) \in Nat /\ MinOf(a, b) <= a /\ MinOf(a, b) <= b
         /\ MinOf(a, b) = a \/ MinOf(a, b) = b
BY DEF MinOf

(* In the loop of an erasure the iterator stands at the next character to   *)
(* go.                                                                      *)
LEMMA DelAt ==
  ASSUME TypeOK, DelLoop, NEW r, NEW w, Good(r, w)
  PROVE  \E u, k, d, off, n : DelIn(r, w, u, k, d, off, n)
<1>1. /\ pc = "del" /\ req.len > 0 /\ Deleting(r, w)
  BY DEF DelLoop, Good
<1>2. /\ Lists(height, next, skip, data, r, w) /\ Filled(height, data)
      /\ Laid(height, next, data, r, w)
  BY <1>1, HeldIs DEF Whole
<1>3. PICK k \in Nat : k = Behindhand(w) /\ req.len \in Nat /\ req.len <= k /\ k > 0
  <2>1. Behindhand(w) \in Nat /\ req.len \in Nat /\ req.len <= Behindhand(w)
    BY <1>1, BehindhandIs
  <2> QED BY <1>1, <2>1
<1>4. PICK u : /\ u = iter[0].node /\ Along(height, r, w, iter, u, k) /\ Inside(u)
               /\ \/ e = u /\ offset = iter[0].skip
                  \/ e = next[u][0] /\ offset = 0 /\ AtEndOf(u)
  BY <1>1, <1>3 DEF Deleting, Standing
<1>5. /\ u \in Cell /\ u \in Live(height) /\ skip[u][0] = Len(data[u]) /\ Len(data[u]) \in Nat
      /\ iter[0].skip \in Nat /\ r[u] \in Nat
  <2>1. u \in Cell /\ u \in Live(height)
    BY <1>2, <1>4, AlongAt
  <2>2. iter[0].skip \in Nat
    BY CellsAre DEF TypeOK
  <2> QED BY <1>2, <2>1, <2>2, SkipOfCell, LaidTypes
<1>6. ASSUME NEW d \in Live(height), skip[d][0] = Len(data[d]), Len(data[d]) \in Nat,
             NEW off \in Nat, off < Len(data[d]), d = DelNode, off = DelOffset
      PROVE  \E n \in Nat : /\ n = Removed /\ n > 0 /\ n <= req.len /\ off + n <= Len(data[d])
  <2>1. PICK y \in Nat, z \in Nat, l \in Nat :
          y = Len(data[d]) /\ z = y - off /\ z > 0 /\ l = req.len /\ l > 0
    <3>1. Len(data[d]) - off \in Nat /\ Len(data[d]) - off > 0
      BY <1>6
    <3> QED BY <1>1, <1>3, <1>6, <3>1
  <2>2. Removed = MinOf(l, z)
    BY <1>6, <2>1 DEF Removed
  <2>3. PICK n \in Nat : n = MinOf(l, z) /\ n <= l /\ n <= z /\ (n = l \/ n = z)
    <3>1. /\ MinOf(l, z) \in Nat /\ MinOf(l, z) <= l /\ MinOf(l, z) <= z
          /\ MinOf(l, z) = l \/ MinOf(l, z) = z
      BY MinIs
    <3> QED BY <3>1, Zenon
  <2>4. n > 0 /\ off + n <= y
    BY <2>1, <2>3
  <2> QED BY <2>1, <2>2, <2>3, <2>4
<1>7. ASSUME AtEndOf(u), DelNode = next[u][0], DelOffset = 0
      PROVE  \E d, off, n : DelIn(r, w, u, k, d, off, n)
  <2>1. PICK d : d = next[u][0]
    OBVIOUS
  <2>2. d # Nil
    <3>1. iter[0].skip = Len(data[u])
      BY <1>7 DEF AtEndOf
    <3> QED BY <1>2, <1>3, <1>4, <2>1, <3>1, AlongEnd
  <2>3. /\ d \in Node /\ d \in Live(height) /\ r[d] < r[u]
        /\ Spanning(height, r, NextNodes(height, iter, d), d)
        /\ Leading(height, next, IterNodes(iter), d)
    BY <1>2, <1>4, <2>1, <2>2, NextSpans
  <2>4. skip[d][0] = Len(data[d]) /\ Len(data[d]) \in Nat /\ r[d] \in Nat
    <3>1. d \in Cell
      BY <2>3 DEF Live
    <3> QED BY <1>2, <2>3, <3>1, SkipOfCell, LaidTypes
  <2>5. Len(data[d]) > 0
    <3>1. data[d] # << >> /\ data[d] \in Seq(Char)
      BY <1>2, <2>3, CellsAre DEF Filled, Live, TypeOK
    <3> QED BY <3>1
  <2>6. PICK off \in Nat : off = 0 /\ off = DelOffset /\ off < Len(data[d])
    BY <1>7, <2>5
  <2>7. PICK n \in Nat : n = Removed /\ n > 0 /\ n <= req.len /\ off + n <= Len(data[d])
    <3>1. d = DelNode
      BY <1>7, <2>1
    <3> QED BY <1>6, <2>3, <2>4, <2>6, <3>1
  <2>8. r[d] <= r[u]
    BY <1>5, <2>3, <2>4
  <2>9. DelIn(r, w, u, k, d, off, n)
    BY <1>3, <1>4, <1>5, <1>7, <2>1, <2>3, <2>4, <2>6, <2>7, <2>8 DEF DelIn
  <2> QED BY <2>9
<1>8. CASE e = u /\ offset = iter[0].skip /\ ~DelAtEnd
  <2>1. /\ DelNode = u /\ DelOffset = iter[0].skip
    BY <1>8 DEF DelNode, DelOffset
  <2>2. PICK off \in Nat : off = iter[0].skip /\ off = DelOffset /\ off < Len(data[u])
    <3>1. iter[0].skip <= Len(data[u]) /\ iter[0].skip # Len(data[u])
      BY <1>4, <1>5, <1>8 DEF Inside, DelAtEnd
    <3> QED BY <1>5, <2>1, <3>1
  <2>3. PICK n \in Nat : n = Removed /\ n > 0 /\ n <= req.len /\ off + n <= Len(data[u])
    BY <1>5, <1>6, <2>1, <2>2
  <2>4. Spanning(height, r, NextNodes(height, iter, u), u)
    BY <1>2, <1>4, HereSpans
  <2>5. r[u] <= r[u]
    BY <1>5
  <2>6. DelIn(r, w, u, k, u, off, n)
    BY <1>3, <1>4, <1>5, <2>1, <2>2, <2>3, <2>4, <2>5 DEF DelIn
  <2> QED BY <2>6
<1>9. CASE e = u /\ offset = iter[0].skip /\ DelAtEnd
  <2>1. /\ DelNode = next[u][0] /\ DelOffset = 0
    BY <1>4, <1>9 DEF DelNode, DelOffset
  <2>2. AtEndOf(u)
    BY <1>5, <1>9 DEF DelAtEnd, AtEndOf
  <2> QED BY <1>7, <2>1, <2>2
<1>10. CASE e = next[u][0] /\ offset = 0 /\ AtEndOf(u)
  <2>1. e # Nil
    <3>1. iter[0].skip = Len(data[u])
      BY <1>10 DEF AtEndOf
    <3> QED BY <1>2, <1>3, <1>4, <1>10, <3>1, AlongEnd
  <2>2. e \in Node /\ e \in Live(height)
    BY <1>2, <1>4, <1>10, <2>1, NextSpans
  <2>3. skip[e][0] = Len(data[e]) /\ Len(data[e]) > 0
    <3>1. data[e] # << >> /\ data[e] \in Seq(Char)
      BY <1>2, <2>2, CellsAre DEF Filled, Live, TypeOK
    <3>2. Len(data[e]) > 0
      BY <3>1
    <3> QED BY <1>2, <2>2, <3>2, SkipOfCell
  <2>4. ~DelAtEnd
    BY <1>10, <2>3 DEF DelAtEnd
  <2>5. DelNode = next[u][0] /\ DelOffset = 0
    BY <1>10, <2>4 DEF DelNode, DelOffset
  <2> QED BY <1>7, <1>10, <2>5
<1> QED BY <1>4, <1>8, <1>9, <1>10

(* The deletion ends.                                                       *)
LEMMA DelDoneKept == IInv /\ DelDone => IInv'
<1> SUFFICES ASSUME IInv, DelDone PROVE IInv'
  OBVIOUS
<1>1. /\ TypeOK /\ pc = "del" /\ req.len = 0 /\ Return
      /\ height' = height /\ next' = next /\ skip' = skip /\ data' = data
      /\ num_chars' = num_chars /\ num_bytes' = num_bytes
  BY DEF IInv, DelDone, heap
<1>2. PICK r, w : Good(r, w)
  BY DEF IInv
<1>3. /\ Lists(height, next, skip, data, r, w) /\ Filled(height, data)
      /\ num_chars = Len(w[head]) - 0 /\ num_bytes = Bytes(w[head])
      /\ Len(w[head]) \in Nat
  BY <1>1, <1>2, HeldIs DEF Whole, Counted
<1>4. /\ Lists(height', next', skip', data', r, w) /\ Filled(height', data')
      /\ num_chars' = Len(w[head]) /\ num_bytes' = Bytes(w[head])
  BY <1>1, <1>3
<1> QED BY <1>1, <1>4, ReturnKept

(* What follows the position after a round has taken n of it.               *)
LEMMA BehindhandLess ==
  ASSUME NEW w, NEW w2, NEW k \in Nat, NEW n \in Nat, n > 0, n <= k,
         req.pos \in Nat, Len(w[head]) \in Nat, k = Behindhand(w),
         req'.pos = req.pos, Len(w2[head]) = Len(w[head]) - n
  PROVE  Behindhand(w2)' = k - n
<1>1. PICK x \in Nat, p \in Nat : x = Len(w[head]) /\ p = req.pos
  OBVIOUS
<1>2. k = x - MinOf(p, x)
  BY <1>1 DEF Behindhand
<1>3. p < x /\ k = x - p
  BY <1>2 DEF MinOf
<1>4. MinOf(p, x - n) = p
  <2>1. p <= x - n
    BY <1>3
  <2> QED BY <2>1 DEF MinOf
<1>5. Behindhand(w2)' = (x - n) - MinOf(p, x - n)
  BY <1>1 DEF Behindhand
<1> QED BY <1>3, <1>4, <1>5

(* What a round keeps, of its lists and the iterator.                       *)
LEMMA RoundKept ==
  ASSUME TypeOK, DelLoop, NEW r, NEW w, Good(r, w),
         NEW u, NEW k, NEW d, NEW off, NEW n, DelIn(r, w, u, k, d, off, n),
         DelAgain, e' \in Cell \cup {Nil}, offset' = off,
         NEW w2, Lists(height', next', skip', data', r, w2), Filled(height', data'),
         Len(w2[head]) = Len(w[head]) - n, num_bytes' = Bytes(w2[head]),
         Along(height', r, w2, iter, u, k - n), Inside(u)',
         \/ e' = u /\ offset' = iter[0].skip
         \/ e' = next'[u][0] /\ offset' = 0 /\ AtEndOf(u)'
  PROVE  IInv'
<1>1. /\ pc = "del" /\ req' = [req EXCEPT !.len = @ - n]
      /\ num_chars' = num_chars /\ pc' = pc /\ lvl' = lvl /\ iter' = iter
      /\ rest' = rest /\ tail' = tail
  BY DEF DelLoop, DelAgain, DelIn
<1>2. /\ req \in Request /\ req.pos \in Nat /\ req.len \in Nat
  BY <1>1, BehindhandIs
<1>3. /\ k \in Nat /\ k = Behindhand(w) /\ n \in Nat /\ n > 0 /\ n <= req.len /\ req.len <= k
      /\ u = iter[0].node /\ off \in Nat
  BY DEF DelIn
<1>4. PICK x \in Nat, l \in Nat : x = Len(w[head]) /\ l = req.len
  <2>1. Len(w[head]) \in Nat
    BY <1>1, HeldIs DEF Whole
  <2> QED BY <1>2, <2>1
<1>5. num_chars = x - l /\ req.op = "erase"
  <2>1. Counted(w) /\ Served(w)
    BY <1>1, HeldIs DEF Whole
  <2> QED BY <1>1, <1>4, <2>1 DEF Counted, Served
<1>6. req' \in Request /\ req'.op = "erase" /\ req'.pos = req.pos /\ req'.len = l - n
  <2>1. l - n \in Nat
    BY <1>3, <1>4
  <2> QED BY <1>1, <1>2, <1>4, <1>5, <2>1 DEF Request
<1>7. Behindhand(w2)' = k - n
  <2>1. n <= k
    BY <1>2, <1>3
  <2>2. Len(w[head]) \in Nat
    BY <1>4
  <2> QED BY <1>2, <1>3, <1>6, <2>1, <2>2, BehindhandLess
<1>8. /\ Laid(height', next', data', r, w2) /\ Cleared(height', next', data')
      /\ height' \in [Cell -> 0 .. MaxHeight] /\ height'[head] > 0
      /\ next' \in [Cell -> [Levels -> Pointer]]
      /\ skip' \in [Cell -> [Levels -> Nat]]
      /\ data' \in [Cell -> Seq(Char)]
      /\ Len(w2[head]) \in Nat /\ Bytes(w2[head]) \in Nat
  BY ListsLaid
<1>9. TypeOK'
  BY <1>1, <1>3, <1>6, <1>8 DEF TypeOK
<1>10. Counted(w2)'
  <2>1. num_chars' = Len(w2[head]) - req'.len
    <3>1. x - l = (x - n) - (l - n)
      BY <1>3, <1>4
    <3> QED BY <1>1, <1>4, <1>5, <1>6, <3>1
  <2> QED BY <1>1, <2>1 DEF Counted
<1>11. Served(w2)'
  <2>1. req'.len <= k - n
    BY <1>3, <1>4, <1>6
  <2> QED BY <1>1, <1>6, <1>7, <2>1 DEF Served
<1>12. Deleting(r, w2)'
  <2>1. Standing(r, w2, Behindhand(w2))'
    BY <1>1, <1>3, <1>7 DEF Standing
  <2> QED BY <1>1, <1>3, <2>1 DEF Deleting
<1>13. Good(r, w2)'
  BY <1>1, <1>8, <1>10, <1>11, <1>12 DEF Good, Whole, Held
<1> QED BY <1>9, <1>13 DEF IInv

(* The text w2 without the n characters, as its list is after the edit.     *)
Rounded(r, w, w2, u, k, d, off, n, dt2, sk2) ==
  /\ Reworked(height, next, sk2, data, dt2, r, w, w2, d, off, << >>, off + n + 1)
  /\ Growth(<< >>, off, off + n + 1) = -n
  /\ Lists(height, next, sk2, dt2, r, w2)
  /\ Len(w2[head]) = Len(w[head]) - n
  /\ Bytes(w2[head]) = num_bytes - Bytes(SubSeq(data[d], off + 1, off + n))
  /\ Along(height, r, w2, iter, u, k - n)
  /\ dt2 \in [Cell -> Seq(Char)]
  /\ Len(dt2[d]) = Len(data[d]) - n
  /\ \A c \in Cell : c # d => dt2[c] = data[c]
  /\ Bytes(dt2[d]) <= NodeStrSize

(* Characters are erased.                                                   *)
Erased(dt2, d, off, n) == dt2 = [data EXCEPT ![d] = StringErase(@, off, n)]

(* There is such a text.                                                    *)
LEMMA RoundEdits ==
  ASSUME TypeOK, DelLoop, NEW r, NEW w, Good(r, w),
         NEW u, NEW k, NEW d, NEW off, NEW n, DelIn(r, w, u, k, d, off, n),
         NEW dt2, Erased(dt2, d, off, n),
         NEW sk2, Reskipped(height, skip, sk2, NextNodes(height, iter, d), -n)
  PROVE  \E w2 : Rounded(r, w, w2, u, k, d, off, n, dt2, sk2)
<1>1. /\ u \in Live(height) /\ d \in Live(height) /\ k \in Nat
      /\ Along(height, r, w, iter, u, k)
      /\ off \in Nat /\ n \in Nat /\ off + n <= Len(data[d])
      /\ Spanning(height, r, NextNodes(height, iter, d), d)
      /\ r[d] <= r[u]
  BY DEF DelIn
<1>2. /\ Lists(height, next, skip, data, r, w) /\ Filled(height, data)
      /\ Laid(height, next, data, r, w) /\ num_bytes = Bytes(w[head])
      /\ Len(w[head]) \in Nat /\ Bytes(w[head]) \in Nat
  BY HeldIs, ListsLaid DEF DelLoop, Whole, Counted
<1>3. d \in Cell /\ data \in [Cell -> Seq(Char)] /\ Len(data[d]) \in Nat
      /\ r[d] \in Nat /\ r[u] \in Nat
  <2>1. d \in Cell /\ u \in Cell
    BY <1>1 DEF Live
  <2>2. data \in [Cell -> Seq(Char)]
    BY <1>2, ListsLaid
  <2> QED BY <1>2, <2>1, <2>2, LaidTypes
<1>4. PICK q \in Nat, l \in Nat, j \in Int :
        /\ q = off + n + 1 /\ l = Len(data[d]) /\ j = -n /\ off \in 0 .. l /\ n \in 0 .. l - off
        /\ q - 1 = off + n
  <2>1. off + n + 1 \in Nat /\ -n \in Int /\ (off + n + 1) - 1 = off + n
    BY <1>1
  <2>2. off \in 0 .. Len(data[d]) /\ n \in 0 .. Len(data[d]) - off
    BY <1>1, <1>3
  <2> QED BY <1>3, <2>1, <2>2
<1>5. EditOf(data, dt2, d, off, << >>, q)
  <2>1. EditOf(data, [data EXCEPT ![d] = StringErase(@, off, n)], d, off, << >>, off + n + 1)
    BY <1>3, <1>4, EraseIsEdit
  <2> QED BY <1>4, <2>1 DEF Erased
<1>6. Growth(<< >>, off, q) = j
  <2>1. 0 - (q - off - 1) = -n
    BY <1>1, <1>4
  <2>2. Len(<< >>) = 0
    OBVIOUS
  <2> QED BY <1>4, <2>1, <2>2 DEF Growth
<1>7. Editing(height, skip, sk2, data, dt2, r, d, off, << >>, q)
  <2>1. Reskipped(height, skip, sk2, NextNodes(height, iter, d), Growth(<< >>, off, q))
    BY <1>4, <1>6
  <2> QED BY <1>1, <1>5, <2>1 DEF Editing
<1>8. PICK w2 : Reworked(height, next, sk2, data, dt2, r, w, w2, d, off, << >>, q)
  BY <1>1, <1>2, <1>7, Edited
<1>9. /\ Lists(height, next, sk2, dt2, r, w2)
      /\ \A c \in Live(height) : r[d] <= r[c] => Len(w2[c]) = Len(w[c]) + j
      /\ Len(w2[head]) = Len(w[head]) + j
      /\ Bytes(w2[head]) = Bytes(w[head]) - Bytes(SubSeq(data[d], off + 1, q - 1)) + Bytes(<< >>)
      /\ Bytes(dt2[d]) = Bytes(data[d]) - Bytes(SubSeq(data[d], off + 1, q - 1)) + Bytes(<< >>)
      /\ Bytes(SubSeq(data[d], off + 1, q - 1)) \in Nat
  BY <1>6, <1>8 DEF Reworked
<1>10. Len(w2[head]) = Len(w[head]) - n
  BY <1>1, <1>2, <1>4, <1>9
<1>11. PICK y \in Nat : /\ y = Bytes(SubSeq(data[d], off + 1, off + n))
                        /\ Bytes(w2[head]) = Bytes(w[head]) - y + 0
                        /\ Bytes(dt2[d]) = Bytes(data[d]) - y + 0
  BY <1>4, <1>9, BytesNone
<1>12. Bytes(w2[head]) = num_bytes - y
  BY <1>2, <1>11
<1>13. Bytes(dt2[d]) <= NodeStrSize
  <2>1. Bytes(data[d]) <= NodeStrSize /\ Bytes(data[d]) \in Nat
    BY <1>2, <1>3, BytesType DEF Filled
  <2> QED BY <1>11, <2>1, CellsAre
<1>14. Along(height, r, w2, iter, u, k - n)
  <2>1. \A c \in Live(height) : r[u] <= r[c] => Len(w2[c]) = Len(w[c]) + j
    <3>1. ASSUME NEW c \in Live(height), r[u] <= r[c] PROVE r[d] <= r[c]
      <4>1. r[c] \in Nat
        BY <1>2, LaidTypes DEF Live
      <4> QED BY <1>1, <1>3, <3>1, <4>1
    <3> QED BY <1>9, <3>1
  <2>2. Along(height, r, w2, iter, u, k + j)
    <3>1. k \in Int
      BY <1>1
    <3> QED BY <1>1, <1>2, <2>1, <3>1, AlongMoves, Zenon
  <2>3. k + j = k - n
    BY <1>1, <1>4
  <2> QED BY <2>2, <2>3
<1>15. /\ dt2 \in [Cell -> Seq(Char)]
       /\ \A c \in Cell : c # d => dt2[c] = data[c]
  BY <1>5 DEF EditOf
<1>16. Len(dt2[d]) = Len(data[d]) - n
  <2>1. PICK t \in Seq(Char), a \in Seq(Char) :
          t = data[d] /\ a = << >> /\ Len(a) = 0 /\ dt2[d] = Splice(t, off, a, q)
    BY <1>3, <1>5 DEF EditOf
  <2>2. off \in 0 .. Len(t) /\ q \in off + 1 .. Len(t) + 1
    BY <1>5, <2>1 DEF EditOf
  <2>3. Len(Splice(t, off, a, q)) = Len(t) + (Len(a) - (q - off - 1))
    BY <2>2, SplicedLen
  <2>4. q - off - 1 = n
    BY <1>1, <1>4
  <2>5. l + (0 - n) = l - n
    BY <1>1
  <2> QED BY <1>4, <2>1, <2>3, <2>4, <2>5
<1>17. Growth(<< >>, off, q) = -n
  BY <1>4, <1>6
<1>18. Rounded(r, w, w2, u, k, d, off, n, dt2, sk2)
  BY <1>4, <1>8, <1>9, <1>10, <1>11, <1>12, <1>13, <1>14, <1>15, <1>16, <1>17 DEF Rounded
<1> QED BY <1>18

(* A round takes n of the characters behind the position out of the text.   *)
TakenAt(w, p, n) == /\ p = MinOf(req.pos, Len(w[head])) /\ p + n <= Len(w[head])
                    /\ Spliced(w, p, << >>, p + n + 1)

(* Some step of a deletion: n more of its characters go.                    *)
Takes(w) == \E p \in Nat, n \in Nat : /\ n > 0 /\ n <= req.len /\ TakenAt(w, p, n)
                                     /\ req' = [req EXCEPT !.len = @ - n]

(* They begin at the position.                                              *)
LEMMA RoundPlace ==
  ASSUME TypeOK, DelLoop, NEW r, NEW w, Good(r, w),
         NEW u, NEW k, NEW d, NEW off, NEW n, DelIn(r, w, u, k, d, off, n)
  PROVE  AtPlace(w, d, off)
<1>1. pc = "del" /\ Laid(height, next, data, r, w)
  BY HeldIs DEF DelLoop, Whole
<1>2. /\ u = iter[0].node /\ k \in Nat /\ k = Behindhand(w) /\ Along(height, r, w, iter, u, k)
      /\ u \in Live(height) /\ d \in Live(height)
  BY DEF DelIn
<1>3. CASE d = u /\ off = iter[0].skip
  <2>1. iter[0].skip = Len(w[u]) - k
    BY <1>1, <1>2, AlongAt
  <2> QED BY <1>2, <1>3, <2>1 DEF AtPlace
<1>4. CASE d = next[u][0] /\ d \in Node /\ off = 0 /\ AtEndOf(u)
  <2>1. iter[0].skip = Len(data[u]) /\ k \in Int
    BY <1>2, <1>4 DEF AtEndOf
  <2>2. Len(After(w, next[u][0])) = k
    BY <1>1, <1>2, <2>1, AlongEnd
  <2>3. d # Nil
    BY <1>4, CellsAre
  <2>4. Len(w[d]) = k
    BY <1>4, <2>2, <2>3 DEF After
  <2>5. 0 = k - k
    BY <1>2
  <2> QED BY <1>2, <1>4, <2>4, <2>5 DEF AtPlace
<1> QED BY <1>3, <1>4 DEF DelIn

(* What a round does to the text.                                           *)
LEMMA RoundTakes ==
  ASSUME TypeOK, DelLoop, NEW r, NEW w, Good(r, w),
         NEW u, NEW k, NEW d, NEW off, NEW n, DelIn(r, w, u, k, d, off, n), DelAgain,
         NEW w1, NEW dt2, NEW sk2, Rounded(r, w, w1, u, k, d, off, n, dt2, sk2),
         NEW r2, NEW w2, Lists(height', next', skip', data', r2, w2), w2[head] = w1[head]
  PROVE  Takes(w)
<1>1. /\ pc = "del" /\ d \in Live(height) /\ off \in Nat /\ n \in Nat /\ n > 0 /\ n <= req.len
      /\ n = Removed /\ req.len <= k /\ k = Behindhand(w) /\ k \in Nat
  BY DEF DelIn, DelLoop
<1>2. AtPlace(w, d, off)
  BY RoundPlace
<1>3. /\ Before(w, d, head) + off = MinOf(req.pos, Len(w[head]))
      /\ MinOf(req.pos, Len(w[head])) \in Nat
      /\ MinOf(req.pos, Len(w[head])) = Len(w[head]) - Behindhand(w)
  BY <1>1, <1>2, PlaceIs
<1>4. Len(w[head]) \in Nat /\ Len(w[d]) \in Nat /\ req.len \in Nat
  <2>1. Laid(height, next, data, r, w) /\ Len(w[head]) \in Nat
    BY <1>1, HeldIs DEF Whole
  <2> QED BY <1>1, <2>1, LaidTypes, BehindhandIs DEF Live
<1>5. PICK x \in Nat, b \in Int, p \in Nat :
        x = Len(w[head]) /\ b = Before(w, d, head) /\ p = MinOf(req.pos, Len(w[head]))
  <2>1. Before(w, d, head) \in Int
    BY <1>4 DEF Before
  <2> QED BY <1>3, <1>4, <2>1
<1>6. p = b + off /\ p = x - k /\ n <= k
  BY <1>1, <1>3, <1>4, <1>5
<1>7. b + (off + n + 1) = p + n + 1 /\ p + n <= x
  BY <1>1, <1>6
<1>8. w1[head] = Splice(w[head], p, << >>, p + n + 1)
  BY <1>5, <1>6, <1>7 DEF Rounded, Reworked
<1>9. TakenAt(w, p, n)
  BY <1>5, <1>7, <1>8 DEF TakenAt, Spliced
<1> QED BY <1>1, <1>9 DEF Takes, DelAgain

(* A round that leaves the node with something.                             *)
LEMMA DelTrimShown ==
  ASSUME TypeOK, NEW r, NEW w, Good(r, w), DelTrim
  PROVE  IInv' /\ Takes(w)
<1>1. TypeOK /\ DelLoop /\ KeepsNode /\ DelAgain
  BY DEF DelTrim
<1>2. Good(r, w)
  OBVIOUS
<1>3. PICK u, k, d, off, n : DelIn(r, w, u, k, d, off, n)
  BY <1>1, <1>2, DelAt
<1>4. /\ d = DelNode /\ off = DelOffset /\ n = Removed
      /\ u = iter[0].node /\ u \in Live(height) /\ d \in Live(height)
      /\ off \in Nat /\ n \in Nat /\ off + n <= Len(data[d])
      /\ skip[d][0] = Len(data[d]) /\ Inside(u)
  BY <1>3 DEF DelIn
<1>5. /\ data' = [data EXCEPT ![d] = StringErase(@, off, n)]
      /\ num_bytes' = num_bytes - Bytes(SubSeq(data[d], off + 1, off + n))
      /\ skip' = [c \in Cell |-> [i \in Levels |->
                    IF (c = d /\ i < height[c])
                         \/ (i \in height[d] .. height[head] - 1 /\ c = iter[i].node)
                      THEN skip[c][i] - n ELSE skip[c][i]]]
      /\ e' = d /\ offset' = off
      /\ height' = height /\ next' = next /\ iter' = iter
  BY <1>1, <1>4 DEF DelTrim, Above, DelAgain
<1>6. /\ Lists(height, next, skip, data, r, w) /\ Filled(height, data)
      /\ Laid(height, next, data, r, w)
      /\ skip \in [Cell -> [Levels -> Nat]]
  BY <1>1, <1>2, HeldIs, ListsLaid DEF DelLoop, Whole
<1>7. d \in Cell /\ u \in Cell
  BY <1>4 DEF Live
<1>8. /\ height[d] \in Nat /\ height[head] \in Nat /\ height[d] <= height[head]
      /\ Len(data[d]) \in Nat
  BY <1>6, <1>7, LaidTypes, CellsAre
<1>9. Reskipped(height, skip, skip', NextNodes(height, iter, d), -n)
  <2>1. ASSUME NEW c \in Cell, NEW i \in Levels
        PROVE  /\ skip'[c][i] = IF i < height[head] /\ c = NextNodes(height, iter, d)[i]
                                  THEN skip[c][i] + (-n) ELSE skip[c][i]
               /\ skip'[c][i] \in Int
    <3>1. skip'[c][i] = IF (c = d /\ i < height[c])
                             \/ (i \in height[d] .. height[head] - 1 /\ c = iter[i].node)
                          THEN skip[c][i] - n ELSE skip[c][i]
      BY <1>5
    <3>2. NextNodes(height, iter, d)[i] = IF i < height[d] THEN d ELSE iter[i].node
      BY DEF NextNodes
    <3>3. PICK x \in Nat : x = skip[c][i]
      BY <1>6
    <3>4. i \in Nat
      BY CellsAre
    <3>5. x - n = x + (-n) /\ x - n \in Int /\ x \in Int
      BY <1>4
    <3>6. CASE i < height[d]
      <4>1. i < height[head] /\ i \notin height[d] .. height[head] - 1
        BY <1>8, <3>4, <3>6
      <4> QED BY <3>1, <3>2, <3>3, <3>5, <3>6, <4>1
    <3>7. CASE ~(i < height[d])
      <4>1. i \in height[d] .. height[head] - 1 <=> i < height[head]
        BY <1>8, <3>4, <3>7
      <4>2. ~(c = d /\ i < height[c])
        BY <3>7
      <4> QED BY <3>1, <3>2, <3>3, <3>5, <3>7, <4>1, <4>2
    <3> QED BY <3>6, <3>7
  <2>2. skip' = [c \in Cell |-> [i \in Levels |-> skip'[c][i]]]
    BY <1>5
  <2>3. skip' \in [Cell -> [Levels -> Int]]
    BY <2>1, <2>2
  <2> QED BY <2>1, <2>3 DEF Reskipped
<1>0. PICK w2 : Rounded(r, w, w2, u, k, d, off, n, data', skip')
  <2>1. Erased(data', d, off, n)
    BY <1>5 DEF Erased
  <2> QED BY <1>1, <1>2, <1>3, <1>9, <2>1, RoundEdits
<1>10. /\ Lists(height, next, skip', data', r, w2)
       /\ Len(w2[head]) = Len(w[head]) - n
       /\ Bytes(w2[head]) = num_bytes - Bytes(SubSeq(data[d], off + 1, off + n))
       /\ Along(height, r, w2, iter, u, k - n)
       /\ data' \in [Cell -> Seq(Char)]
       /\ Len(data'[d]) = Len(data[d]) - n
       /\ \A c \in Cell : c # d => data'[c] = data[c]
       /\ Bytes(data'[d]) <= NodeStrSize
  BY <1>0 DEF Rounded
<1>11. Filled(height', data')
  <2>1. d # head => data'[d] # << >>
    <3>1. ASSUME d # head PROVE data'[d] # << >>
      <4>1. n < Len(data[d])
        BY <1>1, <1>4, <3>1 DEF KeepsNode
      <4>2. Len(data'[d]) > 0
        BY <1>4, <1>8, <1>10, <4>1
      <4>3. Len(<< >>) = 0
        OBVIOUS
      <4> QED BY <4>2, <4>3
    <3> QED BY <3>1
  <2>2. ASSUME NEW c \in Node, height[c] > 0 PROVE data'[c] # << >>
    <3>1. c \in Cell /\ c # head
      BY CellsAre
    <3> QED BY <1>6, <1>10, <2>1, <2>2, <3>1 DEF Filled
  <2>3. ASSUME NEW c \in Cell PROVE Bytes(data'[c]) <= NodeStrSize
    BY <1>6, <1>10 DEF Filled
  <2> QED BY <1>5, <2>2, <2>3 DEF Filled
<1>12. Inside(u)'
  <2>1. iter[0].skip <= Len(data'[u])
    <3>1. CASE d = u /\ off = iter[0].skip
      <4>1. off <= Len(data[d]) - n
        BY <1>4, <1>8
      <4> QED BY <1>10, <3>1, <4>1
    <3>2. CASE d # u
      BY <1>4, <1>7, <1>10, <3>2 DEF Inside
    <3>3. d = u => off = iter[0].skip
      <4>1. \/ d = u /\ off = iter[0].skip
            \/ r[d] < r[u]
        BY <1>3 DEF DelIn
      <4>2. r[u] \in Nat
        BY <1>6, <1>7, LaidTypes
      <4> QED BY <4>1, <4>2
    <3> QED BY <3>1, <3>2, <3>3
  <2> QED BY <1>4, <1>5, <2>1 DEF Inside
<1>13. \/ e' = u /\ offset' = iter[0].skip
       \/ e' = next'[u][0] /\ offset' = 0 /\ AtEndOf(u)'
  <2>1. CASE d = u /\ off = iter[0].skip
    BY <1>5, <2>1
  <2>2. CASE d = next[u][0] /\ r[d] < r[u] /\ off = 0 /\ AtEndOf(u)
    <3>1. d # u
      <4>1. r[u] \in Nat
        BY <1>6, <1>7, LaidTypes
      <4> QED BY <2>2, <4>1
    <3>2. data'[u] = data[u]
      BY <1>7, <1>10, <3>1
    <3> QED BY <1>5, <2>2, <3>2 DEF AtEndOf
  <2> QED BY <1>3, <2>1, <2>2 DEF DelIn
<1>14. /\ Lists(height', next', skip', data', r, w2) /\ Along(height', r, w2, iter, u, k - n)
       /\ num_bytes' = Bytes(w2[head]) /\ e' \in Cell \cup {Nil} /\ offset' = off
  BY <1>5, <1>7, <1>10
<1>15. Takes(w)
  BY <1>0, <1>1, <1>3, <1>14, RoundTakes
<1> QED BY <1>1, <1>2, <1>3, <1>10, <1>11, <1>12, <1>13, <1>14, <1>15, RoundKept

(* It keeps the invariant.                                                  *)
LEMMA DelTrimKept == IInv /\ DelTrim => IInv'
BY DelTrimShown DEF IInv

(* A round that removes the node: it has given all its characters, and the  *)
(* links that lead to it lead where its own lead.                           *)
LEMMA DelRemoveShown ==
  ASSUME TypeOK, NEW r, NEW w, Good(r, w), DelRemove
  PROVE  IInv' /\ Takes(w)
<1>1. TypeOK /\ DelLoop /\ ~KeepsNode /\ DelAgain
  BY DEF DelRemove
<1>2. Good(r, w)
  OBVIOUS
<1>3. PICK u, k, d, off, n : DelIn(r, w, u, k, d, off, n)
  BY <1>1, <1>2, DelAt
<1>4. /\ d = DelNode /\ off = DelOffset /\ n = Removed
      /\ u = iter[0].node /\ u \in Live(height) /\ d \in Live(height)
      /\ k \in Nat /\ Along(height, r, w, iter, u, k)
      /\ off \in Nat /\ n \in Nat /\ off + n <= Len(data[d])
      /\ skip[d][0] = Len(data[d]) /\ Inside(u)
  BY <1>3 DEF DelIn
<1>5. /\ Lists(height, next, skip, data, r, w) /\ Filled(height, data)
      /\ Laid(height, next, data, r, w)
      /\ skip \in [Cell -> [Levels -> Nat]] /\ data \in [Cell -> Seq(Char)]
      /\ next \in [Cell -> [Levels -> Pointer]] /\ height \in [Cell -> 0 .. MaxHeight]
  BY <1>1, <1>2, HeldIs, ListsLaid DEF DelLoop, Whole
<1>6. d \in Cell /\ u \in Cell
  BY <1>4 DEF Live
<1>7. /\ height[d] \in Nat /\ height[head] \in Nat /\ height[d] <= height[head]
      /\ Len(data[d]) \in Nat /\ r[d] \in Nat /\ r[u] \in Nat
  BY <1>5, <1>6, LaidTypes, CellsAre
<1>8. d # head /\ ~(n < Len(data[d]))
  BY <1>1, <1>4 DEF KeepsNode
<1>9. off = 0 /\ n = Len(data[d])
  BY <1>4, <1>7, <1>8
<1>10. /\ d = next[u][0] /\ d \in Node /\ r[d] < r[u]
       /\ AtEndOf(u) /\ Leading(height, next, IterNodes(iter), d) /\ d # u
  <2>1. CASE d = u /\ off = iter[0].skip
    <3>1. iter[0].skip > 0
      BY <1>4, <1>8, <2>1 DEF Inside
    <3> QED BY <1>9, <2>1, <3>1
  <2>2. CASE /\ d = next[u][0] /\ d \in Node /\ r[d] < r[u]
             /\ off = 0 /\ AtEndOf(u)
             /\ Leading(height, next, IterNodes(iter), d)
    BY <1>7, <2>2
  <2> QED BY <1>3, <2>1, <2>2 DEF DelIn
<1>11. /\ next' = [c \in Cell |-> [i \in Levels |->
                CASE c = d   -> Nil
                  [] i < height[d] /\ c = iter[i].node -> next[d][i]
                  [] OTHER   -> next[c][i]]]
       /\ skip' = [c \in Cell |-> [i \in Levels |->
                CASE c = d   -> 0
                  [] i < height[d] /\ c = iter[i].node -> skip[c][i] + skip[d][i] - n
                  [] i \in height[d] .. height[head] - 1 /\ c = iter[i].node -> skip[c][i] - n
                  [] OTHER   -> skip[c][i]]]
       /\ num_bytes' = num_bytes - Bytes(data[d])
       /\ height' = [height EXCEPT ![d] = 0]
       /\ data' = [data EXCEPT ![d] = << >>]
       /\ e' = next[d][0] /\ offset' = off
  BY <1>1, <1>4 DEF DelRemove, LeadsTo, Above
<1>12. iter' = iter
  BY <1>1 DEF DelAgain
<1>13. /\ data' = [data EXCEPT ![d] = StringErase(@, off, n)]
       /\ SubSeq(data[d], off + 1, off + n) = data[d]
  <2>1. PICK t \in Seq(Char) : t = data[d] /\ n = Len(t)
    BY <1>5, <1>6, <1>9
  <2>2. SubSeq(t, 1, 0) = << >> /\ SubSeq(t, n + 1, Len(t)) = << >> /\ SubSeq(t, 1, n) = t
    BY <2>1
  <2>3. 0 + n + 1 = n + 1 /\ 0 + 1 = 1 /\ 0 + n = n
    BY <1>4
  <2>4. << >> \o << >> = << >>
    OBVIOUS
  <2>5. StringErase(t, off, n) = << >>
    BY <1>9, <2>2, <2>3, <2>4 DEF StringErase
  <2> QED BY <1>9, <1>11, <2>1, <2>2, <2>3, <2>5
<1>14. PICK sk1 :
         sk1 = [c \in Cell |-> [i \in Levels |->
                  IF i < height[head] /\ c = NextNodes(height, iter, d)[i]
                    THEN skip[c][i] + (-n) ELSE skip[c][i]]]
  OBVIOUS
<1>15. Reskipped(height, skip, sk1, NextNodes(height, iter, d), -n)
  <2>1. ASSUME NEW c \in Cell, NEW i \in Levels
        PROVE  /\ sk1[c][i] = IF i < height[head] /\ c = NextNodes(height, iter, d)[i]
                                THEN skip[c][i] + (-n) ELSE skip[c][i]
               /\ sk1[c][i] \in Int
    <3>1. PICK x \in Nat : x = skip[c][i]
      BY <1>5
    <3>2. x + (-n) \in Int
      BY <1>4
    <3> QED BY <1>14, <3>1, <3>2
  <2>2. sk1 = [c \in Cell |-> [i \in Levels |-> sk1[c][i]]]
    BY <1>14
  <2>3. sk1 \in [Cell -> [Levels -> Int]]
    BY <2>1, <2>2
  <2> QED BY <2>1, <2>3 DEF Reskipped
<1>0. PICK w1 : Rounded(r, w, w1, u, k, d, off, n, data', sk1)
  <2>1. Erased(data', d, off, n)
    BY <1>13 DEF Erased
  <2> QED BY <1>1, <1>2, <1>3, <1>15, <2>1, RoundEdits
<1>16. /\ Lists(height, next, sk1, data', r, w1)
       /\ Len(w1[head]) = Len(w[head]) - n
       /\ Bytes(w1[head]) = num_bytes - Bytes(SubSeq(data[d], off + 1, off + n))
       /\ Along(height, r, w1, iter, u, k - n)
  BY <1>0 DEF Rounded
<1>17. /\ sk1 \in [Cell -> [Levels -> Nat]] /\ Laid(height, next, data', r, w1)
  BY <1>16, ListsLaid
<1>18. \A i \in Levels : i < height[head] => iter[i].node \in Cell /\ iter[i].node # d
  <2>1. ASSUME NEW i \in Levels, i < height[head]
        PROVE  iter[i].node \in Cell /\ iter[i].node # d
    <3>1. iter[i].node \in Cell /\ r[u] <= r[iter[i].node]
      BY <1>4, <1>5, <2>1, AlongAt
    <3> QED BY <1>7, <1>10, <3>1
  <2> QED BY <2>1
<1>19. Unlinked(height, next, next', IterNodes(iter), d)
  <2>1. ASSUME NEW c \in Cell, NEW i \in Levels
        PROVE  next'[c][i] = IF c = d THEN Nil
                             ELSE IF i < height[d] /\ c = IterNodes(iter)[i] THEN next[d][i]
                             ELSE next[c][i]
    <3>1. IterNodes(iter)[i] = iter[i].node
      BY DEF IterNodes
    <3>2. i < height[d] => iter[i].node # d
      <4>1. i < height[d] => i < height[head]
        BY <1>7, CellsAre
      <4> QED BY <1>18, <4>1
    <3>3. next'[c][i] = CASE c = d -> Nil
                          [] i < height[d] /\ c = iter[i].node -> next[d][i]
                          [] OTHER -> next[c][i]
      BY <1>11
    <3> QED BY <3>1, <3>2, <3>3
  <2> QED BY <2>1 DEF Unlinked
<1>20. next' \in [Cell -> [Levels -> Pointer]]
  <2>1. ASSUME NEW c \in Cell, NEW i \in Levels PROVE next'[c][i] \in Pointer
    <3>1. next[d][i] \in Pointer /\ next[c][i] \in Pointer /\ Nil \in Pointer
      BY <1>5, <1>6 DEF Pointer
    <3> QED BY <1>19, <3>1 DEF Unlinked
  <2>2. next' = [c \in Cell |-> [i \in Levels |-> next'[c][i]]]
    BY <1>11
  <2> QED BY <2>1, <2>2
<1>21. Absorbed(height, sk1, skip', IterNodes(iter), d)
  <2>1. ASSUME NEW c \in Cell, NEW i \in Levels
        PROVE  skip'[c][i] = IF c = d THEN 0
                             ELSE IF i < height[d] /\ c = IterNodes(iter)[i]
                                    THEN sk1[c][i] + sk1[d][i]
                             ELSE sk1[c][i]
    <3>1. IterNodes(iter)[i] = iter[i].node /\ i \in Nat
      BY CellsAre DEF IterNodes
    <3>2. i < height[d] => i < height[head]
      BY <1>7, <3>1
    <3>3. i < height[head] => iter[i].node # d
      BY <1>18
    <3>4. i \in height[d] .. height[head] - 1 <=> ~(i < height[d]) /\ i < height[head]
      BY <1>7, <3>1
    <3>5. skip'[c][i] = CASE c = d -> 0
                          [] i < height[d] /\ c = iter[i].node -> skip[c][i] + skip[d][i] - n
                          [] i \in height[d] .. height[head] - 1 /\ c = iter[i].node
                               -> skip[c][i] - n
                          [] OTHER -> skip[c][i]
      BY <1>11
    <3>6. PICK x \in Nat, y \in Nat : x = skip[c][i] /\ y = skip[d][i]
      BY <1>5, <1>6
    <3>7. x + y - n = x + (y + (-n)) /\ x - n = x + (-n)
      BY <1>4
    <3>8. NextNodes(height, iter, d)[i] = IF i < height[d] THEN d ELSE iter[i].node
      BY DEF NextNodes
    <3>9. \A b \in Cell : sk1[b][i] = IF i < height[head] /\ b = NextNodes(height, iter, d)[i]
                                        THEN skip[b][i] + (-n) ELSE skip[b][i]
      BY <1>15 DEF Reskipped
    <3>10. CASE c = d
      <4>1. ~(i < height[d] /\ c = iter[i].node)
        BY <3>2, <3>3, <3>10
      <4>2. ~(i \in height[d] .. height[head] - 1 /\ c = iter[i].node)
        BY <3>3, <3>4, <3>10
      <4> QED BY <3>5, <3>10, <4>1, <4>2
    <3>11. CASE c # d /\ i < height[d] /\ c = iter[i].node
      <4>1. skip'[c][i] = x + y - n
        BY <3>4, <3>5, <3>6, <3>11
      <4>2. sk1[c][i] = x
        BY <3>6, <3>8, <3>9, <3>11
      <4>3. sk1[d][i] = y + (-n)
        BY <1>6, <3>2, <3>6, <3>8, <3>9, <3>11
      <4> QED BY <3>1, <3>7, <3>11, <4>1, <4>2, <4>3
    <3>12. CASE c # d /\ ~(i < height[d]) /\ i < height[head] /\ c = iter[i].node
      <4>1. skip'[c][i] = x - n
        BY <3>4, <3>5, <3>6, <3>12
      <4>2. sk1[c][i] = x + (-n)
        BY <3>6, <3>8, <3>9, <3>12
      <4> QED BY <3>1, <3>7, <3>12, <4>1, <4>2
    <3>13. CASE /\ c # d /\ ~(i < height[d] /\ c = iter[i].node)
                /\ ~(~(i < height[d]) /\ i < height[head] /\ c = iter[i].node)
      <4>1. skip'[c][i] = x
        BY <3>4, <3>5, <3>6, <3>13
      <4>2. sk1[c][i] = x
        BY <3>6, <3>8, <3>9, <3>13
      <4> QED BY <3>1, <3>13, <4>1, <4>2
    <3> QED BY <3>10, <3>11, <3>12, <3>13
  <2> QED BY <2>1 DEF Absorbed
<1>22. skip' \in [Cell -> [Levels -> Nat]]
  <2>1. ASSUME NEW c \in Cell, NEW i \in Levels PROVE skip'[c][i] \in Nat
    <3>1. PICK x \in Nat, y \in Nat : x = sk1[c][i] /\ y = sk1[d][i]
      BY <1>6, <1>17
    <3>2. x + y \in Nat
      OBVIOUS
    <3> QED BY <1>21, <3>1, <3>2 DEF Absorbed
  <2>2. skip' = [c \in Cell |-> [i \in Levels |-> skip'[c][i]]]
    BY <1>11
  <2> QED BY <2>1, <2>2
<1>23. data'[d] = << >> /\ height[d] > 0 /\ \A c \in Cell : c # d => data'[c] = data[c]
  BY <1>4, <1>5, <1>6, <1>11 DEF Live
<1>24. PICK w2 : w2 = [w1 EXCEPT ![d] = << >>]
                 /\ Lists(height', next', skip', data', r, w2)
                 /\ Along(height', r, w2, iter, u, k - n)
  <2>1. Lists([height EXCEPT ![d] = 0], next', skip', data', r, [w1 EXCEPT ![d] = << >>])
    BY <1>10, <1>16, <1>19, <1>20, <1>21, <1>22, <1>23, Unlink, Zenon
  <2>2. Along([height EXCEPT ![d] = 0], r, [w1 EXCEPT ![d] = << >>], iter, u, k - n)
    BY <1>4, <1>10, <1>16, <1>17, <1>23, UnlinkAlong
  <2> QED BY <1>11, <2>1, <2>2
<1>25. w2[head] = w1[head]
  <2>1. w1 \in [Cell -> Seq(Char)]
    BY <1>17 DEF Laid, Texts
  <2> QED BY <1>8, <1>24, <2>1, CellsAre
<1>26. Len(w2[head]) = Len(w[head]) - n /\ num_bytes' = Bytes(w2[head])
  BY <1>11, <1>13, <1>16, <1>25
<1>27. Filled(height', data')
  <2>1. ASSUME NEW c \in Node, height'[c] > 0 PROVE data'[c] # << >>
    <3>1. c # d /\ c \in Cell /\ height'[c] = height[c]
      BY <1>5, <1>6, <1>11, <2>1, CellsAre
    <3> QED BY <1>5, <1>23, <2>1, <3>1 DEF Filled
  <2>2. ASSUME NEW c \in Cell PROVE Bytes(data'[c]) <= NodeStrSize
    <3>1. CASE c = d
      BY <1>23, <3>1, BytesNone, CellsAre
    <3>2. CASE c # d
      BY <1>5, <1>23, <3>2 DEF Filled
    <3> QED BY <3>1, <3>2
  <2> QED BY <2>1, <2>2 DEF Filled
<1>28. data'[u] = data[u]
  BY <1>6, <1>10, <1>23
<1>29. Inside(u)' /\ AtEndOf(u)'
  BY <1>4, <1>10, <1>12, <1>28 DEF Inside, AtEndOf
<1>30. e' = next'[u][0] /\ offset' = 0 /\ e' \in Cell \cup {Nil} /\ offset' = off
  <2>1. 0 \in Levels /\ IterNodes(iter)[0] = u /\ 0 < height[d]
    BY <1>4, <1>23, CellsAre DEF IterNodes
  <2>2. next'[u][0] = next[d][0]
    BY <1>6, <1>10, <1>19, <2>1 DEF Unlinked
  <2>3. next[d][0] \in Pointer
    BY <1>5, <1>6, <2>1
  <2>4. next[d][0] \in Cell \cup {Nil}
    BY <2>3 DEF Pointer, Cell
  <2> QED BY <1>9, <1>11, <2>2, <2>4
<1>31. Takes(w)
  BY <1>0, <1>1, <1>3, <1>24, <1>25, RoundTakes
<1> QED BY <1>1, <1>2, <1>3, <1>24, <1>26, <1>27, <1>29, <1>30, <1>31, RoundKept

(* It keeps the invariant.                                                  *)
LEMMA DelRemoveKept == IInv /\ DelRemove => IInv'
BY DelRemoveShown DEF IInv

(* rope_free begins with the first node behind the head.                    *)
LEMMA FreeStartKept == IInv /\ FreeStart => IInv'
<1> SUFFICES ASSUME IInv, FreeStart PROVE IInv'
  OBVIOUS
<1>1. /\ TypeOK /\ pc = "entry" /\ req.op = "clear"
      /\ pc' = "free" /\ e' = next[head][0]
      /\ height' = height /\ next' = next /\ skip' = skip /\ data' = data
      /\ num_chars' = num_chars /\ num_bytes' = num_bytes
      /\ req' = req /\ offset' = offset /\ lvl' = lvl /\ iter' = iter
      /\ rest' = rest /\ tail' = tail
  BY DEF IInv, FreeStart, heap
<1>2. PICK r, w : Good(r, w)
  BY DEF IInv
<1>3. /\ Laid(height, next, data, r, w) /\ Cleared(height, next, data)
  BY <1>1, <1>2, HeldIs DEF Whole
<1>4. /\ Ordered(height, next, r) /\ head \in Cell /\ 0 \in Levels /\ 0 < height[head]
      /\ Node \subseteq Cell
  BY <1>3, CellsAre DEF Laid
<1>5. e' = Nil \/ e' \in Allocated
  <2>1. next[head][0] = Nil \/ (next[head][0] \in Node /\ 0 < height[next[head][0]])
    BY <1>3, <1>4, NextIs
  <2> QED BY <1>1, <1>4, <2>1, LaidTypes DEF Allocated
<1>6. ASSUME NEW n \in Allocated
      PROVE  /\ e' # Nil /\ r[n] <= r[e'] /\ FirstBehind(height, next, r, n, 0)
  <2>1. n \in Node /\ n \in Cell /\ 0 < height[n]
    <3>1. n \in Node /\ n \in Cell /\ height[n] > 0
      BY <1>4 DEF Allocated
    <3>2. height[n] \in Nat
      BY <1>3, <3>1, LaidTypes
    <3> QED BY <3>1, <3>2
  <2>2. r[n] < r[head]
    BY <2>1 , <1>4 DEF Ordered, Ranked, Allocated
  <2>3. next[head][0] # Nil /\ r[n] <= r[next[head][0]]
    BY <1>3, <1>4, <2>1, <2>2, NextIs
  <2>4. FirstBehind(height, next, r, n, 0)
    BY <1>4, <2>1 DEF Ordered
  <2> QED BY <1>1, <2>3, <2>4
<1>7. Freeing(r)'
  BY <1>1, <1>4, <1>5, <1>6 DEF Freeing, Allocated, Ordered, Ranked, FirstBehind
<1>8. TypeOK'
  <2>1. e' \in Cell \cup {Nil}
    BY <1>4, <1>5 DEF Allocated
  <2> QED BY <1>1, <2>1 DEF TypeOK
<1>9. Good(r, w)'
  BY <1>1, <1>3, <1>7 DEF Good, Whole
<1> QED BY <1>8, <1>9 DEF IInv

(* A node is freed, its successor read before.                              *)
LEMMA FreeNodeKept == IInv /\ FreeNode => IInv'
<1> SUFFICES ASSUME IInv, FreeNode PROVE IInv'
  OBVIOUS
<1>1. /\ TypeOK /\ pc = "free" /\ e # Nil /\ e' = next[e][0]
      /\ height' = [height EXCEPT ![e] = 0]
      /\ data' = [data EXCEPT ![e] = << >>]
      /\ next' = [next EXCEPT ![e] = [i \in Levels |-> Nil]]
      /\ skip' = [skip EXCEPT ![e] = [i \in Levels |-> 0]]
      /\ num_chars' = num_chars /\ num_bytes' = num_bytes /\ pc' = pc
      /\ req' = req /\ offset' = offset /\ lvl' = lvl /\ iter' = iter
      /\ rest' = rest /\ tail' = tail
  BY DEF IInv, FreeNode
<1>2. PICK r, w : Good(r, w)
  BY DEF IInv
<1>3. /\ Freeing(r) /\ req.op = "clear" /\ Cleared(height, next, data)
  BY <1>1, <1>2 DEF Good, Whole
<1>4. PICK d : /\ d = e /\ d \in Node /\ height[d] > 0 /\ d \in Cell /\ d # head
  BY <1>1, <1>3, CellsAre DEF Freeing, Allocated
<1>5. /\ height \in [Cell -> 0 .. MaxHeight] /\ height[head] > 0
      /\ next \in [Cell -> [Levels -> Pointer]]
      /\ skip \in [Cell -> [Levels -> Nat]] /\ data \in [Cell -> Seq(Char)]
      /\ \A c \in Cell : height[c] \in Nat
      /\ head \in Cell /\ Node \subseteq Cell /\ 0 \in Levels
  <2>1. /\ height \in [Cell -> 0 .. MaxHeight] /\ height[head] > 0
        /\ next \in [Cell -> [Levels -> Pointer]]
        /\ skip \in [Cell -> [Levels -> Nat]] /\ data \in [Cell -> Seq(Char)]
    BY <1>1 DEF TypeOK
  <2>2. head \in Cell /\ Node \subseteq Cell /\ 0 \in Levels /\ MaxHeight \in Nat
    BY CellsAre
  <2>3. \A c \in Cell : height[c] \in Nat
    BY <2>1, <2>2
  <2> QED BY <2>1, <2>2, <2>3
<1>6. /\ height'[d] = 0 /\ data'[d] = << >> /\ next'[d][0] = Nil
      /\ \A c \in Cell : c # d => height'[c] = height[c] /\ data'[c] = data[c]
                                  /\ next'[c] = next[c]
  BY <1>1, <1>4, <1>5
<1>7. /\ r \in [Cell -> Nat]
      /\ \A n \in Node : height[n] > 0 => r[n] < r[head]
      /\ \A m, n \in Node : height[m] > 0 /\ height[n] > 0 /\ r[m] = r[n] => m = n
      /\ \A n \in Allocated : r[n] <= r[d] /\ FirstBehind(height, next, r, n, 0)
  BY <1>3, <1>4 DEF Freeing, Ranked
<1>8. Ranked(height', r)
  <2>1. ASSUME NEW n \in Node, height'[n] > 0 PROVE height[n] > 0
    <3>1. n \in Cell
      BY <1>5
    <3>2. n # d
      BY <1>6, <2>1
    <3> QED BY <1>6, <2>1, <3>1, <3>2
  <2> QED BY <1>7, <2>1 DEF Ranked
<1>9. /\ next[d][0] # Nil => /\ next[d][0] \in Node /\ 0 < height[next[d][0]]
                             /\ r[next[d][0]] < r[d]
      /\ \A n \in Node : 0 < height[n] /\ r[n] < r[d] =>
           next[d][0] # Nil /\ r[n] <= r[next[d][0]]
  <2>1. FirstBehind(height, next, r, d, 0)
    BY <1>4, <1>7 DEF Allocated
  <2> QED BY <2>1 DEF FirstBehind
<1>10. \A n \in Node : height'[n] > 0 =>
         /\ n # d /\ height[n] > 0 /\ 0 < height[n] /\ r[n] < r[d] /\ n \in Cell
  <2>1. ASSUME NEW n \in Node, height'[n] > 0
        PROVE  n # d /\ height[n] > 0 /\ 0 < height[n] /\ r[n] < r[d] /\ n \in Cell
    <3>1. n \in Cell /\ n # d
      BY <1>5, <1>6, <2>1
    <3>2. height[n] > 0 /\ 0 < height[n]
      BY <1>5, <1>6, <2>1, <3>1
    <3>3. r[n] <= r[d] /\ r[n] # r[d]
      BY <1>4, <1>7, <3>1, <3>2 DEF Allocated
    <3>4. r[n] \in Nat /\ r[d] \in Nat
      BY <1>4, <1>7, <3>1
    <3> QED BY <3>1, <3>2, <3>3, <3>4
  <2> QED BY <2>1
<1>11. e' # Nil => e' \in Node /\ height'[e'] > 0
  <2>1. ASSUME e' # Nil PROVE e' \in Node /\ height'[e'] > 0
    <3>1. PICK f : f = e' /\ f \in Node /\ 0 < height[f] /\ r[f] < r[d] /\ f \in Cell
      BY <1>1, <1>4, <1>5, <1>9, <2>1
    <3>2. f # d
      BY <1>4, <1>7, <3>1
    <3> QED BY <1>5, <1>6, <3>1, <3>2
  <2> QED BY <2>1
<1>12. ASSUME NEW n \in Node, height'[n] > 0
       PROVE  /\ e' # Nil /\ r[n] <= r[e']
              /\ FirstBehind(height', next', r, n, 0)
  <2>1. n # d /\ height[n] > 0 /\ 0 < height[n] /\ r[n] < r[d] /\ n \in Cell
    BY <1>10, <1>12
  <2>2. e' # Nil /\ r[n] <= r[e']
    BY <1>1, <1>4, <1>9, <2>1
  <2>3. FirstBehind(height, next, r, n, 0)
    BY <1>7, <2>1 DEF Allocated
  <2>4. PICK m : m = next[n][0] /\ m = next'[n][0]
    BY <1>6, <2>1
  <2>5. ASSUME m # Nil PROVE m \in Node /\ 0 < height'[m] /\ r[m] < r[n]
    <3>1. m \in Node /\ 0 < height[m] /\ r[m] < r[n] /\ m \in Cell
      BY <1>5, <2>3, <2>4, <2>5 DEF FirstBehind
    <3>2. r[m] \in Nat /\ r[n] \in Nat /\ r[d] \in Nat
      BY <1>4, <1>7, <2>1, <3>1
    <3>3. m # d
      BY <2>1, <3>1, <3>2
    <3> QED BY <1>6, <3>1, <3>3
  <2>6. ASSUME NEW b \in Node, 0 < height'[b], r[b] < r[n] PROVE m # Nil /\ r[b] <= r[m]
    <3>1. 0 < height[b]
      <4>1. CASE b = d
        BY <1>6, <2>6, <4>1
      <4>2. CASE b # d
        BY <1>5, <1>6, <2>6, <4>2
      <4> QED BY <4>1, <4>2
    <3> QED BY <2>3, <2>4, <2>6, <3>1 DEF FirstBehind
  <2>7. FirstBehind(height', next', r, n, 0)
    BY <2>4, <2>5, <2>6 DEF FirstBehind
  <2> QED BY <2>2, <2>7
<1>13. Freeing(r)'
  BY <1>8, <1>11, <1>12 DEF Freeing, Allocated
<1>14. Cleared(height', next', data')
  <2>1. ASSUME NEW n \in Node, height'[n] = 0 PROVE next'[n][0] = Nil /\ data'[n] = << >>
    <3>1. CASE n = d
      BY <1>6, <3>1
    <3>2. CASE n # d
      BY <1>3, <1>5, <1>6, <2>1, <3>2 DEF Cleared
    <3> QED BY <3>1, <3>2
  <2> QED BY <2>1 DEF Cleared
<1>15. TypeOK'
  <2>1. /\ height' \in [Cell -> 0 .. MaxHeight] /\ height'[head] > 0
    <3>1. 0 \in 0 .. MaxHeight
      BY CellsAre
    <3> QED BY <1>1, <1>4, <1>5, <3>1
  <2>2. next' \in [Cell -> [Levels -> Pointer]]
    <3>1. [i \in Levels |-> Nil] \in [Levels -> Pointer]
      BY DEF Pointer
    <3> QED BY <1>1, <1>4, <1>5, <3>1
  <2>3. skip' \in [Cell -> [Levels -> Nat]] /\ data' \in [Cell -> Seq(Char)]
    <3>1. [i \in Levels |-> 0] \in [Levels -> Nat] /\ << >> \in Seq(Char)
      OBVIOUS
    <3> QED BY <1>1, <1>4, <1>5, <3>1
  <2>4. e' \in Cell \cup {Nil}
    BY <1>5, <1>11
  <2> QED BY <1>1, <2>1, <2>2, <2>3, <2>4 DEF TypeOK
<1>16. Good(r, w)'
  BY <1>1, <1>3, <1>13, <1>14 DEF Good, Whole
<1> QED BY <1>15, <1>16 DEF IInv

(* All nodes are freed: the new rope.                                       *)
LEMMA FreeDoneShown ==
  ASSUME TypeOK, NEW r, NEW w, Good(r, w), FreeDone
  PROVE  IInv' /\ \E r2, w2 : Lists(height', next', skip', data', r2, w2) /\ w2[head] = << >>
<1>1. /\ TypeOK /\ pc = "free" /\ e = Nil /\ Return
      /\ height' = [height EXCEPT ![head] = 1]
      /\ data' = [data EXCEPT ![head] = << >>]
      /\ next' = [next EXCEPT ![head] = [i \in Levels |-> Nil]]
      /\ skip' = [skip EXCEPT ![head] = [i \in Levels |-> 0]]
      /\ num_chars' = 0 /\ num_bytes' = 0
  BY DEF FreeDone
<1>2. Good(r, w)
  OBVIOUS
<1>3. /\ Freeing(r) /\ Cleared(height, next, data)
  BY <1>1, <1>2 DEF Good, Whole
<1>4. /\ height \in [Cell -> 0 .. MaxHeight]
      /\ next \in [Cell -> [Levels -> Pointer]]
      /\ skip \in [Cell -> [Levels -> Nat]] /\ data \in [Cell -> Seq(Char)]
      /\ head \in Cell /\ Node \subseteq Cell /\ 0 \in Levels /\ head \notin Node
      /\ \A c \in Cell : c \in Node \/ c = head
  BY <1>1, CellsAre DEF TypeOK
<1>5. \A n \in Node : height[n] = 0
  <2>1. ASSUME NEW n \in Node PROVE ~(height[n] > 0)
    BY <1>1, <1>3 DEF Freeing, Allocated
  <2>2. ASSUME NEW n \in Node PROVE height[n] \in Nat
    BY <1>4, CellsAre
  <2> QED BY <2>1, <2>2
<1>6. /\ height'[head] = 1 /\ \A n \in Node : height'[n] = 0
  BY <1>1, <1>4, <1>5
<1>7. /\ \A c \in Cell : next'[c][0] = Nil
      /\ \A c \in Cell : data'[c] = << >>
      /\ skip'[head][0] = 0
  BY <1>1, <1>3, <1>4, <1>5 DEF Cleared
<1>8. Shaped(height', next', skip', data')
  <2>1. height' \in [Cell -> 0 .. MaxHeight]
    <3>1. 1 \in 0 .. MaxHeight
      BY RopeAssumption
    <3> QED BY <1>1, <1>4, <3>1
  <2>2. next' \in [Cell -> [Levels -> Pointer]]
    <3>1. [i \in Levels |-> Nil] \in [Levels -> Pointer]
      BY DEF Pointer
    <3> QED BY <1>1, <1>4, <3>1
  <2>3. skip' \in [Cell -> [Levels -> Nat]] /\ data' \in [Cell -> Seq(Char)]
    <3>1. [i \in Levels |-> 0] \in [Levels -> Nat] /\ << >> \in Seq(Char)
      OBVIOUS
    <3> QED BY <1>1, <1>4, <3>1
  <2>4. 1 > 0
    OBVIOUS
  <2> QED BY <1>6, <2>1, <2>2, <2>3, <2>4 DEF Shaped
<1>9. PICK r2, w2 : /\ Lists(height', next', skip', data', r2, w2) /\ Filled(height', data')
                    /\ w2[head] = << >>
  BY <1>6, <1>7, <1>8, EmptyLists
<1>10. num_chars' = Len(w2[head]) /\ num_bytes' = Bytes(w2[head])
  <2>1. Len(<< >>) = 0
    OBVIOUS
  <2> QED BY <1>1, <1>9, <2>1, BytesNone
<1>11. IInv'
  BY <1>1, <1>9, <1>10, ReturnKept
<1> QED BY <1>9, <1>11

(* It keeps the invariant.                                                  *)
LEMMA FreeDoneKept == IInv /\ FreeDone => IInv'
BY FreeDoneShown DEF IInv

(* Nothing happens.                                                         *)
LEMMA StutterKept == IInv /\ UNCHANGED vars => IInv'
<1> SUFFICES ASSUME IInv, UNCHANGED vars PROVE IInv'
  OBVIOUS
<1>1. /\ height' = height /\ next' = next /\ skip' = skip /\ data' = data
      /\ num_chars' = num_chars /\ num_bytes' = num_bytes
      /\ pc' = pc /\ req' = req /\ e' = e /\ offset' = offset
      /\ lvl' = lvl /\ iter' = iter /\ rest' = rest /\ tail' = tail
  BY DEF vars, heap, locals
<1>2. PICK r, w : TypeOK /\ Good(r, w)
  BY DEF IInv
<1>3. TypeOK'
  BY <1>1, <1>2 DEF TypeOK
<1>4. Good(r, w)'
  <2>1. Held(r, w)' <=> Held(r, w)
    <3>1. Counted(w)' <=> Counted(w)
      BY <1>1 DEF Counted
    <3>2. Served(w)' <=> Served(w)
      BY <1>1 DEF Served, Behindhand
    <3> QED BY <1>1, <3>1, <3>2 DEF Held
  <2>2. Finding(r, w)' <=> Finding(r, w)
    BY <1>1 DEF Finding, Behindhand
  <2>3. Piecing(r, w)' <=> Piecing(r, w)
    BY <1>1 DEF Piecing, Standing, Inside, AtEndOf, Done, Began
  <2>4. Deleting(r, w)' <=> Deleting(r, w)
    BY <1>1 DEF Deleting, Standing, Inside, AtEndOf, Behindhand
  <2>5. Freeing(r)' <=> Freeing(r)
    BY <1>1 DEF Freeing, Allocated
  <2>6. Standing(r, w, Behindhand(w))' <=> Standing(r, w, Behindhand(w))
    BY <1>1 DEF Standing, Inside, Behindhand
  <2>7. Cleared(height, next, data)' <=> Cleared(height, next, data)
    BY <1>1
  <2> QED BY <1>1, <1>2, <2>1, <2>2, <2>3, <2>4, <2>5, <2>6, <2>7 DEF Good, Whole
<1> QED BY <1>3, <1>4 DEF IInv

(* The inductive step, action by action.                                    *)
LEMMA NextKept == IInv /\ [Next]_vars => IInv'
<1> SUFFICES ASSUME IInv, [Next]_vars PROVE IInv'
  OBVIOUS
<1>1. CASE CallInsert \/ CallErase \/ CallDestroy
  BY <1>1, CallsKept
<1>2. CASE Start
  BY <1>2, StartKept
<1>3. CASE FindRight
  BY <1>3, FindRightKept
<1>4. CASE FindDown
  BY <1>4, FindDownKept
<1>5. CASE Insert
  BY <1>5, InvalidUtf8Kept, InsertHereKept, InsertIntoNextKept, InsertCutKept,
     InsertPieceKept, InsertTailKept, InsertDoneKept DEF Insert
<1>6. CASE Del
  BY <1>6, DelStartKept, DelTrimKept, DelRemoveKept, DelDoneKept DEF Del
<1>7. CASE Destroy
  BY <1>7, FreeStartKept, FreeNodeKept, FreeDoneKept DEF Destroy
<1>8. CASE UNCHANGED vars
  BY <1>8, StutterKept
<1> QED BY <1>1, <1>2, <1>3, <1>4, <1>5, <1>6, <1>7, <1>8 DEF Next, Step

(* The invariant holds of every state a rope can reach.                     *)
THEOREM RopeInvariant == Spec => []IInv
BY InitIInv, NextKept, PTL DEF Spec

(* The operators of the properties in terms of ranks and texts.             *)
Means(r, w) ==
  /\ Text = w[head] /\ Linked = Live(height) /\ Linked = Allocated \cup {head}
  /\ Laid(height, next, data, r, w)
  /\ w[head] \in Seq(Char) /\ Len(w[head]) \in Nat
  /\ \A c \in Live(height) : /\ TextFrom[c] = w[c] /\ Len(w[c]) \in Nat
                             /\ StartOf(c) = Len(w[head]) - Len(w[c])
                             /\ Behind[c] = {n \in Allocated : r[n] < r[c]}

(* The folds of the properties are the ghosts of the invariant.             *)
LEMMA Meaning ==
  ASSUME NEW r, NEW w, Good(r, w), Whole
  PROVE  Means(r, w)
<1>1. /\ Laid(height, next, data, r, w) /\ Cleared(height, next, data)
      /\ head \in Live(height) /\ w[head] \in Seq(Char) /\ Len(w[head]) \in Nat
  BY HeldIs
<1>2. \A c \in Live(height) : TextFrom[c] = w[c] /\ Behind[c] = {n \in Allocated : r[n] < r[c]}
  BY <1>1, TextFromIs, BehindIs
<1>3. Text = w[head]
  BY <1>1, <1>2 DEF Text
<1>4. \A c \in Live(height) : Len(w[c]) \in Nat /\ StartOf(c) = Len(w[head]) - Len(w[c])
  BY <1>1, <1>2, <1>3, LaidTypes DEF StartOf, Live
<1>5. Linked = Allocated \cup {head}
  <2>1. Behind[head] = {n \in Allocated : r[n] < r[head]}
    BY <1>1, <1>2
  <2>2. ASSUME NEW n \in Allocated PROVE r[n] < r[head]
    BY <1>1, LaidTypes DEF Allocated
  <2>3. Behind[head] = Allocated
    BY <2>1, <2>2
  <2> QED BY <2>3 DEF Linked
<1>6. Live(height) = Allocated \cup {head}
  BY <1>1, CellsAre DEF Live, Allocated, Laid
<1> QED BY <1>1, <1>2, <1>3, <1>4, <1>5, <1>6 DEF Means

(* What _rope_check asserts of the links.                                   *)
LEMMA LinksAre ==
  ASSUME NEW r, NEW w, Good(r, w), Whole
  PROVE  LinksExact
<1>1. /\ Lists(height, next, skip, data, r, w) /\ Laid(height, next, data, r, w)
      /\ Spanned(height, next, skip, w)
  BY HeldIs
<1>2. /\ Text = w[head] /\ Linked = Live(height) /\ Len(w[head]) \in Nat
      /\ \A c \in Live(height) : /\ Len(w[c]) \in Nat
                                 /\ StartOf(c) = Len(w[head]) - Len(w[c])
                                 /\ Behind[c] = {n \in Allocated : r[n] < r[c]}
  <2>1. Means(r, w)
    BY Meaning, Zenon
  <2> QED BY <2>1 DEF Means
<1>3. next[head][height[head] - 1] = Nil
  BY <1>1, TopIsNil
<1>4. ASSUME NEW c \in Live(height) PROVE c \notin Behind[c]
  <2>1. r[c] \in Nat
    BY <1>1, LaidTypes DEF Live
  <2>2. ~(r[c] < r[c])
    BY <2>1
  <2> QED BY <1>2, <2>2
<1>5. ASSUME NEW c \in Live(height), NEW i \in 0 .. height[c] - 1,
             NEW m, m = next[c][i], NEW later, later = {n \in Behind[c] : height[n] > i}
      PROVE  /\ IF m = Nil THEN later = {}
                           ELSE m \in later /\ later \ {m} \subseteq Behind[m]
             /\ skip[c][i] = (IF m = Nil THEN Len(Text) ELSE StartOf(m)) - StartOf(c)
  <2>1. c \in Cell /\ i \in Levels /\ i < height[c] /\ i \in Nat
    <3>1. c \in Cell /\ height[c] \in Nat
      BY <1>1, LaidTypes DEF Live
    <3>2. i \in Nat /\ i < height[c]
      BY <3>1
    <3> QED BY <1>1, <3>1, <3>2, LaidTypes
  <2>2. /\ m = Nil \/ /\ m \in Node /\ m \in Live(height) /\ i < height[m] /\ r[m] < r[c]
        /\ \A n \in Node : i < height[n] /\ r[n] < r[c] => m # Nil /\ r[n] <= r[m]
    BY <1>1, <1>5, <2>1, NextIs
  <2>3. ASSUME NEW n \in later
        PROVE  /\ n \in Node /\ n \in Allocated /\ n \in Live(height)
               /\ i < height[n] /\ r[n] < r[c] /\ r[n] \in Nat
    <3>1. n \in Allocated /\ r[n] < r[c] /\ height[n] > i
      BY <1>2, <1>5
    <3>2. n \in Node /\ n \in Cell /\ height[n] > 0
      BY <3>1, CellsAre DEF Allocated
    <3>3. r[n] \in Nat /\ height[n] \in Nat
      BY <1>1, <3>2, LaidTypes
    <3> QED BY <2>1, <3>1, <3>2, <3>3 DEF Live
  <2>4. skip[c][i] = Len(w[c]) - Len(After(w, m))
    BY <1>1, <1>5, <2>1 DEF Spanned
  <2>5. PICK x \in Nat, y \in Nat : x = Len(w[head]) /\ y = Len(w[c]) /\ StartOf(c) = x - y
    BY <1>2
  <2>6. CASE m = Nil
    <3>1. later = {}
      BY <2>2, <2>3, <2>6
    <3>2. Len(After(w, m)) = 0
      BY <2>6 DEF After
    <3>3. y - 0 = x - (x - y)
      OBVIOUS
    <3> QED BY <1>2, <2>4, <2>5, <2>6, <3>1, <3>2, <3>3
  <2>7. CASE m # Nil
    <3>1. m \in Node /\ m \in Live(height) /\ i < height[m] /\ r[m] < r[c]
      BY <2>2, <2>7
    <3>2. height[m] \in Nat /\ r[m] \in Nat /\ m \in Cell
      BY <1>1, <3>1, LaidTypes DEF Live
    <3>3. m \in later
      <4>1. m \in Allocated /\ height[m] > i
        BY <2>1, <3>1, <3>2 DEF Allocated
      <4> QED BY <1>2, <1>5, <3>1, <4>1
    <3>4. ASSUME NEW n \in later \ {m} PROVE n \in Behind[m]
      <4>1. /\ n \in Node /\ n \in Allocated /\ n \in Live(height)
            /\ i < height[n] /\ r[n] < r[c] /\ r[n] \in Nat /\ n # m
        BY <2>3
      <4>2. r[n] <= r[m]
        BY <2>2, <4>1
      <4>3. r[n] # r[m]
        BY <1>1, <3>1, <4>1, Ranks
      <4>4. r[n] < r[m]
        BY <3>2, <4>1, <4>2, <4>3
      <4> QED BY <1>2, <3>1, <4>1, <4>4
    <3>5. PICK z \in Nat : z = Len(w[m]) /\ StartOf(m) = x - z
      BY <1>2, <2>5, <3>1
    <3>6. Len(After(w, m)) = z
      BY <2>7, <3>5 DEF After
    <3>7. y - z = (x - z) - (x - y)
      OBVIOUS
    <3> QED BY <2>4, <2>5, <2>7, <3>3, <3>4, <3>5, <3>6, <3>7
  <2> QED BY <2>6, <2>7
<1>6. ASSUME NEW c \in Linked, NEW i \in 0 .. height[c] - 1
      PROVE  LET m     == next[c][i]
                 later == {n \in Behind[c] : height[n] > i}
             IN  /\ IF m = Nil THEN later = {}
                               ELSE m \in later /\ later \ {m} \subseteq Behind[m]
                 /\ skip[c][i] = (IF m = Nil THEN Len(Text) ELSE StartOf(m)) - StartOf(c)
  <2>1. c \in Live(height)
    BY <1>2
  <2> QED BY <1>5, <2>1
<1> QED BY <1>2, <1>3, <1>4, <1>6 DEF LinksExact

(* What the invariant says is what _rope_check asserts.                     *)
LEMMA RopeChecks == IInv => RopeCheck
<1> SUFFICES ASSUME IInv, Whole PROVE LinksExact /\ NodesFilled /\ (pc = "idle" => CountsExact)
  BY DEF RopeCheck
<1>1. PICK r, w : Good(r, w)
  BY DEF IInv
<1>2. Text = w[head] /\ Linked = Live(height)
  <2>1. Means(r, w)
    BY <1>1, Meaning, Zenon
  <2> QED BY <2>1 DEF Means
<1>3. NodesFilled
  <2>1. Filled(height, data)
    BY <1>1, HeldIs
  <2>2. ASSUME NEW c \in Live(height)
        PROVE  (c # head => data[c] # << >>) /\ Bytes(data[c]) <= NodeStrSize
    <3>1. c \in Cell /\ height[c] > 0 /\ (c # head => c \in Node)
      BY CellsAre DEF Live
    <3> QED BY <2>1, <3>1 DEF Filled
  <2> QED BY <1>2, <2>2 DEF NodesFilled
<1>4. pc = "idle" => CountsExact
  <2>1. Counted(w) /\ (pc # "del" => num_chars = Len(w[head]))
    BY <1>1, HeldIs
  <2> QED BY <1>2, <2>1 DEF CountsExact, Counted
<1> QED BY <1>1, <1>3, <1>4, LinksAre

(* One level of the iterator.                                               *)
LEMMA LevelExact ==
  ASSUME TypeOK, NEW r, NEW w, Good(r, w), Whole,
         NEW u, NEW k \in Nat, Along(height, r, w, iter, u, k), u = iter[0].node, Inside(u),
         NEW i \in Levels, i < height[head]
  PROVE  /\ iter[i].node \in Linked /\ height[iter[i].node] > i
         /\ StartOf(iter[i].node) + iter[i].skip = Len(w[head]) - k
         /\ iter[i].skip <= skip[iter[i].node][i]
         /\ iter[i].node = head \/ iter[i].skip > 0
<1>1. /\ Lists(height, next, skip, data, r, w) /\ Laid(height, next, data, r, w)
      /\ Spanned(height, next, skip, w) /\ Filled(height, data)
  BY HeldIs
<1>2. /\ Linked = Live(height)
      /\ \A c \in Live(height) : /\ Len(w[c]) \in Nat
                                 /\ StartOf(c) = Len(w[head]) - Len(w[c])
      /\ Len(w[head]) \in Nat
  <2>1. Means(r, w)
    BY Meaning, Zenon
  <2> QED BY <2>1 DEF Means
<1>3. PICK c : /\ c = iter[i].node /\ c \in Cell /\ c \in Live(height) /\ i < height[c]
               /\ LastBefore(height, r, c, u, i) /\ r[u] <= r[c]
               /\ iter[i].skip = Len(w[c]) - k
  BY <1>1, AlongAt
<1>4. /\ u \in Cell /\ u \in Live(height) /\ iter[0].skip = Len(w[u]) - k
      /\ Len(data[u]) \in Nat /\ Len(data[c]) \in Nat
      /\ r[u] \in Nat /\ r[c] \in Nat
  <2>1. u \in Cell /\ u \in Live(height) /\ iter[0].skip = Len(w[u]) - k
    BY <1>1, AlongAt
  <2> QED BY <1>1, <1>3, <2>1, LaidTypes
<1>5. PICK x \in Nat, y \in Nat, z \in Nat, o \in Nat, l \in Nat :
        /\ x = Len(w[head]) /\ y = Len(w[c]) /\ z = Len(w[u]) /\ o = iter[0].skip
        /\ l = Len(data[u]) /\ o <= l /\ o = z - k /\ (u = head \/ o > 0)
  <2>1. iter[0].skip \in Nat
    BY CellsAre DEF TypeOK
  <2>2. iter[0].skip <= Len(data[u]) /\ (u = head \/ iter[0].skip > 0)
    BY DEF Inside
  <2> QED BY <1>2, <1>3, <1>4, <2>1, <2>2
<1>6. StartOf(c) + iter[i].skip = x - k
  <2>1. (x - y) + (y - k) = x - k
    OBVIOUS
  <2> QED BY <1>2, <1>3, <1>5, <2>1
<1>7. iter[i].skip <= skip[c][i]
  <2>1. PICK m : m = next[c][i] /\ skip[c][i] = y - Len(After(w, m))
    BY <1>1, <1>3, <1>5 DEF Spanned
  <2>2. CASE m = Nil
    <3>1. Len(After(w, m)) = 0
      BY <2>2 DEF After
    <3>2. y - k <= y - 0
      OBVIOUS
    <3> QED BY <1>3, <1>5, <2>1, <3>1, <3>2
  <2>3. CASE m # Nil
    <3>1. m \in Node /\ m \in Live(height) /\ i < height[m] /\ r[m] < r[c]
      BY <1>1, <1>3, <2>1, <2>3, NextIs
    <3>2. r[m] \in Nat /\ Len(w[m]) \in Nat
      BY <1>1, <1>2, <3>1, LaidTypes DEF Live
    <3>3. r[m] < r[u]
      <4>1. r[u] <= r[m] => r[c] <= r[m]
        BY <1>3, <3>1 DEF LastBefore
      <4> QED BY <1>4, <3>1, <3>2, <4>1
    <3>4. Len(data[u]) + Len(w[m]) <= Len(w[u])
      BY <1>1, <1>4, <3>1, <3>3, Apart
    <3>5. PICK j \in Nat : j = Len(w[m]) /\ l + j <= z /\ Len(After(w, m)) = j
      BY <1>5, <2>3, <3>2, <3>4 DEF After
    <3>6. y - k <= y - j
      <4>1. o <= l /\ o = z - k /\ l + j <= z
        BY <1>5, <3>5
      <4>2. z - k <= l
        BY <4>1
      <4>3. l <= z - j
        BY <4>1
      <4>4. j <= k
        BY <4>2, <4>3
      <4> QED BY <4>4
    <3> QED BY <1>3, <1>5, <2>1, <3>5, <3>6
  <2> QED BY <2>2, <2>3
<1>8. c = head \/ iter[i].skip > 0
  <2>1. CASE c = u
    BY <1>3, <1>5, <2>1
  <2>2. CASE c # u /\ c # head
    <3>1. r[u] < r[c]
      <4>1. r[u] # r[c]
        BY <1>1, <1>3, <1>4, <2>2, Ranks
      <4> QED BY <1>3, <1>4, <4>1
    <3>2. Len(data[c]) + Len(w[u]) <= Len(w[c])
      BY <1>1, <1>3, <1>4, <3>1, Apart
    <3>3. Len(data[c]) > 0
      <4>1. data[c] # << >> /\ data[c] \in Seq(Char)
        BY <1>1, <1>3, <2>2, CellsAre DEF Filled, Live, TypeOK
      <4> QED BY <4>1
    <3>4. PICK j \in Nat : j = Len(data[c]) /\ j > 0 /\ j + z <= y
      BY <1>4, <1>5, <3>2, <3>3
    <3>5. y - k > 0
      <4>1. o = z - k /\ j > 0 /\ j + z <= y
        BY <1>5, <3>4
      <4>2. k <= z
        BY <4>1
      <4> QED BY <4>1, <4>2
    <3> QED BY <1>3, <1>5, <3>5
  <2> QED BY <2>1, <2>2
<1>9. c \in Linked /\ height[c] > i
  <2>1. height[c] \in Nat /\ i \in Nat
    BY <1>1, <1>3, LaidTypes, CellsAre
  <2> QED BY <1>2, <1>3, <2>1
<1> QED BY <1>3, <1>5, <1>6, <1>7, <1>8, <1>9

(* The iterator where an edit writes through it.                            *)
LEMMA IterIsExact == IInv => IterExact
<1> SUFFICES ASSUME IInv, pc \in {"found", "pieces", "del"}
             PROVE  /\ \A i \in Reached :
                         /\ iter[i].node \in Linked /\ height[iter[i].node] > i
                         /\ StartOf(iter[i].node) + iter[i].skip
                              = StartOf(iter[0].node) + iter[0].skip
                         /\ iter[i].skip <= skip[iter[i].node][i]
                         /\ iter[i].node = head \/ iter[i].skip > 0
                    /\ pc # "pieces" => StartOf(iter[0].node) + iter[0].skip
                                          = MinOf(req.pos, Len(Text))
  BY DEF IterExact
<1>1. PICK r, w : Good(r, w) /\ TypeOK /\ Whole
  BY DEF IInv, Whole
<1>2. PICK k \in Nat : /\ Standing(r, w, k)
                       /\ pc # "pieces" => k = Behindhand(w)
  <2>1. CASE pc = "pieces"
    <3>1. PICK kk \in Nat : kk = Len(w[iter[0].node]) - iter[0].skip
      BY <1>1, <2>1, PiecingAt
    <3>2. Standing(r, w, kk)
      BY <1>1, <2>1, <3>1 DEF Good, Piecing
    <3> QED BY <2>1, <3>2
  <2>2. CASE pc = "found" \/ pc = "del"
    <3>1. Behindhand(w) \in Nat
      BY <1>1, <2>2, BehindhandIs
    <3>2. Standing(r, w, Behindhand(w))
      BY <1>1, <2>2 DEF Good, Deleting
    <3> QED BY <3>1, <3>2
  <2> QED BY <2>1, <2>2
<1>3. PICK u : /\ u = iter[0].node /\ Along(height, r, w, iter, u, k) /\ Inside(u)
  BY <1>2 DEF Standing
<1>4. \A i \in Levels : i < height[head] =>
        /\ iter[i].node \in Linked /\ height[iter[i].node] > i
        /\ StartOf(iter[i].node) + iter[i].skip = Len(w[head]) - k
        /\ iter[i].skip <= skip[iter[i].node][i]
        /\ iter[i].node = head \/ iter[i].skip > 0
  BY <1>1, <1>3, LevelExact
<1>5. /\ height[head] \in Nat /\ height[head] > 0 /\ 0 \in Levels
      /\ \A i \in Reached : i \in Levels /\ i < height[head]
  <2>1. Laid(height, next, data, r, w) /\ 0 \in Levels /\ head \in Cell
    BY <1>1, HeldIs, CellsAre
  <2>2. height[head] \in Nat /\ height[head] > 0
    BY <2>1, LaidTypes
  <2>3. ASSUME NEW i \in Reached PROVE i \in Levels /\ i < height[head]
    <3>1. i \in Nat /\ i < height[head]
      BY <2>2 DEF Reached
    <3> QED BY <2>1, <3>1, LaidTypes
  <2> QED BY <2>1, <2>2, <2>3
<1>6. StartOf(iter[0].node) + iter[0].skip = Len(w[head]) - k
  BY <1>4, <1>5
<1>7. ASSUME pc # "pieces" PROVE Len(w[head]) - k = MinOf(req.pos, Len(Text))
  <2>1. Text = w[head]
    <3>1. Means(r, w)
      BY <1>1, Meaning, Zenon
    <3> QED BY <3>1 DEF Means
  <2>2. Len(w[head]) - Behindhand(w) = MinOf(req.pos, Len(w[head]))
    BY <1>1, <1>7, BehindhandIs
  <2> QED BY <1>2, <1>7, <2>1, <2>2
<1> QED BY <1>4, <1>5, <1>6, <1>7

(* The nodes that are read and freed.                                       *)
LEMMA MemoryIsSafe == IInv => MemorySafe
<1> SUFFICES ASSUME IInv PROVE MemorySafe
  OBVIOUS
<1>1. PICK r, w : Good(r, w) /\ TypeOK
  BY DEF IInv
<1>2. ASSUME Whole PROVE Linked = Allocated \cup {head} /\ Live(height) = Allocated \cup {head}
  <2>1. Linked = Live(height) /\ Linked = Allocated \cup {head}
    <3>1. Means(r, w)
      BY <1>1, <1>2, Meaning, Zenon
    <3> QED BY <3>1 DEF Means
  <2> QED BY <2>1
<1>3. ASSUME pc = "find" PROVE e \in Allocated \cup {head} /\ height[e] > lvl
  <2>1. e \in Live(height) /\ lvl < height[e] /\ e \in Cell /\ lvl \in Levels
    BY <1>1, <1>3, FindingAt
  <2>2. e \in Allocated \cup {head}
    BY <1>2, <1>3, <2>1 DEF Whole
  <2>3. height[e] \in Nat /\ lvl \in Nat
    BY <1>1, <2>1, CellsAre DEF TypeOK
  <2> QED BY <2>1, <2>2, <2>3
<1>4. ASSUME DelLoop PROVE e # Nil /\ DelNode \in Allocated \cup {head}
  <2>1. PICK u, k, d, off, n : DelIn(r, w, u, k, d, off, n)
    BY <1>1, <1>4, DelAt
  <2>2. d \in Live(height) /\ d = DelNode
    BY <2>1 DEF DelIn
  <2>3. Whole /\ pc = "del"
    BY <1>4 DEF DelLoop, Whole
  <2>4. DelNode \in Allocated \cup {head}
    BY <1>2, <2>2, <2>3
  <2>5. e # Nil
    <3>1. /\ u = iter[0].node /\ u \in Live(height) /\ k \in Nat /\ req.len <= k
          /\ Along(height, r, w, iter, u, k)
      BY <2>1 DEF DelIn
    <3>2. Laid(height, next, data, r, w)
      BY <1>1, <2>3, HeldIs
    <3>3. req.len \in Nat /\ req.len > 0
      BY <1>1, <1>4, <2>3, BehindhandIs DEF DelLoop
    <3>4. k > 0
      BY <3>1, <3>3
    <3>5. e = u \/ (e = next[u][0] /\ AtEndOf(u))
      BY <1>1, <2>3, <3>1 DEF Good, Deleting
    <3>6. CASE e = u
      BY <3>1, <3>6, CellsAre DEF Live
    <3>7. CASE e = next[u][0] /\ AtEndOf(u)
      <4>1. iter[0].skip = Len(data[u])
        BY <3>7 DEF AtEndOf
      <4> QED BY <3>1, <3>2, <3>4, <3>7, <4>1, AlongEnd
    <3> QED BY <3>5, <3>6, <3>7
  <2> QED BY <2>4, <2>5
<1>5. ASSUME pc = "free" PROVE e \in Allocated \cup {Nil}
  BY <1>1, <1>5 DEF Good, Whole, Freeing
<1> QED BY <1>2, <1>3, <1>4, <1>5 DEF MemorySafe

(* No count, skip or offset goes below zero.                                *)
THEOREM TypesKept == Spec => []TypeOK
<1>1. IInv => TypeOK
  BY DEF IInv
<1> QED BY <1>1, RopeInvariant, PTL

(* What _rope_check asserts holds before and after every call, and of the   *)
(* links also between its steps.                                            *)
THEOREM ListsKept == Spec => []RopeCheck
BY RopeChecks, RopeInvariant, PTL

(* The iterator is exact wherever an edit writes through it.                *)
THEOREM IterKept == Spec => []IterExact
BY IterIsExact, RopeInvariant, PTL

(* No step follows a null pointer or one to a freed node, and none is lost. *)
THEOREM MemoryKept == Spec => []MemorySafe
BY MemoryIsSafe, RopeInvariant, PTL

(* A part of a finite set that lacks an element of it is smaller.           *)
LEMMA Smaller ==
  ASSUME NEW S, IsFiniteSet(S), NEW T, T \subseteq S, NEW x, x \in S, x \notin T
  PROVE  /\ Cardinality(T) \in Nat /\ Cardinality(S) \in Nat
         /\ Cardinality(T) < Cardinality(S)
<1>1. /\ IsFiniteSet(T) /\ Cardinality(T) <= Cardinality(S)
      /\ Cardinality(S) = Cardinality(T) => S = T
  BY FS_Subset
<1>2. Cardinality(T) \in Nat /\ Cardinality(S) \in Nat
  BY <1>1, FS_CardinalityType
<1>3. Cardinality(S) # Cardinality(T)
  BY <1>1
<1> QED BY <1>1, <1>2, <1>3

(* What CallsProgress says of one step.                                     *)
Progress == \/ pc' = "idle"
            \/ Stage' < Stage
            \/ Stage' = Stage /\ LeftToDo' < LeftToDo

(* The search goes on to nodes with fewer behind them,                      *)
LEMMA RightProgress ==
  ASSUME IsFiniteSet(Node), IInv, FindRight
  PROVE  Progress
<1>1. PICK r, w : Good(r, w)
  BY DEF IInv
<1>2. /\ TypeOK /\ pc = "find" /\ pc' = "find" /\ offset > skip[e][lvl] /\ lvl' = lvl
      /\ e' = next[e][lvl] /\ height' = height /\ next' = next
  BY DEF IInv, FindRight, Beyond, heap
<1>3. /\ e \in Live(height) /\ lvl \in Levels /\ offset = Len(w[e]) - Behindhand(w)
      /\ Len(w[e]) \in Nat /\ Behindhand(w) \in Nat
      /\ next[e][lvl] = Nil \/ /\ next[e][lvl] \in Node /\ next[e][lvl] \in Live(height)
                               /\ r[next[e][lvl]] < r[e]
      /\ Len(After(w, next[e][lvl])) \in Nat
      /\ skip[e][lvl] = Len(w[e]) - Len(After(w, next[e][lvl]))
  BY <1>1, <1>2, FindingAt
<1>4. next[e][lvl] # Nil
  <2>1. PICK a \in Nat, x \in Nat, k \in Nat :
          a = Len(After(w, next[e][lvl])) /\ x = Len(w[e]) /\ k = Behindhand(w)
    BY <1>3
  <2>2. x - k > x - a
    BY <1>2, <1>3, <2>1
  <2>3. a # 0
    BY <2>2
  <2>4. Len(<< >>) = 0
    OBVIOUS
  <2> QED BY <2>1, <2>3, <2>4 DEF After
<1>5. PICK m : /\ m = next[e][lvl] /\ m \in Node /\ m \in Live(height) /\ r[m] < r[e]
               /\ m \in Allocated
  <2>1. next[e][lvl] \in Node /\ next[e][lvl] \in Live(height) /\ r[next[e][lvl]] < r[e]
    BY <1>3, <1>4
  <2> QED BY <2>1 DEF Allocated, Live
<1>6. /\ Behind[e] = {n \in Allocated : r[n] < r[e]}
      /\ Behind[m] = {n \in Allocated : r[n] < r[m]}
      /\ Allocated \subseteq Node /\ r[m] \in Nat /\ r[e] \in Nat
      /\ \A n \in Allocated : r[n] \in Nat
  <2>1. Means(r, w)
    BY <1>1, <1>2, Meaning DEF Whole
  <2>2. Laid(height, next, data, r, w) /\ Allocated \subseteq Node
    BY <2>1 DEF Means, Allocated
  <2>3. \A c \in Cell : r[c] \in Nat
    BY <2>2, LaidTypes
  <2> QED BY <1>3, <1>5, <2>1, <2>2, <2>3, CellsAre DEF Means, Live
<1>7. /\ Behind[m] \subseteq Behind[e] /\ m \in Behind[e] /\ m \notin Behind[m]
  <2>1. ASSUME NEW n \in Behind[m] PROVE n \in Behind[e]
    <3>1. n \in Allocated /\ r[n] < r[m] /\ r[n] \in Nat
      BY <1>6
    <3> QED BY <1>5, <1>6, <3>1
  <2> QED BY <1>5, <1>6, <2>1
<1>8. IsFiniteSet(Behind[e])
  <2>1. Behind[e] \subseteq Node
    BY <1>6
  <2> QED BY <2>1, FS_Subset
<1>9. /\ Cardinality(Behind[m]) \in Nat /\ Cardinality(Behind[e]) \in Nat
      /\ Cardinality(Behind[m]) < Cardinality(Behind[e])
  BY <1>7, <1>8, Smaller
<1>10. Behind' = Behind
  BY <1>2 DEF Behind
<1>11. /\ Stage' = Stage /\ LeftToDo = lvl + Cardinality(Behind[e])
       /\ LeftToDo' = lvl + Cardinality(Behind[m])
  BY <1>2, <1>5, <1>10 DEF Stage, LeftToDo
<1>12. lvl \in Nat
  BY <1>3, CellsAre
<1> QED BY <1>9, <1>11, <1>12 DEF Progress

(* or down one level.                                                       *)
LEMMA DownProgress ==
  ASSUME IsFiniteSet(Node), IInv, FindDown
  PROVE  Progress
<1>1. PICK r, w : Good(r, w)
  BY DEF IInv
<1>2. /\ TypeOK /\ pc = "find" /\ e' = e /\ height' = height /\ next' = next
      /\ \/ lvl > 0 /\ lvl' = lvl - 1 /\ pc' = "find"
         \/ pc' = "found"
  BY DEF IInv, FindDown, heap
<1>3. CASE pc' = "found"
  BY <1>2, <1>3 DEF Progress, Stage
<1>4. CASE lvl > 0 /\ lvl' = lvl - 1 /\ pc' = "find"
  <2>1. e \in Live(height) /\ lvl \in Levels /\ lvl \in Nat
    BY <1>1, <1>2, FindingAt, CellsAre
  <2>2. Means(r, w)
    BY <1>1, <1>2, Meaning DEF Whole
  <2>3. Behind[e] \subseteq Node
    BY <2>1, <2>2 DEF Means, Allocated
  <2>4. Cardinality(Behind[e]) \in Nat
    BY <2>3, FS_Subset, FS_CardinalityType
  <2>5. Behind' = Behind
    BY <1>2 DEF Behind
  <2>6. /\ Stage' = Stage /\ LeftToDo = lvl + Cardinality(Behind[e])
        /\ LeftToDo' = (lvl - 1) + Cardinality(Behind[e])
    BY <1>2, <1>4, <2>5 DEF Stage, LeftToDo
  <2> QED BY <2>1, <2>4, <2>6 DEF Progress
<1> QED BY <1>2, <1>3, <1>4

(* A turn of the insertion stores some of what is left,                     *)
LEMMA PieceProgress ==
  ASSUME IInv, InsertPiece \/ InsertTail
  PROVE  Progress
<1>1. /\ TypeOK /\ pc = "pieces" /\ pc' = "pieces" /\ rest \in Seq(Char) /\ tail \in Seq(Char)
  BY DEF IInv, TypeOK, InsertPiece, InsertTail
<1>2. Stage' = Stage /\ LeftToDo = Len(rest) + Len(tail) /\ LeftToDo' = Len(rest') + Len(tail')
  BY <1>1 DEF Stage, LeftToDo
<1>3. PICK x \in Nat, y \in Nat : x = Len(rest) /\ y = Len(tail)
  BY <1>1
<1>4. CASE InsertPiece
  <2>1. rest # << >> /\ rest' = SubSeq(rest, PieceLen + 1, Len(rest)) /\ tail' = tail
    BY <1>4 DEF InsertPiece
  <2>2. PICK m \in 1 .. Len(rest) : m = PieceLen
    BY <1>1, <2>1, PieceFits
  <2>3. Len(rest') = x - m /\ m \in Nat /\ m > 0
    <3>1. m \in 0 .. Len(rest) /\ m \in Nat /\ m > 0
      BY <1>3
    <3>2. Len(SubSeq(rest, m + 1, Len(rest))) = Len(rest) - m
      BY <1>1, <3>1, Seqs!SeqParts
    <3> QED BY <1>3, <2>1, <2>2, <3>1, <3>2
  <2>4. LeftToDo' = (x - m) + y
    BY <1>2, <1>3, <2>1, <2>3
  <2> QED BY <1>2, <1>3, <2>3, <2>4 DEF Progress
<1>5. CASE InsertTail
  <2>1. tail # << >> /\ tail' = << >> /\ rest' = rest /\ Len(<< >>) = 0
    BY <1>5 DEF InsertTail
  <2>2. y > 0
    BY <1>1, <1>3, <2>1
  <2>3. LeftToDo' = x + 0
    BY <1>2, <1>3, <2>1
  <2> QED BY <1>2, <1>3, <2>2, <2>3 DEF Progress
<1> QED BY <1>4, <1>5

(* a round of the deletion takes at least one character,                    *)
LEMMA RoundProgress ==
  ASSUME IInv, DelTrim \/ DelRemove
  PROVE  Progress
<1>1. /\ TypeOK /\ DelLoop /\ pc = "del" /\ pc' = "del"
      /\ req' = [req EXCEPT !.len = @ - Removed]
  BY DEF IInv, DelTrim, DelRemove, DelAgain, DelLoop
<1>2. PICK r, w : Good(r, w)
  BY DEF IInv
<1>3. PICK u, k, d, off, n : DelIn(r, w, u, k, d, off, n)
  BY <1>1, <1>2, DelAt
<1>4. n = Removed /\ n \in Nat /\ n > 0 /\ n <= req.len
  BY <1>3 DEF DelIn
<1>5. PICK l \in Nat : l = req.len /\ req'.len = l - n
  <2>1. req \in Request /\ req.len \in Nat
    BY <1>1, <1>2, BehindhandIs
  <2> QED BY <1>1, <1>4, <2>1 DEF Request
<1>6. Stage' = Stage /\ LeftToDo = l /\ LeftToDo' = l - n
  BY <1>1, <1>5 DEF Stage, LeftToDo
<1> QED BY <1>4, <1>6 DEF Progress

(* and a turn of rope_free frees a node.                                    *)
LEMMA FreeProgress ==
  ASSUME IsFiniteSet(Node), IInv, FreeNode
  PROVE  Progress
<1>1. /\ TypeOK /\ pc = "free" /\ pc' = "free" /\ e # Nil
      /\ height' = [height EXCEPT ![e] = 0]
  BY DEF IInv, FreeNode
<1>2. PICK r, w : Good(r, w)
  BY DEF IInv
<1>3. e \in Allocated
  BY <1>1, <1>2 DEF Good, Whole, Freeing
<1>4. Allocated \subseteq Node /\ Node \subseteq Cell
  BY CellsAre DEF Allocated
<1>5. Allocated' \subseteq Allocated /\ e \notin Allocated'
  BY <1>1, <1>3, <1>4 DEF Allocated, TypeOK
<1>6. /\ Cardinality(Allocated') \in Nat /\ Cardinality(Allocated) \in Nat
      /\ Cardinality(Allocated') < Cardinality(Allocated)
  <2>1. IsFiniteSet(Allocated)
    BY <1>4, FS_Subset
  <2>2. PICK T : T = Allocated' /\ T \subseteq Allocated /\ e \notin T
    BY <1>5
  <2>3. /\ Cardinality(T) \in Nat /\ Cardinality(Allocated) \in Nat
        /\ Cardinality(T) < Cardinality(Allocated)
    BY <1>3, <2>1, <2>2, Smaller
  <2> QED BY <2>2, <2>3
<1>7. Stage' = Stage /\ LeftToDo = Cardinality(Allocated) /\ LeftToDo' = Cardinality(Allocated')
  BY <1>1 DEF Stage, LeftToDo
<1> QED BY <1>6, <1>7 DEF Progress

(* Every step of a call is a step towards its end, whatever is inserted and *)
(* erased: no loop of librope runs for ever.                                *)
THEOREM CallsEnd ==
  ASSUME IsFiniteSet(Node)
  PROVE  Spec => CallsProgress
<1>1. ASSUME IInv, [Next]_vars, pc # "idle"
      PROVE  Progress \/ UNCHANGED vars
  <2>1. CASE CallInsert \/ CallErase \/ CallDestroy
    BY <1>1, <2>1 DEF CallInsert, CallErase, CallDestroy, Call
  <2>2. CASE Start \/ FreeStart
    BY <2>2 DEF Start, FreeStart, Progress, Stage
  <2>3. CASE FindRight
    BY <1>1, <2>3, RightProgress
  <2>4. CASE FindDown
    BY <1>1, <2>4, DownProgress
  <2>5. CASE InvalidUtf8 \/ InsertHere \/ InsertIntoNext \/ InsertDone \/ DelDone \/ FreeDone
    BY <2>5 DEF InvalidUtf8, InsertHere, InsertIntoNext, InsertDone, DelDone, FreeDone,
                Put, Return, Progress
  <2>6. CASE InsertCut \/ DelStart
    BY <2>6 DEF InsertCut, DelStart, Found, Progress, Stage
  <2>7. CASE InsertPiece \/ InsertTail
    BY <1>1, <2>7, PieceProgress
  <2>8. CASE DelTrim \/ DelRemove
    BY <1>1, <2>8, RoundProgress
  <2>9. CASE FreeNode
    BY <1>1, <2>9, FreeProgress
  <2>10. CASE UNCHANGED vars
    BY <2>10
  <2> QED BY <1>1, <2>1, <2>2, <2>3, <2>4, <2>5, <2>6, <2>7, <2>8, <2>9, <2>10
          DEF Next, Step, Insert, Del, Destroy
<1>2. IInv /\ [Next]_vars =>
        [pc # "idle" => \/ pc' = "idle"
                        \/ Stage' < Stage
                        \/ Stage' = Stage /\ LeftToDo' < LeftToDo]_vars
  BY <1>1 DEF Progress
<1> QED BY <1>2, RopeInvariant, PTL DEF Spec, CallsProgress

(* The arguments a call does not have are empty.                            *)
Plain == /\ req.op # "erase" => req.len = 0
         /\ req.op # "insert" => req.str = << >>

(* Initially, and after every step.                                         *)
LEMMA PlainKept == IInv /\ Plain /\ [Next]_vars => Plain'
<1> SUFFICES ASSUME IInv, Plain, [Next]_vars PROVE Plain'
  OBVIOUS
<1>1. CASE CallInsert \/ CallErase \/ CallDestroy
  BY <1>1 DEF CallInsert, CallErase, CallDestroy, Call, Plain
<1>2. CASE req' = req
  BY <1>2 DEF Plain
<1>3. CASE Return
  BY <1>3 DEF Return, NoRequest, Plain
<1>4. CASE Start
  <2>1. /\ pc = "entry" /\ req.op \in {"insert", "erase"}
        /\ req' = [req EXCEPT !.len = MinOf(@, num_chars - Clamped(req.pos))]
    BY <1>4 DEF Start
  <2>2. req \in Request /\ req.pos \in Nat /\ num_chars \in Nat
    BY <2>1 DEF IInv, TypeOK, Request, NoRequest
  <2>3. MinOf(0, num_chars - Clamped(req.pos)) = 0
    <3>1. PICK x \in Nat, y \in Nat : x = req.pos /\ y = num_chars
      BY <2>2
    <3>2. MinOf(0, y - MinOf(x, y)) = 0
      BY DEF MinOf
    <3> QED BY <3>1, <3>2 DEF Clamped
  <2>4. req'.op = req.op /\ req'.str = req.str
        /\ req'.len = MinOf(req.len, num_chars - Clamped(req.pos))
    BY <2>1, <2>2 DEF Request
  <2> QED BY <2>3, <2>4 DEF Plain
<1>5. CASE DelTrim \/ DelRemove
  <2>1. pc = "del" /\ req' = [req EXCEPT !.len = @ - Removed]
    BY <1>5 DEF DelTrim, DelRemove, DelLoop, DelAgain
  <2>2. req \in Request /\ req.op = "erase"
    <3>1. PICK r, w : Good(r, w)
      BY DEF IInv
    <3>2. Served(w) /\ req \in Request
      BY <2>1, <3>1, HeldIs, BehindhandIs DEF IInv, Whole
    <3> QED BY <2>1, <3>2 DEF Served
  <2>3. req'.op = "erase" /\ req'.str = req.str
    BY <2>1, <2>2 DEF Request
  <2> QED BY <2>2, <2>3 DEF Plain
<1>6. CASE UNCHANGED vars
  <2>1. req' = req
    BY <1>6 DEF vars
  <2> QED BY <1>2, <2>1
<1>7. ASSUME Step PROVE \/ req' = req \/ Return \/ Start \/ DelTrim \/ DelRemove
  BY <1>7 DEF Step, FindRight, FindDown, Insert, InvalidUtf8, InsertHere, InsertIntoNext,
     Put, InsertCut, InsertPiece, InsertTail, InsertDone, Del, DelStart, DelDone, Destroy,
     FreeStart, FreeNode, FreeDone
<1> QED BY <1>1, <1>2, <1>3, <1>4, <1>5, <1>6, <1>7 DEF Next

(* What the refinement is proved from.                                      *)
PInv == IInv /\ Plain

(* It holds of every state a rope can reach.                                *)
LEMMA PlainInvariant == Spec => []PInv
<1>1. Init => Plain
  BY DEF Init, NoRequest, Plain
<1>2. Init => PInv
  BY <1>1, InitIInv DEF PInv
<1>3. PInv /\ [Next]_vars => PInv'
  BY NextKept, PlainKept DEF PInv
<1> QED BY <1>2, <1>3, PTL DEF Spec

(* The text the nodes hold, whatever ranks and texts fit them.              *)
TextMeans == \A r, w : Lists(height, next, skip, data, r, w) =>
               /\ Text = w[head] /\ Text \in Seq(Char) /\ Len(Text) \in Nat

(* It is the one of the invariant,                                          *)
LEMMA TextMeansNow == TextMeans
<1> SUFFICES ASSUME NEW r, NEW w, Lists(height, next, skip, data, r, w)
             PROVE  Text = w[head] /\ Text \in Seq(Char) /\ Len(Text) \in Nat
  BY DEF TextMeans
<1>1. /\ Laid(height, next, data, r, w) /\ head \in Live(height)
      /\ w[head] \in Seq(Char) /\ Len(w[head]) \in Nat
  BY ListsLaid
<1>2. TextFrom[head] = w[head]
  BY <1>1, TextFromIs
<1> QED BY <1>1, <1>2 DEF Text

(* after a step too.                                                        *)
LEMMA TextMeansThen == TextMeans'
<1>1. TextMeans
  BY TextMeansNow
<1> QED BY <1>1, PTL

(* The request as a caller of the text sees it.                             *)
LeftOf(n) == MinOf(req.len, n - MinOf(req.pos, n))

(* How the request of the rope is shown while a call runs.                  *)
Mapped ==
  pc # "free" /\ Valid(req.str) =>
    /\ AbsReq = [req EXCEPT !.len = LeftOf(Len(Text))]
    /\ pc # "entry" \/ req.op # "erase" => AbsReq = req

(* A record with one of its own values put in.                              *)
LEMMA SameLen ==
  ASSUME NEW q, q \in Request \cup {NoRequest}, NEW l, q.len = l
  PROVE  [q EXCEPT !.len = l] = q
BY DEF Request, NoRequest

(* What is left of an erase, written with the bound on the position.        *)
LEMMA LeftIs ==
  ASSUME NEW p \in Nat, NEW n \in Nat, NEW l \in Nat
  PROVE  /\ (IF p < n THEN MinOf(l, n - p) ELSE 0) = MinOf(l, n - MinOf(p, n))
         /\ MinOf(0, n - MinOf(p, n)) = 0
         /\ l <= n - MinOf(p, n) => MinOf(l, n - MinOf(p, n)) = l
BY DEF MinOf

(* It is the one of the call.                                               *)
LEMMA MappedNow == PInv => Mapped
<1> SUFFICES ASSUME PInv, pc # "free", Valid(req.str)
             PROVE  /\ AbsReq = [req EXCEPT !.len = LeftOf(Len(Text))]
                    /\ pc # "entry" \/ req.op # "erase" => AbsReq = req
  BY DEF Mapped
<1>1. PICK r, w : Good(r, w) /\ TypeOK /\ Whole
  BY DEF PInv, IInv, Whole
<1>2. /\ Lists(height, next, skip, data, r, w) /\ Served(w)
  BY <1>1, HeldIs
<1>3. Text = w[head] /\ Len(Text) \in Nat
  BY <1>2, TextMeansNow DEF TextMeans
<1>4. req \in Request \cup {NoRequest} /\ req.pos \in Nat /\ req.len \in Nat
  BY <1>1 DEF TypeOK, Request, NoRequest
<1>5. AbsReq = [req EXCEPT !.len = IF req.pos < Len(Text)
                                     THEN MinOf(req.len, Len(Text) - req.pos) ELSE 0]
  BY DEF AbsReq
<1>6. AbsReq = [req EXCEPT !.len = LeftOf(Len(Text))]
  <2>1. (IF req.pos < Len(Text) THEN MinOf(req.len, Len(Text) - req.pos) ELSE 0)
          = LeftOf(Len(Text))
    BY <1>3, <1>4, LeftIs DEF LeftOf
  <2> QED BY <1>5, <2>1
<1>7. ASSUME pc # "entry" \/ req.op # "erase" PROVE AbsReq = req
  <2>1. CASE req.op # "erase"
    <3>1. req.len = 0
      BY <2>1 DEF PInv, Plain
    <3>2. LeftOf(Len(Text)) = 0
      BY <1>3, <1>4, <3>1, LeftIs DEF LeftOf
    <3> QED BY <1>4, <1>6, <3>1, <3>2, SameLen
  <2>2. CASE req.op = "erase"
    <3>1. pc \in {"find", "found", "del"}
      BY <1>1, <1>2, <1>7, <2>2 DEF Served, NoRequest, TypeOK
    <3>2. req.len <= Len(w[head]) - MinOf(req.pos, Len(w[head]))
      BY <1>2, <3>1 DEF Served, Behindhand
    <3>3. LeftOf(Len(Text)) = req.len
      BY <1>3, <1>4, <3>2, LeftIs DEF LeftOf
    <3> QED BY <1>4, <1>6, <3>3, SameLen
  <2> QED BY <2>1, <2>2
<1> QED BY <1>6, <1>7

(* After a step too.                                                        *)
LEMMA MappedThen == PInv' => Mapped'
<1>1. PInv => Mapped
  BY MappedNow
<1> QED BY <1>1, PTL

(* Where neither characters nor level-0 links change, the text stays.       *)
LEMMA TextStays ==
  ASSUME next' = next, data' = data
  PROVE  Text' = Text
<1>1. TextFrom' = TextFrom
  BY DEF TextFrom
<1> QED BY <1>1 DEF Text

(* Outside the two loops that take a text apart it is what a caller sees.   *)
Plainly == pc # "free" /\ pc # "pieces"

(* What a caller sees of a state between them.                              *)
LEMMA SeenNow ==
  ASSUME PInv, Plainly
  PROVE  /\ AbsText = Text /\ Text \in Seq(Char) /\ Len(Text) \in Nat
         /\ Valid(req.str) => req.str \in Seq(Char)
         /\ Valid(req.str) /\ (pc # "entry" \/ req.op # "erase") => AbsReq = req
         /\ \E r, w : Good(r, w) /\ Text = w[head] /\ TypeOK
<1>1. PICK r, w : Good(r, w) /\ TypeOK /\ Whole
  BY DEF PInv, IInv, Plainly, Whole
<1>2. Lists(height, next, skip, data, r, w)
  BY <1>1, HeldIs
<1>3. Text = w[head] /\ Text \in Seq(Char) /\ Len(Text) \in Nat
  BY <1>2, TextMeansNow DEF TextMeans
<1>4. AbsText = Text
  BY DEF AbsText, Plainly
<1>5. Valid(req.str) => req.str \in Seq(Char)
  <2>1. req.str \in Seq(Char \cup {Bad})
    <3>1. CASE req \in Request
      BY <3>1 DEF Request
    <3>2. CASE req = NoRequest
      <4>1. req.str = << >>
        BY <3>2 DEF NoRequest
      <4> QED BY <4>1
    <3> QED BY <1>1, <3>1, <3>2 DEF TypeOK
  <2> QED BY <2>1, ValidType
<1>6. Valid(req.str) /\ (pc # "entry" \/ req.op # "erase") => AbsReq = req
  BY MappedNow DEF Mapped, Plainly
<1> QED BY <1>1, <1>3, <1>4, <1>5, <1>6

(* A call that has returned is no request.                                  *)
LEMMA Returned ==
  ASSUME Return, PInv'
  PROVE  AbsText' = Text' /\ AbsReq' = Abs!NoRequest
<1>1. pc' = "idle" /\ req' = NoRequest
  BY DEF Return
<1>2. AbsText' = Text'
  BY <1>1 DEF AbsText
<1>3. Valid(req'.str)
  BY <1>1 DEF NoRequest, Valid, ToSet
<1>4. AbsReq' = req'
  BY <1>1, <1>3, MappedThen DEF Mapped
<1> QED BY <1>1, <1>2, <1>4 DEF NoRequest, Abs!NoRequest

(* The strings of an erase and of a destruction are empty.                  *)
LEMMA EmptyValid ==
  ASSUME PInv, req.op # "insert"
  PROVE  Valid(req.str)
<1>1. req.str = << >>
  BY DEF PInv, Plain
<1> QED BY <1>1 DEF Valid, ToSet

(* Both mappings stay where the request, the text and the stage do.         *)
LEMMA StaysPut ==
  ASSUME PInv, PInv', Text' = Text, req' = req, Plainly, Plainly',
         pc # "entry" \/ req.op # "erase", pc' # "entry" \/ req.op # "erase"
  PROVE  AbsText' = AbsText /\ AbsReq' = AbsReq
<1>1. AbsText' = AbsText
  BY DEF AbsText, Plainly
<1>2. CASE Valid(req.str)
  <2>1. AbsReq = req
    BY <1>2, MappedNow DEF Mapped, Plainly
  <2>2. AbsReq' = req'
    BY <1>2, MappedThen DEF Mapped, Plainly
  <2> QED BY <1>1, <2>1, <2>2
<1>3. CASE ~Valid(req.str)
  <2>1. AbsReq = [NoRequest EXCEPT !.op = "keep"]
    BY <1>3 DEF AbsReq, Plainly
  <2>2. AbsReq' = [NoRequest EXCEPT !.op = "keep"]
    BY <1>3 DEF AbsReq, Plainly
  <2> QED BY <1>1, <2>1, <2>2
<1> QED BY <1>2, <1>3

(* A call is invoked.                                                       *)
LEMMA CallInvokes ==
  ASSUME PInv, PInv', CallInsert \/ CallErase \/ CallDestroy
  PROVE  Abs!Next
<1>1. /\ pc = "idle" /\ pc' = "entry" /\ next' = next /\ data' = data
  BY DEF CallInsert, CallErase, CallDestroy, Call, heap
<1>2. req = NoRequest
  <2>1. PICK r, w : Good(r, w)
    BY DEF PInv, IInv
  <2> QED BY <1>1, <2>1, HeldIs DEF Whole, Served
<1>3. AbsReq = Abs!NoRequest
  <2>1. Valid(req.str)
    BY <1>2 DEF NoRequest, Valid, ToSet
  <2>2. AbsReq = req
    BY <1>1, <2>1, MappedNow DEF Mapped
  <2> QED BY <1>2, <2>2 DEF NoRequest, Abs!NoRequest
<1>4. AbsText' = AbsText
  <2>1. Text' = Text
    BY <1>1, TextStays
  <2> QED BY <1>1, <2>1 DEF AbsText
<1>5. AbsReq' \in Abs!Request
  <2>1. req' \in Request
    <3>1. TypeOK'
      BY DEF PInv, IInv
    <3>2. req'.op # "none"
      BY DEF CallInsert, CallErase, CallDestroy, Call
    <3> QED BY <3>1, <3>2 DEF TypeOK, NoRequest
  <2>2. CASE ~Valid(req'.str)
    <3>1. AbsReq' = [NoRequest EXCEPT !.op = "keep"]
      BY <1>1, <2>2 DEF AbsReq
    <3>2. AbsReq' = [op |-> "keep", pos |-> 0, str |-> << >>, len |-> 0]
      BY <3>1 DEF NoRequest
    <3>3. << >> \in Seq(Char) /\ 0 \in Nat
      OBVIOUS
    <3> QED BY <3>2, <3>3 DEF Abs!Request
  <2>3. CASE Valid(req'.str)
    <3>1. AbsReq' = [req' EXCEPT !.len = LeftOf(Len(Text))']
      BY <1>1, <2>3, MappedThen DEF Mapped
    <3>2. LeftOf(Len(Text))' \in Nat
      <4>1. PICK r, w : Lists(height, next, skip, data, r, w)'
        <5>1. PICK r, w : Good(r, w)'
          BY DEF PInv, IInv
        <5> QED BY <1>1, <5>1 DEF Good, Whole, Held
      <4>2. Len(Text') \in Nat
        BY <4>1, TextMeansThen DEF TextMeans
      <4>3. req'.len \in Nat /\ req'.pos \in Nat
        BY <2>1 DEF Request
      <4> QED BY <4>2, <4>3 DEF LeftOf, MinOf
    <3>3. req'.str \in Seq(Char)
      BY <2>1, <2>3, ValidType DEF Request
    <3> QED BY <2>1, <3>1, <3>2, <3>3 DEF Request, Abs!Request
  <2> QED BY <2>2, <2>3
<1> QED BY <1>3, <1>4, <1>5 DEF Abs!Next, Abs!Invoke

(* The search changes nothing a caller sees.                                *)
LEMMA StartStutters ==
  ASSUME PInv, PInv', Start
  PROVE  UNCHANGED Abs!vars
<1>1. /\ pc = "entry" /\ pc' = "find" /\ next' = next /\ data' = data
      /\ req' = [req EXCEPT !.len = MinOf(@, num_chars - Clamped(req.pos))]
      /\ req.op \in {"insert", "erase"}
  BY DEF Start, heap
<1>2. Text' = Text
  BY <1>1, TextStays
<1>3. AbsText' = AbsText
  BY <1>1, <1>2 DEF AbsText
<1>4. req \in Request
  BY <1>1 DEF PInv, IInv, TypeOK, NoRequest
<1>5. num_chars = Len(Text)
  <2>1. PICK r, w : Good(r, w)
    BY DEF PInv, IInv
  <2>2. Lists(height, next, skip, data, r, w) /\ num_chars = Len(w[head])
    BY <1>1, <2>1, HeldIs DEF Whole
  <2> QED BY <2>2, TextMeansNow DEF TextMeans
<1>6. req' = [req EXCEPT !.len = LeftOf(Len(Text))]
  BY <1>1, <1>5 DEF Clamped, LeftOf
<1>7. req'.str = req.str
  BY <1>4, <1>6 DEF Request
<1>8. CASE Valid(req.str)
  <2>1. AbsReq = [req EXCEPT !.len = LeftOf(Len(Text))]
    BY <1>1, <1>8, MappedNow DEF Mapped
  <2>2. AbsReq' = req'
    BY <1>1, <1>7, <1>8, MappedThen DEF Mapped
  <2> QED BY <1>3, <1>6, <2>1, <2>2 DEF Abs!vars
<1>9. CASE ~Valid(req.str)
  <2>1. AbsReq = [NoRequest EXCEPT !.op = "keep"]
    BY <1>1, <1>9 DEF AbsReq
  <2>2. AbsReq' = [NoRequest EXCEPT !.op = "keep"]
    BY <1>1, <1>7, <1>9 DEF AbsReq
  <2> QED BY <1>3, <2>1, <2>2 DEF Abs!vars
<1> QED BY <1>8, <1>9

(* Nor does the way to the node.                                            *)
LEMMA QuietStutters ==
  ASSUME PInv, PInv', FindRight \/ FindDown \/ DelStart
  PROVE  UNCHANGED Abs!vars
<1>1. /\ next' = next /\ data' = data /\ req' = req
      /\ pc \in {"find", "found"} /\ pc' \in {"find", "found", "del"}
  BY DEF FindRight, FindDown, DelStart, Found, heap
<1>2. Text' = Text
  BY <1>1, TextStays
<1>3. Plainly /\ Plainly' /\ pc # "entry" /\ pc' # "entry"
  BY <1>1 DEF Plainly
<1> QED BY <1>1, <1>2, <1>3, StaysPut DEF Abs!vars

(* A string that is not UTF-8 is not inserted.                              *)
LEMMA InvalidKeeps ==
  ASSUME PInv, PInv', InvalidUtf8
  PROVE  Abs!Next
<1>1. pc = "found" /\ ~Valid(req.str) /\ Return /\ next' = next /\ data' = data
  BY DEF InvalidUtf8, Found, heap
<1>2. Text' = Text
  BY <1>1, TextStays
<1>3. AbsText' = Text' /\ AbsReq' = Abs!NoRequest
  BY <1>1, Returned
<1>4. AbsText = Text /\ AbsReq = [NoRequest EXCEPT !.op = "keep"]
  BY <1>1 DEF AbsText, AbsReq
<1>5. AbsReq.op = "keep"
  BY <1>4 DEF NoRequest
<1> QED BY <1>2, <1>3, <1>4, <1>5 DEF Abs!Next, Abs!Keep

(* An insertion at the bounded position.                                    *)
Inserted(t2, t, pos, s) == \E p \in Nat : p = MinOf(pos, Len(t)) /\ t2 = Splice(t, p, s, p + 1)

(* It is one at the position, or at the end.                                *)
LEMMA InsertedIs ==
  ASSUME NEW t \in Seq(Char), NEW s \in Seq(Char), NEW pos \in Nat, NEW t2,
         Inserted(t2, t, pos, s)
  PROVE  IF pos <= Len(t) THEN t2 = Abs!StringInsert(t, pos, s) ELSE t2 = t \o s
<1>1. PICK p \in Nat : p = MinOf(pos, Len(t)) /\ t2 = Splice(t, p, s, p + 1)
  BY DEF Inserted
<1>2. PICK n \in Nat : n = Len(t)
  OBVIOUS
<1>3. t2 = SubSeq(t, 1, p) \o s \o SubSeq(t, p + 1, Len(t))
  BY <1>1 DEF Splice, Seqs!Splice
<1>4. CASE pos <= n
  <2>1. p = pos
    BY <1>1, <1>2, <1>4 DEF MinOf
  <2> QED BY <1>2, <1>3, <1>4, <2>1 DEF Abs!StringInsert
<1>5. CASE ~(pos <= n)
  <2>1. p = n
    BY <1>1, <1>2, <1>5 DEF MinOf
  <2>2. SubSeq(t, 1, n) = t /\ SubSeq(t, n + 1, n) = << >>
    BY <1>2
  <2>3. (t \o s) \o << >> = t \o s
    OBVIOUS
  <2> QED BY <1>2, <1>3, <1>5, <2>1, <2>2, <2>3
<1> QED BY <1>2, <1>4, <1>5

(* The abstract insertion.                                                  *)
LEMMA AbsInserts ==
  ASSUME AbsReq = req, req.op = "insert", req.pos \in Nat, req.str \in Seq(Char),
         AbsText \in Seq(Char), Inserted(AbsText', AbsText, req.pos, req.str),
         AbsReq' = Abs!NoRequest
  PROVE  Abs!Next
<1>1. PICK t \in Seq(Char), pos \in Nat, s \in Seq(Char), t2 \in {AbsText'} :
        /\ t = AbsText /\ pos = req.pos /\ s = req.str /\ t2 = AbsText'
        /\ Inserted(t2, t, pos, s)
  OBVIOUS
<1>2. IF pos <= Len(t) THEN t2 = Abs!StringInsert(t, pos, s) ELSE t2 = t \o s
  BY <1>1, InsertedIs, Zenon
<1>3. CASE pos <= Len(t)
  BY <1>1, <1>2, <1>3 DEF Abs!Next, Abs!Insert
<1>4. CASE ~(pos <= Len(t))
  <2>1. pos > Len(t)
    BY <1>1, <1>4
  <2> QED BY <1>1, <1>2, <1>4, <2>1 DEF Abs!Next, Abs!InsertBeyondEnd
<1> QED BY <1>3, <1>4

(* The string goes into one node.                                           *)
LEMMA InsertImplements ==
  ASSUME PInv, PInv', InsertHere \/ InsertIntoNext
  PROVE  Abs!Next
<1>1. /\ pc = "found" /\ req.op = "insert" /\ Valid(req.str) /\ Return
  BY DEF InsertHere, InsertIntoNext, Put, Found
<1>2. PICK r, w : Good(r, w) /\ Text = w[head] /\ TypeOK
  BY <1>1, SeenNow DEF Plainly
<1>3. Inserts(w)
  BY <1>2, InsertHereShown, InsertIntoNextShown
<1>4. PICK p \in Nat : /\ p = MinOf(req.pos, Len(w[head]))
                       /\ Spliced(w, p, req.str, p + 1)
  BY <1>3 DEF Inserts
<1>5. Text' = Splice(Text, p, req.str, p + 1)
  BY <1>2, <1>4, TextMeansThen DEF Spliced, TextMeans
<1>6. /\ AbsText = Text /\ Text \in Seq(Char) /\ req.str \in Seq(Char) /\ AbsReq = req
  BY <1>1, SeenNow DEF Plainly
<1>7. AbsText' = Text' /\ AbsReq' = Abs!NoRequest
  BY <1>1, Returned
<1>8. req.pos \in Nat
  BY <1>1, <1>2, BehindhandIs
<1>9. Inserted(AbsText', AbsText, req.pos, req.str)
  BY <1>2, <1>4, <1>5, <1>6, <1>7 DEF Inserted
<1> QED BY <1>1, <1>6, <1>7, <1>8, <1>9, AbsInserts

(* What a caller sees of an insertion under way.                            *)
LEMMA SeenPieces ==
  ASSUME pc = "pieces"
  PROVE  AbsText = Shown(Text, tail, Len(req.str) - Len(rest), req.pos)
BY DEF AbsText, Shown

(* After a step too.                                                        *)
LEMMA SeenPiecesThen ==
  ASSUME pc' = "pieces"
  PROVE  AbsText' = Shown(Text', tail', Len(req'.str) - Len(rest'), req'.pos)
BY DEF AbsText, Shown

(* The end of the node cut off is still seen.                               *)
LEMMA CutStutters ==
  ASSUME PInv, PInv', InsertCut
  PROVE  UNCHANGED Abs!vars
<1>1. /\ pc = "found" /\ req.op = "insert" /\ Valid(req.str) /\ pc' = "pieces"
      /\ rest' = req.str /\ req' = req
  BY DEF InsertCut, Found
<1>2. PICK r, w : Good(r, w) /\ Text = w[head] /\ TypeOK
  BY <1>1, SeenNow DEF Plainly
<1>3. /\ AbsText = Text /\ Text \in Seq(Char) /\ req.str \in Seq(Char) /\ AbsReq = req
  BY <1>1, SeenNow DEF Plainly
<1>4. PICK p \in Nat, m \in Nat :
        /\ p = MinOf(req.pos, Len(w[head])) /\ p + m <= Len(w[head])
        /\ tail' = SubSeq(w[head], p + 1, p + m) /\ Spliced(w, p, << >>, p + m + 1)
  BY <1>2, InsertCutShown DEF Cuts
<1>5. PICK t \in Seq(Char), q \in Nat, pos \in Nat, t2 \in {Text'}, tl \in {tail'} :
        /\ t = Text /\ q = p + m /\ pos = req.pos /\ t2 = Text' /\ tl = tail'
        /\ p = MinOf(pos, Len(t)) /\ q <= Len(t) /\ p <= q
        /\ Lying(tl, t, p, q) /\ t2 = Splice(t, p, << >>, q + 1)
  <2>1. Text' = Splice(Text, p, << >>, p + m + 1)
    BY <1>2, <1>4, TextMeansThen DEF Spliced, TextMeans
  <2>2. req.pos \in Nat
    BY <1>1, <1>2, BehindhandIs
  <2>3. p + m \in Nat /\ p <= p + m
    OBVIOUS
  <2>4. Lying(tail', Text, p, p + m)
    BY <1>2, <1>4 DEF Lying
  <2> QED BY <1>2, <1>3, <1>4, <2>1, <2>2, <2>3, <2>4
<1>6. Shown(t2, tl, 0, pos) = t
  <2>1. Shown(Splice(t, p, << >>, q + 1), tl, 0, pos) = t
    BY <1>4, <1>5, CutShown, Zenon
  <2> QED BY <1>5, <2>1
<1>7. AbsText' = AbsText
  <2>1. AbsText' = Shown(Text', tail', Len(req'.str) - Len(rest'), req'.pos)
    BY <1>1, SeenPiecesThen
  <2>2. Len(req'.str) - Len(rest') = 0
    <3>1. Len(req.str) \in Nat
      BY <1>3
    <3> QED BY <1>1, <3>1
  <2> QED BY <1>1, <1>3, <1>5, <1>6, <2>1, <2>2
<1>8. AbsReq' = req'
  BY <1>1, MappedThen DEF Mapped
<1> QED BY <1>1, <1>3, <1>7, <1>8 DEF Abs!vars

(* What is put into new nodes is not seen yet.                              *)
LEMMA PiecesStutter ==
  ASSUME PInv, PInv', InsertPiece \/ InsertTail
  PROVE  UNCHANGED Abs!vars
<1>1. pc = "pieces" /\ pc' = "pieces" /\ req' = req
  BY DEF InsertPiece, InsertTail
<1>2. PICK r, w : Good(r, w) /\ TypeOK
  BY DEF PInv, IInv
<1>3. Lists(height, next, skip, data, r, w) /\ Valid(req.str)
  BY <1>1, <1>2, PiecingAt
<1>4. SeenSame(w)
  BY <1>2, InsertPieceShown, InsertTailShown
<1>5. PICK r2, w2 :
        /\ Lists(height', next', skip', data', r2, w2)
        /\ Shown(w2[head], tail', Len(req'.str) - Len(rest'), req'.pos)
             = Shown(w[head], tail, Len(req.str) - Len(rest), req.pos)
  BY <1>4 DEF SeenSame
<1>6. Text = w[head] /\ Text' = w2[head]
  BY <1>3, <1>5, TextMeansNow, TextMeansThen DEF TextMeans
<1>7. AbsText' = AbsText
  BY <1>1, <1>5, <1>6, SeenPieces, SeenPiecesThen
<1>8. AbsReq' = req' /\ AbsReq = req
  BY <1>1, <1>3, MappedNow, MappedThen DEF Mapped
<1> QED BY <1>1, <1>7, <1>8 DEF Abs!vars

(* When all of it is in place, it is.                                       *)
LEMMA DoneInserts ==
  ASSUME PInv, PInv', InsertDone
  PROVE  Abs!Next
<1>1. /\ pc = "pieces" /\ Return /\ rest = << >> /\ tail = << >>
      /\ next' = next /\ data' = data
  BY DEF InsertDone, heap
<1>2. PICK r, w : Good(r, w) /\ TypeOK
  BY DEF PInv, IInv
<1>3. /\ Lists(height, next, skip, data, r, w) /\ Valid(req.str) /\ req.op = "insert"
      /\ req.str \in Seq(Char) /\ req.pos \in Nat
  BY <1>1, <1>2, PiecingAt
<1>4. PICK t \in Seq(Char), str \in Seq(Char), pos \in Nat :
        t = Text /\ t = w[head] /\ str = req.str /\ pos = req.pos
  BY <1>3, TextMeansNow DEF TextMeans
<1>5. PICK k : k = Len(w[iter[0].node]) - iter[0].skip
  OBVIOUS
<1>6. PutIn(t, << >>, str, << >>, pos, k)
  BY <1>1, <1>2, <1>4, <1>5, PiecingPut
<1>7. PICK v \in Seq(Char), b \in Nat :
        /\ v = Shown(t, << >>, Len(str) - Len(<< >>), pos)
        /\ b = MinOf(pos, Len(v)) /\ t = Splice(v, b, str, b + 1)
  BY <1>6, AllShown
<1>8. AbsText = v
  BY <1>1, <1>4, <1>7, SeenPieces
<1>9. AbsText' = t /\ AbsReq' = Abs!NoRequest
  <2>1. Text' = Text
    BY <1>1, TextStays
  <2> QED BY <1>1, <1>4, <2>1, Returned
<1>10. AbsReq = req
  BY <1>1, <1>3, MappedNow DEF Mapped
<1>11. Inserted(AbsText', AbsText, req.pos, req.str)
  BY <1>4, <1>7, <1>8, <1>9 DEF Inserted
<1> QED BY <1>3, <1>7, <1>8, <1>9, <1>10, <1>11, AbsInserts

(* n characters taken out at the bounded position.                          *)
TakenOut(t2, t, pos, n) ==
  \E p \in Nat : /\ p = MinOf(pos, Len(t)) /\ p + n <= Len(t)
                 /\ t2 = Splice(t, p, << >>, p + n + 1)

(* It is an erase at the position.                                          *)
LEMMA TakenOutIs ==
  ASSUME NEW t \in Seq(Char), NEW pos \in Nat, NEW n \in Nat, n > 0, NEW t2,
         TakenOut(t2, t, pos, n)
  PROVE  pos <= Len(t) /\ n \in 1 .. Len(t) /\ t2 = Abs!StringErase(t, pos, n)
<1>1. PICK p \in Nat : /\ p = MinOf(pos, Len(t)) /\ p + n <= Len(t)
                       /\ t2 = Splice(t, p, << >>, p + n + 1)
  BY DEF TakenOut
<1>2. PICK l \in Nat : l = Len(t)
  OBVIOUS
<1>3. p = pos /\ pos <= l /\ n \in 1 .. l /\ p \in 0 .. l
  BY <1>1, <1>2 DEF MinOf
<1>4. t2 = SubSeq(t, 1, p) \o << >> \o SubSeq(t, p + n + 1, Len(t))
  BY <1>1 DEF Splice, Seqs!Splice
<1>5. SubSeq(t, 1, p) \o << >> = SubSeq(t, 1, p)
  <2>1. SubSeq(t, 1, p) \in Seq(Char)
    BY <1>2, <1>3, Seqs!SeqParts
  <2> QED BY <2>1
<1> QED BY <1>2, <1>3, <1>4, <1>5 DEF Abs!StringErase

(* The abstract erase, in part.                                             *)
LEMMA AbsTakes ==
  ASSUME AbsReq = req, req.op = "erase", req.pos \in Nat, AbsText \in Seq(Char),
         NEW n \in Nat, n > 0, n <= req.len, TakenOut(AbsText', AbsText, req.pos, n),
         AbsReq' = req', req' = [req EXCEPT !.len = @ - n]
  PROVE  Abs!Next
<1>1. /\ req.pos <= Len(AbsText) /\ n \in 1 .. Len(AbsText)
      /\ AbsText' = Abs!StringErase(AbsText, req.pos, n)
  BY TakenOutIs
<1> QED BY <1>1 DEF Abs!Next, Abs!EraseSome

(* A round of a deletion.                                                   *)
LEMMA RoundErases ==
  ASSUME PInv, PInv', DelTrim \/ DelRemove
  PROVE  Abs!Next
<1>1. pc = "del" /\ pc' = "del" /\ DelLoop
  BY DEF DelTrim, DelRemove, DelLoop, DelAgain
<1>2. PICK r, w : Good(r, w) /\ Text = w[head] /\ TypeOK
  BY <1>1, SeenNow DEF Plainly
<1>3. req.op = "erase" /\ req.pos \in Nat /\ req \in Request /\ Valid(req.str)
  <2>1. Served(w)
    BY <1>1, <1>2, HeldIs DEF Whole
  <2>2. req.op = "erase"
    BY <1>1, <2>1 DEF Served
  <2>3. req.op # "insert"
    BY <2>2
  <2> QED BY <1>1, <1>2, <2>2, <2>3, BehindhandIs, EmptyValid
<1>4. PICK p \in Nat, n \in Nat : /\ n > 0 /\ n <= req.len /\ TakenAt(w, p, n)
                                  /\ req' = [req EXCEPT !.len = @ - n]
  <2>1. Takes(w)
    BY <1>2, DelTrimShown, DelRemoveShown
  <2> QED BY <2>1 DEF Takes
<1>5. Text' = Splice(Text, p, << >>, p + n + 1)
  BY <1>2, <1>4, TextMeansThen DEF TakenAt, Spliced, TextMeans
<1>6. AbsText = Text /\ Text \in Seq(Char) /\ AbsReq = req
  BY <1>1, <1>3, SeenNow DEF Plainly
<1>7. AbsText' = Text'
  BY <1>1 DEF AbsText
<1>8. AbsReq' = req'
  <2>1. req'.str = req.str
    BY <1>3, <1>4 DEF Request
  <2> QED BY <1>1, <1>3, <2>1, MappedThen DEF Mapped
<1>9. TakenOut(AbsText', AbsText, req.pos, n)
  BY <1>2, <1>4, <1>5, <1>6, <1>7 DEF TakenAt, TakenOut
<1> QED BY <1>3, <1>4, <1>6, <1>8, <1>9, AbsTakes

(* The deletion has taken all it was asked for, or all there was.           *)
LEMMA DoneErases ==
  ASSUME PInv, PInv', DelDone
  PROVE  Abs!Next
<1>1. pc = "del" /\ req.len = 0 /\ Return /\ next' = next /\ data' = data
  BY DEF DelDone, heap
<1>2. PICK r, w : Good(r, w) /\ Text = w[head] /\ TypeOK
  BY <1>1, SeenNow DEF Plainly
<1>3. req.op = "erase" /\ req.pos \in Nat /\ Valid(req.str)
  <2>1. Served(w)
    BY <1>1, <1>2, HeldIs DEF Whole
  <2>2. req.op = "erase"
    BY <1>1, <2>1 DEF Served
  <2>3. req.op # "insert"
    BY <2>2
  <2> QED BY <1>1, <1>2, <2>2, <2>3, BehindhandIs, EmptyValid
<1>4. AbsText = Text /\ Text \in Seq(Char) /\ AbsReq = req
  BY <1>1, <1>3, SeenNow DEF Plainly
<1>5. AbsText' = AbsText /\ AbsReq' = Abs!NoRequest
  <2>1. Text' = Text
    BY <1>1, TextStays
  <2> QED BY <1>1, <1>4, <2>1, Returned
<1>6. PICK t \in Seq(Char), p \in Nat : t = AbsText /\ p = req.pos
  BY <1>3, <1>4
<1>7. CASE p <= Len(t)
  <2>1. p \in 0 .. Len(t)
    BY <1>7
  <2>2. t = SubSeq(t, 1, p) \o SubSeq(t, p + 1, Len(t))
    BY <2>1, Seqs!SeqParts
  <2>3. p + 0 + 1 = p + 1
    OBVIOUS
  <2>4. t = Abs!StringErase(t, p, 0)
    BY <2>2, <2>3 DEF Abs!StringErase
  <2> QED BY <1>1, <1>3, <1>4, <1>5, <1>6, <1>7, <2>4 DEF Abs!Next, Abs!Erase
<1>8. CASE ~(p <= Len(t))
  <2>1. p > Len(t)
    BY <1>8
  <2> QED BY <1>3, <1>4, <1>5, <1>6, <2>1 DEF Abs!Next, Abs!EraseBeyondEnd
<1> QED BY <1>7, <1>8

(* The text is gone when the destruction begins,                            *)
LEMMA FreeClears ==
  ASSUME PInv, PInv', FreeStart
  PROVE  Abs!Next
<1>1. pc = "entry" /\ req.op = "clear" /\ pc' = "free"
  BY DEF FreeStart
<1>2. Valid(req.str)
  BY <1>1, EmptyValid
<1>3. AbsReq = req
  BY <1>1, <1>2, MappedNow DEF Mapped
<1>4. AbsText' = << >> /\ AbsReq' = NoRequest
  BY <1>1 DEF AbsText, AbsReq
<1> QED BY <1>1, <1>3, <1>4 DEF Abs!Next, Abs!Clear, Abs!NoRequest, NoRequest

(* and the rest of it is not seen.                                          *)
LEMMA FreeStutters ==
  ASSUME PInv, PInv', FreeNode \/ FreeDone
  PROVE  UNCHANGED Abs!vars
<1>1. pc = "free"
  BY DEF FreeNode, FreeDone
<1>2. AbsText = << >> /\ AbsReq = NoRequest
  BY <1>1 DEF AbsText, AbsReq
<1>3. CASE FreeNode
  <2>1. pc' = "free"
    BY <1>1, <1>3 DEF FreeNode
  <2>2. AbsText' = << >> /\ AbsReq' = NoRequest
    BY <2>1 DEF AbsText, AbsReq
  <2> QED BY <1>2, <2>2 DEF Abs!vars
<1>4. CASE FreeDone
  <2>1. AbsText' = Text' /\ AbsReq' = Abs!NoRequest
    BY <1>4, Returned DEF FreeDone
  <2>2. PICK r, w : Good(r, w) /\ TypeOK
    BY DEF PInv, IInv
  <2>3. PICK r2, w2 : Lists(height', next', skip', data', r2, w2) /\ w2[head] = << >>
    BY <1>4, <2>2, FreeDoneShown
  <2>4. Text' = << >>
    BY <2>3, TextMeansThen DEF TextMeans
  <2> QED BY <1>2, <2>1, <2>4 DEF Abs!vars, Abs!NoRequest, NoRequest
<1> QED BY <1>3, <1>4

(* The mappings are of the variables.                                       *)
LEMMA NothingStutters ==
  ASSUME UNCHANGED vars
  PROVE  UNCHANGED Abs!vars
<1>1. /\ next' = next /\ data' = data /\ pc' = pc /\ req' = req
      /\ rest' = rest /\ tail' = tail
  BY DEF vars, heap, locals
<1>2. Text' = Text
  BY <1>1, TextStays
<1>3. AbsText' = AbsText
  BY <1>1, <1>2 DEF AbsText
<1>4. AbsReq' = AbsReq
  BY <1>1, <1>2 DEF AbsReq
<1> QED BY <1>3, <1>4 DEF Abs!vars

(* A new rope is the empty text, and no request.                            *)
LEMMA InitImplements ==
  ASSUME Init
  PROVE  Abs!Init
<1>1. IInv /\ pc = "idle" /\ req = NoRequest
  BY InitIInv DEF Init
<1>2. PInv
  BY <1>1 DEF PInv, Plain, NoRequest
<1>3. AbsReq = Abs!NoRequest
  <2>1. Valid(req.str)
    BY <1>1 DEF NoRequest, Valid, ToSet
  <2>2. AbsReq = req
    BY <1>1, <1>2, <2>1, MappedNow DEF Mapped
  <2> QED BY <1>1, <2>2 DEF NoRequest, Abs!NoRequest
<1>4. AbsText = << >>
  <2>1. PICK r, w : Good(r, w)
    BY <1>1 DEF IInv
  <2>2. AbsText = Text /\ Text = w[head] /\ w[head] \in Seq(Char) /\ num_chars = Len(w[head])
    <3>1. Lists(height, next, skip, data, r, w)
      BY <1>1, <2>1, HeldIs DEF Whole
    <3>2. Text = w[head] /\ Text \in Seq(Char)
      BY <3>1, TextMeansNow DEF TextMeans
    <3> QED BY <1>1, <2>1, <3>2, HeldIs DEF AbsText, Whole
  <2>3. Len(w[head]) = 0
    BY <2>2 DEF Init
  <2> QED BY <2>2, <2>3
<1> QED BY <1>3, <1>4 DEF Abs!Init

(* Every step of a rope is one of the text, or is not seen.                 *)
LEMMA StepImplements ==
  ASSUME PInv, PInv', [Next]_vars
  PROVE  [Abs!Next]_Abs!vars
<1>1. CASE CallInsert \/ CallErase \/ CallDestroy
  BY <1>1, CallInvokes
<1>2. CASE Start
  BY <1>2, StartStutters
<1>3. CASE FindRight \/ FindDown \/ DelStart
  BY <1>3, QuietStutters
<1>4. CASE InvalidUtf8
  BY <1>4, InvalidKeeps
<1>5. CASE InsertHere \/ InsertIntoNext
  BY <1>5, InsertImplements
<1>6. CASE InsertCut
  BY <1>6, CutStutters
<1>7. CASE InsertPiece \/ InsertTail
  BY <1>7, PiecesStutter
<1>8. CASE InsertDone
  BY <1>8, DoneInserts
<1>9. CASE DelTrim \/ DelRemove
  BY <1>9, RoundErases
<1>10. CASE DelDone
  BY <1>10, DoneErases
<1>11. CASE FreeStart
  BY <1>11, FreeClears
<1>12. CASE FreeNode \/ FreeDone
  BY <1>12, FreeStutters
<1>13. CASE UNCHANGED vars
  BY <1>13, NothingStutters
<1> QED BY <1>1, <1>2, <1>3, <1>4, <1>5, <1>6, <1>7, <1>8, <1>9, <1>10, <1>11, <1>12, <1>13
        DEF Next, Step, Insert, Del, Destroy

(* A rope is edited as a std::string would be: through splits of full       *)
(* nodes, growths of the head, cut ends put back and deletions that empty   *)
(* nodes, a caller sees the text of LibRope, and nothing in between.        *)
THEOREM RopeImplementsText == Spec => Implements
<1>1. Init => Abs!Init
  BY InitImplements
<1>2. PInv /\ PInv' /\ [Next]_vars => [Abs!Next]_Abs!vars
  BY StepImplements
<1> QED BY <1>1, <1>2, PlainInvariant, PTL DEF Spec, Implements, Abs!Spec
====
