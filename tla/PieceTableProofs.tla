---------------------------- MODULE PieceTableProofs ----------------------------
(***************************************************************************)
(* Proofs about PieceTable: its type invariant, that no two pieces share a *)
(* byte, that its ways of reading agree, and that it is an abstract text.  *)
(***************************************************************************)
EXTENDS PieceTable, SequenceTheorems, TLAPS

(* Sequences and loops.                                                     *)
Seqs == INSTANCE TextLemmas WITH Char <- {}, Zero <- 0

-----------------------------------------------------------------------------
(***************************************************************************)
(* FlattenSeq.                                                             *)
(***************************************************************************)
(* t[i] is the concatenation of the first i sequences.                      *)
Flattening(ss, n, t) ==
  \A i \in 1 .. n : t[i] = IF i = 1 THEN ss[i] ELSE t[i - 1] \o ss[i]

(* The characters and the length of a concatenation.                        *)
LEMMA ConcatIs ==
  ASSUME NEW Sort, NEW a \in Seq(Sort), NEW b \in Seq(Sort)
  PROVE  /\ a \o b \in Seq(Sort) /\ Len(a \o b) = Len(a) + Len(b)
         /\ Len(a) \in Nat /\ Len(b) \in Nat
         /\ \A i \in 1 .. Len(a) : (a \o b)[i] = a[i]
         /\ \A i \in 1 .. Len(b) : (a \o b)[Len(a) + i] = b[i]
OBVIOUS

(* The concatenations of the first sequences exist, by induction on how     *)
(* many.                                                                    *)
LEMMA FlatteningExists ==
  ASSUME NEW Sort, NEW ss \in Seq(Seq(Sort))
  PROVE  \A n \in 0 .. Len(ss) : \E t \in [1 .. n -> Seq(Sort)] : Flattening(ss, n, t)
<1> DEFINE bad == {n \in 0 .. Len(ss) :
                     ~\E t \in [1 .. n -> Seq(Sort)] : Flattening(ss, n, t)}
<1>1. ASSUME bad # {} PROVE FALSE
  <2>1. PICK n \in bad : \A j \in bad : n <= j
    <3>1. bad \subseteq Nat
      OBVIOUS
    <3> QED BY <1>1, <3>1, Seqs!LeastNat
  <2>2. n # 0
    <3>1. [i \in 1 .. 0 |-> << >>] \in [1 .. 0 -> Seq(Sort)]
      OBVIOUS
    <3>2. Flattening(ss, 0, [i \in 1 .. 0 |-> << >>])
      BY DEF Flattening
    <3> QED BY <3>1, <3>2
  <2>3. n \in 1 .. Len(ss) /\ n - 1 \in 0 .. Len(ss) /\ n - 1 \notin bad
    <3>1. n \in 0 .. Len(ss) /\ Len(ss) \in Nat
      OBVIOUS
    <3>2. n \in 1 .. Len(ss) /\ n - 1 \in 0 .. Len(ss) /\ ~(n <= n - 1)
      BY <2>2, <3>1
    <3> HIDE DEF bad
    <3> QED BY <2>1, <3>2
  <2>4. PICK t \in [1 .. n - 1 -> Seq(Sort)] : Flattening(ss, n - 1, t)
    BY <2>3
  <2> DEFINE last == IF n = 1 THEN ss[n] ELSE t[n - 1] \o ss[n]
             u == [i \in 1 .. n |-> IF i = n THEN last ELSE t[i]]
  <2>5. ss[n] \in Seq(Sort)
    BY <2>3
  <2>6. last \in Seq(Sort)
    <3>1. CASE n = 1
      BY <2>5, <3>1
    <3>2. CASE n # 1
      <4>1. t[n - 1] \in Seq(Sort)
        BY <2>3, <3>2
      <4> QED BY <2>5, <3>2, <4>1
    <3> QED BY <3>1, <3>2
  <2> HIDE DEF last
  <2>7. u \in [1 .. n -> Seq(Sort)]
    BY <2>3, <2>6
  <2>8. ASSUME NEW i \in 1 .. n
        PROVE  u[i] = IF i = 1 THEN ss[i] ELSE u[i - 1] \o ss[i]
    <3>1. CASE i = n
      BY <2>3, <3>1 DEF last
    <3>2. CASE i # n
      <4>1. i \in 1 .. n - 1 /\ u[i] = t[i] /\ (i # 1 => i - 1 \in 1 .. n - 1 /\ u[i - 1] = t[i - 1])
        BY <2>3, <3>2
      <4> QED BY <2>4, <4>1 DEF Flattening
    <3> QED BY <3>1, <3>2
  <2>9. Flattening(ss, n, u)
    BY <2>8 DEF Flattening
  <2> QED BY <2>1, <2>7, <2>9
<1> QED BY <1>1

(* FlattenSeq is the last of them: its recursive function is the only one.  *)
LEMMA FlattenIs ==
  ASSUME NEW Sort, NEW ss \in Seq(Seq(Sort)), ss # << >>,
         NEW t \in [1 .. Len(ss) -> Seq(Sort)], Flattening(ss, Len(ss), t)
  PROVE  FlattenSeq(ss) = t[Len(ss)]
<1> DEFINE body(f) == [i \in 1 .. Len(ss) |-> IF i = 1 THEN ss[i] ELSE f[i - 1] \o ss[i]]
           g == CHOOSE f : f = body(f)
<1>1. t = body(t)
  BY DEF Flattening
<1>2. g = body(g)
  BY <1>1
<1>3. Len(ss) \in Nat \ {0}
  OBVIOUS
<1>4. FlattenSeq(ss) = g[Len(ss)]
  BY <1>3 DEF FlattenSeq
<1> HIDE DEF g
<1> DEFINE bad == {i \in 1 .. Len(ss) : g[i] # t[i]}
<1>5. ASSUME bad # {} PROVE FALSE
  <2>1. PICK i \in bad : \A j \in bad : i <= j
    <3>1. bad \subseteq Nat
      OBVIOUS
    <3> QED BY <1>5, <3>1, Seqs!LeastNat
  <2>2. g[i] = IF i = 1 THEN ss[i] ELSE g[i - 1] \o ss[i]
    BY <1>2
  <2>3. t[i] = IF i = 1 THEN ss[i] ELSE t[i - 1] \o ss[i]
    BY DEF Flattening
  <2>4. i # 1 /\ g[i - 1] # t[i - 1]
    BY <2>2, <2>3
  <2>5. i - 1 \in bad
    BY <1>3, <2>4
  <2> QED BY <2>1, <2>5
<1>6. Len(ss) \in 1 .. Len(ss)
  BY <1>3
<1> QED BY <1>4, <1>5, <1>6

(* Of no sequence it is the empty one.                                      *)
LEMMA FlattenNone == FlattenSeq(<< >>) = << >>
BY DEF FlattenSeq

(* It is a sequence of the same elements.                                   *)
LEMMA FlattenType ==
  ASSUME NEW Sort, NEW ss \in Seq(Seq(Sort))
  PROVE  FlattenSeq(ss) \in Seq(Sort)
<1>1. CASE ss = << >>
  <2>1. << >> \in Seq(Sort)
    OBVIOUS
  <2> QED BY <1>1, <2>1, FlattenNone
<1>2. CASE ss # << >>
  <2>1. Len(ss) \in 0 .. Len(ss) /\ Len(ss) \in 1 .. Len(ss)
    BY <1>2
  <2>2. PICK t \in [1 .. Len(ss) -> Seq(Sort)] : Flattening(ss, Len(ss), t)
    BY <2>1, FlatteningExists
  <2>3. t[Len(ss)] \in Seq(Sort)
    BY <2>1
  <2>4. FlattenSeq(ss) = t[Len(ss)]
    BY <1>2, <2>2, FlattenIs
  <2> QED BY <2>3, <2>4
<1> QED BY <1>1, <1>2

(* Append, and a concatenation that ends with one.                          *)
LEMMA AppendTo ==
  ASSUME NEW Sort, NEW a \in Seq(Sort), NEW b \in Seq(Sort), NEW c \in Sort
  PROVE  /\ Append(b, c) \in Seq(Sort) /\ Len(Append(b, c)) = Len(b) + 1
         /\ Append(b, c) # << >> /\ Len(b) \in Nat
         /\ Append(b, c)[Len(b) + 1] = c
         /\ \A i \in 1 .. Len(b) : Append(b, c)[i] = b[i]
         /\ a \o b \in Seq(Sort) /\ a \o Append(b, c) = Append(a \o b, c)
<1>1. Append(b, c) \in Seq(Sort) /\ Len(Append(b, c)) = Len(b) + 1 /\ Len(b) \in Nat
  OBVIOUS
<1>2. Append(b, c) # << >>
  BY <1>1
<1>3. Append(b, c)[Len(b) + 1] = c /\ \A i \in 1 .. Len(b) : Append(b, c)[i] = b[i]
  OBVIOUS
<1>4. Append(b, c) = b \o << c >> /\ << c >> \in Seq(Sort)
  OBVIOUS
<1>5. a \o b \in Seq(Sort) /\ Append(a \o b, c) = (a \o b) \o << c >>
  OBVIOUS
<1>6. a \o (b \o << c >>) = (a \o b) \o << c >>
  BY <1>4, Seqs!Assoc
<1> QED BY <1>1, <1>2, <1>3, <1>4, <1>5, <1>6

(* One more sequence is concatenated behind.                                *)
LEMMA FlattenAppend ==
  ASSUME NEW Sort, NEW ss \in Seq(Seq(Sort)), NEW s \in Seq(Sort)
  PROVE  FlattenSeq(Append(ss, s)) = FlattenSeq(ss) \o s
<1> DEFINE n == Len(ss)
           more == Append(ss, s)
<1>1. /\ more \in Seq(Seq(Sort)) /\ Len(more) = n + 1 /\ more # << >> /\ n \in Nat
      /\ more[n + 1] = s /\ \A i \in 1 .. n : more[i] = ss[i]
  BY AppendTo
<1> HIDE DEF more
<1>2. PICK u \in [1 .. n + 1 -> Seq(Sort)] : Flattening(more, n + 1, u)
  <2>1. n + 1 \in 0 .. Len(more)
    BY <1>1
  <2>2. \A m \in 0 .. Len(more) : \E u \in [1 .. m -> Seq(Sort)] : Flattening(more, m, u)
    BY <1>1, FlatteningExists
  <2> QED BY <2>1, <2>2
<1>3. FlattenSeq(more) = u[n + 1]
  BY <1>1, <1>2, FlattenIs
<1>4. u[n + 1] = IF n + 1 = 1 THEN s ELSE u[n] \o s
  <2>1. n + 1 \in 1 .. n + 1 /\ (n + 1) - 1 = n
    BY <1>1
  <2> QED BY <1>1, <1>2, <2>1 DEF Flattening
<1>5. CASE ss = << >>
  <2>1. u[n + 1] = s
    BY <1>4, <1>5
  <2>2. << >> \o s = s
    OBVIOUS
  <2> QED BY <1>3, <1>5, <2>1, <2>2, FlattenNone DEF more
<1>6. CASE ss # << >>
  <2> DEFINE t == [i \in 1 .. n |-> u[i]]
  <2>1. t \in [1 .. n -> Seq(Sort)] /\ n # 0 /\ t[n] = u[n]
    BY <1>1, <1>6
  <2>2. Flattening(ss, n, t)
    <3>1. ASSUME NEW i \in 1 .. n
          PROVE  t[i] = IF i = 1 THEN ss[i] ELSE t[i - 1] \o ss[i]
      <4>1. i \in 1 .. n + 1 /\ more[i] = ss[i] /\ t[i] = u[i]
        BY <1>1
      <4>2. i # 1 => t[i - 1] = u[i - 1]
        BY <1>1
      <4> QED BY <1>2, <4>1, <4>2 DEF Flattening
    <3> QED BY <3>1 DEF Flattening
  <2> HIDE DEF t
  <2>3. FlattenSeq(ss) = t[n]
    BY <1>6, <2>1, <2>2, FlattenIs
  <2> QED BY <1>1, <1>3, <1>4, <2>1, <2>3 DEF more
<1> QED BY <1>5, <1>6

(* The sequences of two lists are concatenated one list after the other.    *)
LEMMA FlattenConcat ==
  ASSUME NEW Sort, NEW a \in Seq(Seq(Sort)), NEW b \in Seq(Seq(Sort))
  PROVE  FlattenSeq(a \o b) = FlattenSeq(a) \o FlattenSeq(b)
<1> DEFINE pre(n) == SubSeq(b, 1, n)
           bad == {n \in 0 .. Len(b) : FlattenSeq(a \o pre(n)) # FlattenSeq(a) \o FlattenSeq(pre(n))}
<1>1. ASSUME bad # {} PROVE FALSE
  <2>1. PICK n \in bad : \A j \in bad : n <= j
    <3>1. bad \subseteq Nat
      OBVIOUS
    <3> QED BY <1>1, <3>1, Seqs!LeastNat
  <2>2. CASE n = 0
    <3>1. pre(0) = << >> /\ a \o << >> = a
      OBVIOUS
    <3>2. FlattenSeq(a) \o << >> = FlattenSeq(a)
      BY FlattenType
    <3> QED BY <2>1, <2>2, <3>1, <3>2, FlattenNone
  <2>3. CASE n # 0
    <3>1. n \in 1 .. Len(b) /\ n - 1 \in 0 .. Len(b) /\ n - 1 \notin bad
      BY <2>1, <2>3, SMTT(60)
    <3> DEFINE p == pre(n - 1)
    <3>2. p \in Seq(Seq(Sort)) /\ b[n] \in Seq(Sort)
      BY <3>1
    <3>3. pre(n) = Append(p, b[n])
      BY <3>1, SMTT(60)
    <3>4. FlattenSeq(a \o p) = FlattenSeq(a) \o FlattenSeq(p)
      BY <3>1
    <3> HIDE DEF p
    <3>5. a \o Append(p, b[n]) = Append(a \o p, b[n]) /\ a \o p \in Seq(Seq(Sort))
      BY <3>2, AppendTo, SMTT(60)
    <3>6. FlattenSeq(a \o pre(n)) = FlattenSeq(a \o p) \o b[n]
      BY <3>2, <3>3, <3>5, FlattenAppend, ZenonT(60)
    <3>7. FlattenSeq(pre(n)) = FlattenSeq(p) \o b[n]
      BY <3>2, <3>3, FlattenAppend
    <3>8. FlattenSeq(a) \in Seq(Sort) /\ FlattenSeq(p) \in Seq(Sort)
      BY <3>2, FlattenType
    <3>9. FlattenSeq(a) \o (FlattenSeq(p) \o b[n]) = (FlattenSeq(a) \o FlattenSeq(p)) \o b[n]
      <4> DEFINE x == FlattenSeq(a)
                 y == FlattenSeq(p)
                 z == b[n]
      <4>1. x \in Seq(Sort) /\ y \in Seq(Sort) /\ z \in Seq(Sort)
        BY <3>2, <3>8
      <4> HIDE DEF x, y, z
      <4>2. x \o (y \o z) = (x \o y) \o z
        BY <4>1, Seqs!Assoc, SMTT(60)
      <4> QED BY <4>2 DEF x, y, z
    <3> QED BY <2>1, <3>4, <3>6, <3>7, <3>9
  <2> QED BY <2>2, <2>3
<1>2. Len(b) \notin bad /\ Len(b) \in 0 .. Len(b) /\ pre(Len(b)) = b
  BY <1>1
<1> QED BY <1>2

-----------------------------------------------------------------------------
(***************************************************************************)
(* The characters of pieces of a buffer buf.                               *)
(***************************************************************************)
(* The pieces that lie inside the buffer.                                   *)
Within(buf) == {p \in Piece : p.start + p.length <= Len(buf)}

Bytes(buf, p) == SubSeq(buf, p.start + 1, p.start + p.length)

Flat(buf, list) == FlattenSeq([k \in 1 .. Len(list) |-> Bytes(buf, list[k])])

(* A piece of the fields it is made of.                                     *)
LEMMA PieceFields ==
  ASSUME NEW st \in Nat, NEW n \in Nat \ {0}
  PROVE  /\ [start |-> st, length |-> n] \in Piece
         /\ [start |-> st, length |-> n].start = st
         /\ [start |-> st, length |-> n].length = n
BY DEF Piece

(* A piece in the buffer and its characters.                                *)
LEMMA WithinFacts ==
  ASSUME NEW buf \in Seq(Char), NEW p \in Within(buf)
  PROVE  /\ p \in Piece /\ p.start \in Nat /\ p.length \in Nat \ {0}
         /\ p.start + p.length <= Len(buf) /\ Len(buf) \in Nat
         /\ Bytes(buf, p) \in Seq(Char) /\ Len(Bytes(buf, p)) = p.length
         /\ \A i \in 1 .. p.length : Bytes(buf, p)[i] = buf[p.start + i]
<1>1. PICK st \in Nat, n \in Nat \ {0} : p = [start |-> st, length |-> n]
  BY DEF Within, Piece
<1>2. p.start = st /\ p.length = n /\ st + n <= Len(buf) /\ Len(buf) \in Nat
  BY <1>1 DEF Within
<1>3. /\ SubSeq(buf, st + 1, st + n) \in Seq(Char)
      /\ Len(SubSeq(buf, st + 1, st + n)) = n
  BY <1>2
<1>4. \A i \in 1 .. n : SubSeq(buf, st + 1, st + n)[i] = buf[st + i]
  BY <1>2
<1>5. p \in Piece
  BY DEF Within
<1> QED BY <1>2, <1>3, <1>4, <1>5 DEF Bytes

(* The two parts of a piece hold its characters.                            *)
LEMMA LeftRight ==
  ASSUME NEW buf \in Seq(Char), NEW p \in Within(buf),
         NEW k \in Nat, 0 < k, k < p.length
  PROVE  /\ Left(p, k) \in Within(buf) /\ Right(p, k) \in Within(buf)
         /\ Left(p, k).start = p.start /\ Left(p, k).length = k
         /\ Right(p, k).start = p.start + k /\ Right(p, k).length = p.length - k
         /\ Bytes(buf, p) = Bytes(buf, Left(p, k)) \o Bytes(buf, Right(p, k))
<1>1. PICK st \in Nat, n \in Nat \ {0} : st = p.start /\ n = p.length
  BY WithinFacts
<1>2. st + n <= Len(buf) /\ Len(buf) \in Nat /\ k < n
  BY <1>1, WithinFacts
<1>3. n - k \in Nat \ {0} /\ st + k \in Nat /\ k \in Nat \ {0}
  BY <1>2
<1>4. /\ Left(p, k) \in Piece /\ Left(p, k).start = st /\ Left(p, k).length = k
  BY <1>1, <1>3, PieceFields DEF Left
<1>5. /\ Right(p, k) \in Piece /\ Right(p, k).start = st + k
      /\ Right(p, k).length = n - k
  BY <1>1, <1>3, PieceFields DEF Right
<1>6. st + k <= Len(buf) /\ (st + k) + (n - k) <= Len(buf)
  BY <1>2, <1>3
<1>7. Left(p, k) \in Within(buf)
  BY <1>4, <1>6 DEF Within
<1>8. Right(p, k) \in Within(buf)
  BY <1>5, <1>6 DEF Within
<1>9. SubSeq(buf, st + 1, st + n) = SubSeq(buf, st + 1, st + k) \o SubSeq(buf, st + k + 1, st + n)
  BY <1>2, <1>3, SMTT(60)
<1>10. (st + k) + (n - k) = st + n
  BY <1>3
<1> QED BY <1>1, <1>4, <1>5, <1>7, <1>8, <1>9, <1>10 DEF Bytes

(* A subsequence, given by its offset and its length.                       *)
LEMMA SubSeqIs ==
  ASSUME NEW Sort, NEW t \in Seq(Sort), NEW st \in Nat, NEW n \in Nat, st + n <= Len(t)
  PROVE  SubSeq(t, st + 1, st + n) = [i \in 1 .. n |-> t[st + i]]
<1>1. /\ SubSeq(t, st + 1, st + n) \in Seq(Sort) /\ Len(SubSeq(t, st + 1, st + n)) = n
  OBVIOUS
<1>2. \A i \in 1 .. n : SubSeq(t, st + 1, st + n)[i] = t[st + i]
  OBVIOUS
<1>3. PICK u \in Seq(Sort) : u = SubSeq(t, st + 1, st + n)
  BY <1>1, Zenon
<1>4. Len(u) = n /\ \A i \in 1 .. n : u[i] = t[st + i]
  BY <1>1, <1>2, <1>3, Zenon
<1>5. u = [i \in 1 .. n |-> u[i]]
  BY <1>4
<1>6. [i \in 1 .. n |-> u[i]] = [i \in 1 .. n |-> t[st + i]]
  BY <1>4, Zenon
<1> QED BY <1>3, <1>5, <1>6, Zenon

(* What is appended to the buffer becomes a piece, and the others stay.     *)
LEMMA BufferGrows ==
  ASSUME NEW buf \in Seq(Char), NEW s \in Seq(Char)
  PROVE  /\ buf \o s \in Seq(Char) /\ Len(buf \o s) = Len(buf) + Len(s)
         /\ Within(buf) \subseteq Within(buf \o s)
         /\ \A p \in Within(buf) : Bytes(buf \o s, p) = Bytes(buf, p)
         /\ s # << >> =>
              /\ [start |-> Len(buf), length |-> Len(s)] \in Within(buf \o s)
              /\ Bytes(buf \o s, [start |-> Len(buf), length |-> Len(s)]) = s
<1>1. /\ buf \o s \in Seq(Char) /\ Len(buf \o s) = Len(buf) + Len(s)
      /\ Len(buf) \in Nat /\ Len(s) \in Nat
  OBVIOUS
<1>2. Within(buf) \subseteq Within(buf \o s)
  BY <1>1 DEF Within, Piece
<1>3. ASSUME NEW p \in Within(buf) PROVE Bytes(buf \o s, p) = Bytes(buf, p)
  <2>1. PICK st \in Nat, n \in Nat \ {0} : st = p.start /\ n = p.length /\ st + n <= Len(buf)
    BY WithinFacts
  <2>2. SubSeq(buf \o s, st + 1, st + n) = SubSeq(buf, st + 1, st + n)
    <3> DEFINE z == buf \o s
    <3>0. z \in Seq(Char) /\ st + n <= Len(z) /\ Len(z) \in Nat
      BY <1>1, <2>1
    <3> HIDE DEF z
    <3>1. /\ SubSeq(z, st + 1, st + n) = [i \in 1 .. n |-> z[st + i]]
          /\ SubSeq(buf, st + 1, st + n) = [i \in 1 .. n |-> buf[st + i]]
      <4>1. SubSeq(z, st + 1, st + n) = [i \in 1 .. n |-> z[st + i]]
        BY <3>0, SubSeqIs
      <4>2. SubSeq(buf, st + 1, st + n) = [i \in 1 .. n |-> buf[st + i]]
        <5>1. st + n <= Len(buf)
          BY <2>1
        <5> QED BY <5>1, SubSeqIs
      <4> QED BY <4>1, <4>2
    <3> USE DEF z
    <3>2. \A i \in 1 .. n : (buf \o s)[st + i] = buf[st + i]
      BY <1>1, <2>1
    <3> QED BY <3>1, <3>2
  <2> QED BY <2>1, <2>2 DEF Bytes
<1>4. ASSUME s # << >>
      PROVE  /\ [start |-> Len(buf), length |-> Len(s)] \in Within(buf \o s)
             /\ Bytes(buf \o s, [start |-> Len(buf), length |-> Len(s)]) = s
  <2>1. Len(s) \in Nat \ {0}
    BY <1>4
  <2> DEFINE p == [start |-> Len(buf), length |-> Len(s)]
  <2>2. p \in Piece /\ p.start = Len(buf) /\ p.length = Len(s)
    BY <1>1, <2>1, PieceFields
  <2> HIDE DEF p
  <2>3. p \in Within(buf \o s)
    BY <1>1, <2>2 DEF Within
  <2>4. SubSeq(buf \o s, Len(buf) + 1, Len(buf) + Len(s)) = s
    OBVIOUS
  <2> QED BY <2>2, <2>3, <2>4 DEF Bytes, p
<1> QED BY <1>1, <1>2, <1>3, <1>4

(* The characters of the pieces, piece by piece.                            *)
LEMMA PartsType ==
  ASSUME NEW buf \in Seq(Char), NEW list \in Seq(Within(buf))
  PROVE  [k \in 1 .. Len(list) |-> Bytes(buf, list[k])] \in Seq(Seq(Char))
<1>1. Len(list) \in Nat /\ \A k \in 1 .. Len(list) : list[k] \in Within(buf)
  OBVIOUS
<1>2. \A k \in 1 .. Len(list) : Bytes(buf, list[k]) \in Seq(Char)
  BY <1>1, WithinFacts
<1> QED BY <1>1, <1>2

(* The characters of a list of pieces, in one sequence.                     *)
LEMMA FlatType ==
  ASSUME NEW buf \in Seq(Char), NEW list \in Seq(Within(buf))
  PROVE  Flat(buf, list) \in Seq(Char)
BY PartsType, FlattenType DEF Flat

(* Two lists of pieces, one after the other.                                *)
LEMMA FlatConcat ==
  ASSUME NEW buf \in Seq(Char), NEW a \in Seq(Within(buf)), NEW b \in Seq(Within(buf))
  PROVE  Flat(buf, a \o b) = Flat(buf, a) \o Flat(buf, b)
<1> DEFINE F(list) == [k \in 1 .. Len(list) |-> Bytes(buf, list[k])]
<1>1. F(a) \in Seq(Seq(Char)) /\ F(b) \in Seq(Seq(Char))
  BY PartsType
<1>2. F(a \o b) = F(a) \o F(b)
  <2>1. /\ Len(a \o b) = Len(a) + Len(b) /\ Len(F(a)) = Len(a) /\ Len(F(b)) = Len(b)
        /\ Len(a) \in Nat /\ Len(b) \in Nat
    OBVIOUS
  <2>2. ASSUME NEW k \in 1 .. Len(a) + Len(b)
        PROVE  F(a \o b)[k] = (F(a) \o F(b))[k]
    <3>1. CASE k <= Len(a)
      BY <1>1, <2>1, <3>1
    <3>2. CASE k > Len(a)
      <4>1. (a \o b)[k] = b[k - Len(a)] /\ k - Len(a) \in 1 .. Len(b)
        BY <2>1, <3>2
      <4>2. (F(a) \o F(b))[k] = F(b)[k - Len(a)]
        BY <1>1, <2>1, <3>2
      <4> QED BY <2>1, <4>1, <4>2
    <3> QED BY <2>1, <3>1, <3>2
  <2>3. /\ F(a \o b) = [k \in 1 .. Len(a) + Len(b) |-> F(a \o b)[k]]
    BY <2>1
  <2>4. F(a) \o F(b) = [k \in 1 .. Len(a) + Len(b) |-> (F(a) \o F(b))[k]]
    BY <1>1, <2>1
  <2> HIDE DEF F
  <2> QED BY <2>2, <2>3, <2>4
<1> HIDE DEF F
<1>3. FlattenSeq(F(a) \o F(b)) = FlattenSeq(F(a)) \o FlattenSeq(F(b))
  BY <1>1, FlattenConcat
<1> QED BY <1>2, <1>3 DEF F, Flat

(* No piece, one, two and three.                                            *)
LEMMA FlatNone == \A buf : Flat(buf, << >>) = << >>
<1>1. ASSUME NEW buf PROVE [k \in 1 .. Len(<< >>) |-> Bytes(buf, << >>[k])] = << >>
  OBVIOUS
<1> QED BY <1>1, FlattenNone DEF Flat

LEMMA FlatOne ==
  ASSUME NEW buf \in Seq(Char), NEW p \in Within(buf)
  PROVE  Flat(buf, << p >>) = Bytes(buf, p)
<1> DEFINE s == Bytes(buf, p)
<1>1. s \in Seq(Char)
  BY WithinFacts
<1>2. [k \in 1 .. Len(<< p >>) |-> Bytes(buf, << p >>[k])] = << s >>
  OBVIOUS
<1> HIDE DEF s
<1>3. << >> \in Seq(Seq(Char)) /\ Append(<< >>, s) = << s >>
  BY <1>1
<1>4. FlattenSeq(<< s >>) = << >> \o s
  BY <1>1, <1>3, FlattenAppend, FlattenNone
<1>5. << >> \o s = s
  BY <1>1
<1> QED BY <1>2, <1>4, <1>5 DEF Flat, s

LEMMA FlatTwo ==
  ASSUME NEW buf \in Seq(Char), NEW p \in Within(buf), NEW q \in Within(buf)
  PROVE  Flat(buf, << p, q >>) = Bytes(buf, p) \o Bytes(buf, q)
<1> DEFINE W == Within(buf)
<1>1. p \in W /\ q \in W
  OBVIOUS
<1> HIDE DEF W
<1>2. << p >> \in Seq(W) /\ << q >> \in Seq(W)
  BY <1>1
<1>3. << p, q >> = << p >> \o << q >>
  <2>1. /\ << p >> \o << q >> \in Seq(W) /\ Len(<< p >> \o << q >>) = 2
        /\ (<< p >> \o << q >>)[1] = p /\ (<< p >> \o << q >>)[2] = q
    BY <1>2
  <2> DEFINE z == << p >> \o << q >>
  <2> HIDE DEF z
  <2>2. z \in Seq(W) /\ Len(z) = 2 /\ z[1] = p /\ z[2] = q => z = << p, q >>
    OBVIOUS
  <2> QED BY <2>1, <2>2 DEF z
<1> USE DEF W
<1> QED BY <1>2, <1>3, FlatConcat, FlatOne

LEMMA FlatThree ==
  ASSUME NEW buf \in Seq(Char), NEW p \in Within(buf), NEW q \in Within(buf),
         NEW r \in Within(buf)
  PROVE  Flat(buf, << p, q, r >>) = (Bytes(buf, p) \o Bytes(buf, q)) \o Bytes(buf, r)
<1>1. /\ << p, q >> \in Seq(Within(buf)) /\ << r >> \in Seq(Within(buf))
      /\ << p, q, r >> = << p, q >> \o << r >>
  OBVIOUS
<1> QED BY <1>1, FlatConcat, FlatOne, FlatTwo

(* What is appended to the buffer changes no piece that was in it.          *)
LEMMA FlatLater ==
  ASSUME NEW buf \in Seq(Char), NEW s \in Seq(Char), NEW list \in Seq(Within(buf))
  PROVE  list \in Seq(Within(buf \o s)) /\ Flat(buf \o s, list) = Flat(buf, list)
<1>1. \A k \in 1 .. Len(list) : list[k] \in Within(buf)
  OBVIOUS
<1>2. \A k \in 1 .. Len(list) : Bytes(buf \o s, list[k]) = Bytes(buf, list[k])
  BY <1>1, BufferGrows
<1> DEFINE V == Within(buf)
           W == Within(buf \o s)
<1>3. V \subseteq W /\ list \in Seq(V)
  BY BufferGrows
<1> HIDE DEF V, W
<1>4. list \in Seq(W)
  BY <1>3
<1> QED BY <1>2, <1>4 DEF Flat, W

-----------------------------------------------------------------------------
(***************************************************************************)
(* Lists of pieces.                                                        *)
(***************************************************************************)
Distinct(p, q) == p.start + p.length <= q.start \/ q.start + q.length <= p.start

Disjoint(list) ==
  \A i, j \in 1 .. Len(list) : i # j => Distinct(list[i], list[j])

(* The list with those of new in place of the piece k.                      *)
PutIn(list, k, new) == SubSeq(list, 1, k - 1) \o new \o SubSeq(list, k + 1, Len(list))

(* A list, and what is in front of its element k and behind it.             *)
LEMMA ListParts ==
  ASSUME NEW W, NEW list \in Seq(W), NEW k \in 1 .. Len(list)
  PROVE  /\ SubSeq(list, 1, k - 1) \in Seq(W) /\ SubSeq(list, k + 1, Len(list)) \in Seq(W)
         /\ list[k] \in W /\ << list[k] >> \in Seq(W) /\ k \in Nat /\ k - 1 \in Nat
         /\ Len(list) \in Nat
         /\ Len(SubSeq(list, 1, k - 1)) = k - 1
         /\ Len(SubSeq(list, k + 1, Len(list))) = Len(list) - k
         /\ \A i \in 1 .. k - 1 : SubSeq(list, 1, k - 1)[i] = list[i]
         /\ \A i \in 1 .. Len(list) - k : SubSeq(list, k + 1, Len(list))[i] = list[k + i]
         /\ SubSeq(list, 1, k) = SubSeq(list, 1, k - 1) \o << list[k] >>
         /\ list = (SubSeq(list, 1, k - 1) \o << list[k] >>) \o SubSeq(list, k + 1, Len(list))
<1>1. k \in 0 .. Len(list) /\ k \in Nat /\ Len(list) \in Nat /\ k - 1 \in Nat
  OBVIOUS
<1>2. /\ SubSeq(list, k + 1, Len(list)) \in Seq(W)
      /\ Len(SubSeq(list, k + 1, Len(list))) = Len(list) - k
      /\ list = SubSeq(list, 1, k) \o SubSeq(list, k + 1, Len(list))
  BY <1>1, Seqs!SeqParts
<1>3. /\ SubSeq(list, 1, k - 1) \in Seq(W) /\ Len(SubSeq(list, 1, k - 1)) = k - 1
      /\ \A i \in 1 .. k - 1 : SubSeq(list, 1, k - 1)[i] = list[i]
  BY <1>1
<1>4. \A i \in 1 .. Len(list) - k : SubSeq(list, k + 1, Len(list))[i] = list[k + i]
  BY <1>1
<1>5. list[k] \in W
  OBVIOUS
<1>6. << list[k] >> \in Seq(W)
  BY <1>5
<1>7. SubSeq(list, 1, k) = SubSeq(list, 1, k - 1) \o << list[k] >>
  BY <1>1, SMTT(30)
<1> QED BY <1>1, <1>2, <1>3, <1>4, <1>5, <1>6, <1>7

(* Where the members of the list come from.                                 *)
LEMMA PutMembers ==
  ASSUME NEW W, NEW list \in Seq(W), NEW k \in 1 .. Len(list), NEW new \in Seq(W)
  PROVE  /\ PutIn(list, k, new) \in Seq(W)
         /\ Len(PutIn(list, k, new)) = Len(list) - 1 + Len(new)
         /\ \A i \in 1 .. Len(PutIn(list, k, new)) :
              PutIn(list, k, new)[i] =
                IF i < k THEN list[i]
                ELSE IF i < k + Len(new) THEN new[i + 1 - k]
                ELSE list[i + 1 - Len(new)]
<1> DEFINE a == SubSeq(list, 1, k - 1)
           c == SubSeq(list, k + 1, Len(list))
           z == PutIn(list, k, new)
<1>1. /\ a \in Seq(W) /\ c \in Seq(W) /\ Len(a) = k - 1 /\ Len(c) = Len(list) - k
      /\ \A i \in 1 .. k - 1 : a[i] = list[i]
      /\ \A i \in 1 .. Len(list) - k : c[i] = list[k + i]
      /\ k \in Nat /\ Len(list) \in Nat
  BY ListParts, SMTT(60)
<1>2. z = (a \o new) \o c
  BY DEF PutIn
<1> HIDE DEF a, c, z
<1>3. PICK l \in Nat, n \in Nat : l = Len(list) /\ n = Len(new)
  BY <1>1
<1>4. /\ a \o new \in Seq(W) /\ Len(a \o new) = k - 1 + n
      /\ \A i \in 1 .. k - 1 : (a \o new)[i] = a[i]
      /\ \A i \in 1 .. n : (a \o new)[k - 1 + i] = new[i]
  <2>1. a \in Seq(W) /\ new \in Seq(W)
    BY <1>1
  <2>2. /\ a \o new \in Seq(W) /\ Len(a \o new) = Len(a) + Len(new)
        /\ \A i \in 1 .. Len(a) : (a \o new)[i] = a[i]
        /\ \A i \in 1 .. Len(new) : (a \o new)[Len(a) + i] = new[i]
    BY <2>1, ConcatIs
  <2>3. Len(a) = k - 1 /\ Len(new) = n
    BY <1>1, <1>3
  <2> QED BY <2>2, <2>3
<1>5. /\ z \in Seq(W) /\ Len(z) = k - 1 + n + (l - k)
      /\ \A i \in 1 .. k - 1 + n : z[i] = (a \o new)[i]
      /\ \A i \in 1 .. l - k : z[k - 1 + n + i] = c[i]
  <2> DEFINE b == a \o new
  <2>1. b \in Seq(W) /\ Len(b) = k - 1 + n /\ z = b \o c
    BY <1>2, <1>4
  <2> HIDE DEF b
  <2>2. /\ z \in Seq(W) /\ Len(z) = k - 1 + n + (l - k)
        /\ \A i \in 1 .. k - 1 + n : z[i] = b[i]
        /\ \A i \in 1 .. l - k : z[k - 1 + n + i] = c[i]
    <3>1. /\ b \o c \in Seq(W) /\ Len(b \o c) = Len(b) + Len(c)
          /\ \A i \in 1 .. Len(b) : (b \o c)[i] = b[i]
          /\ \A i \in 1 .. Len(c) : (b \o c)[Len(b) + i] = c[i]
      <4>1. b \in Seq(W) /\ c \in Seq(W)
        BY <1>1, <2>1
      <4> QED BY <4>1, ConcatIs
    <3>2. Len(b) = k - 1 + n /\ Len(c) = l - k
      BY <1>1, <1>3, <2>1
    <3> QED BY <2>1, <3>1, <3>2
  <2> QED BY <2>2 DEF b
<1>6. Len(z) = l - 1 + n
  BY <1>1, <1>3, <1>5, SMTT(60)
<1>7. ASSUME NEW i \in 1 .. Len(z)
      PROVE  z[i] = IF i < k THEN list[i]
                    ELSE IF i < k + n THEN new[i + 1 - k] ELSE list[i + 1 - n]
  <2>1. i \in Nat /\ i >= 1 /\ i <= l - 1 + n
    BY <1>3, <1>6
  <2>2. CASE i < k
    <3>1. i \in 1 .. k - 1 /\ i \in 1 .. k - 1 + n
      BY <1>1, <1>3, <2>1, <2>2
    <3> QED BY <1>1, <1>4, <1>5, <2>2, <3>1
  <2>3. CASE ~(i < k) /\ i < k + n
    <3>1. PICK j \in 1 .. n : i = k - 1 + j
      <4>1. i + 1 - k \in 1 .. n /\ i = k - 1 + (i + 1 - k)
        BY <1>1, <1>3, <2>1, <2>3
      <4> QED BY <4>1
    <3>2. i \in 1 .. k - 1 + n /\ i + 1 - k = j
      BY <1>1, <1>3, <2>1, <2>3, <3>1
    <3> QED BY <1>4, <1>5, <2>3, <3>1, <3>2
  <2>4. CASE ~(i < k) /\ ~(i < k + n)
    <3>1. PICK j \in 1 .. l - k : i = k - 1 + n + j
      <4>1. i + 1 - k - n \in 1 .. l - k /\ i = k - 1 + n + (i + 1 - k - n)
        BY <1>1, <1>3, <2>1, <2>4
      <4> QED BY <4>1
    <3>2. i + 1 - n = k + j
      BY <1>1, <1>3, <3>1
    <3> QED BY <1>1, <1>3, <1>5, <2>4, <3>1, <3>2
  <2> QED BY <2>2, <2>3, <2>4
<1> QED BY <1>3, <1>5, <1>6, <1>7 DEF z

(* Pieces that are apart from the ones that stay can be put among them.     *)
LEMMA PutDisjoint ==
  ASSUME NEW W, W \subseteq Piece, NEW list \in Seq(W), Disjoint(list),
         NEW k \in 1 .. Len(list), NEW new \in Seq(W), Disjoint(new),
         \A m \in 1 .. Len(new), j \in 1 .. Len(list) :
            j # k => Distinct(new[m], list[j])
  PROVE  Disjoint(PutIn(list, k, new))
<1> DEFINE z == PutIn(list, k, new)
<1>1. PICK l \in Nat, n \in Nat : l = Len(list) /\ n = Len(new)
  OBVIOUS
<1>2. /\ z \in Seq(W) /\ Len(z) = l - 1 + n
      /\ \A i \in 1 .. Len(z) :
           z[i] = IF i < k THEN list[i]
                  ELSE IF i < k + n THEN new[i + 1 - k] ELSE list[i + 1 - n]
  BY <1>1, PutMembers
<1> HIDE DEF z
<1> DEFINE Old(i, j) == /\ j \in 1 .. l /\ j # k /\ z[i] = list[j]
                        /\ j = IF i < k THEN i ELSE i + 1 - n
                        /\ i < k \/ i >= k + n
           New(i, j) == j \in 1 .. n /\ z[i] = new[j] /\ j = i + 1 - k
<1>3. ASSUME NEW i \in 1 .. Len(z)
      PROVE  \E j : Old(i, j) \/ New(i, j)
  <2>1. i \in Nat /\ i >= 1 /\ i <= l - 1 + n /\ k \in Nat /\ k >= 1 /\ k <= l
    BY <1>1, <1>2
  <2>2. CASE i < k
    <3>1. Old(i, i)
      BY <1>2, <2>1, <2>2
    <3> QED BY <3>1
  <2>3. CASE ~(i < k) /\ i < k + n
    <3>1. New(i, i + 1 - k)
      BY <1>2, <2>1, <2>3
    <3> QED BY <3>1
  <2>4. CASE ~(i < k) /\ ~(i < k + n)
    <3>1. Old(i, i + 1 - n)
      BY <1>2, <2>1, <2>4
    <3> QED BY <3>1
  <2> QED BY <2>2, <2>3, <2>4
<1>4. \A p \in Piece, q \in Piece : Distinct(p, q) <=> Distinct(q, p)
  BY DEF Distinct
<1>5. /\ \A j \in 1 .. l : list[j] \in Piece
      /\ \A j \in 1 .. n : new[j] \in Piece
  BY <1>1
<1>6. ASSUME NEW i1 \in 1 .. Len(z), NEW i2 \in 1 .. Len(z), i1 # i2
      PROVE  Distinct(z[i1], z[i2])
  <2>1. PICK j1 : Old(i1, j1) \/ New(i1, j1)
    BY <1>3
  <2>2. PICK j2 : Old(i2, j2) \/ New(i2, j2)
    BY <1>3
  <2>3. i1 \in Nat /\ i2 \in Nat /\ k \in Nat
    BY <1>1, <1>2
  <2>4. CASE Old(i1, j1) /\ Old(i2, j2)
    <3>1. j1 # j2
      BY <1>1, <1>2, <1>6, <2>3, <2>4, SMTT(60)
    <3> QED BY <1>1, <2>4, <3>1 DEF Disjoint
  <2>5. CASE New(i1, j1) /\ New(i2, j2)
    <3>1. j1 # j2
      BY <1>6, <2>3, <2>5
    <3> QED BY <1>1, <2>5, <3>1 DEF Disjoint
  <2>6. CASE New(i1, j1) /\ Old(i2, j2)
    BY <1>1, <2>6
  <2>7. CASE Old(i1, j1) /\ New(i2, j2)
    <3>1. Distinct(new[j2], list[j1])
      BY <1>1, <2>7
    <3> QED BY <1>4, <1>5, <2>7, <3>1
  <2> QED BY <2>1, <2>2, <2>4, <2>5, <2>6, <2>7
<1> QED BY <1>6 DEF z, Disjoint

(* The characters of a list in which the piece k is replaced.               *)
LEMMA PutFlat ==
  ASSUME NEW buf \in Seq(Char), NEW list \in Seq(Within(buf)),
         NEW k \in 1 .. Len(list), NEW new \in Seq(Within(buf))
  PROVE  Flat(buf, PutIn(list, k, new)) =
           (Flat(buf, SubSeq(list, 1, k - 1)) \o Flat(buf, new))
             \o Flat(buf, SubSeq(list, k + 1, Len(list)))
<1> DEFINE W == Within(buf)
           a == SubSeq(list, 1, k - 1)
           c == SubSeq(list, k + 1, Len(list))
<1>1. a \in Seq(W) /\ c \in Seq(W)
  BY ListParts
<1>2. a \o new \in Seq(W)
  BY <1>1, ConcatIs
<1> HIDE DEF a, c
<1>3. Flat(buf, (a \o new) \o c) = Flat(buf, a \o new) \o Flat(buf, c)
  BY <1>1, <1>2, FlatConcat
<1>4. Flat(buf, a \o new) = Flat(buf, a) \o Flat(buf, new)
  BY <1>1, FlatConcat
<1> QED BY <1>3, <1>4 DEF PutIn, a, c

(* The text of a list around one of its pieces.                             *)
LEMMA FlatAround ==
  ASSUME NEW buf \in Seq(Char), NEW list \in Seq(Within(buf)),
         NEW k \in 1 .. Len(list)
  PROVE  /\ Flat(buf, SubSeq(list, 1, k - 1)) \in Seq(Char)
         /\ Flat(buf, SubSeq(list, k + 1, Len(list))) \in Seq(Char)
         /\ Flat(buf, SubSeq(list, 1, k)) =
              Flat(buf, SubSeq(list, 1, k - 1)) \o Bytes(buf, list[k])
         /\ Flat(buf, list) =
              (Flat(buf, SubSeq(list, 1, k - 1)) \o Bytes(buf, list[k]))
                \o Flat(buf, SubSeq(list, k + 1, Len(list)))
<1> DEFINE W == Within(buf)
           a == SubSeq(list, 1, k - 1)
           b == << list[k] >>
           c == SubSeq(list, k + 1, Len(list))
<1>1. /\ a \in Seq(W) /\ b \in Seq(W) /\ c \in Seq(W) /\ list[k] \in W
      /\ SubSeq(list, 1, k) = a \o b /\ list = (a \o b) \o c
  BY ListParts, ZenonT(60)
<1>2. Flat(buf, b) = Bytes(buf, list[k])
  BY <1>1, FlatOne
<1>3. a \o b \in Seq(W)
  BY <1>1, ConcatIs
<1> HIDE DEF a, b, c
<1>4. Flat(buf, a \o b) = Flat(buf, a) \o Flat(buf, b)
  BY <1>1, FlatConcat
<1>5. Flat(buf, (a \o b) \o c) = Flat(buf, a \o b) \o Flat(buf, c)
  BY <1>1, <1>3, FlatConcat
<1>6. Flat(buf, a) \in Seq(Char) /\ Flat(buf, c) \in Seq(Char)
  BY <1>1, FlatType
<1> QED BY <1>1, <1>2, <1>4, <1>5, <1>6 DEF a, c

-----------------------------------------------------------------------------
(***************************************************************************)
(* The invariant: where the erase loop stands, the pieces before it hold   *)
(* just the characters before the position.                                *)
(***************************************************************************)
Erasing == it > 0 =>
  /\ req.op = "erase"
  /\ Len(Flat(add_buffer, SubSeq(pieces, 1, it - 1))) = req.pos
  /\ req.pos + req.len <= total_length

IInv == /\ TypeOK
        /\ pieces \in Seq(Within(add_buffer))
        /\ Disjoint(pieces)
        /\ total_length = Len(Flat(add_buffer, pieces))
        /\ Erasing

(* The text is that of the pieces in add_buffer.                            *)
LEMMA TextIs == Text = Flat(add_buffer, pieces)
BY DEF Text, Flat, Characters, Bytes

(* current_pos is the number of characters in the pieces passed.            *)
LEMMA BeforeIs ==
  ASSUME IInv
  PROVE  \A k \in 1 .. Len(pieces) + 1 :
            Before[k] = Len(Flat(add_buffer, SubSeq(pieces, 1, k - 1)))
<1>1. /\ add_buffer \in Seq(Char) /\ pieces \in Seq(Within(add_buffer))
      /\ Len(pieces) \in Nat
  BY DEF IInv, TypeOK
<1> DEFINE n == Len(pieces) + 1
           body(f) == [k \in 1 .. n |-> IF k = 1 THEN 0 ELSE f[k - 1] + pieces[k - 1].length]
           h == [k \in 1 .. n |-> Len(Flat(add_buffer, SubSeq(pieces, 1, k - 1)))]
           g == Before
<1>2. ASSUME NEW k \in 1 .. n
      PROVE  h[k] = IF k = 1 THEN 0 ELSE h[k - 1] + pieces[k - 1].length
  <2>1. CASE k = 1
    <3>1. SubSeq(pieces, 1, 1 - 1) = << >>
      BY <1>1
    <3>2. Len(Flat(add_buffer, << >>)) = 0
      BY FlatNone
    <3>3. h[k] = Len(Flat(add_buffer, SubSeq(pieces, 1, 1 - 1)))
      BY <2>1
    <3> HIDE DEF h
    <3>4. h[k] = 0
      BY <3>1, <3>2, <3>3
    <3> QED BY <2>1, <3>4
  <2>2. CASE k # 1
    <3>1. PICK j \in 1 .. Len(pieces) : j = k - 1
      BY <1>1, <2>2
    <3>2. /\ Flat(add_buffer, SubSeq(pieces, 1, j - 1)) \in Seq(Char)
          /\ Flat(add_buffer, SubSeq(pieces, 1, j)) =
               Flat(add_buffer, SubSeq(pieces, 1, j - 1)) \o Bytes(add_buffer, pieces[j])
      BY <1>1, FlatAround
    <3>3. /\ Bytes(add_buffer, pieces[j]) \in Seq(Char)
          /\ Len(Bytes(add_buffer, pieces[j])) = pieces[j].length
      <4>1. pieces[j] \in Within(add_buffer)
        BY <1>1
      <4> QED BY <1>1, <4>1, WithinFacts
    <3>4. Len(Flat(add_buffer, SubSeq(pieces, 1, j))) =
            Len(Flat(add_buffer, SubSeq(pieces, 1, j - 1))) + pieces[j].length
      BY <3>2, <3>3, ConcatIs, SMTT(60)
    <3>5. j \in 1 .. n /\ h[j] = Len(Flat(add_buffer, SubSeq(pieces, 1, j - 1)))
      BY <1>1
    <3>6. h[k] = Len(Flat(add_buffer, SubSeq(pieces, 1, j)))
      BY <3>1
    <3> HIDE DEF h
    <3>7. h[k] = h[j] + pieces[j].length
      BY <3>4, <3>5, <3>6
    <3> QED BY <2>2, <3>1, <3>7
  <2> QED BY <2>1, <2>2
<1> HIDE DEF h
<1>3. h = body(h)
  <2>1. h = [k \in 1 .. n |-> h[k]]
    BY DEF h
  <2> QED BY <1>2, <2>1
<1>4. Before = CHOOSE f : f = body(f)
  BY DEF Before
<1>5. g = body(g)
  BY <1>3, <1>4
<1> HIDE DEF g
<1> DEFINE bad == {k \in 1 .. n : g[k] # h[k]}
<1>6. ASSUME bad # {} PROVE FALSE
  <2>1. PICK k \in bad : \A j \in bad : k <= j
    <3>1. bad \subseteq Nat
      OBVIOUS
    <3> QED BY <1>6, <3>1, Seqs!LeastNat
  <2>2. g[k] = IF k = 1 THEN 0 ELSE g[k - 1] + pieces[k - 1].length
    BY <1>5
  <2>3. k # 1 /\ g[k - 1] # h[k - 1]
    BY <1>2, <2>2
  <2>4. k \in 1 .. n /\ n \in Nat
    BY <1>1
  <2>5. k - 1 \in 1 .. n /\ ~(k <= k - 1)
    BY <2>3, <2>4
  <2> QED BY <2>1, <2>3, <2>5
<1> QED BY <1>6 DEF g, h

(* The positions where pieces begin and end.                                *)
LEMMA Ends ==
  ASSUME IInv
  PROVE  /\ Before[1] = 0 /\ Before[Len(pieces) + 1] = total_length
         /\ \A k \in 1 .. Len(pieces) + 1 : Before[k] \in Nat
         /\ \A k \in 1 .. Len(pieces) :
              /\ End(k) = Before[k + 1] /\ End(k) = Before[k] + pieces[k].length
              /\ End(k) <= total_length
<1>1. /\ add_buffer \in Seq(Char) /\ pieces \in Seq(Within(add_buffer))
      /\ Len(pieces) \in Nat /\ total_length = Len(Flat(add_buffer, pieces))
  BY DEF IInv, TypeOK
<1> DEFINE F(k) == Flat(add_buffer, SubSeq(pieces, 1, k))
<1>2. \A k \in 1 .. Len(pieces) + 1 : Before[k] = Len(F(k - 1))
  BY BeforeIs
<1>3. F(0) = << >>
  <2>1. SubSeq(pieces, 1, 0) = << >>
    BY <1>1
  <2> QED BY <2>1, FlatNone
<1>4. Before[1] = 0
  <2>1. 1 \in 1 .. Len(pieces) + 1 /\ 1 - 1 = 0
    BY <1>1
  <2> QED BY <1>2, <1>3, <2>1
<1>5. Before[Len(pieces) + 1] = total_length
  <2>1. SubSeq(pieces, 1, Len(pieces)) = pieces
    BY <1>1
  <2>2. Len(pieces) + 1 \in 1 .. Len(pieces) + 1 /\ (Len(pieces) + 1) - 1 = Len(pieces)
    BY <1>1
  <2> QED BY <1>1, <1>2, <2>1, <2>2
<1>6. ASSUME NEW k \in 1 .. Len(pieces)
      PROVE  /\ F(k - 1) \in Seq(Char) /\ F(k) \in Seq(Char)
             /\ Len(F(k)) = Len(F(k - 1)) + pieces[k].length
             /\ Len(F(k)) <= total_length
  <2> DEFINE b == Bytes(add_buffer, pieces[k])
             c == Flat(add_buffer, SubSeq(pieces, k + 1, Len(pieces)))
  <2>1. /\ F(k - 1) \in Seq(Char) /\ c \in Seq(Char)
        /\ F(k) = F(k - 1) \o b /\ Flat(add_buffer, pieces) = (F(k - 1) \o b) \o c
    BY <1>1, FlatAround
  <2>2. b \in Seq(Char) /\ Len(b) = pieces[k].length
    <3>1. pieces[k] \in Within(add_buffer)
      BY <1>1
    <3> QED BY <1>1, <3>1, WithinFacts
  <2> HIDE DEF F, b, c
  <2>3. F(k) \in Seq(Char) /\ Len(F(k)) = Len(F(k - 1)) + Len(b)
    BY <2>1, <2>2, ConcatIs
  <2>4. Len(Flat(add_buffer, pieces)) = Len(F(k)) + Len(c) /\ Len(c) \in Nat /\ Len(F(k)) \in Nat
    BY <2>1, <2>3, ConcatIs
  <2> QED BY <1>1, <2>1, <2>2, <2>3, <2>4
<1> HIDE DEF F
<1>7. ASSUME NEW k \in 1 .. Len(pieces) + 1 PROVE Before[k] \in Nat
  <2>1. CASE k = 1
    BY <1>4, <2>1
  <2>2. CASE k # 1
    <3>1. k - 1 \in 1 .. Len(pieces)
      BY <1>1, <2>2
    <3>2. Len(F(k - 1)) \in Nat
      BY <1>6, <3>1
    <3> QED BY <1>2, <3>2
  <2> QED BY <2>1, <2>2
<1>8. ASSUME NEW k \in 1 .. Len(pieces)
      PROVE  /\ End(k) = Before[k + 1] /\ End(k) = Before[k] + pieces[k].length
             /\ End(k) <= total_length
  <2>1. k \in 1 .. Len(pieces) + 1 /\ k + 1 \in 1 .. Len(pieces) + 1 /\ (k + 1) - 1 = k
    BY <1>1
  <2>2. Before[k] = Len(F(k - 1)) /\ Before[k + 1] = Len(F(k))
    BY <1>2, <2>1
  <2> QED BY <1>6, <2>2 DEF End
<1> QED BY <1>4, <1>5, <1>7, <1>8

(* The first of some pieces.                                                *)
LEMMA FirstIs ==
  ASSUME NEW n \in Nat, Len(pieces) = n, NEW those, those \subseteq 1 .. n
  PROVE  \/ /\ FirstPiece(those) \in those
            /\ \A j \in those : FirstPiece(those) <= j
         \/ those = {} /\ FirstPiece(those) = n + 1
<1>1. CASE those = {}
  BY <1>1 DEF FirstPiece
<1>2. CASE those # {}
  <2>1. those \subseteq Nat
    OBVIOUS
  <2>2. PICK k \in those : \A j \in those : k <= j
    BY <1>2, <2>1, Seqs!LeastNat
  <2>3. Min(those) \in those /\ \A j \in those : Min(those) <= j
    BY <2>2 DEF Min
  <2> QED BY <1>2, <2>3 DEF FirstPiece
<1> QED BY <1>1, <1>2

(* The piece that holds the character at pos.                               *)
LEMMA Holding ==
  ASSUME IInv, NEW pos \in Nat, pos < total_length,
         NEW k, k = FirstPiece({j \in DOMAIN pieces : End(j) > pos})
  PROVE  /\ k \in 1 .. Len(pieces) /\ Before[k] <= pos /\ pos < End(k)
<1> DEFINE those == {j \in DOMAIN pieces : End(j) > pos}
<1>1. PICK n \in Nat : n = Len(pieces) /\ DOMAIN pieces = 1 .. n
  BY DEF IInv, TypeOK
<1>2. those \subseteq 1 .. n
  BY <1>1
<1>3. those # {}
  <2>1. n # 0
    <3>1. n = 0 => total_length = 0
      BY <1>1, Ends
    <3> QED BY <3>1
  <2>2. n \in DOMAIN pieces /\ End(n) = total_length
    BY <1>1, <2>1, Ends
  <2> QED BY <2>2
<1>4. k \in those /\ \A j \in those : k <= j
  BY <1>1, <1>2, <1>3, FirstIs
<1>5. CASE k = 1
  BY <1>1, <1>4, <1>5, Ends
<1>6. CASE k # 1
  <2>1. k \in 1 .. n /\ k - 1 \in 1 .. n /\ ~(k <= k - 1) /\ (k - 1) + 1 = k
    BY <1>2, <1>4, <1>6
  <2>2. ~(End(k - 1) > pos)
    BY <1>1, <1>4, <2>1
  <2>3. End(k - 1) = Before[k] /\ Before[k] \in Nat
    <3>1. k - 1 \in 1 .. Len(pieces) /\ k \in 1 .. Len(pieces) + 1
      BY <1>1, <2>1
    <3> QED BY <2>1, <3>1, Ends
  <2> QED BY <1>1, <1>4, <2>1, <2>2, <2>3
<1> QED BY <1>5, <1>6

(* The piece that an insertion finds.                                       *)
LEMMA Found ==
  ASSUME IInv, Inserting
  PROVE  /\ Target <= Len(pieces) =>
              /\ Target \in 1 .. Len(pieces) /\ Offset \in Nat
              /\ Before[Target] \in Nat /\ req.pos = Before[Target] + Offset
              /\ Offset <= pieces[Target].length
         /\ Target > Len(pieces) => req.pos >= total_length
<1> DEFINE those == {j \in DOMAIN pieces : End(j) >= req.pos}
           k == Target
<1>1. PICK n \in Nat : n = Len(pieces) /\ DOMAIN pieces = 1 .. n
  BY DEF IInv, TypeOK
<1>2. those \subseteq 1 .. n /\ req.pos \in Nat /\ total_length \in Nat
  <2>1. req \in Call
    BY DEF IInv, TypeOK, Inserting, NoCall
  <2> QED BY <1>1, <2>1 DEF IInv, TypeOK, Call
<1>3. \/ k \in those /\ \A j \in those : k <= j
      \/ those = {} /\ k = n + 1
  BY <1>1, <1>2, FirstIs DEF Target
<1>4. ASSUME k <= n
      PROVE  /\ k \in 1 .. n /\ Offset \in Nat
             /\ Before[k] \in Nat /\ req.pos = Before[k] + Offset
             /\ Offset <= pieces[k].length
  <2>1. k \in those /\ \A j \in those : k <= j
    BY <1>3, <1>4
  <2>2. k \in 1 .. n /\ k \in 1 .. Len(pieces) /\ k \in 1 .. Len(pieces) + 1
    BY <1>1, <1>2, <2>1
  <2>3. Before[k] \in Nat /\ End(k) = Before[k] + pieces[k].length /\ End(k) >= req.pos
    BY <2>1, <2>2, Ends
  <2>4. Before[k] <= req.pos
    <3>1. CASE k = 1
      BY <1>2, <3>1, Ends
    <3>2. CASE k # 1
      <4>1. k - 1 \in 1 .. n /\ ~(k <= k - 1) /\ (k - 1) + 1 = k
        BY <2>2, <3>2
      <4>2. ~(End(k - 1) >= req.pos)
        BY <1>1, <2>1, <4>1
      <4>3. End(k - 1) = Before[k]
        BY <1>1, <4>1, Ends
      <4> QED BY <1>2, <2>3, <4>2, <4>3
    <3> QED BY <3>1, <3>2
  <2>5. pieces[k].length \in Nat
    <3>1. pieces[k] \in Within(add_buffer) /\ add_buffer \in Seq(Char)
      BY <2>2 DEF IInv, TypeOK
    <3> QED BY <3>1, WithinFacts
  <2>6. Offset = req.pos - Before[k]
    BY DEF Offset
  <2> QED BY <1>2, <2>2, <2>3, <2>4, <2>5, <2>6
<1>5. ASSUME k > n PROVE req.pos >= total_length
  <2>1. those = {}
    BY <1>2, <1>3, <1>5
  <2>2. CASE n = 0
    BY <1>1, <1>2, <2>2, Ends
  <2>3. CASE n # 0
    <3>1. n \in DOMAIN pieces /\ n \in 1 .. Len(pieces)
      BY <1>1, <2>3
    <3>2. End(n) = total_length
      BY <1>1, <3>1, Ends
    <3>3. ~(End(n) >= req.pos)
      BY <2>1, <3>1
    <3> QED BY <1>2, <3>2, <3>3
  <2> QED BY <2>2, <2>3
<1> QED BY <1>1, <1>4, <1>5

(* Part of a piece is apart from what the piece is apart from.              *)
LEMMA SubPiece ==
  ASSUME NEW p \in Piece, NEW q \in Piece, NEW r \in Piece, Distinct(p, q),
         r.start >= p.start, r.start + r.length <= p.start + p.length
  PROVE  Distinct(r, q)
BY DEF Distinct, Piece

(* A list of one piece, of two and of three.                                *)
LEMMA DisjointOne == \A p : Disjoint(<< p >>)
BY DEF Disjoint

LEMMA DisjointTwo ==
  ASSUME NEW p \in Piece, NEW q \in Piece, Distinct(p, q)
  PROVE  Disjoint(<< p, q >>)
BY DEF Disjoint, Distinct

LEMMA DisjointThree ==
  ASSUME NEW p \in Piece, NEW q \in Piece, NEW r \in Piece,
         Distinct(p, q), Distinct(p, r), Distinct(q, r)
  PROVE  Disjoint(<< p, q, r >>)
<1> DEFINE z == << p, q, r >>
<1>1. Len(z) = 3 /\ z[1] = p /\ z[2] = q /\ z[3] = r
  OBVIOUS
<1>2. Distinct(q, p) /\ Distinct(r, p) /\ Distinct(r, q)
  BY DEF Distinct
<1> HIDE DEF z
<1>3. ASSUME NEW i \in 1 .. 3, NEW j \in 1 .. 3, i # j PROVE Distinct(z[i], z[j])
  <2>1. i = 1 \/ i = 2 \/ i = 3
    OBVIOUS
  <2>2. j = 1 \/ j = 2 \/ j = 3
    OBVIOUS
  <2> QED BY <1>1, <1>2, <1>3, <2>1, <2>2
<1> QED BY <1>1, <1>3 DEF Disjoint, z

(* The piece that is inserted is apart from all others.                     *)
LEMMA NewIsApart ==
  ASSUME IInv, Inserting
  PROVE  /\ NewPiece \in Piece /\ NewPiece \in Within(add_buffer \o req.str)
         /\ Bytes(add_buffer \o req.str, NewPiece) = req.str
         /\ req.str \in Seq(Char) /\ add_buffer \in Seq(Char)
         /\ \A p \in Within(add_buffer) : Distinct(p, NewPiece) /\ Distinct(NewPiece, p)
<1>1. add_buffer \in Seq(Char) /\ req.str \in Seq(Char) /\ req.str # << >>
  <2>1. req \in Call
    BY DEF IInv, TypeOK, Inserting, NoCall
  <2> QED BY <2>1 DEF IInv, TypeOK, Call, Inserting
<1>2. /\ NewPiece \in Within(add_buffer \o req.str)
      /\ Bytes(add_buffer \o req.str, NewPiece) = req.str
  BY <1>1, BufferGrows DEF NewPiece
<1>3. NewPiece.start = Len(add_buffer) /\ NewPiece \in Piece
  BY <1>2 DEF NewPiece, Within
<1>4. ASSUME NEW p \in Within(add_buffer)
      PROVE  Distinct(p, NewPiece) /\ Distinct(NewPiece, p)
  <2>1. p.start + p.length <= Len(add_buffer)
    BY DEF Within
  <2> QED BY <1>3, <2>1 DEF Distinct
<1> QED BY <1>1, <1>2, <1>3, <1>4

-----------------------------------------------------------------------------
(***************************************************************************)
(* Insertions.                                                             *)
(***************************************************************************)
LEMMA Lengths ==
  ASSUME NEW Sort, NEW a \in Seq(Sort), NEW s \in Seq(Sort), NEW b \in Seq(Sort)
  PROVE  /\ (a \o s) \o b \in Seq(Sort)
         /\ Len((a \o s) \o b) = Len(a \o b) + Len(s)
<1> DEFINE z == a \o s
<1>1. z \in Seq(Sort) /\ Len(z) = Len(a) + Len(s) /\ Len(a) \in Nat /\ Len(s) \in Nat
  BY ConcatIs
<1> HIDE DEF z
<1>2. Len(z \o b) = Len(z) + Len(b) /\ Len(b) \in Nat /\ z \o b \in Seq(Sort)
  BY <1>1, ConcatIs
<1>3. Len(a \o b) = Len(a) + Len(b)
  BY ConcatIs
<1> QED BY <1>1, <1>2, <1>3 DEF z

(* The same concatenations in another order.                                *)
Associates(x, l, r) == x \o (l \o r) = (x \o l) \o r

(* Concatenation is associative.                                            *)
LEMMA Associate ==
  ASSUME NEW Sort, NEW x \in Seq(Sort), NEW l \in Seq(Sort), NEW r \in Seq(Sort)
  PROVE  Associates(x, l, r)
BY Seqs!Assoc DEF Associates

Regrouped(x, l, s, r, y) ==
  /\ (x \o (l \o r)) \o y = (x \o l) \o (r \o y)
  /\ (x \o ((l \o s) \o r)) \o y = ((x \o l) \o s) \o (r \o y)

(* The two sides of Regrouped are the same sequences.                       *)
LEMMA Regroup ==
  ASSUME NEW Sort, NEW x \in Seq(Sort), NEW l \in Seq(Sort), NEW s \in Seq(Sort),
         NEW r \in Seq(Sort), NEW y \in Seq(Sort)
  PROVE  Regrouped(x, l, s, r, y)
<1> DEFINE xl == x \o l
           ls == l \o s
           z  == xl \o s
<1>1. xl \in Seq(Sort) /\ ls \in Seq(Sort)
  BY ConcatIs, Zenon
<1>2. z \in Seq(Sort)
  <2> HIDE DEF xl
  <2> QED BY <1>1, ConcatIs, Zenon
<1> HIDE DEF xl, ls, z
<1>3. (x \o (l \o r)) \o y = xl \o (r \o y)
  <2>1. Associates(x, l, r) /\ Associates(xl, r, y)
    BY <1>1, Associate, Zenon
  <2> QED BY <2>1, Zenon DEF Associates, xl
<1>4. (x \o (ls \o r)) \o y = z \o (r \o y)
  <2>1. Associates(x, l, s) /\ Associates(x, ls, r) /\ Associates(z, r, y)
    BY <1>1, <1>2, Associate, Zenon
  <2>2. x \o ls = z
    BY <2>1, Zenon DEF Associates, xl, ls, z
  <2> QED BY <2>1, <2>2, Zenon DEF Associates
<1> QED BY <1>3, <1>4, Zenon DEF Regrouped, xl, ls, z

(* What an insertion leaves, given its list of pieces.                      *)
LEMMA Inserted ==
  ASSUME IInv, Inserting, NEW list \in Seq(Within(add_buffer \o req.str)),
         Disjoint(list), NEW a \in Seq(Char), NEW b \in Seq(Char),
         Text = a \o b, Flat(add_buffer \o req.str, list) = (a \o req.str) \o b,
         InsertedAs(list)
  PROVE  IInv' /\ Text' = (a \o req.str) \o b /\ req' = NoCall
<1>1. /\ add_buffer \in Seq(Char) /\ req.str \in Seq(Char)
      /\ add_buffer \o req.str \in Seq(Char)
  BY NewIsApart, ConcatIs
<1>2. /\ add_buffer' = add_buffer \o req.str /\ pieces' = list
      /\ total_length' = total_length + Len(req.str) /\ req' = NoCall /\ it' = it
  BY DEF InsertedAs
<1>3. Text' = (a \o req.str) \o b
  <2>1. Text' = Flat(add_buffer', pieces')
    BY DEF Text, Flat, Characters, Bytes
  <2> QED BY <1>2, <2>1
<1>4. Len((a \o req.str) \o b) = Len(a \o b) + Len(req.str)
  BY <1>1, Lengths, ZenonT(60)
<1>5. total_length' = Len(Flat(add_buffer', pieces'))
  <2>1. total_length = Len(a \o b)
    BY TextIs DEF IInv
  <2> QED BY <1>2, <1>4, <2>1
<1>6. pieces' \in Seq(Within(add_buffer')) /\ pieces' \in Seq(Piece)
  <2> DEFINE W == Within(add_buffer \o req.str)
  <2>1. W \subseteq Piece /\ list \in Seq(W)
    BY DEF Within
  <2> HIDE DEF W
  <2>2. list \in Seq(Piece)
    BY <2>1
  <2> QED BY <1>2, <2>1, <2>2 DEF W
<1>7. it = 0
  BY DEF IInv, TypeOK, Erasing, Inserting
<1>8. TypeOK'
  <2>1. total_length' \in Nat
    BY <1>1, <1>2 DEF IInv, TypeOK
  <2>2. it' \in 0 .. Len(pieces') + 1
    <3>1. Len(pieces') \in Nat
      BY <1>6
    <3> QED BY <1>2, <1>7, <3>1
  <2> QED BY <1>1, <1>2, <1>6, <2>1, <2>2 DEF TypeOK
<1>9. Erasing'
  BY <1>2, <1>7 DEF Erasing
<1> QED BY <1>2, <1>3, <1>5, <1>6, <1>8, <1>9 DEF IInv

(* Pieces of the longer buffer that can take the place of the piece an      *)
(* insertion finds, with the new characters between l and r.                *)
Fits(new, l, r) ==
  /\ new \in Seq(Within(add_buffer \o req.str))
  /\ Disjoint(new)
  /\ \A m \in 1 .. Len(new) : \A q \in Within(add_buffer) :
       Distinct(pieces[Target], q) => Distinct(new[m], q)
  /\ Bytes(add_buffer, pieces[Target]) = l \o r
  /\ Len(l) = Offset
  /\ Flat(add_buffer \o req.str, new) = (l \o req.str) \o r

(* An insertion in the piece that holds or ends at the position.            *)
LEMMA InsertedInto ==
  ASSUME IInv, Inserting, Target <= Len(pieces),
         NEW new, NEW l \in Seq(Char), NEW r \in Seq(Char), Fits(new, l, r),
         InsertedAs(Put(Target, new))
  PROVE  /\ IInv' /\ req' = NoCall
         /\ \E a \in Seq(Char), b \in Seq(Char) :
              Text = a \o b /\ Text' = (a \o req.str) \o b /\ Len(a) = req.pos
<1> DEFINE big == add_buffer \o req.str
           s == req.str
           k == Target
           list == PutIn(pieces, k, new)
           x == Flat(add_buffer, SubSeq(pieces, 1, k - 1))
           y == Flat(add_buffer, SubSeq(pieces, k + 1, Len(pieces)))
<1>1. /\ add_buffer \in Seq(Char) /\ s \in Seq(Char) /\ big \in Seq(Char)
      /\ pieces \in Seq(Within(add_buffer)) /\ Len(pieces) \in Nat
  <2>1. add_buffer \in Seq(Char) /\ s \in Seq(Char)
    BY NewIsApart
  <2> QED BY <2>1, ConcatIs DEF IInv
<1>2. /\ k \in 1 .. Len(pieces) /\ Before[k] \in Nat /\ Offset \in Nat
      /\ req.pos = Before[k] + Offset
  BY Found
<1>3. /\ x \in Seq(Char) /\ y \in Seq(Char) /\ Text = (x \o (l \o r)) \o y
  BY <1>1, <1>2, FlatAround, TextIs DEF Fits
<1>4. Len(x) = Before[k]
  <2>1. k \in 1 .. Len(pieces) + 1
    BY <1>1, <1>2
  <2> QED BY <2>1, BeforeIs
<1>5. /\ pieces \in Seq(Within(big))
      /\ Flat(big, SubSeq(pieces, 1, k - 1)) = x
      /\ Flat(big, SubSeq(pieces, k + 1, Len(pieces))) = y
  <2>1. pieces \in Seq(Within(big))
    BY <1>1, FlatLater
  <2>2. /\ SubSeq(pieces, 1, k - 1) \in Seq(Within(add_buffer))
        /\ SubSeq(pieces, k + 1, Len(pieces)) \in Seq(Within(add_buffer))
    BY <1>1, <1>2, ListParts
  <2>3. Flat(big, SubSeq(pieces, 1, k - 1)) = x
    BY <1>1, <2>2, FlatLater
  <2>4. Flat(big, SubSeq(pieces, k + 1, Len(pieces))) = y
    BY <1>1, <2>2, FlatLater
  <2> QED BY <2>1, <2>3, <2>4
<1>6. /\ list \in Seq(Within(big))
      /\ Flat(big, list) = (x \o ((l \o s) \o r)) \o y
  <2>1. list \in Seq(Within(big))
    BY <1>2, <1>5, PutMembers DEF Fits
  <2>2. Flat(big, list) = (x \o Flat(big, new)) \o y
    BY <1>1, <1>2, <1>5, PutFlat DEF Fits
  <2> QED BY <2>1, <2>2 DEF Fits
<1>7. Disjoint(list)
  <2> DEFINE W == Within(big)
  <2>1. W \subseteq Piece
    BY DEF Within
  <2>2. Disjoint(pieces)
    BY DEF IInv
  <2>3. ASSUME NEW m \in 1 .. Len(new), NEW j \in 1 .. Len(pieces), j # k
        PROVE  Distinct(new[m], pieces[j])
    <3>1. pieces[j] \in Within(add_buffer) /\ Distinct(pieces[k], pieces[j])
      BY <1>1, <1>2, <2>2, <2>3 DEF Disjoint
    <3> QED BY <3>1 DEF Fits
  <2> HIDE DEF W, list
  <2>4. pieces \in Seq(W) /\ new \in Seq(W)
    BY <1>5 DEF W, Fits
  <2>5. Disjoint(new)
    BY DEF Fits
  <2> QED BY <1>2, <2>1, <2>2, <2>3, <2>4, <2>5, PutDisjoint DEF list
<1>8. InsertedAs(list)
  BY DEF Put, PutIn
<1> HIDE DEF x, y, list
<1> DEFINE a == x \o l
           b == r \o y
<1>9. a \in Seq(Char) /\ b \in Seq(Char) /\ Len(a) = Len(x) + Len(l)
  BY <1>3, ConcatIs
<1>10. Regrouped(x, l, s, r, y)
  <2> HIDE DEF s
  <2>1. x \in Seq(Char) /\ y \in Seq(Char) /\ s \in Seq(Char)
    BY <1>1, <1>3
  <2> QED BY <2>1, Regroup, Zenon
<1>11. /\ (x \o (l \o r)) \o y = a \o b
       /\ (x \o ((l \o s) \o r)) \o y = (a \o s) \o b
  BY <1>10, Zenon DEF Regrouped, a, b
<1> HIDE DEF a, b
<1>12. IInv' /\ Text' = (a \o s) \o b /\ req' = NoCall
  BY <1>3, <1>6, <1>7, <1>8, <1>9, <1>11, Inserted
<1>13. Text = a \o b /\ Len(a) = req.pos
  BY <1>2, <1>3, <1>4, <1>9, <1>11 DEF Fits
<1> QED BY <1>9, <1>12, <1>13

(* The three places in a piece where an insertion can be.                   *)
LEMMA InsideKeeps ==
  ASSUME IInv, InsertInside
  PROVE  /\ IInv' /\ req' = NoCall
         /\ \E a \in Seq(Char), b \in Seq(Char) :
              Text = a \o b /\ Text' = (a \o req.str) \o b /\ Len(a) = req.pos
<1> DEFINE big == add_buffer \o req.str
           p == pieces[Target]
           new == << Left(p, Offset), NewPiece, Right(p, Offset) >>
<1>1. /\ Inserting /\ Target <= Len(pieces) /\ Offset > 0 /\ Offset < p.length
      /\ InsertedAs(Put(Target, new))
  BY DEF InsertInside
<1>2. Target \in 1 .. Len(pieces) /\ Offset \in Nat
  BY <1>1, Found
<1>3. p \in Within(add_buffer) /\ add_buffer \in Seq(Char)
  BY <1>2 DEF IInv, TypeOK
<1> HIDE DEF p
<1> DEFINE l == Bytes(add_buffer, Left(p, Offset))
           r == Bytes(add_buffer, Right(p, Offset))
<1>4. /\ Left(p, Offset) \in Within(add_buffer) /\ Right(p, Offset) \in Within(add_buffer)
      /\ Left(p, Offset).start = p.start /\ Left(p, Offset).length = Offset
      /\ Right(p, Offset).start = p.start + Offset
      /\ Right(p, Offset).length = p.length - Offset
      /\ Bytes(add_buffer, p) = l \o r
  BY <1>1, <1>2, <1>3, LeftRight, ZenonT(60)
<1>5. l \in Seq(Char) /\ r \in Seq(Char) /\ Len(l) = Offset
  BY <1>3, <1>4, WithinFacts
<1>6. /\ req.str \in Seq(Char) /\ big \in Seq(Char)
      /\ NewPiece \in Within(big) /\ Bytes(big, NewPiece) = req.str
      /\ \A q \in Within(add_buffer) : Distinct(q, NewPiece) /\ Distinct(NewPiece, q)
  BY <1>1, <1>3, NewIsApart, ConcatIs
<1>7. /\ Left(p, Offset) \in Within(big) /\ Right(p, Offset) \in Within(big)
      /\ Bytes(big, Left(p, Offset)) = l /\ Bytes(big, Right(p, Offset)) = r
  BY <1>3, <1>4, <1>6, BufferGrows
<1>8. /\ p \in Piece /\ Left(p, Offset) \in Piece /\ Right(p, Offset) \in Piece
      /\ NewPiece \in Piece /\ Within(add_buffer) \subseteq Piece
      /\ p.start \in Nat /\ p.length \in Nat
  BY <1>3, <1>4, <1>6, WithinFacts DEF Within
<1> DEFINE u == Left(p, Offset)
           v == Right(p, Offset)
           n == NewPiece
<1>9. Disjoint(new)
  <2>1. Distinct(u, v)
    BY <1>2, <1>4, <1>8 DEF Distinct
  <2>2. Distinct(u, n) /\ Distinct(n, v)
    BY <1>4, <1>6
  <2> HIDE DEF u, v, n
  <2>3. Disjoint(<< u, n, v >>)
    BY <1>8, <2>1, <2>2, DisjointThree DEF u, v, n
  <2> QED BY <2>3 DEF u, v, n
<1>10. ASSUME NEW m \in 1 .. Len(new), NEW q \in Within(add_buffer), Distinct(p, q)
       PROVE  Distinct(new[m], q)
  <2>1. Distinct(u, q)
    BY <1>1, <1>2, <1>4, <1>8, <1>10, SubPiece, SMTT(60)
  <2>2. Distinct(v, q)
    <3>1. v.start >= p.start /\ v.start + v.length <= p.start + p.length
      BY <1>2, <1>4, <1>8
    <3> QED BY <1>8, <1>10, <3>1, SubPiece
  <2>3. Distinct(n, q)
    BY <1>6
  <2> HIDE DEF u, v, n
  <2>4. m \in 1 .. 3 /\ new = << u, n, v >>
    BY DEF u, v, n
  <2> HIDE DEF new
  <2>5. m = 1 \/ m = 2 \/ m = 3
    BY <2>4
  <2> QED BY <2>1, <2>2, <2>3, <2>4, <2>5
<1>11. new \in Seq(Within(big)) /\ Flat(big, new) = (l \o req.str) \o r
  <2> HIDE DEF big
  <2>1. Flat(big, << u, n, v >>) = (Bytes(big, u) \o Bytes(big, n)) \o Bytes(big, v)
    BY <1>6, <1>7, FlatThree
  <2>2. new \in Seq(Within(big))
    <3> DEFINE W == Within(big)
    <3>1. u \in W /\ n \in W /\ v \in W
      BY <1>6, <1>7
    <3> HIDE DEF u, n, v, W
    <3>2. << u, n, v >> \in Seq(W)
      BY <3>1
    <3> QED BY <3>2 DEF u, n, v, W
  <2> QED BY <1>6, <1>7, <2>1, <2>2
<1> HIDE DEF new, l, r
<1>12. Fits(new, l, r)
  BY <1>4, <1>5, <1>9, <1>10, <1>11 DEF Fits, p
<1> QED BY <1>1, <1>5, <1>12, InsertedInto

(* In front of the piece.                                                   *)
LEMMA InFrontKeeps ==
  ASSUME IInv, InsertInFront
  PROVE  /\ IInv' /\ req' = NoCall
         /\ \E a \in Seq(Char), b \in Seq(Char) :
              Text = a \o b /\ Text' = (a \o req.str) \o b /\ Len(a) = req.pos
<1> DEFINE big == add_buffer \o req.str
           p == pieces[Target]
           new == << NewPiece, p >>
           r == Bytes(add_buffer, p)
<1>1. /\ Inserting /\ Target <= Len(pieces) /\ Offset = 0
      /\ InsertedAs(Put(Target, new))
  BY DEF InsertInFront
<1>2. Target \in 1 .. Len(pieces)
  BY <1>1, Found
<1>3. p \in Within(add_buffer) /\ add_buffer \in Seq(Char)
  BY <1>2 DEF IInv, TypeOK
<1> HIDE DEF p
<1>4. /\ r \in Seq(Char) /\ p \in Piece
  BY <1>3, WithinFacts
<1>5. /\ req.str \in Seq(Char) /\ big \in Seq(Char) /\ NewPiece \in Piece
      /\ NewPiece \in Within(big) /\ Bytes(big, NewPiece) = req.str
      /\ \A q \in Within(add_buffer) : Distinct(q, NewPiece) /\ Distinct(NewPiece, q)
  BY <1>1, <1>3, NewIsApart, ConcatIs
<1>6. p \in Within(big) /\ Bytes(big, p) = r
  BY <1>3, <1>5, BufferGrows
<1>7. Disjoint(new)
  BY <1>3, <1>4, <1>5, DisjointTwo
<1>8. ASSUME NEW m \in 1 .. Len(new), NEW q \in Within(add_buffer), Distinct(p, q)
      PROVE  Distinct(new[m], q)
  BY <1>5, <1>8
<1>9. new \in Seq(Within(big)) /\ Flat(big, new) = req.str \o r
  <2> HIDE DEF big
  <2>1. Flat(big, new) = Bytes(big, NewPiece) \o Bytes(big, p)
    BY <1>5, <1>6, FlatTwo
  <2> DEFINE W == Within(big)
             n == NewPiece
  <2>2. n \in W /\ p \in W
    BY <1>5, <1>6
  <2> HIDE DEF n, W
  <2>3. << n, p >> \in Seq(W)
    BY <2>2
  <2> QED BY <1>5, <1>6, <2>1, <2>3 DEF n, W
<1> HIDE DEF new, r
<1>10. /\ << >> \in Seq(Char) /\ << >> \o req.str = req.str /\ << >> \o r = r
       /\ Len(<< >>) = 0
  BY <1>4, <1>5
<1>11. Fits(new, << >>, r)
  BY <1>1, <1>7, <1>8, <1>9, <1>10 DEF Fits, p, r
<1> QED BY <1>1, <1>4, <1>10, <1>11, InsertedInto

(* Behind it.                                                               *)
LEMMA BehindKeeps ==
  ASSUME IInv, InsertBehind
  PROVE  /\ IInv' /\ req' = NoCall
         /\ \E a \in Seq(Char), b \in Seq(Char) :
              Text = a \o b /\ Text' = (a \o req.str) \o b /\ Len(a) = req.pos
<1> DEFINE big == add_buffer \o req.str
           p == pieces[Target]
           new == << p, NewPiece >>
           l == Bytes(add_buffer, p)
<1>1. /\ Inserting /\ Target <= Len(pieces) /\ Offset >= p.length
      /\ InsertedAs(Put(Target, new))
  BY DEF InsertBehind
<1>2. Target \in 1 .. Len(pieces) /\ Offset \in Nat /\ Offset <= p.length
  BY <1>1, Found
<1>3. p \in Within(add_buffer) /\ add_buffer \in Seq(Char)
  BY <1>2 DEF IInv, TypeOK
<1> HIDE DEF p
<1>4. /\ l \in Seq(Char) /\ p \in Piece /\ Len(l) = p.length /\ p.length \in Nat
  BY <1>3, WithinFacts
<1>a. Len(l) = Offset
  BY <1>1, <1>2, <1>4
<1>5. /\ req.str \in Seq(Char) /\ big \in Seq(Char) /\ NewPiece \in Piece
      /\ NewPiece \in Within(big) /\ Bytes(big, NewPiece) = req.str
      /\ \A q \in Within(add_buffer) : Distinct(q, NewPiece) /\ Distinct(NewPiece, q)
  BY <1>1, <1>3, NewIsApart, ConcatIs
<1>6. p \in Within(big) /\ Bytes(big, p) = l
  BY <1>3, <1>5, BufferGrows
<1>7. Disjoint(new)
  BY <1>3, <1>4, <1>5, DisjointTwo
<1>8. ASSUME NEW m \in 1 .. Len(new), NEW q \in Within(add_buffer), Distinct(p, q)
      PROVE  Distinct(new[m], q)
  BY <1>5, <1>8
<1>9. new \in Seq(Within(big)) /\ Flat(big, new) = l \o req.str
  <2> HIDE DEF big
  <2>1. Flat(big, new) = Bytes(big, p) \o Bytes(big, NewPiece)
    BY <1>5, <1>6, FlatTwo
  <2> DEFINE W == Within(big)
             n == NewPiece
  <2>2. n \in W /\ p \in W
    BY <1>5, <1>6
  <2> HIDE DEF n, W
  <2>3. << p, n >> \in Seq(W)
    BY <2>2
  <2> QED BY <1>5, <1>6, <2>1, <2>3 DEF n, W
<1> HIDE DEF new, l
<1>10. /\ << >> \in Seq(Char) /\ l \o << >> = l
       /\ (l \o req.str) \o << >> = l \o req.str
  <2>1. l \o req.str \in Seq(Char)
    BY <1>4, <1>5, ConcatIs
  <2> QED BY <1>4, <2>1, ConcatEmptySeq
<1>11. Fits(new, l, << >>)
  BY <1>7, <1>8, <1>9, <1>10, <1>a DEF Fits, p, l
<1> QED BY <1>1, <1>4, <1>10, <1>11, InsertedInto

(* The first piece, or a position at or beyond the end.                     *)
LEMMA AppendsKeeps ==
  ASSUME IInv, InsertAppends
  PROVE  /\ IInv' /\ req' = NoCall /\ req.pos >= total_length
         /\ Text \in Seq(Char) /\ Text' = Text \o req.str
<1> DEFINE big == add_buffer \o req.str
           n == NewPiece
           list == Append(pieces, n)
<1>1. Inserting /\ Target > Len(pieces) /\ InsertedAs(list)
  BY DEF InsertAppends
<1>2. req.pos >= total_length
  BY <1>1, Found
<1>3. /\ pieces \in Seq(Within(add_buffer)) /\ add_buffer \in Seq(Char) /\ Disjoint(pieces)
  BY DEF IInv, TypeOK
<1>4. /\ req.str \in Seq(Char) /\ big \in Seq(Char) /\ n \in Piece
      /\ n \in Within(big) /\ Bytes(big, n) = req.str
      /\ \A q \in Within(add_buffer) : Distinct(q, n) /\ Distinct(n, q)
  BY <1>1, <1>3, NewIsApart, ConcatIs
<1>5. pieces \in Seq(Within(big)) /\ Flat(big, pieces) = Text /\ Text \in Seq(Char)
  BY <1>3, <1>4, FlatLater, FlatType, TextIs
<1> HIDE DEF big, n
<1>6. list \in Seq(Within(big)) /\ Flat(big, list) = Text \o req.str
  <2> DEFINE W == Within(big)
  <2>1. n \in W /\ pieces \in Seq(W)
    BY <1>4, <1>5
  <2> HIDE DEF W
  <2>2. << n >> \in Seq(W) /\ list = pieces \o << n >> /\ list \in Seq(W)
    BY <2>1
  <2>3. Flat(big, pieces \o << n >>) = Flat(big, pieces) \o Flat(big, << n >>)
    BY <1>4, <2>1, <2>2, FlatConcat DEF W
  <2>4. Flat(big, << n >>) = req.str
    BY <1>4, FlatOne
  <2> QED BY <1>5, <2>2, <2>3, <2>4 DEF W
<1>7. Disjoint(list)
  <2>1. /\ Len(list) = Len(pieces) + 1 /\ Len(pieces) \in Nat /\ list[Len(pieces) + 1] = n
        /\ \A i \in 1 .. Len(pieces) : list[i] = pieces[i]
    BY <1>3
  <2>2. \A i \in 1 .. Len(pieces) : Distinct(pieces[i], n) /\ Distinct(n, pieces[i])
    BY <1>3, <1>4
  <2> HIDE DEF list
  <2>3. ASSUME NEW i \in 1 .. Len(list), NEW j \in 1 .. Len(list), i # j
        PROVE  Distinct(list[i], list[j])
    <3>1. i \in 1 .. Len(pieces) \/ i = Len(pieces) + 1
      BY <2>1
    <3>2. j \in 1 .. Len(pieces) \/ j = Len(pieces) + 1
      BY <2>1
    <3> QED BY <1>3, <2>1, <2>2, <2>3, <3>1, <3>2 DEF Disjoint
  <2> QED BY <2>3 DEF Disjoint
<1> HIDE DEF list
<1>8. /\ << >> \in Seq(Char) /\ Text \o << >> = Text
      /\ (Text \o req.str) \o << >> = Text \o req.str
  <2>1. Text \o req.str \in Seq(Char)
    BY <1>4, <1>5, ConcatIs
  <2> QED BY <1>5, <2>1, ConcatEmptySeq
<1>9. IInv' /\ Text' = (Text \o req.str) \o << >> /\ req' = NoCall
  <2>1. list \in Seq(Within(add_buffer \o req.str))
    BY <1>6 DEF big
  <2>2. Flat(add_buffer \o req.str, list) = (Text \o req.str) \o << >>
    BY <1>6, <1>8 DEF big
  <2> QED BY <1>1, <1>5, <1>7, <1>8, <2>1, <2>2, Inserted
<1> QED BY <1>2, <1>5, <1>8, <1>9

-----------------------------------------------------------------------------
(***************************************************************************)
(* Erasures.                                                               *)
(***************************************************************************)
(* Pieces of the buffer that can take the place of the piece k.             *)
Parts(k, new) ==
  /\ new \in Seq(Within(add_buffer))
  /\ Disjoint(new)
  /\ \A m \in 1 .. Len(new) : \A q \in Within(add_buffer) :
       Distinct(pieces[k], q) => Distinct(new[m], q)

(* Parts of a piece may take its place.                                     *)
LEMMA PartsPut ==
  ASSUME IInv, NEW k \in 1 .. Len(pieces), NEW new, Parts(k, new)
  PROVE  /\ PutIn(pieces, k, new) \in Seq(Within(add_buffer))
         /\ Disjoint(PutIn(pieces, k, new))
         /\ Len(PutIn(pieces, k, new)) = Len(pieces) - 1 + Len(new)
<1>1. pieces \in Seq(Within(add_buffer)) /\ Disjoint(pieces)
  BY DEF IInv
<1> DEFINE W == Within(add_buffer)
<1>2. W \subseteq Piece
  BY DEF Within
<1>3. new \in Seq(W) /\ Disjoint(new)
  BY DEF Parts
<1>4. ASSUME NEW m \in 1 .. Len(new), NEW j \in 1 .. Len(pieces), j # k
      PROVE  Distinct(new[m], pieces[j])
  <2>1. pieces[j] \in W /\ Distinct(pieces[k], pieces[j])
    BY <1>1, <1>4 DEF Disjoint
  <2> QED BY <2>1 DEF Parts
<1> HIDE DEF W
<1>5. pieces \in Seq(W)
  BY <1>1 DEF W
<1>6. Disjoint(PutIn(pieces, k, new))
  BY <1>1, <1>2, <1>3, <1>4, <1>5, PutDisjoint
<1>7. /\ PutIn(pieces, k, new) \in Seq(W)
      /\ Len(PutIn(pieces, k, new)) = Len(pieces) - 1 + Len(new)
  BY <1>3, <1>5, PutMembers
<1> QED BY <1>6, <1>7 DEF W

(* The parts of a piece, and a part of it alone.                            *)
LEMMA CutParts ==
  ASSUME IInv, NEW k \in 1 .. Len(pieces), NEW n \in Nat, 0 < n, n < pieces[k].length
  PROVE  /\ Parts(k, << Left(pieces[k], n), Right(pieces[k], n) >>)
         /\ Parts(k, << Right(pieces[k], n) >>)
<1> DEFINE p == pieces[k]
           u == Left(p, n)
           v == Right(p, n)
           W == Within(add_buffer)
<1>1. p \in W /\ add_buffer \in Seq(Char)
  BY DEF IInv, TypeOK
<1> HIDE DEF p
<1>2. /\ u \in W /\ v \in W /\ u.start = p.start /\ u.length = n
      /\ v.start = p.start + n /\ v.length = p.length - n
  BY <1>1, LeftRight DEF p
<1>3. /\ p \in Piece /\ p.start \in Nat /\ p.length \in Nat /\ W \subseteq Piece
      /\ u \in Piece /\ v \in Piece /\ n < p.length
  BY <1>1, <1>2, WithinFacts DEF Within, p
<1> HIDE DEF u, v
<1>4. Distinct(u, v)
  BY <1>2, <1>3 DEF Distinct
<1>5. ASSUME NEW q \in W, Distinct(p, q) PROVE Distinct(u, q) /\ Distinct(v, q)
  <2>1. Distinct(u, q)
    BY <1>2, <1>3, <1>5, SubPiece
  <2>2. v.start >= p.start /\ v.start + v.length <= p.start + p.length
    BY <1>2, <1>3
  <2>3. Distinct(v, q)
    BY <1>3, <1>5, <2>2, SubPiece
  <2> QED BY <2>1, <2>3
<1>6. Disjoint(<< u, v >>) /\ Disjoint(<< v >>)
  BY <1>3, <1>4, DisjointTwo, DisjointOne
<1>7. << u, v >> \in Seq(W) /\ << v >> \in Seq(W)
  <2> HIDE DEF W
  <2> QED BY <1>2
<1>8. ASSUME NEW q \in W, Distinct(p, q)
      PROVE  /\ \A m \in 1 .. Len(<< u, v >>) : Distinct(<< u, v >>[m], q)
             /\ \A m \in 1 .. Len(<< v >>) : Distinct(<< v >>[m], q)
  BY <1>5, <1>8
<1> QED BY <1>6, <1>7, <1>8 DEF Parts, p, u, v

(* A piece may be left out.                                                 *)
LEMMA NoParts ==
  ASSUME NEW k
  PROVE  Parts(k, << >>)
BY DEF Parts, Disjoint

(* The pieces passed, the one the loop is on and those behind.              *)
LEMMA Around ==
  ASSUME IInv, NEW k \in 1 .. Len(pieces)
  PROVE  \E a \in Seq(Char), c \in Seq(Char) :
           /\ a = Flat(add_buffer, SubSeq(pieces, 1, k - 1))
           /\ c = Flat(add_buffer, SubSeq(pieces, k + 1, Len(pieces)))
           /\ Len(a) = Before[k]
           /\ Text = (a \o Bytes(add_buffer, pieces[k])) \o c
           /\ \A new \in Seq(Within(add_buffer)) :
                Flat(add_buffer, PutIn(pieces, k, new)) = (a \o Flat(add_buffer, new)) \o c
<1>1. pieces \in Seq(Within(add_buffer)) /\ add_buffer \in Seq(Char)
  BY DEF IInv, TypeOK
<1> DEFINE a == Flat(add_buffer, SubSeq(pieces, 1, k - 1))
           c == Flat(add_buffer, SubSeq(pieces, k + 1, Len(pieces)))
<1>2. /\ a \in Seq(Char) /\ c \in Seq(Char)
      /\ Text = (a \o Bytes(add_buffer, pieces[k])) \o c
  BY <1>1, FlatAround, TextIs
<1>3. Len(a) = Before[k]
  <2>1. k \in 1 .. Len(pieces) + 1
    BY <1>1
  <2> QED BY <2>1, BeforeIs
<1>4. ASSUME NEW new \in Seq(Within(add_buffer))
      PROVE  Flat(add_buffer, PutIn(pieces, k, new)) = (a \o Flat(add_buffer, new)) \o c
  BY <1>1, PutFlat
<1> HIDE DEF a, c
<1> QED BY <1>2, <1>3, <1>4 DEF a, c

(* The list keeps its beginning.                                            *)
LEMMA PutBegins ==
  ASSUME NEW W, NEW list \in Seq(W), NEW k \in 1 .. Len(list), NEW new \in Seq(W)
  PROVE  SubSeq(PutIn(list, k, new), 1, k - 1) = SubSeq(list, 1, k - 1)
<1> DEFINE a == SubSeq(list, 1, k - 1)
           c == SubSeq(list, k + 1, Len(list))
<1>1. /\ a \in Seq(W) /\ c \in Seq(W) /\ Len(a) = k - 1 /\ k - 1 \in Nat
  BY ListParts
<1> HIDE DEF a, c
<1>2. PICK d \in Seq(W) : d = new \o c
  BY <1>1, ConcatIs
<1>3. (a \o new) \o c = a \o d
  <2>1. Associates(a, new, c)
    BY <1>1, Associate, Zenon
  <2> QED BY <1>2, <2>1, Zenon DEF Associates
<1>4. SubSeq(a \o d, 1, k - 1) = SubSeq(a, 1, k - 1)
  <2>1. k - 1 \in 0 .. Len(a)
    BY <1>1
  <2> QED BY <1>1, <2>1, Seqs!PrefixLeft
<1>5. SubSeq(a, 1, k - 1) = a
  BY <1>1
<1> QED BY <1>3, <1>4, <1>5 DEF PutIn, a, c

(* t is a l r c, and a r c what is left of it without l.                    *)
IsCut(t, a, l, r, c) ==
  /\ Len(t) = Len(a) + Len(l) + Len(r) + Len(c)
  /\ SubSeq(t, 1, Len(a)) \o SubSeq(t, Len(a) + Len(l) + 1, Len(t)) = (a \o r) \o c
  /\ Len((a \o r) \o c) = Len(t) - Len(l)

(* So it is for every such t.                                               *)
LEMMA CutOut ==
  ASSUME NEW Sort, NEW a \in Seq(Sort), NEW l \in Seq(Sort), NEW r \in Seq(Sort),
         NEW c \in Seq(Sort)
  PROVE  \A t : t = (a \o (l \o r)) \o c => IsCut(t, a, l, r, c)
<1> TAKE t
<1> HAVE t = (a \o (l \o r)) \o c
<1>1. PICK al \in Seq(Sort) : al = a \o l /\ Len(al) = Len(a) + Len(l)
  BY ConcatIs
<1>2. PICK rc \in Seq(Sort) : rc = r \o c /\ Len(rc) = Len(r) + Len(c)
  BY ConcatIs
<1>3. t = al \o rc
  <2>1. a \o (l \o r) = al \o r
    BY <1>1, Seqs!Assoc, SMTT(60)
  <2>2. (al \o r) \o c = al \o (r \o c)
    OBVIOUS
  <2> QED BY <1>2, <2>1, <2>2
<1>4. t \in Seq(Sort) /\ Len(t) = Len(al) + Len(rc)
  BY <1>3, ConcatIs
<1>5. SubSeq(t, 1, Len(a)) = a
  <2>1. SubSeq(al \o rc, 1, Len(a)) = SubSeq(al, 1, Len(a))
    <3>1. Len(a) \in 0 .. Len(al)
      BY <1>1
    <3> QED BY <3>1, Seqs!PrefixLeft
  <2>2. SubSeq(a \o l, 1, Len(a)) = SubSeq(a, 1, Len(a))
    <3>1. Len(a) \in 0 .. Len(a)
      OBVIOUS
    <3> QED BY <3>1, Seqs!PrefixLeft
  <2>3. SubSeq(a, 1, Len(a)) = a
    OBVIOUS
  <2> QED BY <1>1, <1>3, <2>1, <2>2, <2>3
<1>6. SubSeq(t, Len(a) + Len(l) + 1, Len(t)) = rc
  <2>1. SubSeq(al \o rc, Len(al) + 1, Len(al \o rc)) = SubSeq(rc, 1, Len(rc))
    <3>1. 1 \in 1 .. Len(rc) + 1
      OBVIOUS
    <3> QED BY <3>1, Seqs!SuffixRight
  <2>2. SubSeq(rc, 1, Len(rc)) = rc
    OBVIOUS
  <2> QED BY <1>1, <1>3, <2>1, <2>2
<1>7. a \o rc = (a \o r) \o c
  BY <1>2, Seqs!Assoc, SMTT(60)
<1>8. Len(a \o rc) = Len(a) + Len(rc)
  BY ConcatIs
<1>9. Len(a) \in Nat /\ Len(l) \in Nat /\ Len(r) \in Nat /\ Len(c) \in Nat
  OBVIOUS
<1>10. Len(t) = Len(a) + Len(l) + Len(r) + Len(c)
  BY <1>1, <1>2, <1>4, <1>9
<1>11. SubSeq(t, 1, Len(a)) \o SubSeq(t, Len(a) + Len(l) + 1, Len(t)) = (a \o r) \o c
  BY <1>5, <1>6, <1>7
<1>12. Len((a \o r) \o c) = Len(a) + (Len(r) + Len(c))
  BY <1>2, <1>7, <1>8
<1>13. Len((a \o r) \o c) = Len(t) - Len(l)
  BY <1>9, <1>10, <1>12
<1> QED BY <1>10, <1>11, <1>13 DEF IsCut

(* What is taken from the piece the loop is on.                             *)
Takes(new, l, r) ==
  /\ Parts(it, new)
  /\ Bytes(add_buffer, pieces[it]) = l \o r
  /\ Flat(add_buffer, new) = r
  /\ Len(l) > 0 /\ Len(l) <= req.len
  /\ pieces' = Put(it, new)
  /\ total_length' = total_length - Len(l)
  /\ req' = [req EXCEPT !.len = @ - Len(l)]
  /\ UNCHANGED <<add_buffer, it>>

(* One round of the loop of erase.                                          *)
LEMMA Consumed ==
  ASSUME IInv, Consuming, NEW new, NEW l \in Seq(Char), NEW r \in Seq(Char),
         Takes(new, l, r)
  PROVE  /\ IInv' /\ req'.op = "erase" /\ req'.pos = req.pos /\ req'.str = req.str
         /\ req'.len = req.len - Len(l) /\ req' \in Call
         /\ Text \in Seq(Char) /\ Len(Text) = total_length
         /\ Len(l) \in 1 .. Len(Text) /\ Len(l) <= req.len
         /\ Text' = SubSeq(Text, 1, req.pos)
                       \o SubSeq(Text, req.pos + Len(l) + 1, Len(Text))
         /\ Len(Text') = Len(Text) - Len(l)
<1>1. /\ pieces \in Seq(Within(add_buffer)) /\ add_buffer \in Seq(Char)
      /\ Len(pieces) \in Nat /\ it \in 1 .. Len(pieces)
      /\ req \in Call /\ req.op = "erase" /\ req.pos \in Nat /\ req.len \in Nat
      /\ req.pos + req.len <= total_length /\ total_length \in Nat
      /\ total_length = Len(Text)
      /\ Len(Flat(add_buffer, SubSeq(pieces, 1, it - 1))) = req.pos
  <2>1. /\ pieces \in Seq(Within(add_buffer)) /\ add_buffer \in Seq(Char)
        /\ total_length \in Nat /\ total_length = Len(Text)
    BY TextIs DEF IInv, TypeOK
  <2>2. it \in 1 .. Len(pieces) /\ Len(pieces) \in Nat
    BY <2>1 DEF Consuming, IInv, TypeOK
  <2>3. /\ req.op = "erase" /\ req.pos + req.len <= total_length
        /\ Len(Flat(add_buffer, SubSeq(pieces, 1, it - 1))) = req.pos
    BY DEF IInv, Erasing, Consuming
  <2>4. req \in Call
    <3>1. req \in Call \cup {NoCall}
      BY DEF IInv, TypeOK
    <3>2. NoCall.op = "none"
      BY DEF NoCall
    <3> QED BY <2>3, <3>1, <3>2
  <2>5. req.pos \in Nat /\ req.len \in Nat
    BY <2>4 DEF Call
  <2> QED BY <2>1, <2>2, <2>3, <2>4, <2>5
<1> DEFINE list == PutIn(pieces, it, new)
<1>2. /\ list \in Seq(Within(add_buffer)) /\ Disjoint(list)
      /\ Len(list) = Len(pieces) - 1 + Len(new) /\ new \in Seq(Within(add_buffer))
  BY <1>1, PartsPut DEF Takes, Parts
<1>3. PICK a \in Seq(Char), c \in Seq(Char) :
        /\ a = Flat(add_buffer, SubSeq(pieces, 1, it - 1))
        /\ Text = (a \o Bytes(add_buffer, pieces[it])) \o c
        /\ \A n \in Seq(Within(add_buffer)) :
             Flat(add_buffer, PutIn(pieces, it, n)) = (a \o Flat(add_buffer, n)) \o c
  BY <1>1, Around
<1>4. Text = (a \o (l \o r)) \o c /\ Flat(add_buffer, list) = (a \o r) \o c
  BY <1>2, <1>3 DEF Takes
<1>5. /\ Text \in Seq(Char) /\ Len(Text) = Len(a) + Len(l) + Len(r) + Len(c)
      /\ SubSeq(Text, 1, Len(a)) \o SubSeq(Text, Len(a) + Len(l) + 1, Len(Text)) = (a \o r) \o c
      /\ Len((a \o r) \o c) = Len(Text) - Len(l)
  <2>0. l \in Seq(Char) /\ r \in Seq(Char) /\ a \in Seq(Char) /\ c \in Seq(Char)
    OBVIOUS
  <2>1. PICK t : t = (a \o (l \o r)) \o c
    OBVIOUS
  <2>2. IsCut(t, a, l, r, c)
    BY <2>0, <2>1, CutOut, Zenon
  <2>3. Text = t
    BY <1>4, <2>1
  <2>4. Text \in Seq(Char)
    BY <1>1, TextIs, FlatType
  <2> QED BY <2>2, <2>3, <2>4 DEF IsCut
<1>6. /\ pieces' = list /\ add_buffer' = add_buffer /\ it' = it
      /\ total_length' = total_length - Len(l)
  BY DEF Takes, Put, PutIn
<1>7. Text' = (a \o r) \o c
  <2>1. Text' = Flat(add_buffer', pieces')
    BY DEF Text, Flat, Characters, Bytes
  <2> QED BY <1>4, <1>6, <2>1
<1>8. /\ Len(l) \in Nat /\ Len(l) > 0 /\ Len(l) <= req.len /\ Len(a) = req.pos
      /\ Len(a) \in Nat /\ Len(r) \in Nat /\ Len(c) \in Nat
  BY <1>1, <1>3, SMTT(60) DEF Takes
<1>9. /\ req' \in Call /\ req'.op = "erase" /\ req'.pos = req.pos
      /\ req'.str = req.str /\ req'.len = req.len - Len(l)
  <2>1. req.len - Len(l) \in Nat
    BY <1>1, <1>8
  <2>2. req' = [req EXCEPT !.len = req.len - Len(l)]
    BY DEF Takes
  <2> QED BY <1>1, <2>1, <2>2 DEF Call
<1> HIDE DEF list
<1>10. total_length' = Len(Flat(add_buffer', pieces')) /\ total_length' \in Nat
  <2>1. total_length - Len(l) \in Nat
    BY <1>1, <1>8
  <2> QED BY <1>1, <1>4, <1>5, <1>6, <2>1
<1>11. pieces' \in Seq(Within(add_buffer')) /\ Disjoint(pieces')
  BY <1>2, <1>6
<1>12. TypeOK'
  <2>1. pieces' \in Seq(Piece)
    <3> DEFINE W == Within(add_buffer)
    <3>1. W \subseteq Piece /\ list \in Seq(W)
      BY <1>2 DEF Within
    <3> HIDE DEF W
    <3>2. list \in Seq(Piece)
      BY <3>1
    <3> QED BY <1>6, <3>2
  <2>2. it' \in 0 .. Len(pieces') + 1
    <3>1. Len(list) >= Len(pieces) - 1 /\ Len(list) \in Nat
      BY <1>1, <1>2, SMTT(60)
    <3> QED BY <1>1, <1>6, <3>1
  <2> QED BY <1>1, <1>6, <1>9, <1>10, <2>1, <2>2 DEF TypeOK
<1>13. Erasing'
  <2>1. SubSeq(list, 1, it - 1) = SubSeq(pieces, 1, it - 1)
    BY <1>1, <1>2, PutBegins DEF list
  <2>2. Len(Flat(add_buffer', SubSeq(pieces', 1, it' - 1))) = req'.pos
    BY <1>1, <1>6, <1>9, <2>1
  <2>3. req'.pos + req'.len <= total_length'
    BY <1>1, <1>6, <1>8, <1>9, SMTT(60)
  <2> QED BY <1>9, <2>2, <2>3 DEF Erasing
<1>14. IInv'
  BY <1>10, <1>11, <1>12, <1>13 DEF IInv
<1>15. Len(l) \in 1 .. Len(Text)
  BY <1>5, <1>8, SMTT(60)
<1> QED BY <1>1, <1>5, <1>7, <1>8, <1>9, <1>14, <1>15

(* A piece that is not longer than what is left to erase is taken whole.    *)
LEMMA WholeTakes ==
  ASSUME IInv, EraseWhole
  PROVE  /\ Consuming
         /\ \E new : \E l, r \in Seq(Char) : Takes(new, l, r)
<1>1. Consuming /\ it \in 1 .. Len(pieces)
  BY DEF EraseWhole, Consuming, IInv, TypeOK
<1> DEFINE p == pieces[it]
           l == Bytes(add_buffer, p)
<1>2. p \in Within(add_buffer) /\ add_buffer \in Seq(Char)
  BY <1>1 DEF IInv, TypeOK
<1>3. l \in Seq(Char) /\ Len(l) = p.length /\ p.length \in Nat \ {0}
  <2> HIDE DEF p
  <2> QED BY <1>2, WithinFacts
<1>4. << >> \in Seq(Char) /\ l = l \o << >>
  BY <1>3, ConcatEmptySeq
<1>5. Takes(<< >>, l, << >>)
  <2>1. p.length <= req.len
    BY DEF EraseWhole, ConsumedWhole
  <2>2. /\ pieces' = Put(it, << >>) /\ total_length' = total_length - Len(l)
        /\ req' = [req EXCEPT !.len = @ - Len(l)] /\ UNCHANGED <<add_buffer, it>>
    BY <1>3 DEF EraseWhole
  <2>3. Flat(add_buffer, << >>) = << >>
    BY FlatNone
  <2>4. Len(l) > 0 /\ Len(l) <= req.len
    BY <1>3, <2>1
  <2> QED BY <1>4, <2>2, <2>3, <2>4, NoParts DEF Takes
<1> QED BY <1>1, <1>3, <1>4, <1>5

(* Of a longer one the beginning is taken.                                  *)
LEMMA PartTakes ==
  ASSUME IInv, ErasePart
  PROVE  /\ Consuming
         /\ \E new : \E l, r \in Seq(Char) : Takes(new, l, r)
<1>1. Consuming /\ it \in 1 .. Len(pieces)
  BY DEF ErasePart, Consuming, IInv, TypeOK
<1> DEFINE p == pieces[it]
           n == req.len
           l == Bytes(add_buffer, Left(p, n))
           r == Bytes(add_buffer, Right(p, n))
<1>2. p \in Within(add_buffer) /\ add_buffer \in Seq(Char)
  BY <1>1 DEF IInv, TypeOK
<1>3. n \in Nat /\ 0 < n /\ n < p.length
  <2>1. req \in Call
    BY <1>1 DEF IInv, TypeOK, Erasing, Consuming, NoCall
  <2>2. n \in Nat
    BY <2>1 DEF Call
  <2>3. p.length \in Nat
    <3> HIDE DEF p
    <3> QED BY <1>2, WithinFacts
  <2> QED BY <1>1, <2>2, <2>3 DEF Consuming, ErasePart, ConsumedWhole
<1>4. Parts(it, << Right(p, n) >>)
  BY <1>1, <1>3, CutParts
<1> HIDE DEF p, n
<1>5. /\ Left(p, n) \in Within(add_buffer) /\ Right(p, n) \in Within(add_buffer)
      /\ Left(p, n).length = n /\ Bytes(add_buffer, p) = l \o r
  BY <1>2, <1>3, LeftRight
<1>6. l \in Seq(Char) /\ r \in Seq(Char) /\ Len(l) = n
  BY <1>2, <1>5, WithinFacts
<1>7. Flat(add_buffer, << Right(p, n) >>) = r
  BY <1>2, <1>5, FlatOne
<1>8. /\ pieces' = Put(it, << Right(p, n) >>) /\ total_length' = total_length - n
      /\ req' = [req EXCEPT !.len = 0] /\ UNCHANGED <<add_buffer, it>>
  BY DEF ErasePart, p, n
<1> HIDE DEF l, r
<1>9. req' = [req EXCEPT !.len = @ - Len(l)]
  <2>1. req.len - Len(l) = 0
    BY <1>3, <1>6 DEF n
  <2> QED BY <1>8, <2>1
<1>10. Takes(<< Right(p, n) >>, l, r)
  <2>1. Len(l) > 0 /\ Len(l) <= req.len
    BY <1>3, <1>6 DEF n
  <2> QED BY <1>4, <1>5, <1>6, <1>7, <1>8, <1>9, <2>1 DEF Takes, p
<1> QED BY <1>1, <1>6, <1>10

(* The piece in which an erase begins is cut in two, the text is not.       *)
LEMMA StartKeeps ==
  ASSUME IInv, EraseStart
  PROVE  /\ IInv' /\ Text' = Text /\ req \in Call /\ req' \in Call
         /\ req' = [req EXCEPT !.len = IF req.pos + @ > total_length
                                        THEN total_length - req.pos ELSE @]
<1>1. /\ pieces \in Seq(Within(add_buffer)) /\ add_buffer \in Seq(Char)
      /\ Len(pieces) \in Nat /\ total_length \in Nat
      /\ total_length = Len(Flat(add_buffer, pieces)) /\ Disjoint(pieces)
  BY DEF IInv, TypeOK
<1>2. req \in Call /\ req.pos \in Nat /\ req.len \in Nat /\ req.op = "erase"
  <2>1. req \in Call \cup {NoCall}
    BY DEF IInv, TypeOK
  <2>2. NoCall.op = "none"
    BY DEF NoCall
  <2>3. req \in Call /\ req.op = "erase"
    BY <2>1, <2>2 DEF EraseStart
  <2> QED BY <2>3 DEF Call
<1>3. PICK k : k = FirstPiece({j \in DOMAIN pieces : End(j) > req.pos})
  OBVIOUS
<1>4. req.pos < total_length /\ add_buffer' = add_buffer /\ total_length' = total_length
  BY DEF EraseStart
<1>5. k \in 1 .. Len(pieces) /\ Before[k] <= req.pos /\ req.pos < End(k)
  BY <1>2, <1>3, <1>4, Holding
<1>6. Before[k] \in Nat /\ End(k) = Before[k] + pieces[k].length
  <2>1. k \in 1 .. Len(pieces) + 1
    BY <1>1, <1>5
  <2> QED BY <1>5, <2>1, Ends
<1> DEFINE n == IF req.pos + req.len > total_length THEN total_length - req.pos ELSE req.len
<1>7. n \in Nat /\ req.pos + n <= total_length
  BY <1>1, <1>2, <1>4
<1>8. req' = [req EXCEPT !.len = n]
  BY DEF EraseStart
<1> HIDE DEF n
<1>9. req' \in Call /\ req'.op = "erase" /\ req'.pos = req.pos /\ req'.len = n
  BY <1>2, <1>7, <1>8 DEF Call
<1> DEFINE p == pieces[k]
           off == req.pos - Before[k]
           new == << Left(p, off), Right(p, off) >>
           list == PutIn(pieces, k, new)
<1>10. \/ off > 0 /\ pieces' = list /\ it' = k + 1
       \/ ~(off > 0) /\ pieces' = pieces /\ it' = k
  <2>1. LET j == FirstPiece({i \in DOMAIN pieces : End(i) > req.pos})
            o == req.pos - Before[j]
        IN  IF o > 0
              THEN /\ pieces' = Put(j, <<Left(pieces[j], o), Right(pieces[j], o)>>)
                   /\ it' = j + 1
              ELSE UNCHANGED pieces /\ it' = j
    BY DEF EraseStart
  <2> QED BY <1>3, <2>1 DEF Put, PutIn
<1> DEFINE Reached == /\ pieces' \in Seq(Within(add_buffer)) /\ Disjoint(pieces')
                      /\ Flat(add_buffer, pieces') = Flat(add_buffer, pieces)
                      /\ it' \in 1 .. Len(pieces')
                      /\ Len(Flat(add_buffer, SubSeq(pieces', 1, it' - 1))) = req.pos
<1>11. ASSUME ~(off > 0) /\ pieces' = pieces /\ it' = k PROVE Reached
  <2>1. Before[k] = req.pos
    BY <1>2, <1>5, <1>6, <1>11
  <2>2. Before[k] = Len(Flat(add_buffer, SubSeq(pieces, 1, k - 1)))
    <3>1. k \in 1 .. Len(pieces) + 1
      BY <1>1, <1>5
    <3> QED BY <3>1, BeforeIs
  <2>3. Reached
    BY <1>1, <1>5, <1>11, <2>1, <2>2
  <2> QED BY <2>3
<1>12. ASSUME off > 0 /\ pieces' = list /\ it' = k + 1 PROVE Reached
  <2>1. p \in Within(add_buffer)
    BY <1>1, <1>5
  <2>2. p.length \in Nat
    <3> HIDE DEF p
    <3> QED BY <1>1, <2>1, WithinFacts
  <2>3. off \in Nat /\ 0 < off /\ off < p.length
    BY <1>2, <1>5, <1>6, <1>12, <2>2
  <2> HIDE DEF off
  <2>4. Parts(k, new)
    BY <1>5, <2>3, CutParts
  <2>5. /\ list \in Seq(Within(add_buffer)) /\ Disjoint(list)
        /\ Len(list) = Len(pieces) - 1 + Len(new) /\ new \in Seq(Within(add_buffer))
    BY <1>5, <2>4, PartsPut DEF Parts
  <2>6. Len(list) = Len(pieces) + 1
    BY <1>1, <2>5
  <2> DEFINE u == Left(p, off)
             v == Right(p, off)
  <2>7. /\ u \in Within(add_buffer) /\ v \in Within(add_buffer) /\ u.length = off
        /\ Bytes(add_buffer, p) = Bytes(add_buffer, u) \o Bytes(add_buffer, v)
    <3> HIDE DEF p
    <3> QED BY <1>1, <2>1, <2>3, LeftRight
  <2>8. Bytes(add_buffer, u) \in Seq(Char) /\ Len(Bytes(add_buffer, u)) = off
    <3> HIDE DEF u
    <3> QED BY <1>1, <2>7, WithinFacts
  <2>9. Flat(add_buffer, new) = Bytes(add_buffer, p)
    <3> HIDE DEF u, v
    <3>1. Flat(add_buffer, << u, v >>) = Bytes(add_buffer, u) \o Bytes(add_buffer, v)
      BY <1>1, <2>7, FlatTwo
    <3> QED BY <2>7, <3>1 DEF u, v
  <2>10. Flat(add_buffer, list) = Flat(add_buffer, pieces)
    <3> HIDE DEF new
    <3>1. PICK a \in Seq(Char), c \in Seq(Char) :
            /\ Text = (a \o Bytes(add_buffer, pieces[k])) \o c
            /\ \A m \in Seq(Within(add_buffer)) :
                 Flat(add_buffer, PutIn(pieces, k, m)) = (a \o Flat(add_buffer, m)) \o c
      BY <1>5, Around
    <3>2. Flat(add_buffer, PutIn(pieces, k, new)) = (a \o Flat(add_buffer, new)) \o c
      BY <2>5, <3>1
    <3> QED BY <2>9, <3>1, <3>2, TextIs
  <2>11. SubSeq(list, 1, k - 1) = SubSeq(pieces, 1, k - 1) /\ list[k] = u
    <3>1. SubSeq(list, 1, k - 1) = SubSeq(pieces, 1, k - 1)
      BY <1>1, <1>5, <2>5, PutBegins
    <3>2. k \in 1 .. Len(list) /\ ~(k < k) /\ k < k + Len(new) /\ k + 1 - k = 1
      BY <1>1, <1>5, <2>6
    <3>3. list[k] = new[1]
      <4> HIDE DEF new
      <4>1. \A i \in 1 .. Len(list) :
              list[i] = IF i < k THEN pieces[i]
                        ELSE IF i < k + Len(new) THEN new[i + 1 - k]
                        ELSE pieces[i + 1 - Len(new)]
        BY <1>1, <1>5, <2>5, PutMembers
      <4> HIDE DEF list
      <4> QED BY <3>2, <4>1
    <3> QED BY <3>1, <3>3
  <2>12. Len(Flat(add_buffer, SubSeq(list, 1, k))) = req.pos
    <3> HIDE DEF list, u
    <3>1. k \in 1 .. Len(list)
      BY <1>1, <1>5, <2>6
    <3>2. /\ Flat(add_buffer, SubSeq(list, 1, k - 1)) \in Seq(Char)
          /\ Flat(add_buffer, SubSeq(list, 1, k)) =
               Flat(add_buffer, SubSeq(list, 1, k - 1)) \o Bytes(add_buffer, list[k])
      BY <1>1, <2>5, <3>1, FlatAround
    <3>3. Len(Flat(add_buffer, SubSeq(list, 1, k))) =
            Len(Flat(add_buffer, SubSeq(pieces, 1, k - 1))) + off
      <4>1. PICK y \in Seq(Char) : y = Flat(add_buffer, SubSeq(list, 1, k - 1))
        BY <3>2
      <4>2. PICK z \in Seq(Char) : z = Bytes(add_buffer, u)
        BY <2>8
      <4>3. Flat(add_buffer, SubSeq(list, 1, k)) = y \o z
        BY <2>11, <3>2, <4>1, <4>2
      <4>4. Len(y \o z) = Len(y) + Len(z)
        OBVIOUS
      <4>5. Len(z) = off
        BY <2>8, <4>2
      <4>6. y = Flat(add_buffer, SubSeq(pieces, 1, k - 1))
        BY <2>11, <4>1
      <4> QED BY <4>3, <4>4, <4>5, <4>6
    <3>4. Before[k] = Len(Flat(add_buffer, SubSeq(pieces, 1, k - 1)))
      <4>1. k \in 1 .. Len(pieces) + 1
        BY <1>1, <1>5
      <4> QED BY <4>1, BeforeIs
    <3>5. PICK x : x = Flat(add_buffer, SubSeq(list, 1, k))
      OBVIOUS
    <3>6. PICK y : y = Flat(add_buffer, SubSeq(pieces, 1, k - 1))
      OBVIOUS
    <3>7. Len(x) = Len(y) + off /\ Before[k] = Len(y) /\ off = req.pos - Before[k]
      BY <3>3, <3>4, <3>5, <3>6 DEF off
    <3>8. PICK b : b = Before[k]
      OBVIOUS
    <3>9. b \in Nat
      BY <1>6, <3>8
    <3>10. Len(x) = b + (req.pos - b)
      BY <3>7, <3>8
    <3>11. Len(x) = req.pos
      BY <1>2, <3>9, <3>10
    <3> QED BY <3>5, <3>11
  <2> HIDE DEF list
  <2>13. Reached
    <3>1. (k + 1) - 1 = k /\ k + 1 \in 1 .. Len(list)
      BY <1>1, <1>5, <2>6
    <3> QED BY <1>12, <2>5, <2>10, <2>12, <3>1
  <2> QED BY <2>13
<1>13. Reached
  BY <1>10, <1>11, <1>12
<1>14. Text' = Text
  <2>1. Text' = Flat(add_buffer', pieces')
    BY DEF Text, Flat, Characters, Bytes
  <2> QED BY <1>4, <1>13, <2>1, TextIs
<1>15. TypeOK'
  <2>1. pieces' \in Seq(Piece)
    <3> DEFINE W == Within(add_buffer)
    <3>1. W \subseteq Piece /\ pieces' \in Seq(W)
      BY <1>13 DEF Within
    <3> HIDE DEF W
    <3> QED BY <3>1
  <2>2. it' \in 0 .. Len(pieces') + 1
    BY <1>13
  <2> QED BY <1>1, <1>4, <1>9, <2>1, <2>2 DEF TypeOK
<1>16. Erasing'
  BY <1>4, <1>7, <1>9, <1>13 DEF Erasing
<1>17. IInv'
  BY <1>1, <1>4, <1>13, <1>15, <1>16 DEF IInv
<1> QED BY <1>2, <1>8, <1>9, <1>14, <1>17 DEF n


-----------------------------------------------------------------------------
(***************************************************************************)
(* The invariant, for every reachable state.                               *)
(***************************************************************************)
(* The table begins without a piece.                                        *)
LEMMA InitHolds ==
  ASSUME Init
  PROVE  IInv /\ Text = << >> /\ req = NoCall
<1>1. /\ add_buffer = << >> /\ pieces = << >> /\ total_length = 0 /\ req = NoCall
      /\ it = 0
  BY DEF Init
<1>2. Flat(add_buffer, pieces) = << >>
  BY <1>1, FlatNone
<1>3. << >> \in Seq(Char) /\ << >> \in Seq(Piece) /\ Len(<< >>) = 0
  OBVIOUS
<1>4. << >> \in Seq(Within(add_buffer))
  OBVIOUS
<1>5. Disjoint(<< >>)
  BY DEF Disjoint
<1>6. TypeOK
  BY <1>1, <1>3 DEF TypeOK
<1>7. Erasing
  BY <1>1 DEF Erasing
<1> QED BY <1>1, <1>2, <1>3, <1>4, <1>5, <1>6, <1>7, TextIs DEF IInv

(* A step that only takes or ends a call leaves the table as it is.         *)
LEMMA RequestKeeps ==
  ASSUME IInv, UNCHANGED <<add_buffer, pieces, total_length>>,
         req' \in Call \cup {NoCall}, it' = 0
  PROVE  IInv' /\ Text' = Text
<1>1. /\ add_buffer' = add_buffer /\ pieces' = pieces /\ total_length' = total_length
  OBVIOUS
<1>2. Text' = Text
  BY <1>1 DEF Text, Characters
<1>3. 0 \in 0 .. Len(pieces) + 1
  BY DEF IInv, TypeOK
<1>4. TypeOK'
  BY <1>1, <1>3 DEF IInv, TypeOK
<1>5. Erasing'
  BY DEF Erasing
<1> QED BY <1>1, <1>2, <1>4, <1>5 DEF IInv

(* A call comes only outside the loop of erase.                             *)
LEMMA CallKeeps ==
  ASSUME IInv, CallInsert \/ CallErase
  PROVE  IInv' /\ Text' = Text /\ req = NoCall /\ req' \in Call /\ it = 0 /\ it' = 0
<1>1. total_length \in Nat /\ req = NoCall
  BY DEF IInv, TypeOK, CallInsert, CallErase
<1>2. it = 0
  <2>1. req.op # "erase" /\ it \in Int
    BY <1>1 DEF NoCall, IInv, TypeOK
  <2>2. ~(it > 0)
    BY <2>1 DEF IInv, Erasing
  <2>3. it \in 0 .. Len(pieces) + 1
    BY DEF IInv, TypeOK
  <2> QED BY <2>2, <2>3
<1>3. ASSUME NEW p \in 0 .. total_length + 1 PROVE p \in Nat
  BY <1>1
<1>4. req' \in Call
  <2>1. CASE CallInsert
    <3>1. PICK s \in Inputs, p \in 0 .. total_length + 1 :
            req' = [op |-> "insert", pos |-> p, str |-> s, len |-> 0]
      BY <2>1 DEF CallInsert
    <3>2. s \in Seq(Char) /\ p \in Nat
      BY <1>3, PieceTableAssumption
    <3> QED BY <3>1, <3>2 DEF Call
  <2>2. CASE CallErase
    <3>1. PICK n \in EraseLens, p \in 0 .. total_length + 1 :
            req' = [op |-> "erase", pos |-> p, str |-> << >>, len |-> n]
      BY <2>2 DEF CallErase
    <3>2. n \in Nat /\ p \in Nat /\ << >> \in Seq(Char)
      BY <1>3, PieceTableAssumption
    <3> QED BY <3>1, <3>2 DEF Call
  <2> QED BY <2>1, <2>2
<1>5. UNCHANGED <<add_buffer, pieces, total_length, it>>
  BY DEF CallInsert, CallErase
<1> QED BY <1>1, <1>2, <1>4, <1>5, RequestKeeps

(* A call is an insertion only outside the loop of erase.                   *)
LEMMA OutsideLoop ==
  ASSUME IInv, req.op = "insert"
  PROVE  it = 0 /\ req \in Call
<1>1. ~(it > 0)
  BY DEF IInv, Erasing
<1>2. it \in 0 .. Len(pieces) + 1 /\ req \in Call \cup {NoCall}
  BY DEF IInv, TypeOK
<1>3. NoCall.op = "none"
  BY DEF NoCall
<1> QED BY <1>1, <1>2, <1>3

(* An erase is always part of a call.                                       *)
LEMMA ErasesInCall ==
  ASSUME IInv, req.op = "erase"
  PROVE  req \in Call
<1>1. req \in Call \cup {NoCall}
  BY DEF IInv, TypeOK
<1>2. NoCall.op = "none"
  BY DEF NoCall
<1> QED BY <1>1, <1>2

(* Calls that end without a change of the text.                             *)
LEMMA NothingDone ==
  ASSUME IInv, InsertEmpty \/ EraseIgnored \/ EraseDone
  PROVE  IInv' /\ Text' = Text /\ req' = NoCall
<1>1. UNCHANGED <<add_buffer, pieces, total_length>> /\ req' = NoCall
  BY DEF InsertEmpty, EraseIgnored, EraseDone
<1>2. it' = 0
  BY OutsideLoop DEF InsertEmpty, EraseIgnored, EraseDone
<1> QED BY <1>1, <1>2, RequestKeeps

(* The rounds of the loop keep the invariant.                               *)
LEMMA EraseKeeps ==
  ASSUME IInv, EraseWhole \/ ErasePart
  PROVE  IInv'
<1>1. Consuming /\ \E new : \E l, r \in Seq(Char) : Takes(new, l, r)
  BY WholeTakes, PartTakes
<1>2. PICK new : \E l, r \in Seq(Char) : Takes(new, l, r)
  BY <1>1
<1>3. PICK l \in Seq(Char), r \in Seq(Char) : Takes(new, l, r)
  BY <1>2
<1> QED BY <1>1, <1>3, Consumed

(* IInv is an invariant: what TypeOK and PiecesApart say, that the size is  *)
(* the length of the text, and where the loop of erase stands.              *)
THEOREM Inductive == Spec => []IInv
<1>1. Init => IInv
  BY InitHolds
<1>2. IInv /\ [Next]_vars => IInv'
  <2>1. ASSUME IInv, UNCHANGED vars PROVE IInv'
    <3>1. /\ add_buffer' = add_buffer /\ pieces' = pieces
          /\ total_length' = total_length /\ req' = req /\ it' = it
      BY <2>1 DEF vars
    <3>2. TypeOK' /\ Erasing'
      BY <2>1, <3>1 DEF IInv, TypeOK, Erasing
    <3> QED BY <2>1, <3>1, <3>2 DEF IInv
  <2>2. ASSUME IInv, Next PROVE IInv'
    <3>1. CASE CallInsert \/ CallErase
      BY <2>2, <3>1, CallKeeps
    <3>2. CASE InsertEmpty \/ EraseIgnored \/ EraseDone
      BY <2>2, <3>2, NothingDone
    <3>3. CASE InsertAppends
      BY <2>2, <3>3, AppendsKeeps
    <3>4. CASE InsertInside \/ InsertInFront \/ InsertBehind
      BY <2>2, <3>4, InsideKeeps, InFrontKeeps, BehindKeeps
    <3>5. CASE EraseStart
      BY <2>2, <3>5, StartKeeps
    <3>6. CASE EraseWhole \/ ErasePart
      BY <2>2, <3>6, EraseKeeps
    <3> QED BY <2>2, <3>1, <3>2, <3>3, <3>4, <3>5, <3>6 DEF Next
  <2> QED BY <2>1, <2>2
<1> QED BY <1>1, <1>2, PTL DEF Spec

(* No piece of the list is ever empty and the loop of erase stands on a     *)
(* piece or at the end of the list (Baselines.hpp:180-218), for every       *)
(* sequence of calls.                                                       *)
THEOREM TypeCorrect == Spec => []TypeOK
<1>1. IInv => TypeOK
  BY DEF IInv
<1> QED BY <1>1, Inductive, PTL

(* However often pieces are split, each lies in add_buffer and no byte of   *)
(* it belongs to two of them, so no character appears twice.                *)
THEOREM PiecesStayApart == Spec => []PiecesApart
<1>1. IInv => PiecesApart
  <2> SUFFICES ASSUME IInv PROVE PiecesApart
    OBVIOUS
  <2>1. /\ pieces \in Seq(Within(add_buffer)) /\ Disjoint(pieces)
        /\ add_buffer \in Seq(Char) /\ Len(pieces) \in Nat
    BY DEF IInv, TypeOK
  <2>2. ASSUME NEW k \in 1 .. Len(pieces)
        PROVE  /\ pieces[k].start \in Nat /\ pieces[k].length \in Nat
               /\ pieces[k].start + pieces[k].length <= Len(add_buffer)
    <3>1. pieces[k] \in Within(add_buffer)
      BY <2>1
    <3> QED BY <2>1, <3>1, WithinFacts
  <2>3. ASSUME NEW k \in 1 .. Len(pieces)
        PROVE  pieces[k].start + 1 .. pieces[k].start + pieces[k].length
                 \subseteq 1 .. Len(add_buffer)
    BY <2>1, <2>2
  <2>4. ASSUME NEW k \in 1 .. Len(pieces), NEW j \in 1 .. k - 1
        PROVE  (pieces[j].start + 1 .. pieces[j].start + pieces[j].length)
                 \cap (pieces[k].start + 1 .. pieces[k].start + pieces[k].length) = {}
    <3>1. j \in 1 .. Len(pieces) /\ j # k
      BY <2>1
    <3>2. Distinct(pieces[j], pieces[k])
      BY <2>1, <3>1 DEF Disjoint
    <3>3. PICK x \in Nat, m \in Nat : x = pieces[j].start /\ m = pieces[j].length
      BY <2>2, <3>1
    <3>4. PICK y \in Nat, n \in Nat : y = pieces[k].start /\ n = pieces[k].length
      BY <2>2
    <3>5. x + m <= y \/ y + n <= x
      BY <3>2, <3>3, <3>4 DEF Distinct
    <3>6. (x + 1 .. x + m) \cap (y + 1 .. y + n) = {}
      BY <3>5
    <3> QED BY <3>3, <3>4, <3>6
  <2> QED BY <2>3, <2>4 DEF PiecesApart
<1> QED BY <1>1, Inductive, PTL

(* A character in the middle of three sequences.                            *)
LEMMA ElementIn ==
  ASSUME NEW Sort, NEW a \in Seq(Sort), NEW m \in Seq(Sort), NEW c \in Seq(Sort),
         NEW j \in 1 .. Len(m)
  PROVE  ((a \o m) \o c)[Len(a) + j] = m[j]
<1>1. PICK am \in Seq(Sort) : am = a \o m /\ Len(am) = Len(a) + Len(m)
  BY ConcatIs
<1>2. Len(a) \in Nat /\ Len(m) \in Nat /\ j \in Nat /\ 1 <= j /\ j <= Len(m)
  OBVIOUS
<1>3. Len(a) + j \in 1 .. Len(am)
  BY <1>1, <1>2
<1>4. (am \o c)[Len(a) + j] = am[Len(a) + j]
  BY <1>3, ConcatIs
<1>5. (a \o m)[Len(a) + j] = m[j]
  BY ConcatIs
<1> QED BY <1>1, <1>4, <1>5

(* at() finds the character that scan() emits there, in the piece its walk  *)
(* over the list stops at.                                                  *)
LEMMA AtIsText ==
  ASSUME IInv, NEW i \in 0 .. total_length - 1
  PROVE  At(i) = Text[i + 1]
<1>1. /\ pieces \in Seq(Within(add_buffer)) /\ add_buffer \in Seq(Char)
      /\ Len(pieces) \in Nat /\ total_length \in Nat
  BY DEF IInv, TypeOK
<1>2. i \in Nat /\ i < total_length
  BY <1>1
<1>3. PICK k : k = FirstPiece({j \in DOMAIN pieces : End(j) > i})
  OBVIOUS
<1>4. k \in 1 .. Len(pieces) /\ Before[k] <= i /\ i < End(k)
  BY <1>2, <1>3, Holding
<1>5. Before[k] \in Nat /\ End(k) = Before[k] + pieces[k].length
  <2>1. k \in 1 .. Len(pieces) + 1
    BY <1>1, <1>4
  <2> QED BY <1>4, <2>1, Ends
<1>6. At(i) = add_buffer[pieces[k].start + (i - Before[k]) + 1]
  BY <1>3 DEF At
<1>7. PICK p \in Within(add_buffer) : p = pieces[k]
  BY <1>1, <1>4
<1>8. PICK b \in Nat : b = Before[k]
  BY <1>5
<1>9. PICK s \in Nat, n \in Nat \ {0} : s = p.start /\ n = p.length
  BY <1>1, <1>7, WithinFacts
<1>10. b <= i /\ i < b + n
  BY <1>4, <1>5, <1>7, <1>8, <1>9
<1>11. PICK j \in 1 .. n : j = i - b + 1
  BY <1>2, <1>10
<1>12. b + j = i + 1 /\ s + (i - b) + 1 = s + j
  BY <1>2, <1>11
<1>13. PICK a \in Seq(Char), c \in Seq(Char) :
         Len(a) = b /\ Text = (a \o Bytes(add_buffer, p)) \o c
  BY <1>4, <1>7, <1>8, Around
<1>14. PICK m \in Seq(Char) : m = Bytes(add_buffer, p) /\ Len(m) = n
  BY <1>1, <1>9, WithinFacts
<1>15. m[j] = add_buffer[s + j]
  BY <1>1, <1>9, <1>14, WithinFacts
<1>16. ((a \o m) \o c)[Len(a) + j] = m[j]
  BY <1>14, ElementIn
<1>17. Text[i + 1] = m[j]
  BY <1>12, <1>13, <1>14, <1>16
<1>18. At(i) = add_buffer[s + j]
  BY <1>6, <1>7, <1>8, <1>9, <1>12
<1> QED BY <1>15, <1>17, <1>18

(* The size reported is the length of the text, and at() and scan() agree   *)
(* on every character, also between two rounds of the loop of erase.        *)
THEOREM ReadersAgree == Spec => []ReadsAgree
<1>1. IInv => ReadsAgree
  <2> SUFFICES ASSUME IInv PROVE ReadsAgree
    OBVIOUS
  <2>1. total_length = Len(Text)
    BY TextIs DEF IInv
  <2>2. \A i \in 0 .. total_length - 1 : At(i) = Text[i + 1]
    BY AtIsText
  <2> QED BY <2>1, <2>2 DEF ReadsAgree
<1> QED BY <1>1, Inductive, PTL

-----------------------------------------------------------------------------
(***************************************************************************)
(* The refinement of TextBuffer.                                           *)
(***************************************************************************)
(* The length an observer sees an erase to have: cut at the end of the text.*)
Cut == IF req.pos + req.len > Len(Text)
         THEN IF req.pos < Len(Text) THEN Len(Text) - req.pos ELSE 0
         ELSE req.len

(* What an observer sees of a call under way, and of its end.               *)
Mapped == IInv => /\ req = NoCall => AbsReq = Abs!NoRequest
                  /\ req \in Call => /\ AbsReq \in Abs!Request
                                     /\ AbsReq = [req EXCEPT !.len = Cut]

(* It holds of every state, the hypothesis IInv being inside.               *)
LEMMA MappedNow == Mapped
<1> SUFFICES ASSUME IInv PROVE /\ req = NoCall => AbsReq = Abs!NoRequest
                               /\ req \in Call => /\ AbsReq \in Abs!Request
                                                  /\ AbsReq = [req EXCEPT !.len = Cut]
  BY DEF Mapped
<1>1. PICK n \in Nat : n = Len(Text)
  BY TextIs DEF IInv, TypeOK
<1>2. AbsReq = [req EXCEPT !.len = IF req.pos + req.len > n
                                     THEN IF req.pos < n THEN n - req.pos ELSE 0
                                     ELSE req.len]
  BY <1>1 DEF AbsReq
<1>3. ASSUME req = NoCall PROVE AbsReq = Abs!NoRequest
  <2>1. ~(NoCall.pos + NoCall.len > n)
    BY <1>1 DEF NoCall
  <2>2. AbsReq = [NoCall EXCEPT !.len = NoCall.len]
    BY <1>2, <1>3, <2>1
  <2> QED BY <2>2 DEF NoCall, Abs!NoRequest
<1>4. ASSUME req \in Call
      PROVE  AbsReq \in Abs!Request /\ AbsReq = [req EXCEPT !.len = Cut]
  <2>1. PICK p \in Nat, l \in Nat : p = req.pos /\ l = req.len
    BY <1>4 DEF Call
  <2>2. PICK m \in Nat : m = IF p + l > n THEN IF p < n THEN n - p ELSE 0 ELSE l
    BY <1>1, <2>1
  <2>3. AbsReq = [req EXCEPT !.len = m]
    BY <1>2, <2>1, <2>2
  <2>4. AbsReq \in Abs!Request
    BY <1>4, <2>3 DEF Call, Abs!Request
  <2>5. m = Cut
    BY <1>1, <2>1, <2>2 DEF Cut
  <2> QED BY <2>3, <2>4, <2>5
<1> QED BY <1>3, <1>4

(* The same of the state after a step.                                      *)
LEMMA MappedThen == Mapped'
<1>1. Mapped
  BY MappedNow
<1> QED BY <1>1, PTL

(* What the abstract steps ask of a call under way.                         *)
LEMMA Requests ==
  ASSUME IInv, req \in Call
  PROVE  /\ AbsReq.pos = req.pos /\ AbsReq.str = req.str /\ AbsReq.op = req.op
         /\ AbsReq.len = Cut /\ Text \in Seq(Char) /\ Len(Text) = total_length
         /\ req.pos \in Nat /\ req.len \in Nat /\ req.str \in Seq(Char)
<1>1. AbsReq = [req EXCEPT !.len = Cut]
  BY MappedNow DEF Mapped
<1>2. AbsReq.pos = req.pos /\ AbsReq.str = req.str /\ AbsReq.op = req.op /\ AbsReq.len = Cut
  BY <1>1 DEF Call
<1>3. Text \in Seq(Char) /\ Len(Text) = total_length
  BY TextIs, FlatType DEF IInv, TypeOK
<1> QED BY <1>2, <1>3 DEF Call

(* The empty text and no request.                                           *)
LEMMA InitImplements ==
  ASSUME Init
  PROVE  Abs!Init
<1>1. IInv /\ Text = << >> /\ req = NoCall
  BY InitHolds
<1>2. AbsReq = Abs!NoRequest
  BY <1>1, MappedNow DEF Mapped
<1> QED BY <1>1, <1>2 DEF Abs!Init

(* A call is invoked.                                                       *)
LEMMA CallImplements ==
  ASSUME IInv, CallInsert \/ CallErase
  PROVE  Abs!Next
<1>1. IInv' /\ Text' = Text /\ req' \in Call /\ req = NoCall
  BY CallKeeps
<1>2. AbsReq = Abs!NoRequest /\ AbsReq' \in Abs!Request
  BY <1>1, MappedNow, MappedThen DEF Mapped
<1> QED BY <1>1, <1>2 DEF Abs!Next, Abs!Invoke

(* An insertion in the text, where it is known to be in two parts.          *)
LEMMA InsertsBetween ==
  ASSUME IInv, req \in Call, req.op = "insert", IInv', req' = NoCall,
         NEW a \in Seq(Char), NEW b \in Seq(Char), Text = a \o b,
         Text' = (a \o req.str) \o b, Len(a) = req.pos
  PROVE  Abs!Next
<1>1. AbsReq' = Abs!NoRequest
  BY MappedThen DEF Mapped
<1>2. /\ AbsReq.pos = req.pos /\ AbsReq.str = req.str /\ AbsReq.op = "insert"
  BY Requests
<1>3. Len(a) \in Nat /\ Len(b) \in Nat /\ Len(a \o b) = Len(a) + Len(b)
  BY ConcatIs
<1>4. SubSeq(a \o b, 1, Len(a)) = a
  <2>1. Len(a) \in 0 .. Len(a)
    BY <1>3
  <2>2. SubSeq(a \o b, 1, Len(a)) = SubSeq(a, 1, Len(a))
    BY <2>1, Seqs!PrefixLeft
  <2>3. SubSeq(a, 1, Len(a)) = a
    OBVIOUS
  <2> QED BY <2>2, <2>3
<1>5. SubSeq(a \o b, Len(a) + 1, Len(a \o b)) = b
  <2>1. 1 \in 1 .. Len(b) + 1
    BY <1>3
  <2>2. SubSeq(a \o b, Len(a) + 1, Len(a \o b)) = SubSeq(b, 1, Len(b))
    BY <2>1, Seqs!SuffixRight
  <2>3. SubSeq(b, 1, Len(b)) = b
    OBVIOUS
  <2> QED BY <2>2, <2>3
<1>6. Text' = Abs!StringInsert(Text, AbsReq.pos, AbsReq.str)
  BY <1>2, <1>4, <1>5 DEF Abs!StringInsert
<1>7. AbsReq.pos <= Len(Text)
  BY <1>2, <1>3
<1> QED BY <1>1, <1>2, <1>6, <1>7 DEF Abs!Next, Abs!Insert

(* An insertion is one at its position, or at the end.                      *)
LEMMA InsertImplements ==
  ASSUME IInv, InsertInside \/ InsertInFront \/ InsertBehind
  PROVE  Abs!Next
<1>1. req.op = "insert" /\ req \in Call
  BY OutsideLoop DEF InsertInside, InsertInFront, InsertBehind, Inserting
<1>2. /\ IInv' /\ req' = NoCall
      /\ \E a \in Seq(Char), b \in Seq(Char) :
           Text = a \o b /\ Text' = (a \o req.str) \o b /\ Len(a) = req.pos
  BY InsideKeeps, InFrontKeeps, BehindKeeps
<1>3. PICK a \in Seq(Char), b \in Seq(Char) :
        Text = a \o b /\ Text' = (a \o req.str) \o b /\ Len(a) = req.pos
  BY <1>2
<1> QED BY <1>1, <1>2, <1>3, InsertsBetween

(* A new piece at the end of the list is an insertion at the end.           *)
LEMMA AppendsImplements ==
  ASSUME IInv, InsertAppends
  PROVE  Abs!Next
<1>1. req.op = "insert" /\ req \in Call
  BY OutsideLoop DEF InsertAppends, Inserting
<1>2. /\ IInv' /\ req' = NoCall /\ req.pos >= Len(Text) /\ Text \in Seq(Char)
      /\ Text' = Text \o req.str
  BY <1>1, AppendsKeeps, Requests
<1>3. /\ req.pos \in Nat /\ req.str \in Seq(Char) /\ AbsReq.pos = req.pos
      /\ AbsReq.str = req.str /\ AbsReq.op = "insert" /\ Len(Text) \in Nat
  BY <1>1, Requests
<1>4. CASE req.pos = Len(Text)
  <2>1. << >> \in Seq(Char) /\ Text = Text \o << >>
    BY <1>2
  <2>2. Text \o req.str \in Seq(Char)
    BY <1>2, <1>3
  <2>3. Text' = (Text \o req.str) \o << >>
    BY <1>2, <2>2
  <2> QED BY <1>1, <1>2, <1>4, <2>1, <2>3, InsertsBetween
<1>5. CASE req.pos > Len(Text)
  <2>1. AbsReq' = Abs!NoRequest
    BY <1>2, MappedThen DEF Mapped
  <2> QED BY <1>2, <1>3, <1>5, <2>1 DEF Abs!Next, Abs!InsertBeyondEnd
<1> QED BY <1>2, <1>3, <1>4, <1>5

(* Nothing to insert.                                                       *)
LEMMA EmptyImplements ==
  ASSUME IInv, InsertEmpty
  PROVE  Abs!Next
<1>1. req.op = "insert" /\ req \in Call /\ req.str = << >>
  BY OutsideLoop DEF InsertEmpty
<1>2. IInv' /\ Text' = Text /\ req' = NoCall
  BY NothingDone
<1>3. /\ req.pos \in Nat /\ AbsReq.pos = req.pos /\ AbsReq.str = << >>
      /\ AbsReq.op = "insert" /\ Text \in Seq(Char)
  BY <1>1, Requests
<1>4. AbsReq' = Abs!NoRequest
  BY <1>2, MappedThen DEF Mapped
<1>5. CASE req.pos <= Len(Text)
  <2>1. PICK t \in Seq(Char), p \in Nat : t = Text /\ p = req.pos /\ p \in 0 .. Len(t)
    BY <1>3, <1>5
  <2>2. t = SubSeq(t, 1, p) \o SubSeq(t, p + 1, Len(t))
    BY <2>1, Seqs!SeqParts
  <2>3. SubSeq(t, 1, p) \in Seq(Char)
    BY <2>1, Seqs!SeqParts
  <2>4. SubSeq(t, 1, p) \o << >> = SubSeq(t, 1, p)
    BY <2>3
  <2>5. t = (SubSeq(t, 1, p) \o << >>) \o SubSeq(t, p + 1, Len(t))
    BY <2>2, <2>4
  <2>6. Text' = Abs!StringInsert(Text, AbsReq.pos, AbsReq.str)
    BY <1>2, <1>3, <2>1, <2>5 DEF Abs!StringInsert
  <2> QED BY <1>3, <1>4, <1>5, <2>6 DEF Abs!Next, Abs!Insert
<1>6. CASE req.pos > Len(Text)
  <2>1. Text \o << >> = Text
    BY <1>3
  <2> QED BY <1>2, <1>3, <1>4, <1>6, <2>1 DEF Abs!Next, Abs!InsertBeyondEnd
<1> QED BY <1>3, <1>5, <1>6

(* An erase that finds nothing to take away.                                *)
LEMMA NothingErased ==
  ASSUME IInv, req \in Call, req.op = "erase", Cut = 0, req.pos <= Len(Text),
         IInv', Text' = Text, req' = NoCall
  PROVE  Abs!Next
<1>1. AbsReq' = Abs!NoRequest
  BY MappedThen DEF Mapped
<1>2. /\ AbsReq.pos = req.pos /\ AbsReq.op = "erase" /\ AbsReq.len = 0
      /\ req.pos \in Nat /\ Text \in Seq(Char)
  BY Requests
<1>3. PICK t \in Seq(Char), p \in Nat : t = Text /\ p = req.pos /\ p \in 0 .. Len(t)
  BY <1>2
<1>4. t = SubSeq(t, 1, p) \o SubSeq(t, p + 0 + 1, Len(t))
  <2>1. t = SubSeq(t, 1, p) \o SubSeq(t, p + 1, Len(t))
    BY <1>3, Seqs!SeqParts
  <2>2. p + 0 + 1 = p + 1
    OBVIOUS
  <2> QED BY <2>1, <2>2
<1>5. Text' = Abs!StringErase(Text, AbsReq.pos, AbsReq.len)
  BY <1>2, <1>3, <1>4 DEF Abs!StringErase
<1> QED BY <1>1, <1>2, <1>5 DEF Abs!Next, Abs!Erase

(* An erase of nothing, or at or beyond the end.                            *)
LEMMA IgnoredImplements ==
  ASSUME IInv, EraseIgnored
  PROVE  Abs!Next
<1>1. req.op = "erase" /\ req \in Call
  BY ErasesInCall DEF EraseIgnored
<1>2. IInv' /\ Text' = Text /\ req' = NoCall
  BY NothingDone
<1>3. /\ req.pos \in Nat /\ req.len \in Nat /\ AbsReq.op = "erase"
      /\ AbsReq.pos = req.pos /\ Len(Text) = total_length /\ Len(Text) \in Nat
  BY <1>1, Requests
<1>4. req.pos >= Len(Text) \/ req.len = 0
  BY <1>3 DEF EraseIgnored
<1>5. CASE req.pos <= Len(Text)
  <2>1. Cut = 0
    BY <1>3, <1>4, <1>5 DEF Cut
  <2> QED BY <1>1, <1>2, <1>5, <2>1, NothingErased
<1>6. CASE req.pos > Len(Text)
  <2>1. AbsReq' = Abs!NoRequest
    BY <1>2, MappedThen DEF Mapped
  <2> QED BY <1>2, <1>3, <1>6, <2>1 DEF Abs!Next, Abs!EraseBeyondEnd
<1> QED BY <1>3, <1>5, <1>6

(* The loop is left when the length is used up, at the latest at the end.   *)
LEMMA DoneImplements ==
  ASSUME IInv, EraseDone
  PROVE  Abs!Next
<1>1. IInv' /\ Text' = Text /\ req' = NoCall
  BY NothingDone
<1>2. /\ req.op = "erase" /\ req.pos + req.len <= total_length
      /\ Len(Flat(add_buffer, SubSeq(pieces, 1, it - 1))) = req.pos
  BY DEF EraseDone, IInv, Erasing
<1>3. req \in Call
  BY <1>2, ErasesInCall
<1>4. /\ req.pos \in Nat /\ req.len \in Nat /\ Len(Text) = total_length
      /\ Len(Text) \in Nat
  BY <1>3, Requests
<1>5. req.len = 0
  <2>1. CASE it <= Len(pieces)
    BY <1>4, <2>1 DEF EraseDone, Consuming
  <2>2. CASE ~(it <= Len(pieces))
    <3>1. it \in 0 .. Len(pieces) + 1 /\ pieces \in Seq(Piece) /\ Len(pieces) \in Nat
      BY DEF IInv, TypeOK
    <3>2. it - 1 = Len(pieces)
      BY <2>2, <3>1
    <3>3. SubSeq(pieces, 1, Len(pieces)) = pieces
      BY <3>1
    <3>4. req.pos = total_length
      BY <1>2, <3>2, <3>3 DEF IInv
    <3> QED BY <1>2, <1>4, <3>4
  <2> QED BY <2>1, <2>2
<1>6. Cut = 0 /\ req.pos <= Len(Text)
  BY <1>2, <1>4, <1>5 DEF Cut
<1> QED BY <1>1, <1>2, <1>3, <1>6, NothingErased

(* The observer does not see the piece cut in two.                          *)
LEMMA StartImplements ==
  ASSUME IInv, EraseStart
  PROVE  UNCHANGED Abs!vars
<1>1. /\ IInv' /\ Text' = Text /\ req \in Call /\ req' \in Call
      /\ req' = [req EXCEPT !.len = IF req.pos + req.len > total_length
                                      THEN total_length - req.pos ELSE req.len]
  BY StartKeeps
<1>2. /\ req.pos \in Nat /\ req.len \in Nat /\ Len(Text) = total_length
      /\ Len(Text) \in Nat /\ req.pos < total_length
  BY <1>1, Requests DEF EraseStart
<1>3. PICK n \in Nat, p \in Nat, l \in Nat : n = Len(Text) /\ p = req.pos /\ l = req.len
  BY <1>2
<1>4. PICK m \in Nat : m = IF p + l > n THEN n - p ELSE l
  BY <1>2, <1>3
<1>5. req' = [req EXCEPT !.len = m]
  BY <1>1, <1>2, <1>3, <1>4
<1>6. req'.pos = p /\ req'.len = m
  BY <1>1, <1>3, <1>5 DEF Call
<1>7. Cut = m
  BY <1>2, <1>3, <1>4 DEF Cut
<1>8. Cut' = m
  <2>1. Cut' = IF req'.pos + req'.len > Len(Text')
                 THEN IF req'.pos < Len(Text') THEN Len(Text') - req'.pos ELSE 0
                 ELSE req'.len
    BY DEF Cut
  <2>2. p + m <= n
    BY <1>2, <1>3, <1>4
  <2>3. Len(Text') = n
    BY <1>1, <1>3
  <2> QED BY <1>6, <2>1, <2>2, <2>3
<1>9. AbsReq = [req EXCEPT !.len = m]
  BY <1>1, <1>7, MappedNow DEF Mapped
<1>10. AbsReq' = [req' EXCEPT !.len = m]
  BY <1>1, <1>8, MappedThen DEF Mapped
<1>11. [req' EXCEPT !.len = m] = [req EXCEPT !.len = m]
  BY <1>1, <1>5 DEF Call
<1> QED BY <1>1, <1>9, <1>10, <1>11 DEF Abs!vars

(* Each round of the loop takes characters away at the position.            *)
LEMMA EraseImplements ==
  ASSUME IInv, EraseWhole \/ ErasePart
  PROVE  Abs!Next
<1>1. Consuming /\ \E new : \E l, r \in Seq(Char) : Takes(new, l, r)
  BY WholeTakes, PartTakes
<1>2. PICK new : \E l, r \in Seq(Char) : Takes(new, l, r)
  BY <1>1
<1>3. PICK l \in Seq(Char), r \in Seq(Char) : Takes(new, l, r)
  BY <1>2
<1>4. /\ IInv' /\ req'.op = "erase" /\ req'.pos = req.pos /\ req'.str = req.str
      /\ req'.len = req.len - Len(l) /\ req' \in Call
      /\ Text \in Seq(Char) /\ Len(Text) = total_length
      /\ Len(l) \in 1 .. Len(Text) /\ Len(l) <= req.len
      /\ Text' = SubSeq(Text, 1, req.pos)
                    \o SubSeq(Text, req.pos + Len(l) + 1, Len(Text))
      /\ Len(Text') = Len(Text) - Len(l)
  BY <1>1, <1>3, Consumed
<1>5. req.op = "erase" /\ req.pos + req.len <= total_length
  BY <1>1 DEF Consuming, IInv, Erasing
<1>6. req \in Call
  BY <1>5, ErasesInCall
<1>7. /\ req.pos \in Nat /\ req.len \in Nat /\ AbsReq.op = "erase"
      /\ AbsReq.pos = req.pos /\ AbsReq.str = req.str /\ AbsReq.len = Cut
  BY <1>5, <1>6, Requests
<1>8. PICK n \in Nat, p \in Nat, m \in Nat : n = Len(Text) /\ p = req.pos /\ m = req.len
  BY <1>4, <1>7
<1>9. PICK k \in 1 .. n : k = Len(l)
  BY <1>4, <1>8
<1>10. p + m <= n /\ k <= m
  BY <1>4, <1>5, <1>8, <1>9
<1>11. Cut = m
  BY <1>8, <1>10 DEF Cut
<1>12. Cut' = m - k
  <2>1. Cut' = IF req'.pos + req'.len > Len(Text')
                 THEN IF req'.pos < Len(Text') THEN Len(Text') - req'.pos ELSE 0
                 ELSE req'.len
    BY DEF Cut
  <2>2. req'.pos = p /\ req'.len = m - k /\ Len(Text') = n - k
    BY <1>4, <1>8, <1>9
  <2>3. p + (m - k) <= n - k
    BY <1>10
  <2> QED BY <2>1, <2>2, <2>3
<1>13. AbsReq = [req EXCEPT !.len = m]
  BY <1>4, <1>6, <1>11, MappedNow DEF Mapped
<1>14. AbsReq' = [req' EXCEPT !.len = m - k]
  BY <1>4, <1>12, MappedThen DEF Mapped
<1>15. AbsReq' = [AbsReq EXCEPT !.len = m - k]
  <2>1. [req' EXCEPT !.len = m - k] = [req EXCEPT !.len = m - k]
    BY <1>4, <1>5, <1>6 DEF Call
  <2>2. [AbsReq EXCEPT !.len = m - k] = [req EXCEPT !.len = m - k]
    BY <1>6, <1>13 DEF Call
  <2> QED BY <1>14, <2>1, <2>2
<1>16. AbsReq.len = m
  BY <1>7, <1>11
<1>17. AbsReq' = [AbsReq EXCEPT !.len = AbsReq.len - k]
  BY <1>15, <1>16
<1>18. Text' = Abs!StringErase(Text, AbsReq.pos, k)
  BY <1>4, <1>7, <1>9 DEF Abs!StringErase
<1>19. k \in 1 .. Len(Text) /\ k <= AbsReq.len /\ AbsReq.pos <= Len(Text)
  BY <1>7, <1>8, <1>10, <1>16
<1>20. Abs!EraseSome
  BY <1>7, <1>17, <1>18, <1>19 DEF Abs!EraseSome
<1> QED BY <1>20 DEF Abs!Next

(* The piece table is the std::string it is compared with: every behaviour  *)
(* of it, the rounds of its erase included, is one of the abstract text.    *)
THEOREM PieceTableImplementsText == Spec => Implements
<1>1. Init => Abs!Init
  BY InitImplements
<1>2. IInv /\ [Next]_vars => [Abs!Next]_(Abs!vars)
  <2>1. ASSUME IInv, UNCHANGED vars PROVE UNCHANGED Abs!vars
    BY <2>1 DEF vars, Abs!vars, Text, Characters, AbsReq
  <2>2. ASSUME IInv, Next PROVE Abs!Next \/ UNCHANGED Abs!vars
    BY <2>2, CallImplements, EmptyImplements, AppendsImplements, InsertImplements,
       IgnoredImplements, StartImplements, EraseImplements, DoneImplements DEF Next
  <2> QED BY <2>1, <2>2
<1> QED BY <1>1, <1>2, Inductive, PTL DEF Spec, Implements, Abs!Spec
===============================================================================
