------------------------------ MODULE TextLemmas ------------------------------
(***************************************************************************)
(* What the proofs have in common: texts cut into parts and read, and      *)
(* loops, for every set of characters; and what the operations on a buffer *)
(* with a gap do to its text, for every alphabet and every buffer.  The    *)
(* proofs about the nodes and about SimpleGapBuffer extend this module;    *)
(* the others, which meet no gap, take the first part of it as Seqs.       *)
(***************************************************************************)
EXTENDS GapBuffers, SequenceTheorems, WellFoundedInduction, TLAPS

(* What an insertion (q = p + 1) or an erasure (s empty) makes of t.        *)
Splice(t, p, s, q) == SubSeq(t, 1, p) \o s \o SubSeq(t, q, Len(t))

(* A set of naturals has a least element.                                   *)
LEMMA LeastNat ==
  ASSUME NEW S, S \subseteq Nat, S # {}
  PROVE  \E k \in S : \A j \in S : k <= j
<1>1. PICK k \in S : \A j \in S : <<j, k>> \notin OpToRel(<, Nat)
  BY NatLessThanWellFounded, WFMin
<1>2. ASSUME NEW j \in S, j < k PROVE FALSE
  <2>1. <<j, k>> \in Nat \X Nat /\ <<j, k>>[1] = j /\ <<j, k>>[2] = k
    OBVIOUS
  <2>2. <<j, k>> \in OpToRel(<, Nat)
    BY <1>2, <2>1 DEF OpToRel
  <2> QED BY <1>1, <2>2
<1> QED BY <1>2

(* Concatenation is associative.                                            *)
LEMMA Assoc ==
  ASSUME NEW Sort, NEW a \in Seq(Sort), NEW b \in Seq(Sort), NEW c \in Seq(Sort)
  PROVE  a \o (b \o c) = (a \o b) \o c
OBVIOUS

(* A prefix that ends in the left part.                                     *)
LEMMA PrefixLeft ==
  ASSUME NEW Sort, NEW a \in Seq(Sort), NEW b \in Seq(Sort), NEW p \in 0 .. Len(a)
  PROVE  SubSeq(a \o b, 1, p) = SubSeq(a, 1, p)
OBVIOUS

(* A suffix that begins in the left part.                                   *)
LEMMA SuffixLeft ==
  ASSUME NEW Sort, NEW a \in Seq(Sort), NEW b \in Seq(Sort), NEW q \in 1 .. Len(a) + 1
  PROVE  SubSeq(a \o b, q, Len(a \o b)) = SubSeq(a, q, Len(a)) \o b
BY SMTT(30)

(* A prefix that ends in the right part.                                    *)
LEMMA PrefixRight ==
  ASSUME NEW Sort, NEW a \in Seq(Sort), NEW b \in Seq(Sort), NEW p \in 0 .. Len(b)
  PROVE  SubSeq(a \o b, 1, Len(a) + p) = a \o SubSeq(b, 1, p)
OBVIOUS

(* A suffix that begins in the right part.                                  *)
LEMMA SuffixRight ==
  ASSUME NEW Sort, NEW a \in Seq(Sort), NEW b \in Seq(Sort), NEW q \in 1 .. Len(b) + 1
  PROVE  SubSeq(a \o b, Len(a) + q, Len(a \o b)) = SubSeq(b, q, Len(b))
OBVIOUS

(* A sequence is its two parts.                                             *)
LEMMA SeqParts ==
  ASSUME NEW Sort, NEW t \in Seq(Sort), NEW k \in 0 .. Len(t)
  PROVE  /\ SubSeq(t, 1, k) \in Seq(Sort) /\ Len(SubSeq(t, 1, k)) = k
         /\ SubSeq(t, k + 1, Len(t)) \in Seq(Sort)
         /\ Len(SubSeq(t, k + 1, Len(t))) = Len(t) - k
         /\ t = SubSeq(t, 1, k) \o SubSeq(t, k + 1, Len(t))
<1> DEFINE p == SubSeq(t, 1, k)
           q == SubSeq(t, k + 1, Len(t))
<1>1. p \in Seq(Sort) /\ Len(p) = k /\ \A i \in 1 .. k : p[i] = t[i]
  OBVIOUS
<1>2. /\ q \in Seq(Sort) /\ Len(q) = Len(t) - k
      /\ \A i \in 1 .. Len(t) - k : q[i] = t[k + i]
  OBVIOUS
<1> HIDE DEF p, q
<1>3. p \o q \in Seq(Sort) /\ Len(p \o q) = Len(t)
  <2>1. p \o q \in Seq(Sort) /\ Len(p \o q) = Len(p) + Len(q)
    BY <1>1, <1>2, SMTT(30)
  <2> QED BY <1>1, <1>2, <2>1
<1>4. ASSUME NEW i \in 1 .. Len(t) PROVE (p \o q)[i] = t[i]
  <2>1. CASE i <= k
    BY <2>1, <1>1, <1>2
  <2>2. CASE ~(i <= k)
    <3>1. i > k /\ i - k \in 1 .. Len(t) - k /\ k + (i - k) = i
      BY <2>2
    <3>2. (p \o q)[i] = q[i - k]
      BY <3>1, <1>1, <1>2
    <3> QED BY <3>1, <3>2, <1>2
  <2> QED BY <2>1, <2>2
<1>5. p \o q = t
  BY <1>3, <1>4, SeqEqual
<1> QED BY <1>1, <1>2, <1>5 DEF p, q

(* An edit of the left part.                                                *)
LEMMA SpliceLeft ==
  ASSUME NEW Sort, NEW a \in Seq(Sort), NEW b \in Seq(Sort), NEW s \in Seq(Sort),
         NEW p \in 0 .. Len(a), NEW q \in 1 .. Len(a) + 1
  PROVE  Splice(a, p, s, q) \o b = Splice(a \o b, p, s, q)
<1> DEFINE f == SubSeq(a, 1, p)
           g == SubSeq(a, q, Len(a))
<1>1. f \in Seq(Sort) /\ g \in Seq(Sort)
  OBVIOUS
<1>2. SubSeq(a \o b, 1, p) = f
  BY PrefixLeft
<1>3. SubSeq(a \o b, q, Len(a \o b)) = g \o b
  BY SuffixLeft
<1> HIDE DEF f, g
<1> DEFINE z == f \o s
<1>4. z \in Seq(Sort)
  BY <1>1
<1> HIDE DEF z
<1>5. z \o (g \o b) = (z \o g) \o b
  BY <1>1, <1>4, SMTT(60)
<1> QED BY <1>2, <1>3, <1>5 DEF Splice, f, g, z

(* An edit of the right part.                                               *)
LEMMA SpliceRight ==
  ASSUME NEW Sort, NEW a \in Seq(Sort), NEW b \in Seq(Sort), NEW s \in Seq(Sort),
         NEW p \in 0 .. Len(b), NEW q \in 1 .. Len(b) + 1
  PROVE  a \o Splice(b, p, s, q) = Splice(a \o b, Len(a) + p, s, Len(a) + q)
<1> DEFINE f == SubSeq(b, 1, p)
           g == SubSeq(b, q, Len(b))
<1>1. f \in Seq(Sort) /\ g \in Seq(Sort)
  OBVIOUS
<1>2. SubSeq(a \o b, 1, Len(a) + p) = a \o f
  BY PrefixRight
<1>3. SubSeq(a \o b, Len(a) + q, Len(a \o b)) = g
  BY SuffixRight
<1> HIDE DEF f, g
<1> DEFINE z == f \o s
<1>4. z \in Seq(Sort)
  BY <1>1
<1>5. a \o z = (a \o f) \o s
  BY <1>1, SMTT(60)
<1> HIDE DEF z
<1>6. a \o (z \o g) = (a \o z) \o g
  BY <1>1, <1>4, SMTT(60)
<1> QED BY <1>2, <1>3, <1>5, <1>6 DEF Splice, f, g, z

(* The empty string changes nothing.                                        *)
LEMMA SpliceNothing ==
  ASSUME NEW Sort, NEW t \in Seq(Sort), NEW p \in 0 .. Len(t), NEW q \in 1 .. Len(t) + 1
  PROVE  Splice(t, p, << >>, q) = SubSeq(t, 1, p) \o SubSeq(t, q, Len(t))
<1>1. SubSeq(t, 1, p) \in Seq(Sort)
  OBVIOUS
<1>2. SubSeq(t, 1, p) \o << >> = SubSeq(t, 1, p)
  BY <1>1
<1> QED BY <1>2 DEF Splice

(* What a splice leaves of the length.                                      *)
LEMMA SpliceLen ==
  ASSUME NEW Sort, NEW t \in Seq(Sort), NEW s \in Seq(Sort),
         NEW p \in 0 .. Len(t), NEW q \in 1 .. Len(t) + 1
  PROVE  /\ Splice(t, p, s, q) \in Seq(Sort)
         /\ Len(Splice(t, p, s, q)) = p + Len(s) + (Len(t) + 1 - q)
<1> DEFINE f == SubSeq(t, 1, p)
           g == SubSeq(t, q, Len(t))
<1>1. f \in Seq(Sort) /\ Len(f) = p
  OBVIOUS
<1>2. g \in Seq(Sort) /\ Len(g) = Len(t) + 1 - q
  OBVIOUS
<1> HIDE DEF f, g
<1> DEFINE z == f \o s
<1>3. z \in Seq(Sort) /\ Len(z) = Len(f) + Len(s)
  BY <1>1
<1> HIDE DEF z
<1>4. z \o g \in Seq(Sort) /\ Len(z \o g) = Len(z) + Len(g)
  <2>1. g \in Seq(Sort) /\ z \in Seq(Sort)
    BY <1>2, <1>3
  <2> QED BY <2>1, SMTT(60)
<1>5. z \o g = Splice(t, p, s, q)
  BY DEF Splice, f, g, z
<1> QED BY <1>1, <1>2, <1>3, <1>4, <1>5

-----------------------------------------------------------------------------
(***************************************************************************)
(* Reading a text.                                                         *)
(***************************************************************************)
(* e is the end of t.                                                       *)
EndsWith(Sort, t, e) == \E a \in Seq(Sort) : t = a \o e

(* What ends with e ends with e when more is put before it.                 *)
LEMMA EndsLonger ==
  ASSUME NEW Sort, NEW b \in Seq(Sort), NEW c \in Seq(Sort), NEW y \in Seq(Sort),
         EndsWith(Sort, y, c)
  PROVE  EndsWith(Sort, b \o y, c)
<1>1. PICK a \in Seq(Sort) : y = a \o c
  BY DEF EndsWith
<1>2. b \o (a \o c) = (b \o a) \o c
  BY Assoc
<1>3. b \o y = (b \o a) \o c
  BY <1>1, <1>2
<1>4. b \o a \in Seq(Sort)
  OBVIOUS
<1> QED BY <1>3, <1>4, Zenon DEF EndsWith

(* A character in the middle of a text.                                     *)
LEMMA CharWithin ==
  ASSUME NEW Sort, NEW a \in Seq(Sort), NEW d \in Seq(Sort), NEW v \in Seq(Sort),
         NEW k \in Nat, k < Len(d)
  PROVE  (a \o (d \o v))[Len(a) + k + 1] = d[k + 1]
<1>1. k + 1 \in 1 .. Len(d) /\ Len(a) \in Nat /\ Len(d) \in Nat /\ Len(v) \in Nat
  OBVIOUS
<1>2. d \o v \in Seq(Sort) /\ Len(d \o v) = Len(d) + Len(v) /\ (d \o v)[k + 1] = d[k + 1]
  OBVIOUS
<1> DEFINE u == d \o v
<1>3. u \in Seq(Sort) /\ k + 1 \in 1 .. Len(u) /\ u[k + 1] = d[k + 1]
  BY <1>1, <1>2
<1> HIDE DEF u
<1>4. (a \o u)[Len(a) + (k + 1)] = u[k + 1]
  BY <1>1, <1>3
<1>5. Len(a) + k + 1 = Len(a) + (k + 1)
  BY <1>1
<1>6. (a \o u)[Len(a) + k + 1] = d[k + 1]
  BY <1>3, <1>4, <1>5
<1> QED BY <1>6 DEF u

(* t is what has been read, what is left of the node, and the text behind.  *)
Reading(t, u, d, k, v) == t = u \o (SubSeq(d, k + 1, Len(d)) \o v)

(* A character moves from what is ahead to what has been read.              *)
LEMMA ReadOn ==
  ASSUME NEW Sort, NEW u \in Seq(Sort), NEW d \in Seq(Sort), NEW v \in Seq(Sort),
         NEW k \in Nat, k < Len(d), NEW t, Reading(t, u, d, k, v)
  PROVE  Reading(t, Append(u, d[k + 1]), d, k + 1, v)
<1> DEFINE c == d[k + 1]
           b == SubSeq(d, k + 2, Len(d))
           f == SubSeq(d, k + 1, Len(d))
           y == b \o v
<1>1. c \in Sort /\ b \in Seq(Sort)
  OBVIOUS
<1>2. f = << c >> \o b
  OBVIOUS
<1>3. y \in Seq(Sort)
  BY <1>1
<1> HIDE DEF c, b, f
<1>4. << c >> \in Seq(Sort)
  BY <1>1
<1>5. f \o v = << c >> \o (b \o v)
  BY <1>1, <1>2, <1>4, Assoc
<1>6. f \o v = << c >> \o y
  BY <1>5
<1> HIDE DEF y
<1>7. u \o (<< c >> \o y) = (u \o << c >>) \o y
  BY <1>3, <1>4, Assoc
<1>8. u \o << c >> = Append(u, c)
  BY <1>1
<1>9. u \o (f \o v) = Append(u, c) \o y
  BY <1>6, <1>7, <1>8
<1>10. t = Append(u, c) \o y
  BY <1>9 DEF Reading, f
<1>11. (k + 1) + 1 = k + 2
  OBVIOUS
<1> QED BY <1>10, <1>11 DEF c, b, y, Reading

(* The empty rest of a node.                                                *)
LEMMA ReadToEnd ==
  ASSUME NEW Sort, NEW d \in Seq(Sort), NEW v \in Seq(Sort), NEW k \in Nat, k >= Len(d)
  PROVE  SubSeq(d, k + 1, Len(d)) \o v = v
OBVIOUS

(* What is ahead at the start of a node.                                    *)
LEMMA ReadFromStart ==
  ASSUME NEW Sort, NEW d \in Seq(Sort)
  PROVE  SubSeq(d, 1, Len(d)) = d
OBVIOUS

-----------------------------------------------------------------------------
(***************************************************************************)
(* Loops, written as recursive functions: a state for which the loop does  *)
(* not stop has the result of the state after its step.                    *)
(***************************************************************************)

(* p is what the loop goes through from s, with n steps to where it stops.  *)
LoopPath(D, stop, step, s, n, p) ==
  /\ p \in [0 .. n -> D]
  /\ p[0] = s
  /\ \A j \in 0 .. n - 1 : p[j] \notin stop /\ p[j + 1] = step[p[j]]
  /\ p[n] \in stop

LoopEnds(D, stop, step, s, z) ==
  \E n \in Nat : \E p : LoopPath(D, stop, step, s, n, p) /\ z = p[n]

(* From one state it goes one way,                                          *)
LEMMA LoopPathsAgree ==
  ASSUME NEW D, NEW stop, NEW step, NEW s, NEW n \in Nat, NEW p, NEW m \in Nat, NEW q,
         LoopPath(D, stop, step, s, n, p), LoopPath(D, stop, step, s, m, q), n <= m
  PROVE  n = m /\ p[n] = q[n]
<1> DEFINE S == {j \in 0 .. n : p[j] # q[j]}
<1>1. S = {}
  <2> SUFFICES ASSUME S # {} PROVE FALSE
    OBVIOUS
  <2>1. S \subseteq Nat
    OBVIOUS
  <2>2. PICK j \in S : \A k \in S : j <= k
    <3> HIDE DEF S
    <3> QED BY <2>1, LeastNat
  <2>3. j \in 0 .. n /\ p[j] # q[j] /\ j # 0
    BY <2>2 DEF LoopPath
  <2>4. PICK k \in 0 .. n - 1 : k + 1 = j
    <3>1. j - 1 \in 0 .. n - 1 /\ (j - 1) + 1 = j
      BY <2>3
    <3> QED BY <3>1
  <2>5. k \notin S /\ k \in 0 .. n /\ k \in 0 .. m - 1
    BY <2>2, <2>3, <2>4
  <2>6. p[k] = q[k]
    BY <2>5
  <2>7. p[k + 1] = step[p[k]] /\ q[k + 1] = step[q[k]]
    BY <2>4, <2>5 DEF LoopPath
  <2> QED BY <2>3, <2>4, <2>6, <2>7
<1>2. p[n] = q[n]
  BY <1>1
<1>3. CASE n < m
  <2>1. n \in 0 .. m - 1
    BY <1>3
  <2> QED BY <2>1, <1>2 DEF LoopPath
<1> QED BY <1>2, <1>3

(* and so it stops in one state only.                                       *)
LEMMA LoopEndsOnce ==
  ASSUME NEW D, NEW stop, NEW step, NEW s, NEW y, NEW z,
         LoopEnds(D, stop, step, s, y), LoopEnds(D, stop, step, s, z)
  PROVE  y = z
<1>1a. PICK n \in Nat : \E p : LoopPath(D, stop, step, s, n, p) /\ y = p[n]
  BY DEF LoopEnds
<1>1. PICK p : LoopPath(D, stop, step, s, n, p) /\ y = p[n]
  BY <1>1a
<1>2a. PICK m \in Nat : \E q : LoopPath(D, stop, step, s, m, q) /\ z = q[m]
  BY DEF LoopEnds
<1>2. PICK q : LoopPath(D, stop, step, s, m, q) /\ z = q[m]
  BY <1>2a
<1>3. CASE n <= m
  BY <1>1, <1>2, <1>3, LoopPathsAgree
<1>4. CASE m <= n
  BY <1>1, <1>2, <1>4, LoopPathsAgree
<1> QED BY <1>3, <1>4

(* A step does not change where that is.                                    *)
LEMMA LoopEndsStep ==
  ASSUME NEW D, NEW stop, NEW step \in [D -> D], NEW s \in D, s \notin stop, NEW z
  PROVE  LoopEnds(D, stop, step, s, z) <=> LoopEnds(D, stop, step, step[s], z)
<1>1. ASSUME LoopEnds(D, stop, step, s, z)
      PROVE  LoopEnds(D, stop, step, step[s], z)
  <2>1a. PICK n \in Nat : \E p : LoopPath(D, stop, step, s, n, p) /\ z = p[n]
    BY <1>1 DEF LoopEnds
  <2>1. PICK p : LoopPath(D, stop, step, s, n, p) /\ z = p[n]
    BY <2>1a
  <2>2. n # 0
    BY <2>1 DEF LoopPath
  <2>3. PICK m \in Nat : m + 1 = n
    <3>1. n - 1 \in Nat /\ (n - 1) + 1 = n
      BY <2>2
    <3> QED BY <3>1
  <2> DEFINE q == [j \in 0 .. m |-> p[j + 1]]
  <2>4. q \in [0 .. m -> D] /\ q[m] = p[n]
    BY <2>1, <2>3 DEF LoopPath
  <2>5. q[0] = step[s]
    BY <2>1, <2>3 DEF LoopPath
  <2>6. ASSUME NEW j \in 0 .. m - 1 PROVE q[j] \notin stop /\ q[j + 1] = step[q[j]]
    <3>1. j + 1 \in 0 .. n - 1 /\ j \in 0 .. m /\ j + 1 \in 0 .. m
      BY <2>3
    <3>2. p[j + 1] \notin stop /\ p[(j + 1) + 1] = step[p[j + 1]]
      BY <2>1, <3>1 DEF LoopPath
    <3> QED BY <3>1, <3>2
  <2> HIDE DEF q
  <2>7. LoopPath(D, stop, step, step[s], m, q)
    BY <2>1, <2>4, <2>5, <2>6 DEF LoopPath
  <2> QED BY <2>1, <2>4, <2>7 DEF LoopEnds
<1>2. ASSUME LoopEnds(D, stop, step, step[s], z)
      PROVE  LoopEnds(D, stop, step, s, z)
  <2>1a. PICK n \in Nat : \E p : LoopPath(D, stop, step, step[s], n, p) /\ z = p[n]
    BY <1>2 DEF LoopEnds
  <2>1. PICK p : LoopPath(D, stop, step, step[s], n, p) /\ z = p[n]
    BY <2>1a
  <2> DEFINE q == [j \in 0 .. n + 1 |-> IF j = 0 THEN s ELSE p[j - 1]]
  <2>2. q[0] = s /\ q[n + 1] = p[n]
    OBVIOUS
  <2>3. q \in [0 .. n + 1 -> D]
    <3> SUFFICES ASSUME NEW j \in 0 .. n + 1, j # 0 PROVE p[j - 1] \in D
      OBVIOUS
    <3>1. j - 1 \in 0 .. n
      OBVIOUS
    <3> QED BY <3>1, <2>1 DEF LoopPath
  <2>4. ASSUME NEW j \in 0 .. (n + 1) - 1 PROVE q[j] \notin stop /\ q[j + 1] = step[q[j]]
    <3>1. q[j + 1] = p[j]
      OBVIOUS
    <3>2. CASE j = 0
      BY <3>1, <3>2, <2>1 DEF LoopPath
    <3>3. CASE j # 0
      <4>1. PICK k \in 0 .. n - 1 : k + 1 = j
        <5>1. j - 1 \in 0 .. n - 1 /\ (j - 1) + 1 = j
          BY <3>3
        <5> QED BY <5>1
      <4>2. q[j] = p[k]
        BY <4>1
      <4>3. p[k] \notin stop /\ p[k + 1] = step[p[k]]
        BY <2>1, <4>1 DEF LoopPath
      <4> QED BY <3>1, <4>1, <4>2, <4>3
    <3> QED BY <3>2, <3>3
  <2> HIDE DEF q
  <2>5. LoopPath(D, stop, step, s, n + 1, q)
    BY <2>1, <2>2, <2>3, <2>4 DEF LoopPath
  <2>6. n + 1 \in Nat
    OBVIOUS
  <2> QED BY <2>1, <2>2, <2>5, <2>6 DEF LoopEnds
<1> QED BY <1>1, <1>2

(* F is the function that a recursive definition of the loop stands for.    *)
LoopFunction(F, D, stop, step, out) ==
  F = [s \in D |-> IF s \in stop THEN out[s] ELSE F[step[s]]]

(* Every loop has such a function.                                          *)
LEMMA LoopHasResult ==
  ASSUME NEW D, NEW stop, NEW step \in [D -> D], NEW out
  PROVE  \E h : LoopFunction(h, D, stop, step, out)
<1> DEFINE Ends(s, z) == LoopEnds(D, stop, step, s, z)
           h == [s \in D |-> IF \E z : Ends(s, z) THEN out[CHOOSE z : Ends(s, z)]
                                                  ELSE {}]
<1>1. ASSUME NEW s \in D, NEW z, Ends(s, z) PROVE h[s] = out[z]
  <2>1. Ends(s, CHOOSE y : Ends(s, y))
    BY <1>1, Zenon
  <2>2. (CHOOSE y : Ends(s, y)) = z
    BY <1>1, <2>1, LoopEndsOnce
  <2>3. h[s] = out[CHOOSE y : Ends(s, y)]
    <3> HIDE DEF Ends
    <3> QED BY <1>1, Zenon
  <2> QED BY <2>2, <2>3
<1>2. ASSUME NEW s \in D, ~\E z : Ends(s, z) PROVE h[s] = {}
  <2> HIDE DEF Ends
  <2> QED BY <1>2
<1>3. ASSUME NEW s \in D, s \in stop PROVE h[s] = out[s]
  <2> DEFINE p == [j \in 0 .. 0 |-> s]
  <2>1. p \in [0 .. 0 -> D] /\ p[0] = s /\ 0 .. 0 - 1 = {}
    OBVIOUS
  <2> HIDE DEF p
  <2>2. LoopPath(D, stop, step, s, 0, p)
    BY <2>1, <1>3 DEF LoopPath
  <2>3. Ends(s, s)
    BY <2>1, <2>2 DEF LoopEnds
  <2> QED BY <2>3, <1>1
<1>4. ASSUME NEW s \in D, s \notin stop PROVE h[s] = h[step[s]]
  <2>1. step[s] \in D /\ \A z : Ends(s, z) <=> Ends(step[s], z)
    BY <1>4, LoopEndsStep
  <2> HIDE DEF h, Ends
  <2>2. CASE \E z : Ends(s, z)
    <3>1. PICK z : Ends(s, z)
      BY <2>2
    <3> QED BY <3>1, <2>1, <1>1, Zenon
  <2>3. CASE ~\E z : Ends(s, z)
    BY <2>1, <2>3, <1>2, Zenon
  <2> QED BY <2>2, <2>3
<1>5. h = [s \in D |-> IF s \in stop THEN out[s] ELSE h[step[s]]]
  <2>1. h = [s \in D |-> h[s]]
    OBVIOUS
  <2> HIDE DEF h
  <2>2. \A s \in D : h[s] = IF s \in stop THEN out[s] ELSE h[step[s]]
    BY <1>3, <1>4
  <2>3. [s \in D |-> h[s]] = [s \in D |-> IF s \in stop THEN out[s] ELSE h[step[s]]]
    BY <2>2
  <2> QED BY <2>1, <2>3, Zenon
<1> QED BY <1>5 DEF LoopFunction

(* A loop that keeps to G and lowers a rank there.                          *)
LoopRuns(F, G, stop, step, out, rank) ==
  /\ rank \in [G -> Nat]
  /\ \A s \in G : s \in stop => F[s] = out[s]
  /\ \A s \in G : s \notin stop => /\ step[s] \in G
                                   /\ rank[step[s]] < rank[s]
                                   /\ F[s] = F[step[s]]

(* It stops in G, and has the result of the state it stops in.              *)
LEMMA LoopResult ==
  ASSUME NEW F, NEW G, NEW stop, NEW step, NEW out, NEW rank,
         LoopRuns(F, G, stop, step, out, rank), NEW s0 \in G
  PROVE  \E z \in G \cap stop : F[s0] = out[z]
<1> DEFINE Bad(s) == ~\E z \in G \cap stop : F[s] = out[z]
           S == {k \in Nat : \E s \in G : Bad(s) /\ rank[s] = k}
<1> SUFFICES ASSUME Bad(s0) PROVE FALSE
  OBVIOUS
<1> USE DEF LoopRuns
<1>1. S \subseteq Nat /\ S # {}
  <2>1. rank[s0] \in S
    OBVIOUS
  <2> QED BY <2>1
<1>2. PICK k \in S : \A j \in S : k <= j
  <2> HIDE DEF S
  <2> QED BY <1>1, LeastNat
<1>3. PICK s \in G : Bad(s) /\ rank[s] = k
  BY <1>2
<1>4. s \notin stop
  BY <1>3
<1>5. step[s] \in G /\ rank[step[s]] < k /\ F[s] = F[step[s]]
  BY <1>3, <1>4
<1>6. Bad(step[s])
  BY <1>3, <1>5
<1>7. rank[step[s]] \in S
  BY <1>5, <1>6
<1> QED BY <1>1, <1>2, <1>5, <1>7

-----------------------------------------------------------------------------
(***************************************************************************)
(* A buffer with a gap.  A gap node is Gap(b, gs, ge): a buffer b whose    *)
(* gap is the bytes gs .. ge - 1; Chars(b, gs, ge) is its text.            *)
(***************************************************************************)
(* Every gap node is a buffer with a gap inside it.                         *)
LEMMA GapForm ==
  ASSUME NEW n \in GapNodes
  PROVE  \E b \in Seq(Byte), gs \in Nat, ge \in Nat :
           n = Gap(b, gs, ge) /\ gs <= ge /\ ge <= Len(b)
<1>1. /\ n.buf \in Seq(Byte) /\ n.gap_start \in Nat /\ n.gap_end \in Nat
      /\ n.gap_start <= n.gap_end /\ n.gap_end <= Len(n.buf)
  BY DEF GapNodes
<1>2. n = Gap(n.buf, n.gap_start, n.gap_end)
  BY DEF GapNodes, Gap
<1> QED BY <1>1, <1>2

(* A buffer with a gap inside it is a gap node.                             *)
LEMMA GapIsNode ==
  ASSUME NEW b \in Seq(Byte), NEW gs \in Nat, NEW ge \in Nat,
         gs <= ge, ge <= Len(b)
  PROVE  Gap(b, gs, ge) \in GapNodes
BY DEF Gap, GapNodes

(* Its fields, its gap and its size.                                        *)
LEMMA GapFields ==
  ASSUME NEW b \in Seq(Byte), NEW gs \in Nat, NEW ge \in Nat,
         gs <= ge, ge <= Len(b)
  PROVE  /\ Gap(b, gs, ge).kind = "gap" /\ Gap(b, gs, ge).buf = b
         /\ Gap(b, gs, ge).gap_start = gs /\ Gap(b, gs, ge).gap_end = ge
         /\ GapLen(Gap(b, gs, ge)) = ge - gs
         /\ Size(Gap(b, gs, ge)) = Len(b) - (ge - gs)
BY DEF Gap, GapLen, Size

Chars(b, gs, ge) == [i \in 1 .. Len(b) - (ge - gs) |->
                       IF i <= gs THEN b[i] ELSE b[i + (ge - gs)]]

(* at() sees the bytes before the gap, then those behind it.                *)
LEMMA GapChars ==
  ASSUME NEW b \in Seq(Byte), NEW gs \in Nat, NEW ge \in Nat,
         gs <= ge, ge <= Len(b)
  PROVE  Content(Gap(b, gs, ge)) = Chars(b, gs, ge)
<1> DEFINE n == Gap(b, gs, ge)
<1>1. /\ n.kind = "gap" /\ n.buf = b /\ n.gap_start = gs
      /\ GapLen(n) = ge - gs /\ Size(n) = Len(b) - (ge - gs)
  BY GapFields
<1>2. ASSUME NEW i \in 1 .. Len(b) - (ge - gs)
      PROVE  At(n, i - 1) = IF i <= gs THEN b[i] ELSE b[i + (ge - gs)]
  BY <1>1 DEF At, PhysicalIndex
<1> HIDE DEF n
<1>3. Content(n) = Chars(b, gs, ge)
  BY <1>1, <1>2 DEF Content, Chars
<1> QED BY <1>3 DEF n

(* move_gap to the right copies d bytes from behind the gap to its start.   *)
LEMMA MoveRightForm ==
  ASSUME NEW b \in Seq(Byte), NEW gs \in Nat, NEW ge \in Nat, NEW d \in Nat,
         d > 0
  PROVE  MoveGap(Gap(b, gs, ge), gs + d) =
           Gap(Copy(b, gs, Slice(b, ge, ge + d)), gs + d, ge + d)
<1>1. (gs + d) - gs = d /\ gs + d # gs /\ gs + d > gs
  OBVIOUS
<1> QED BY <1>1 DEF MoveGap, MoveRight, Gap

(* move_gap to the left copies d bytes from before the gap to its end.      *)
LEMMA MoveLeftForm ==
  ASSUME NEW b \in Seq(Byte), NEW t \in Nat, NEW he \in Nat, NEW d \in Nat,
         d > 0
  PROVE  MoveGap(Gap(b, t + d, he + d), t) =
           Gap(Copy(b, he, Slice(b, t, t + d)), t, he)
<1>1. /\ (t + d) - t = d /\ (t + d) - d = t /\ (he + d) - d = he
      /\ t # t + d /\ ~(t > t + d)
  OBVIOUS
<1> QED BY <1>1 DEF MoveGap, MoveLeft, Gap

(* c is b with the d bytes at from written at at.                           *)
Shifted(c, b, at, from, d) ==
  /\ c \in Seq(Byte)
  /\ Len(c) = Len(b)
  /\ \A i \in 1 .. Len(b) :
       c[i] = IF at < i /\ i <= at + d THEN b[from + (i - at)] ELSE b[i]

(* std::memmove of d bytes inside one buffer.                               *)
LEMMA CopySlice ==
  ASSUME NEW b \in Seq(Byte), NEW at \in Nat, NEW from \in Nat, NEW d \in Nat,
         from + d <= Len(b), at + d <= Len(b)
  PROVE  Shifted(Copy(b, at, Slice(b, from, from + d)), b, at, from, d)
<1> DEFINE s == Slice(b, from, from + d)
<1>1. s \in Seq(Byte) /\ Len(s) = d /\ \A k \in 1 .. d : s[k] = b[from + k]
  BY DEF Slice
<1> HIDE DEF s
<1>2. \A i \in 1 .. Len(b) :
        at < i /\ i <= at + d => s[i - at] = b[from + (i - at)]
  BY <1>1
<1>3. Copy(b, at, s) =  [i \in 1 .. Len(b) |->
              IF at < i /\ i <= at + d THEN b[from + (i - at)] ELSE b[i]]
  BY <1>1, <1>2 DEF Copy
<1>4. /\ Copy(b, at, s) \in Seq(Byte)
      /\ Len(Copy(b, at, s)) = Len(b)
      /\ \A i \in 1 .. Len(b) : Copy(b, at, s)[i] =
            IF at < i /\ i <= at + d THEN b[from + (i - at)] ELSE b[i]
  BY <1>3
<1> QED BY <1>4 DEF s, Shifted

(* Moving the gap to the right leaves the text as it was.                   *)
LEMMA RightChars ==
  ASSUME NEW b \in Seq(Byte), NEW gs \in Nat, NEW ge \in Nat,
         NEW d \in Nat, gs <= ge, ge + d <= Len(b), gs + d <= Len(b)
  PROVE  Chars(Copy(b, gs, Slice(b, ge, ge + d)), gs + d, ge + d)
           = Chars(b, gs, ge)
<1> DEFINE c == Copy(b, gs, Slice(b, ge, ge + d))
<1>0. Len(b) \in Nat
  OBVIOUS
<1>a. Shifted(c, b, gs, ge, d)
  BY CopySlice
<1> HIDE DEF c
<1>1. /\ c \in Seq(Byte) /\ Len(c) = Len(b)
      /\ \A i \in 1 .. Len(b) :
           c[i] = IF gs < i /\ i <= gs + d THEN b[ge + (i - gs)] ELSE b[i]
  BY <1>a DEF Shifted
<1>2. ASSUME NEW i \in 1 .. Len(b) - (ge - gs)
      PROVE  (IF i <= gs + d THEN c[i] ELSE c[i + (ge - gs)]) =
             (IF i <= gs THEN b[i] ELSE b[i + (ge - gs)])
  <2>1. i \in 1 .. Len(b)
    OBVIOUS
  <2>2. CASE i <= gs
    BY <1>0, <1>1, <2>1, <2>2
  <2>3. CASE gs < i /\ i <= gs + d
    <3>1. c[i] = b[ge + (i - gs)]
      BY <1>0, <1>1, <2>1, <2>3
    <3>2. ge + (i - gs) = i + (ge - gs)
      OBVIOUS
    <3> QED BY <3>1, <3>2, <2>3
  <2>4. CASE i > gs + d
    <3>1. i + (ge - gs) \in 1 .. Len(b) /\ i + (ge - gs) > gs + d
      BY <2>4, <1>0
    <3>2. c[i + (ge - gs)] = b[i + (ge - gs)]
      BY <1>0, <1>1, <3>1
    <3> QED BY <3>2, <2>4
  <2> QED BY <2>2, <2>3, <2>4
<1>3. (ge + d) - (gs + d) = ge - gs
  OBVIOUS
<1>4. Chars(c, gs + d, ge + d) = Chars(b, gs, ge)
  BY <1>0, <1>1, <1>2, <1>3 DEF Chars
<1> QED BY <1>4 DEF c

(* Moving the gap to the left leaves the text as it was.                    *)
LEMMA LeftChars ==
  ASSUME NEW b \in Seq(Byte), NEW t \in Nat, NEW he \in Nat,
         NEW d \in Nat, t <= he, he + d <= Len(b)
  PROVE  Chars(Copy(b, he, Slice(b, t, t + d)), t, he)
           = Chars(b, t + d, he + d)
<1> DEFINE c == Copy(b, he, Slice(b, t, t + d))
<1>0. Len(b) \in Nat
  OBVIOUS
<1>a. Shifted(c, b, he, t, d)
  <2>1. t + d <= Len(b)
    OBVIOUS
  <2> QED BY <2>1, CopySlice
<1> HIDE DEF c
<1>1. /\ c \in Seq(Byte) /\ Len(c) = Len(b)
      /\ \A i \in 1 .. Len(b) :
           c[i] = IF he < i /\ i <= he + d THEN b[t + (i - he)] ELSE b[i]
  BY <1>a DEF Shifted
<1>2. ASSUME NEW i \in 1 .. Len(b) - (he - t)
      PROVE  (IF i <= t THEN c[i] ELSE c[i + (he - t)]) =
             (IF i <= t + d THEN b[i] ELSE b[i + (he - t)])
  <2>1. i \in 1 .. Len(b)
    OBVIOUS
  <2>2. CASE i <= t
    BY <1>0, <1>1, <2>1, <2>2
  <2>3. CASE t < i
    <3>1. i + (he - t) \in 1 .. Len(b) /\ i + (he - t) > he
      BY <2>3, <1>0
    <3>2. c[i + (he - t)] = IF i + (he - t) <= he + d
                              THEN b[t + (i + (he - t) - he)]
                              ELSE b[i + (he - t)]
      BY <1>0, <1>1, <3>1, SMTT(60)
    <3>3. t + (i + (he - t) - he) = i
      OBVIOUS
    <3>4. i + (he - t) <= he + d <=> i <= t + d
      OBVIOUS
    <3> QED BY <3>2, <3>3, <3>4, <2>3
  <2> QED BY <2>2, <2>3
<1>3. (he + d) - (t + d) = he - t
  OBVIOUS
<1>4. Chars(c, t, he) = Chars(b, t + d, he + d)
  BY <1>0, <1>1, <1>2, <1>3 DEF Chars
<1> QED BY <1>4 DEF c

(* What MoveGap gives, in terms of a buffer and its gap.                    *)
LEMMA MoveGapKeeps ==
  ASSUME NEW n \in GapNodes, NEW t \in 0 .. Size(n)
  PROVE  \E c \in Seq(Byte), he \in Nat :
           /\ MoveGap(n, t) = Gap(c, t, he)
           /\ t <= he /\ he <= Len(c)
           /\ he - t = GapLen(n) /\ Len(c) = Len(n.buf)
           /\ Chars(c, t, he) = Content(n)
<1>1. PICK b \in Seq(Byte), gs \in Nat, ge \in Nat :
           n = Gap(b, gs, ge) /\ gs <= ge /\ ge <= Len(b)
  BY GapForm
<1>2. /\ GapLen(n) = ge - gs /\ Size(n) = Len(b) - (ge - gs)
      /\ n.gap_start = gs /\ n.buf = b /\ Content(n) = Chars(b, gs, ge)
  BY <1>1, GapFields, GapChars
<1>3. CASE t = gs
  <2>1. MoveGap(n, t) = n
    BY <1>2, <1>3 DEF MoveGap
  <2> QED BY <2>1, <1>1, <1>2, <1>3
<1>4. CASE t > gs
  <2>1. PICK d \in Nat : t = gs + d /\ d > 0
    <3>1. t - gs \in Nat /\ t = gs + (t - gs) /\ t - gs > 0
      BY <1>4
    <3> QED BY <3>1
  <2> DEFINE c == Copy(b, gs, Slice(b, ge, ge + d))
  <2>2. /\ b \in Seq(Byte) /\ gs \in Nat /\ ge \in Nat /\ d \in Nat
        /\ ge + d <= Len(b) /\ gs + d <= Len(b) /\ ge + d \in Nat
        /\ gs + d <= ge + d /\ (ge + d) - (gs + d) = ge - gs
    BY <1>1, <1>2, <2>1
  <2>a. Shifted(c, b, gs, ge, d)
    BY <2>2, CopySlice
  <2>3. c \in Seq(Byte) /\ Len(c) = Len(b)
    BY <2>a DEF Shifted
  <2>4. MoveGap(n, t) = Gap(c, gs + d, ge + d)
    BY <1>1, <2>1, MoveRightForm
  <2>5. Chars(c, gs + d, ge + d) = Chars(b, gs, ge)
    BY <1>1, <2>2, RightChars, ZenonT(60)
  <2> HIDE DEF c
  <2> QED BY <1>2, <2>1, <2>2, <2>3, <2>4, <2>5
<1>5. CASE t < gs
  <2>1. PICK d \in Nat, he \in Nat : gs = t + d /\ ge = he + d /\ d > 0
    <3>1. gs - t \in Nat /\ gs = t + (gs - t) /\ gs - t > 0
      BY <1>5
    <3>2. ge - (gs - t) \in Nat /\ ge = (ge - (gs - t)) + (gs - t)
      BY <1>1, <1>5
    <3> QED BY <3>1, <3>2
  <2> DEFINE c == Copy(b, he, Slice(b, t, t + d))
  <2>2. /\ b \in Seq(Byte) /\ t \in Nat /\ d \in Nat /\ he \in Nat
        /\ t <= he /\ he + d <= Len(b) /\ t + d <= Len(b)
        /\ he <= Len(b) /\ he - t = ge - gs
    BY <1>1, <1>2, <2>1
  <2>a. Shifted(c, b, he, t, d)
    BY <2>2, CopySlice
  <2>3. c \in Seq(Byte) /\ Len(c) = Len(b)
    BY <2>a DEF Shifted
  <2>4. MoveGap(n, t) = Gap(c, t, he)
    BY <1>1, <2>1, MoveLeftForm
  <2>5. Chars(c, t, he) = Chars(b, gs, ge)
    <3>1. Chars(c, t, he) = Chars(b, t + d, he + d)
      <4>1. /\ b \in Seq(Byte) /\ t \in Nat /\ he \in Nat /\ d \in Nat
            /\ t <= he /\ he + d <= Len(b)
        BY <2>2
      <4> QED BY <4>1, LeftChars, ZenonT(60)
    <3> QED BY <3>1, <2>1
  <2> HIDE DEF c
  <2> QED BY <1>2, <2>2, <2>3, <2>4, <2>5
<1> QED BY <1>3, <1>4, <1>5

-----------------------------------------------------------------------------
(***************************************************************************)
(* Growing the buffer.                                                     *)
(***************************************************************************)
(* A fresh vector holds k bytes.                                            *)
LEMMA VectorType ==
  ASSUME NEW k \in Nat
  PROVE  Vector(k) \in Seq(Byte) /\ Len(Vector(k)) = k
BY DEF Vector, Byte

(* c is b with the bytes behind the gap moved up to the end.                *)
Expanded(c, b, gs, ge, he) ==
  /\ c \in Seq(Byte)
  /\ Len(c) = he + (Len(b) - ge)
  /\ \A i \in 1 .. gs : c[i] = b[i]
  /\ \A i \in 1 .. Len(b) - ge : c[he + i] = b[ge + i]

(* expand_buffer copies the front to the front and the back to the end.     *)
LEMMA ExpandedBytes ==
  ASSUME NEW b \in Seq(Byte), NEW gs \in Nat, NEW ge \in Nat,
         gs <= ge, ge <= Len(b), NEW he \in Nat, gs <= he
  PROVE  Expanded(Copy(Copy(Vector(he + (Len(b) - ge)), 0, Slice(b, 0, gs)),
                       he, Slice(b, ge, Len(b))), b, gs, ge, he)
<1> DEFINE front == Slice(b, 0, gs)
           back  == Slice(b, ge, Len(b))
           cap   == he + (Len(b) - ge)
           v     == Vector(cap)
<1>0. Len(b) \in Nat /\ cap \in Nat /\ cap = he + (Len(b) - ge)
  OBVIOUS
<1>1. /\ front \in Seq(Byte) /\ Len(front) = gs
      /\ \A i \in 1 .. gs : front[i] = b[i]
  BY DEF Slice
<1>2. /\ back \in Seq(Byte) /\ Len(back) = Len(b) - ge
      /\ \A i \in 1 .. Len(b) - ge : back[i] = b[ge + i]
  BY DEF Slice
<1>3. v \in Seq(Byte) /\ Len(v) = cap
  BY <1>0, VectorType
<1> HIDE DEF front, back, cap, v
<1> DEFINE d == Copy(v, 0, front)
           c == Copy(d, he, back)
<1>4. /\ d \in Seq(Byte) /\ Len(d) = cap
      /\ \A i \in 1 .. gs : d[i] = b[i]
  <2>1. \A i \in 1 .. gs : front[i - 0] = b[i] /\ i \in 1 .. cap
    BY <1>0, <1>1
  <2> QED BY <1>0, <1>1, <1>3, <2>1 DEF Copy
<1> HIDE DEF d
<1>5. c \in Seq(Byte) /\ Len(c) = cap
  BY <1>0, <1>2, <1>4 DEF Copy
<1>6. ASSUME NEW i \in 1 .. gs PROVE c[i] = b[i]
  <2>1. i \in 1 .. cap /\ ~(he < i)
    BY <1>0
  <2> QED BY <1>4, <2>1 DEF Copy
<1>7. ASSUME NEW i \in 1 .. Len(b) - ge PROVE c[he + i] = b[ge + i]
  <2>1. /\ he + i \in 1 .. cap /\ he < he + i
        /\ he + i <= he + Len(back) /\ (he + i) - he = i
    BY <1>0, <1>2
  <2> QED BY <1>2, <1>4, <2>1 DEF Copy
<1> QED BY <1>0, <1>5, <1>6, <1>7 DEF Expanded, front, back, cap, v, d

(* ... so the text is what it was.                                          *)
LEMMA ExpandedChars ==
  ASSUME NEW b \in Seq(Byte), NEW gs \in Nat, NEW ge \in Nat,
         gs <= ge, ge <= Len(b), NEW he \in Nat, gs <= he,
         NEW c, Expanded(c, b, gs, ge, he)
  PROVE  Chars(c, gs, he) = Chars(b, gs, ge)
<1>1. /\ Len(b) \in Nat /\ Len(c) = he + (Len(b) - ge)
      /\ \A i \in 1 .. gs : c[i] = b[i]
      /\ \A i \in 1 .. Len(b) - ge : c[he + i] = b[ge + i]
  BY DEF Expanded
<1>2. Len(c) - (he - gs) = Len(b) - (ge - gs)
  BY <1>1
<1>3. ASSUME NEW i \in 1 .. Len(b) - (ge - gs)
      PROVE  (IF i <= gs THEN c[i] ELSE c[i + (he - gs)]) =
             (IF i <= gs THEN b[i] ELSE b[i + (ge - gs)])
  <2>1. CASE i <= gs
    BY <2>1, <1>1
  <2>2. CASE i > gs
    <3>1. /\ i - gs \in 1 .. Len(b) - ge
          /\ i + (he - gs) = he + (i - gs) /\ i + (ge - gs) = ge + (i - gs)
      BY <2>2, <1>1
    <3>2. c[he + (i - gs)] = b[ge + (i - gs)]
      BY <3>1, <1>1
    <3> QED BY <2>2, <3>1, <3>2
  <2> QED BY <2>1, <2>2
<1> QED BY <1>2, <1>3 DEF Chars

-----------------------------------------------------------------------------
(***************************************************************************)
(* The parts of a text.                                                    *)
(***************************************************************************)
(* A text is a sequence of bytes.                                           *)
LEMMA CharsType ==
  ASSUME NEW b \in Seq(Byte), NEW gs \in Nat, NEW ge \in Nat,
         gs <= ge, ge <= Len(b)
  PROVE  /\ Chars(b, gs, ge) \in Seq(Byte)
         /\ Len(Chars(b, gs, ge)) = Len(b) - (ge - gs)
BY DEF Chars

(* The first gs characters are the bytes before the gap.                    *)
LEMMA CharsFront ==
  ASSUME NEW b \in Seq(Byte), NEW gs \in Nat, NEW ge \in Nat,
         gs <= ge, ge <= Len(b)
  PROVE  SubSeq(Chars(b, gs, ge), 1, gs) = Slice(b, 0, gs)
BY DEF Chars, Slice

(* What follows the first k elements of a sequence.                         *)
LEMMA SuffixParts ==
  ASSUME NEW t \in Seq(Byte), NEW k \in 0 .. Len(t)
  PROVE  /\ SubSeq(t, k + 1, Len(t)) \in Seq(Byte)
         /\ Len(SubSeq(t, k + 1, Len(t))) = Len(t) - k
         /\ \A i \in 1 .. Len(t) - k : SubSeq(t, k + 1, Len(t))[i] = t[k + i]
OBVIOUS

(* What follows the character gs + k is k bytes behind the end of the gap.  *)
LEMMA CharsBack ==
  ASSUME NEW b \in Seq(Byte), NEW gs \in Nat, NEW ge \in Nat,
         gs <= ge, NEW k \in Nat, ge + k <= Len(b)
  PROVE  SubSeq(Chars(b, gs, ge), gs + k + 1, Len(Chars(b, gs, ge)))
           = Slice(b, ge + k, Len(b))
<1> DEFINE at == gs + k
           from == ge + k
           t == Chars(b, gs, ge)
           T == Len(b) - (ge - gs)
           r == SubSeq(t, at + 1, Len(t))
           s == Slice(b, from, Len(b))
<1>0. /\ at \in Nat /\ from \in Nat /\ gs <= at /\ from <= Len(b)
      /\ at - gs = from - ge /\ ge <= Len(b)
  OBVIOUS
<1> HIDE DEF at, from
<1>1. /\ Len(b) \in Nat /\ T \in Nat /\ at <= T
      /\ T - at = Len(b) - from /\ T - at \in Nat
  BY <1>0
<1>2. t \in Seq(Byte) /\ Len(t) = T
  BY <1>0, CharsType
<1>3. ASSUME NEW i \in 1 .. T - at PROVE t[at + i] = b[from + i]
  <2>1. at + i \in 1 .. T /\ ~(at + i <= gs) /\ at + i + (ge - gs) = from + i
    BY <1>0, <1>1
  <2> QED BY <2>1 DEF Chars
<1>4. /\ s \in Seq(Byte) /\ Len(s) = Len(b) - from
      /\ \A i \in 1 .. Len(b) - from : s[i] = b[from + i]
  BY <1>0, <1>1 DEF Slice
<1> HIDE DEF t, T, s
<1>5. /\ r \in Seq(Byte) /\ Len(r) = T - at
      /\ \A i \in 1 .. T - at : r[i] = t[at + i]
  <2>1. at \in 0 .. Len(t)
    BY <1>0, <1>1, <1>2
  <2>2. /\ r \in Seq(Byte) /\ Len(r) = Len(t) - at
        /\ \A i \in 1 .. Len(t) - at : r[i] = t[at + i]
    BY <1>2, <2>1, SuffixParts
  <2> QED BY <1>2, <2>2
<1> HIDE DEF r
<1>6. Len(r) = Len(s) /\ \A i \in 1 .. Len(r) : r[i] = s[i]
  BY <1>1, <1>3, <1>4, <1>5
<1>7. r = s
  BY <1>4, <1>5, <1>6, SeqEqual
<1> QED BY <1>7 DEF r, t, s, at, from

(* What follows the first gs characters is the bytes behind the gap.        *)
LEMMA CharsTail ==
  ASSUME NEW b \in Seq(Byte), NEW gs \in Nat, NEW ge \in Nat,
         gs <= ge, ge <= Len(b)
  PROVE  SubSeq(Chars(b, gs, ge), gs + 1, Len(Chars(b, gs, ge)))
           = Slice(b, ge, Len(b))
<1>1. ge + 0 <= Len(b) /\ ge + 0 = ge /\ gs + 0 = gs
  OBVIOUS
<1>2. SubSeq(Chars(b, gs, ge), gs + 0 + 1, Len(Chars(b, gs, ge)))
           = Slice(b, ge + 0, Len(b))
  BY <1>1, CharsBack, ZenonT(60)
<1> QED BY <1>1, <1>2

(* The text is what lies before the gap and behind it.                      *)
LEMMA CharsParts ==
  ASSUME NEW b \in Seq(Byte), NEW gs \in Nat, NEW ge \in Nat,
         gs <= ge, ge <= Len(b)
  PROVE  Chars(b, gs, ge) = Slice(b, 0, gs) \o Slice(b, ge, Len(b))
<1> DEFINE t == Chars(b, gs, ge)
<1>1. t \in Seq(Byte) /\ Len(t) = Len(b) - (ge - gs) /\ gs \in 0 .. Len(t)
  BY CharsType
<1>2. SubSeq(t, 1, gs) = Slice(b, 0, gs)
  BY CharsFront
<1>3. SubSeq(t, gs + 1, Len(t)) = Slice(b, ge, Len(b))
  BY CharsTail
<1> HIDE DEF t
<1>4. t = SubSeq(t, 1, gs) \o SubSeq(t, gs + 1, Len(t))
  BY <1>1, SeqParts
<1> QED BY <1>2, <1>3, <1>4 DEF t

(* insert() copies the text to gap_start and moves gap_start behind it.     *)
LEMMA FillGapForm ==
  ASSUME NEW b, NEW gs, NEW ge, NEW s
  PROVE  FillGap(Gap(b, gs, ge), s) = Gap(Copy(b, gs, s), gs + Len(s), ge)
BY DEF FillGap, Gap

(* The string written into the gap stands between the two parts.            *)
LEMMA FillGapChars ==
  ASSUME NEW b \in Seq(Byte), NEW gs \in Nat, NEW ge \in Nat,
         NEW s \in Seq(Byte), gs + Len(s) <= ge, ge <= Len(b)
  PROVE  /\ Copy(b, gs, s) \in Seq(Byte) /\ Len(Copy(b, gs, s)) = Len(b)
         /\ Chars(Copy(b, gs, s), gs + Len(s), ge) =
               Slice(b, 0, gs) \o s \o Slice(b, ge, Len(b))
<1> DEFINE c  == Copy(b, gs, s)
           hs == gs + Len(s)
<1>0. /\ Len(b) \in Nat /\ Len(s) \in Nat /\ gs <= ge
      /\ hs \in Nat /\ hs <= ge /\ hs = gs + Len(s)
  OBVIOUS
<1>2. c \in Seq(Byte) /\ Len(c) = Len(b)
  BY DEF Copy
<1>3. Slice(c, 0, hs) = Slice(b, 0, gs) \o s
  BY <1>0 DEF Slice, Copy
<1>4. Slice(c, ge, Len(c)) = Slice(b, ge, Len(b))
  BY <1>0 DEF Slice, Copy
<1> HIDE DEF c, hs
<1>5. Chars(c, hs, ge) = Slice(c, 0, hs) \o Slice(c, ge, Len(c))
  <2>1. ge <= Len(c)
    BY <1>2
  <2> QED BY <1>0, <1>2, <2>1, CharsParts
<1> QED BY <1>2, <1>3, <1>4, <1>5 DEF c, hs

-----------------------------------------------------------------------------
(***************************************************************************)
(* The operations on a node.                                               *)
(***************************************************************************)
(* size() is the length of the text.                                        *)
LEMMA SizeIsLen ==
  ASSUME NEW n \in GapNodes
  PROVE  /\ Content(n) \in Seq(Byte)
         /\ Len(Content(n)) = Size(n) /\ Size(n) \in Nat
<1>1. PICK b \in Seq(Byte), gs \in Nat, ge \in Nat :
           n = Gap(b, gs, ge) /\ gs <= ge /\ ge <= Len(b)
  BY GapForm
<1>2. Size(n) = Len(b) - (ge - gs) /\ Content(n) = Chars(b, gs, ge)
  BY <1>1, GapFields, GapChars
<1>3. /\ Chars(b, gs, ge) \in Seq(Byte)
      /\ Len(Chars(b, gs, ge)) = Len(b) - (ge - gs)
  BY <1>1, CharsType
<1> QED BY <1>2, <1>3

(* ... and the text before and behind the gap is not disturbed by it.       *)
LEMMA FillGapText ==
  ASSUME NEW b \in Seq(Byte), NEW gs \in Nat, NEW ge \in Nat,
         NEW s \in Seq(Byte), gs + Len(s) <= ge, ge <= Len(b)
  PROVE  LET t == Chars(b, gs, ge)
         IN  /\ FillGap(Gap(b, gs, ge), s) \in GapNodes
             /\ Content(FillGap(Gap(b, gs, ge), s)) =
                  SubSeq(t, 1, gs) \o s \o SubSeq(t, gs + 1, Len(t))
<1> DEFINE t  == Chars(b, gs, ge)
           hs == gs + Len(s)
           d == Copy(b, gs, s)
<1>1. Len(s) \in Nat /\ hs \in Nat /\ hs <= ge /\ gs <= ge
  OBVIOUS
<1>2. /\ d \in Seq(Byte) /\ Len(d) = Len(b)
      /\ Chars(d, hs, ge) = Slice(b, 0, gs) \o s \o Slice(b, ge, Len(b))
  BY FillGapChars
<1>3. FillGap(Gap(b, gs, ge), s) = Gap(d, hs, ge)
  BY FillGapForm
<1>4. SubSeq(t, 1, gs) = Slice(b, 0, gs)
  BY <1>1, CharsFront
<1>5. SubSeq(t, gs + 1, Len(t)) = Slice(b, ge, Len(b))
  BY <1>1, CharsTail
<1> HIDE DEF hs, d
<1>6. Gap(d, hs, ge) \in GapNodes /\ Content(Gap(d, hs, ge)) = Chars(d, hs, ge)
  BY <1>1, <1>2, GapIsNode, GapChars
<1> QED BY <1>2, <1>3, <1>4, <1>5, <1>6

(* front_span() and back_span().                                            *)
LEMMA GapSpans ==
  ASSUME NEW b \in Seq(Byte), NEW gs \in Nat, NEW ge \in Nat
  PROVE  /\ FrontSpan(Gap(b, gs, ge)) = Slice(b, 0, gs)
         /\ BackSpan(Gap(b, gs, ge)) = Slice(b, ge, Len(b))
BY DEF FrontSpan, BackSpan, Gap

Cut(n, p, k) == Swallow(MoveGap(n, p), k)

(* The gap grows over the k bytes behind it.                               *)
LEMMA SwallowForm ==
  ASSUME NEW b, NEW gs, NEW ge, NEW k
  PROVE  Swallow(Gap(b, gs, ge), k) = Gap(b, gs, ge + k)
BY DEF Swallow, Gap

(* Growing the gap over characters takes them out of the text.              *)
LEMMA CutText ==
  ASSUME NEW n \in GapNodes, NEW p \in 0 .. Size(n), NEW k \in Nat,
         p + k <= Size(n)
  PROVE  /\ Cut(n, p, k) \in GapNodes
         /\ Size(Cut(n, p, k)) = Size(n) - k
         /\ Content(Cut(n, p, k)) =
              SubSeq(Content(n), 1, p)
                \o SubSeq(Content(n), p + k + 1, Len(Content(n)))
<1>0. p \in Nat /\ Size(n) \in Nat /\ p + k <= Size(n)
  BY SizeIsLen
<1>1. PICK b \in Seq(Byte), ge \in Nat :
        /\ MoveGap(n, p) = Gap(b, p, ge)
        /\ p <= ge /\ ge <= Len(b)
        /\ Chars(b, p, ge) = Content(n)
  BY MoveGapKeeps
<1>2. Len(Content(n)) = Len(b) - (ge - p) /\ Len(Content(n)) = Size(n)
  BY <1>0, <1>1, CharsType, SizeIsLen
<1> DEFINE he == ge + k
<1>3. /\ he \in Nat /\ p <= he /\ he <= Len(b)
  BY <1>0, <1>1, <1>2
<1>4. Cut(n, p, k) = Gap(b, p, he)
  BY <1>1, SwallowForm DEF Cut
<1> HIDE DEF he
<1>5. Gap(b, p, he) \in GapNodes /\ Content(Gap(b, p, he)) = Chars(b, p, he)
  BY <1>0, <1>3, GapIsNode, GapChars
<1>6. Chars(b, p, he) = Slice(b, 0, p) \o Slice(b, he, Len(b))
  BY <1>0, <1>3, CharsParts
<1>7. SubSeq(Content(n), 1, p) = Slice(b, 0, p)
  BY <1>0, <1>1, CharsFront
<1>8. SubSeq(Content(n), p + k + 1, Len(Content(n))) = Slice(b, he, Len(b))
  <2>1. /\ b \in Seq(Byte) /\ p \in Nat /\ ge \in Nat /\ k \in Nat
        /\ p <= ge /\ ge + k <= Len(b)
    BY <1>0, <1>1, <1>3 DEF he
  <2>2. SubSeq(Chars(b, p, ge), p + k + 1, Len(Chars(b, p, ge)))
          = Slice(b, ge + k, Len(b))
    BY <2>1, CharsBack
  <2> QED BY <1>1, <2>2 DEF he
<1>9. Size(Gap(b, p, he)) = Size(n) - k
  <2>1. Size(Gap(b, p, he)) = Len(b) - (he - p)
    BY <1>0, <1>3, GapFields
  <2>2. Len(b) - (ge - p) = Size(n) /\ Len(b) \in Nat
    BY <1>1, <1>2
  <2>3. Len(b) - (he - p) = Size(n) - k
    BY <2>2, <1>0 DEF he
  <2> QED BY <2>1, <2>3
<1> QED BY <1>4, <1>5, <1>6, <1>7, <1>8, <1>9

(* Block by block or character by character: the same text.                 *)
LEMMA GapToString ==
  ASSUME NEW n \in GapNodes
  PROVE  FrontSpan(n) \o BackSpan(n) = Content(n)
<1>1. PICK b \in Seq(Byte), gs \in Nat, ge \in Nat :
           n = Gap(b, gs, ge) /\ gs <= ge /\ ge <= Len(b)
  BY GapForm
<1>2. Content(n) = Chars(b, gs, ge)
  BY <1>1, GapChars
<1>3. FrontSpan(n) = Slice(b, 0, gs) /\ BackSpan(n) = Slice(b, ge, Len(b))
  BY <1>1, GapSpans
<1>4. Chars(b, gs, ge) = Slice(b, 0, gs) \o Slice(b, ge, Len(b))
  BY <1>1, CharsParts
<1> QED BY <1>2, <1>3, <1>4

(* A packed node holds its buffer.                                          *)
LEMMA CompactContent ==
  ASSUME NEW n \in CompactNodes
  PROVE  /\ n.kind = "compact" /\ n.buf \in Seq(Byte)
         /\ Size(n) = Len(n.buf) /\ Content(n) = n.buf
<1>1. n.kind = "compact" /\ n.buf \in Seq(Byte)
  BY DEF CompactNodes
<1>2. /\ Size(n) = Len(n.buf)
      /\ \A i \in 1 .. Len(n.buf) : At(n, i - 1) = n.buf[i]
  BY <1>1 DEF Size, At
<1> QED BY <1>1, <1>2 DEF Content

===============================================================================
