---------------------------- MODULE BenchmarkProofs ----------------------------
(***************************************************************************)
(* Theorems about the benchmark driver, for every size of the scenarios,   *)
(* every number of edits and attempts, every build and command line, and   *)
(* every sequence of random numbers.                                       *)
(***************************************************************************)
EXTENDS Benchmark, FiniteSetTheorems, SequenceTheorems, TLAPS

(* Sequences and loops.                                                     *)
Seqs == INSTANCE TextLemmas WITH Char <- {}, Zero <- 0

Letter == {"x", "A"}

(* The characters an edit of a scenario inserts.                            *)
TypedBy(scenario) == IF scenario = "paster" THEN Block ELSE <<"A">>

-----------------------------------------------------------------------------
(***************************************************************************)
(* What an attempt makes of its text, said of the scenario and of the n    *)
(* characters prefilled alone, not of the structure or its policy.         *)
(***************************************************************************)

(* Typed into the middle: all of it lies between the halves of the prefill. *)
Middle(n, k) ==
  [j \in 1 .. n + k |-> IF j <= n \div 2 \/ n \div 2 + k < j THEN "x" ELSE "A"]

(* One edit at a random position of h.                                      *)
Dropped(h, j) ==
  LET p == draws[j % Period] % Len(h) IN Seqs!Splice(h, p, <<"A">>, p + 1)

(* h[j] is the text after j such edits.                                     *)
Drops(h, n, k) ==
  /\ h \in [0 .. k -> Seq(Letter)]
  /\ h[0] = Xs(n)
  /\ \A j \in 0 .. k : Len(h[j]) = n + j
  /\ \A j \in 0 .. k - 1 : h[j + 1] = Dropped(h[j], j)

Worked(scenario, n, k, t) ==
  IF scenario \in {"mixed", "random"}
    THEN \E h : Drops(h, n, k) /\ t = h[k]
    ELSE t = Middle(n, k * Len(TypedBy(scenario)))

-----------------------------------------------------------------------------
(***************************************************************************)
(* The inductive invariant.                                                *)
(***************************************************************************)
TypeInv ==
  /\ draws \in [0 .. Period - 1 -> Nat]
  /\ job \in Nat \ {0} /\ attempt \in Nat
  /\ pc \in {"row", "prefill", "edit"}
  /\ pc # "row" => job <= Len(Plan)
  /\ text \in Seq(Letter)
  /\ mid \in Nat /\ i \in Nat /\ gen \in Nat

Prefilling ==
  pc = "prefill" => /\ i = 0 /\ gen = 0
                    /\ text = Xs(Len(text))

Editing ==
  pc = "edit" => /\ i <= Times[Row.scenario]
                 /\ mid = Prefill \div 2
                 /\ Len(text) = Prefill + i * Len(Typed)
                 /\ Filled(text) = Prefill
                 /\ Worked(Row.scenario, Prefill, i, text)
                 /\ Random => gen = i

Results ==
  \A r \in ended : /\ r[1].scenario \in Scenarios
                   /\ Filled(r[2]) \in Nat \ {0}
                   /\ Worked(r[1].scenario, Filled(r[2]),
                             Times[r[1].scenario], r[2])

IInv == TypeInv /\ Prefilling /\ Editing /\ Results

-----------------------------------------------------------------------------
(***************************************************************************)
(* The rows.                                                               *)
(***************************************************************************)
RowSet == [scenario : Scenarios, struct : Structures]

(* The rows of one scenario are rows.                                       *)
LEMMA RowsType ==
  ASSUME NEW s \in Scenarios, NEW q \in Seq(Structures)
  PROVE  Rows(s, q) \in Seq(RowSet)
<1>1. DOMAIN q = 1 .. Len(q) /\ Len(q) \in Nat
  OBVIOUS
<1>2. \A k \in DOMAIN q : [scenario |-> s, struct |-> q[k]] \in RowSet
  BY DEF RowSet
<1> QED BY <1>1, <1>2, IsASeq DEF Rows

(* Each place of the plan has a row.                                        *)
LEMMA PlanType == Plan \in Seq(RowSet)
<1> DEFINE a == Rows("typing", <<"vector", "string">> \o Editors)
           b == Rows("heavy", Editors)
           c == Rows("mixed", <<"string">> \o Editors)
           d == Rows("random", Editors)
           f == Rows("paster", Editors)
<1>1. Editors \in Seq(Structures)
  BY DEF Editors, Structures
<1>2. /\ <<"vector", "string">> \in Seq(Structures)
      /\ <<"string">> \in Seq(Structures)
  BY DEF Structures
<1>3. /\ <<"vector", "string">> \o Editors \in Seq(Structures)
      /\ <<"string">> \o Editors \in Seq(Structures)
  BY <1>1, <1>2, ConcatProperties
<1>4. {"typing", "heavy", "mixed", "random", "paster"} = Scenarios
  BY DEF Scenarios
<1>5. /\ a \in Seq(RowSet) /\ b \in Seq(RowSet) /\ c \in Seq(RowSet)
      /\ d \in Seq(RowSet) /\ f \in Seq(RowSet)
  BY <1>1, <1>3, <1>4, RowsType
<1>6. Plan = a \o b \o c \o d \o f
  BY DEF Plan
<1> HIDE DEF a, b, c, d, f
<1>7. a \o b \in Seq(RowSet)
  BY <1>5, ConcatProperties
<1>8. a \o b \o c \in Seq(RowSet)
  BY <1>5, <1>7, ConcatProperties
<1>9. a \o b \o c \o d \in Seq(RowSet)
  BY <1>5, <1>8, ConcatProperties
<1> QED BY <1>5, <1>6, <1>9, ConcatProperties

(* The row an attempt is for.                                               *)
LEMMA RowIs ==
  ASSUME job \in Nat \ {0}, job <= Len(Plan)
  PROVE  /\ Row \in RowSet
         /\ Row.scenario \in Scenarios /\ Row.struct \in Structures
<1>1. Row \in RowSet
  BY PlanType, ElementOfSeq DEF Row
<1> QED BY <1>1 DEF RowSet

(* An attempt begins with some text.                                        *)
LEMMA PrefillIs ==
  ASSUME job \in Nat \ {0}, job <= Len(Plan)
  PROVE  Prefill \in Nat \ {0}
<1>1. Fills \in Nat \ {0} /\ Chunk \in Nat \ {0} /\ Chunk <= Fills
  BY RowIs, BenchmarkAssumption DEF Fills
<1>2. Chunk * (Fills \div Chunk) \in Nat \ {0}
  <2>1. ASSUME NEW a \in Nat, NEW b \in Nat \ {0}, b <= a
        PROVE  b * (a \div b) \in Nat \ {0}
    BY <2>1, SMTT(30)
  <2> QED BY <1>1, <2>1
<1> QED BY <1>1, <1>2 DEF Prefill

(* What an edit inserts.                                                    *)
LEMMA TypedIs ==
  /\ Typed = TypedBy(Row.scenario)
  /\ Typed \in Seq({"A"})
  /\ Row.scenario # "paster" => Typed = <<"A">> /\ Len(Typed) = 1
<1>1. <<"A">> \in Seq({"A"}) /\ Len(<<"A">>) = 1
  OBVIOUS
<1>2. Block \in Seq({"A"})
  BY BenchmarkAssumption
<1> QED BY <1>1, <1>2, Zenon DEF Typed, TypedBy

-----------------------------------------------------------------------------
(***************************************************************************)
(* Texts of x's and of what is inserted between them.                      *)
(***************************************************************************)

(* A run of x's.                                                            *)
LEMMA XsIs ==
  ASSUME NEW n \in Nat
  PROVE  /\ Xs(n) \in Seq(Letter) /\ Len(Xs(n)) = n
         /\ \A j \in 1 .. n : Xs(n)[j] = "x"
<1>1. Xs(n) = [k \in 1 .. n |-> "x"]
  BY DEF Xs
<1>2. \A k \in 1 .. n : "x" \in Letter
  BY DEF Letter
<1>3. Xs(n) \in Seq(Letter) /\ Len(Xs(n)) = n
  BY <1>1, <1>2, IsASeq, LenProperties
<1> QED BY <1>1, <1>3

(* An edit makes a text longer.                                             *)
LEMMA EditLen ==
  \A t \in Seq(Letter), s \in Seq({"A"}) : \A p \in 0 .. Len(t) :
    /\ Seqs!Splice(t, p, s, p + 1) \in Seq(Letter)
    /\ Len(Seqs!Splice(t, p, s, p + 1)) = Len(t) + Len(s)
<1> SUFFICES ASSUME NEW t \in Seq(Letter), NEW s \in Seq({"A"}), NEW p \in 0 .. Len(t)
             PROVE  /\ Seqs!Splice(t, p, s, p + 1) \in Seq(Letter)
                    /\ Len(Seqs!Splice(t, p, s, p + 1)) = Len(t) + Len(s)
  OBVIOUS
<1>1. s \in Seq(Letter)
  BY DEF Letter
<1>2. p + 1 \in 1 .. Len(t) + 1
  OBVIOUS
<1>3. /\ Seqs!Splice(t, p, s, p + 1) \in Seq(Letter)
      /\ Len(Seqs!Splice(t, p, s, p + 1)) = p + Len(s) + (Len(t) + 1 - (p + 1))
  BY <1>1, <1>2, Seqs!SpliceLen
<1>4. Len(s) \in Nat /\ Len(t) \in Nat
  OBVIOUS
<1> QED BY <1>3, <1>4

(* Where the characters of a text are after an insertion.                   *)
LEMMA SpliceAt ==
  ASSUME NEW Sort, NEW t \in Seq(Sort), NEW s \in Seq(Sort), NEW p \in 0 .. Len(t)
  PROVE  LET z == Seqs!Splice(t, p, s, p + 1)
         IN  /\ z \in Seq(Sort) /\ Len(z) = Len(t) + Len(s)
             /\ \A j \in 1 .. p : z[j] = t[j]
             /\ \A j \in 1 .. Len(s) : z[p + j] = s[j]
             /\ \A j \in p + 1 .. Len(t) : z[j + Len(s)] = t[j]
<1> DEFINE f == SubSeq(t, 1, p)
           g == SubSeq(t, p + 1, Len(t))
           z == Seqs!Splice(t, p, s, p + 1)
<1>1. f \in Seq(Sort) /\ Len(f) = p /\ \A j \in 1 .. p : f[j] = t[j]
  OBVIOUS
<1>2. /\ g \in Seq(Sort) /\ Len(g) = Len(t) - p
      /\ \A j \in 1 .. Len(t) - p : g[j] = t[p + j]
  OBVIOUS
<1>3. z \in Seq(Sort) /\ Len(z) = Len(t) + Len(s)
  BY Seqs!SpliceLen
<1>4. z = (f \o s) \o g
  BY DEF Seqs!Splice
<1> HIDE DEF f, g, z
<1> DEFINE y == f \o s
<1>5. /\ y \in Seq(Sort) /\ Len(y) = p + Len(s)
      /\ \A j \in 1 .. p : y[j] = t[j]
      /\ \A j \in 1 .. Len(s) : y[p + j] = s[j]
  BY <1>1
<1>6. z = y \o g
  BY <1>4
<1> HIDE DEF y
<1>7. \A j \in 1 .. p : z[j] = t[j]
  BY <1>2, <1>5, <1>6
<1>8. \A j \in 1 .. Len(s) : z[p + j] = s[j]
  BY <1>2, <1>5, <1>6
<1>9. ASSUME NEW j \in p + 1 .. Len(t)
      PROVE  z[j + Len(s)] = t[j]
  <2>1. j - p \in 1 .. Len(t) - p /\ p + (j - p) = j
    OBVIOUS
  <2>2. z[p + Len(s) + (j - p)] = g[j - p]
    BY <2>1, <1>2, <1>5, <1>6
  <2>3. p + Len(s) + (j - p) = j + Len(s)
    OBVIOUS
  <2> QED BY <2>1, <2>2, <2>3, <1>2
<1> QED BY <1>3, <1>7, <1>8, <1>9 DEF z

-----------------------------------------------------------------------------
(***************************************************************************)
(* How many of the characters are of the prefill.                          *)
(***************************************************************************)

(* All of a run of x's.                                                     *)
LEMMA FilledXs ==
  ASSUME NEW n \in Nat
  PROVE  Filled(Xs(n)) = n
<1>1. DOMAIN Xs(n) = 1 .. n
  BY DEF Xs
<1>2. {k \in DOMAIN Xs(n) : Xs(n)[k] = "x"} = 1 .. n
  BY <1>1, XsIs
<1>3. Cardinality(1 .. n) = n
  BY FS_Interval
<1> QED BY <1>2, <1>3 DEF Filled

(* As many as before where an edit inserted none.                           *)
LEMMA FilledSplice ==
  ASSUME NEW t \in Seq(Letter), NEW s \in Seq({"A"}), NEW p \in 0 .. Len(t)
  PROVE  Filled(Seqs!Splice(t, p, s, p + 1)) = Filled(t)
<1> DEFINE z == Seqs!Splice(t, p, s, p + 1)
           l == Len(s)
           X == {k \in 1 .. Len(t) : t[k] = "x"}
           Y == {k \in 1 .. Len(z) : z[k] = "x"}
           f == [k \in X |-> IF k <= p THEN k ELSE k + l]
<1>1. s \in Seq(Letter) /\ l \in Nat /\ \A j \in 1 .. l : s[j] = "A"
  BY DEF Letter
<1>2. /\ z \in Seq(Letter) /\ Len(z) = Len(t) + l
      /\ \A j \in 1 .. p : z[j] = t[j]
      /\ \A j \in 1 .. l : z[p + j] = s[j]
      /\ \A j \in p + 1 .. Len(t) : z[j + l] = t[j]
  BY <1>1, SpliceAt, ZenonT(60)
<1>3. DOMAIN t = 1 .. Len(t) /\ DOMAIN z = 1 .. Len(z) /\ Len(t) \in Nat
  BY <1>2
<1>4. Filled(t) = Cardinality(X) /\ Filled(z) = Cardinality(Y)
  BY <1>3 DEF Filled
<1> HIDE DEF z, l
<1>5. ASSUME NEW k \in X PROVE f[k] \in Y
  BY <1>1, <1>2, <1>3
<1>6. \A j, k \in X : f[j] = f[k] => j = k
  BY <1>1, <1>3
<1>7. ASSUME NEW k \in Y PROVE \E j \in X : f[j] = k
  <2>1. CASE k <= p
    <3>1. k \in X
      BY <2>1, <1>2, <1>3
    <3> QED BY <2>1, <3>1
  <2>2. CASE p < k /\ k <= p + l
    <3>1. k - p \in 1 .. l /\ p + (k - p) = k
      BY <2>2, <1>1, <1>3
    <3>2. z[k] = "A"
      BY <3>1, <1>1, <1>2
    <3> QED BY <3>2
  <2>3. CASE p + l < k
    <3>1. k - l \in p + 1 .. Len(t) /\ (k - l) + l = k
      BY <2>3, <1>1, <1>2, <1>3
    <3>2. k - l \in X
      BY <3>1, <1>2, <1>3
    <3> DEFINE j == k - l
    <3>3. j \in X /\ ~(j <= p) /\ j + l = k
      BY <3>1, <3>2, <1>3
    <3> HIDE DEF j, X
    <3>4. f[j] = k
      BY <3>3
    <3> QED BY <3>3, <3>4
  <2>4. k \in Int /\ p \in Int /\ p + l \in Int
    BY <1>1, <1>2, <1>3
  <2>5. k <= p \/ (p < k /\ k <= p + l) \/ p + l < k
    <3> HIDE DEF Y
    <3> QED BY <2>4
  <2> QED BY <2>1, <2>2, <2>3, <2>5, Zenon
<1>8. f \in Bijection(X, Y)
  <2>1. f \in [X -> Y]
    BY <1>5
  <2>2. DOMAIN f = X
    OBVIOUS
  <2> HIDE DEF f, X, Y
  <2> QED BY <2>1, <2>2, <1>6, <1>7 DEF Bijection, Injection, Surjection, IsInjective
<1>9. ExistsBijection(X, Y)
  BY <1>8 DEF ExistsBijection
<1>10. IsFiniteSet(X)
  <2>1. IsFiniteSet(1 .. Len(t))
    BY <1>3, FS_Interval
  <2>2. X \in SUBSET (1 .. Len(t))
    OBVIOUS
  <2> QED BY <2>1, <2>2, FS_Subset, Zenon
<1> HIDE DEF X, Y
<1>11. Cardinality(Y) = Cardinality(X)
  BY <1>9, <1>10, FS_Bijection
<1> QED BY <1>4, <1>11 DEF z

-----------------------------------------------------------------------------
(***************************************************************************)
(* What the edits of an attempt make of its text.                          *)
(***************************************************************************)

(* A text typed into the middle of n characters.                            *)
LEMMA MiddleIs ==
  ASSUME NEW n \in Nat, NEW k \in Nat
  PROVE  /\ Middle(n, k) \in Seq(Letter) /\ Len(Middle(n, k)) = n + k
         /\ n \div 2 \in 0 .. n
         /\ \A j \in 1 .. n + k :
              Middle(n, k)[j] =
                IF j <= n \div 2 \/ n \div 2 + k < j THEN "x" ELSE "A"
<1>1. n \div 2 \in 0 .. n
  OBVIOUS
<1>2. \A j \in 1 .. n + k :
        (IF j <= n \div 2 \/ n \div 2 + k < j THEN "x" ELSE "A") \in Letter
  BY DEF Letter
<1>3. Middle(n, k) \in Seq(Letter) /\ Len(Middle(n, k)) = n + k
  BY <1>2, IsASeq, LenProperties DEF Middle
<1> QED BY <1>1, <1>3 DEF Middle

(* Before the first edit it is the prefill.                                 *)
LEMMA MiddleOfNone ==
  ASSUME NEW n \in Nat
  PROVE  Middle(n, 0) = Xs(n)
<1>1. Middle(n, 0) \in Seq(Letter) /\ Len(Middle(n, 0)) = n
  BY MiddleIs
<1>2. Xs(n) \in Seq(Letter) /\ Len(Xs(n)) = n /\ \A j \in 1 .. n : Xs(n)[j] = "x"
  BY XsIs
<1>3. ASSUME NEW j \in 1 .. n PROVE Middle(n, 0)[j] = "x"
  <2>1. n \div 2 \in Nat /\ j \in 1 .. n + 0 /\ (j <= n \div 2 \/ n \div 2 + 0 < j)
    OBVIOUS
  <2> QED BY <2>1, MiddleIs
<1> QED BY <1>1, <1>2, <1>3, SeqEqual

(* An edit anywhere in what was typed adds to it.                           *)
LEMMA MiddleGrows ==
  ASSUME NEW n \in Nat, NEW k \in Nat, NEW s \in Seq({"A"}),
         NEW p \in n \div 2 .. n \div 2 + k
  PROVE  /\ p \in 0 .. Len(Middle(n, k))
         /\ Seqs!Splice(Middle(n, k), p, s, p + 1) = Middle(n, k + Len(s))
<1> DEFINE t == Middle(n, k)
           l == Len(s)
           z == Seqs!Splice(t, p, s, p + 1)
           m == Middle(n, k + l)
           q == n \div 2
<1>1. s \in Seq(Letter) /\ l \in Nat /\ \A j \in 1 .. l : s[j] = "A"
  BY DEF Letter
<1>2. /\ t \in Seq(Letter) /\ Len(t) = n + k /\ q \in 0 .. n
      /\ \A j \in 1 .. n + k : t[j] = IF j <= q \/ q + k < j THEN "x" ELSE "A"
  BY MiddleIs
<1>3. p \in q .. q + k
  OBVIOUS
<1> HIDE DEF q, l
<1>4. p \in 0 .. Len(t)
  BY <1>2, <1>3
<1>5. /\ z \in Seq(Letter) /\ Len(z) = n + k + l
      /\ \A j \in 1 .. p : z[j] = t[j]
      /\ \A j \in 1 .. l : z[p + j] = s[j]
      /\ \A j \in p + 1 .. n + k : z[j + l] = t[j]
  <2>1. /\ z \in Seq(Letter) /\ Len(z) = Len(t) + Len(s)
        /\ \A j \in 1 .. p : z[j] = t[j]
        /\ \A j \in 1 .. Len(s) : z[p + j] = s[j]
        /\ \A j \in p + 1 .. Len(t) : z[j + Len(s)] = t[j]
    <3> HIDE DEF t
    <3> QED BY <1>1, <1>2, <1>4, SpliceAt, ZenonT(60)
  <2>2. Len(s) = l
    BY DEF l
  <2>3. Len(t) = n + k
    BY <1>2
  <2> HIDE DEF t, z
  <2> QED BY <2>1, <2>2, <2>3
<1>6. /\ m \in Seq(Letter) /\ Len(m) = n + (k + l)
      /\ \A j \in 1 .. n + (k + l) :
           m[j] = IF j <= q \/ q + (k + l) < j THEN "x" ELSE "A"
  <2>1. k + l \in Nat
    BY <1>1
  <2> QED BY <2>1, MiddleIs DEF q
<1> HIDE DEF t, z, m
<1>7. ASSUME NEW j \in 1 .. n + (k + l) PROVE z[j] = m[j]
  <2>1. CASE j <= p
    <3>1. j \in 1 .. p /\ j \in 1 .. n + k
      BY <2>1, <1>2, <1>4
    <3>2. (j <= q \/ q + k < j) <=> (j <= q \/ q + (k + l) < j)
      BY <2>1, <1>1, <1>2, <1>3
    <3>3. z[j] = t[j]
      BY <3>1, <1>5
    <3>4. t[j] = IF j <= q \/ q + k < j THEN "x" ELSE "A"
      BY <3>1, <1>2
    <3>5. m[j] = IF j <= q \/ q + (k + l) < j THEN "x" ELSE "A"
      BY <1>6
    <3> QED BY <3>2, <3>3, <3>4, <3>5, Zenon
  <2>2. CASE p < j /\ j <= p + l
    <3>1. j - p \in 1 .. l /\ p + (j - p) = j
      BY <2>2, <1>1, <1>2, <1>3
    <3>2. z[j] = "A"
      BY <3>1, <1>1, <1>5
    <3>3. ~(j <= q \/ q + (k + l) < j)
      BY <2>2, <1>1, <1>2, <1>3
    <3> QED BY <3>2, <3>3, <1>6
  <2>3. CASE p + l < j
    <3> DEFINE u == j - l
    <3>1. u \in p + 1 .. n + k /\ u \in 1 .. n + k /\ u + l = j
      BY <2>3, <1>1, <1>2, <1>3
    <3>2. (u <= q \/ q + k < u) <=> (j <= q \/ q + (k + l) < j)
      BY <2>3, <1>1, <1>2, <1>3
    <3> HIDE DEF u
    <3>3. z[j] = t[u]
      BY <3>1, <1>5
    <3>4. t[u] = IF u <= q \/ q + k < u THEN "x" ELSE "A"
      BY <3>1, <1>2
    <3>5. m[j] = IF j <= q \/ q + (k + l) < j THEN "x" ELSE "A"
      BY <1>6
    <3> QED BY <3>2, <3>3, <3>4, <3>5, Zenon
  <2> QED BY <2>1, <2>2, <2>3, <1>1, <1>2, <1>3
<1>8. z = m
  <2>1. Len(z) = Len(m) /\ Len(m) = n + (k + l)
    BY <1>1, <1>5, <1>6
  <2> QED BY <2>1, <1>5, <1>6, <1>7, SeqEqual
<1> QED BY <1>4, <1>8 DEF t, z, m, l

(* One more random edit.                                                    *)
LEMMA DropsGrow ==
  ASSUME draws \in [0 .. Period - 1 -> Nat], NEW n \in Nat \ {0}, NEW k \in Nat,
         NEW h, Drops(h, n, k)
  PROVE  /\ draws[k % Period] % Len(h[k]) \in 0 .. Len(h[k]) - 1
         /\ \E g : Drops(g, n, k + 1) /\ g[k + 1] = Dropped(h[k], k)
<1> DEFINE t == h[k]
           p == draws[k % Period] % Len(t)
           u == Dropped(t, k)
           g == [j \in 0 .. k + 1 |-> IF j <= k THEN h[j] ELSE u]
<1>1. t \in Seq(Letter) /\ Len(t) = n + k
  BY DEF Drops
<1>2. k % Period \in 0 .. Period - 1
  BY BenchmarkAssumption, SMTT(30)
<1>3. p \in 0 .. Len(t) - 1
  <2>1. draws[k % Period] \in Nat /\ Len(t) \in Nat \ {0}
    BY <1>1, <1>2
  <2>2. ASSUME NEW a \in Nat, NEW b \in Nat \ {0} PROVE a % b \in 0 .. b - 1
    BY SMTT(30)
  <2> QED BY <2>1, <2>2
<1>4. u = Seqs!Splice(t, p, <<"A">>, p + 1)
  BY DEF Dropped
<1> HIDE DEF p, t
<1>5. u \in Seq(Letter) /\ Len(u) = Len(t) + 1
  <2>1. <<"A">> \in Seq({"A"}) /\ Len(<<"A">>) = 1
    OBVIOUS
  <2>2. p \in 0 .. Len(t)
    BY <1>1, <1>3
  <2> QED BY <2>1, <2>2, <1>1, <1>4, EditLen
<1> HIDE DEF u
<1>6. Drops(g, n, k + 1)
  <2>1. g \in [0 .. k + 1 -> Seq(Letter)]
    BY <1>5 DEF Drops
  <2>2. g[0] = Xs(n)
    BY DEF Drops
  <2>3. ASSUME NEW j \in 0 .. k + 1 PROVE Len(g[j]) = n + j
    <3>1. CASE j <= k
      <4>1. g[j] = h[j] /\ j \in 0 .. k
        BY <3>1
      <4> QED BY <4>1 DEF Drops
    <3>2. CASE j = k + 1
      <4>1. g[j] = u
        BY <3>2
      <4> QED BY <4>1, <3>2, <1>1, <1>5
    <3> QED BY <3>1, <3>2
  <2>4. ASSUME NEW j \in 0 .. (k + 1) - 1 PROVE g[j + 1] = Dropped(g[j], j)
    <3>1. g[j] = h[j]
      OBVIOUS
    <3>2. CASE j < k
      <4>1. g[j + 1] = h[j + 1] /\ j \in 0 .. k - 1
        BY <3>2
      <4>2. h[j + 1] = Dropped(h[j], j)
        BY <4>1 DEF Drops
      <4> QED BY <3>1, <4>1, <4>2
    <3>3. CASE j = k
      BY <3>1, <3>3 DEF u, t
    <3> QED BY <3>2, <3>3
  <2> HIDE DEF g
  <2> QED BY <2>1, <2>2, <2>3, <2>4 DEF Drops
<1>7. g[k + 1] = u
  OBVIOUS
<1> QED BY <1>3, <1>6, <1>7 DEF p, t, u

(* The same numbers make the same text.                                     *)
LEMMA DropsAgree ==
  ASSUME NEW n, NEW k \in Nat, NEW g, NEW h, Drops(g, n, k), Drops(h, n, k)
  PROVE  g[k] = h[k]
<1> SUFFICES ASSUME g[k] # h[k] PROVE FALSE
  OBVIOUS
<1> DEFINE S == {j \in 0 .. k : g[j] # h[j]}
<1>1. S \subseteq Nat /\ S # {}
  OBVIOUS
<1> HIDE DEF S
<1>2. PICK j \in S : \A m \in S : j <= m
  BY <1>1, Seqs!LeastNat
<1>3. j \in 0 .. k /\ g[j] # h[j] /\ j # 0
  BY <1>2 DEF S, Drops
<1>4. j - 1 \in 0 .. k - 1 /\ (j - 1) + 1 = j /\ ~(j <= j - 1)
  BY <1>3
<1>5. j - 1 \notin S
  BY <1>2, <1>4
<1>6. g[j - 1] = h[j - 1]
  BY <1>4, <1>5 DEF S
<1>7. g[j] = Dropped(g[j - 1], j - 1) /\ h[j] = Dropped(h[j - 1], j - 1)
  <2> DEFINE m == j - 1
  <2>1. m \in 0 .. k - 1 /\ m + 1 = j
    BY <1>4
  <2> HIDE DEF m
  <2>2. g[m + 1] = Dropped(g[m], m) /\ h[m + 1] = Dropped(h[m], m)
    BY <2>1 DEF Drops
  <2> QED BY <2>1, <2>2 DEF m
<1> QED BY <1>3, <1>6, <1>7

(* Whatever the structure, the same work on as much text ends the same.     *)
LEMMA WorkedAgree ==
  ASSUME NEW scenario, NEW n, NEW k \in Nat, NEW t, NEW u,
         Worked(scenario, n, k, t), Worked(scenario, n, k, u)
  PROVE  t = u
<1>1. CASE scenario \in {"mixed", "random"}
  <2>1. PICK g : Drops(g, n, k) /\ t = g[k]
    BY <1>1, Zenon DEF Worked
  <2>2. PICK h : Drops(h, n, k) /\ u = h[k]
    BY <1>1, Zenon DEF Worked
  <2> QED BY <2>1, <2>2, DropsAgree
<1>2. CASE ~(scenario \in {"mixed", "random"})
  BY <1>2, Zenon DEF Worked
<1> QED BY <1>1, <1>2

-----------------------------------------------------------------------------
(***************************************************************************)
(* The invariant.                                                          *)
(***************************************************************************)

(* Where an edit goes.                                                      *)
LEMMA PosIs ==
  ASSUME TypeInv, Editing, pc = "edit"
  PROVE  /\ Pos \in 0 .. Len(text)
         /\ Random => Pos < Len(text)
         /\ ~Random => Pos \in mid .. mid + i * Len(Typed)
<1>1. /\ job \in Nat \ {0} /\ job <= Len(Plan)
      /\ mid \in Nat /\ i \in Nat /\ text \in Seq(Letter)
      /\ draws \in [0 .. Period - 1 -> Nat] /\ gen \in Nat
  BY DEF TypeInv
<1>2. PICK n \in Nat \ {0} : n = Prefill
  BY <1>1, PrefillIs
<1>3. PICK l \in Nat : l = Len(Typed)
  BY TypedIs
<1>4. PICK m \in Nat : m = i * l
  BY <1>1, <1>3, SMTT(30)
<1>5. PICK k \in Nat : k = Len(text)
  BY <1>1
<1>6. mid = n \div 2 /\ k = n + m
  BY <1>2, <1>3, <1>4, <1>5 DEF Editing
<1>7. CASE Random
  <2>1. Pos = draws[gen % Period] % k
    BY <1>5, <1>7 DEF Pos, RandomPos
  <2>2. gen % Period \in 0 .. Period - 1
    BY <1>1, BenchmarkAssumption, SMTT(30)
  <2>3. draws[gen % Period] \in Nat /\ k \in Nat \ {0}
    BY <1>1, <1>2, <1>6, <2>2
  <2>4. ASSUME NEW a \in Nat, NEW b \in Nat \ {0} PROVE a % b \in 0 .. b - 1
    BY SMTT(30)
  <2>5. Pos \in 0 .. k - 1
    BY <2>1, <2>3, <2>4
  <2> QED BY <1>5, <1>7, <2>5
<1>8. CASE ~Random
  <2> DEFINE Good(p) == p \in 0 .. k /\ p \in mid .. mid + m
  <2>1. CASE Row.struct = "gap"
    <3>1. ~Follows
      BY <2>1 DEF Follows
    <3>2. Pos = k \div 2
      BY <2>1, <3>1, <1>5, <1>8 DEF Pos
    <3>3. Good(k \div 2)
      BY <1>6
    <3> QED BY <1>3, <1>4, <1>5, <1>8, <3>2, <3>3
  <2>2. CASE Row.struct # "gap" /\ Follows
    <3>1. Pos = mid + i
      BY <2>2, <1>8 DEF Pos
    <3>2. l = 1
      BY <2>2, <1>3, TypedIs DEF Follows
    <3>3. m = i
      BY <3>2, <1>1, <1>4
    <3>4. Good(mid + i)
      BY <1>1, <1>6, <3>3
    <3> QED BY <1>3, <1>4, <1>5, <1>8, <3>1, <3>4
  <2>3. CASE Row.struct # "gap" /\ ~Follows
    <3>1. Pos = mid
      BY <2>3, <1>8 DEF Pos
    <3>2. Good(mid)
      BY <1>1, <1>6
    <3> QED BY <1>3, <1>4, <1>5, <1>8, <3>1, <3>2
  <2> QED BY <2>1, <2>2, <2>3
<1> QED BY <1>7, <1>8

(* The work is the same as long as the numbers are.                         *)
LEMMA WorkedKept ==
  ASSUME draws' = draws, NEW scenario, NEW n, NEW k, NEW t
  PROVE  Worked(scenario, n, k, t)' <=> Worked(scenario, n, k, t)
BY DEF Worked, Drops, Dropped

(* Nothing but the row decides what is done.                                *)
LEMMA RowKept ==
  ASSUME job' = job
  PROVE  /\ Row' = Row /\ Prefill' = Prefill /\ Typed' = Typed
         /\ Random' = Random
BY DEF Row, Prefill, Chunked, Fills, Typed, Random

(* What the attempts that are over have made stays.                         *)
LEMMA ResultsKept ==
  ASSUME Results, draws' = draws, ended' = ended
  PROVE  Results'
<1> SUFFICES ASSUME NEW r \in ended
             PROVE  /\ r[1].scenario \in Scenarios
                    /\ Filled(r[2]) \in Nat \ {0}
                    /\ Worked(r[1].scenario, Filled(r[2]),
                              Times[r[1].scenario], r[2])'
  BY DEF Results, Filled
<1>1. PICK scenario, n, k, t : /\ scenario = r[1].scenario /\ n = Filled(r[2])
                               /\ k = Times[r[1].scenario] /\ t = r[2]
  OBVIOUS
<1>2. Worked(scenario, n, k, t)
  BY <1>1 DEF Results
<1>3. Worked(scenario, n, k, t)'
  BY <1>2, WorkedKept
<1> QED BY <1>1, <1>3 DEF Results, Filled

(* A run of x's is one character, and another.                              *)
LEMMA XsConcat ==
  ASSUME NEW m \in Nat, NEW n \in Nat
  PROVE  Xs(m) \o Xs(n) = Xs(m + n)
<1> DEFINE a == Xs(m)
           b == Xs(n)
           c == Xs(m + n)
<1>1. /\ a \in Seq(Letter) /\ Len(a) = m /\ \A j \in 1 .. m : a[j] = "x"
      /\ b \in Seq(Letter) /\ Len(b) = n /\ \A j \in 1 .. n : b[j] = "x"
      /\ c \in Seq(Letter) /\ Len(c) = m + n /\ \A j \in 1 .. m + n : c[j] = "x"
  BY XsIs
<1> HIDE DEF a, b, c
<1>2. a \o b \in Seq(Letter) /\ Len(a \o b) = m + n
  BY <1>1
<1>3. ASSUME NEW j \in 1 .. m + n PROVE (a \o b)[j] = "x"
  <2>1. CASE j <= m
    BY <1>1, <2>1
  <2>2. CASE m < j
    <3>1. j - m \in 1 .. n /\ m + (j - m) = j
      BY <2>2
    <3> QED BY <1>1, <3>1
  <2>3. j <= m \/ m < j
    OBVIOUS
  <2> QED BY <2>1, <2>2, <2>3, Zenon
<1>4. a \o b = c
  BY <1>1, <1>2, <1>3, SeqEqual
<1> QED BY <1>4 DEF a, b, c

(* Nothing has been filled in yet.                                          *)
LEMMA XsOfNone == << >> = Xs(0) /\ << >> \in Seq(Letter) /\ Len(<< >>) = 0
BY XsIs

(* The invariant holds initially,                                           *)
LEMMA InitInv == Init => IInv
<1> SUFFICES ASSUME Init PROVE IInv
  OBVIOUS
<1>1. draws \in [0 .. Period - 1 -> Nat]
  <2>1. 0 .. Size["random"] \subseteq Nat
    OBVIOUS
  <2> QED BY <2>1 DEF Init
<1>2. TypeInv
  BY <1>1, XsOfNone DEF Init, TypeInv
<1> QED BY <1>2 DEF Init, IInv, Prefilling, Editing, Results

(* and a prefill leads to it,                                               *)
LEMMA PrefillInv ==
  ASSUME IInv, AttemptStarts \/ PrefillWhole \/ PrefillChunk
  PROVE  IInv'
<1>1. TypeInv /\ Prefilling /\ Results
  BY DEF IInv
<1>2. /\ pc' = "prefill" /\ i' = 0 /\ gen' = 0
      /\ UNCHANGED <<draws, job, ended>>
  BY <1>1 DEF AttemptStarts, PrefillWhole, PrefillChunk, Prefilling, setup
<1>3. Results'
  BY <1>1, <1>2, ResultsKept
<1>4. job \in Nat \ {0} /\ job <= Len(Plan)
  BY <1>1 DEF TypeInv, AttemptStarts, PrefillWhole, PrefillChunk
<1>5. \E n \in Nat : text' = Xs(n)
  <2>1. CASE AttemptStarts
    BY <2>1, XsOfNone DEF AttemptStarts
  <2>2. CASE PrefillWhole
    <3>1. Fills \in Nat
      BY <1>4, RowIs, BenchmarkAssumption DEF Fills
    <3> QED BY <2>2, <3>1 DEF PrefillWhole
  <2>3. CASE PrefillChunk
    <3>1. text = Xs(Len(text)) /\ Len(text) \in Nat /\ Chunk \in Nat
      BY <2>3, <1>1, BenchmarkAssumption DEF PrefillChunk, Prefilling, TypeInv
    <3>2. PICK m \in Nat : text = Xs(m)
      BY <3>1
    <3>3. text' = Xs(m + Chunk)
      BY <2>3, <3>1, <3>2, XsConcat DEF PrefillChunk
    <3> QED BY <3>1, <3>3
  <2> QED BY <2>1, <2>2, <2>3
<1>6. text' \in Seq(Letter) /\ text' = Xs(Len(text'))
  <2>1. PICK n \in Nat : text' = Xs(n)
    BY <1>5
  <2> QED BY <2>1, XsIs
<1>7. mid' \in Nat /\ attempt' \in Nat
  BY <1>1 DEF TypeInv, AttemptStarts, PrefillWhole, PrefillChunk
<1>8. TypeInv'
  BY <1>1, <1>2, <1>4, <1>6, <1>7 DEF TypeInv
<1>9. Prefilling' /\ Editing'
  BY <1>2, <1>6 DEF Prefilling, Editing
<1> QED BY <1>3, <1>8, <1>9 DEF IInv

(* and so does the midpoint taken after it,                                 *)
LEMMA PrefilledInv ==
  ASSUME IInv, Prefilled
  PROVE  IInv'
<1>1. TypeInv /\ Prefilling /\ Results
  BY DEF IInv
<1>2. /\ pc = "prefill" /\ pc' = "edit"
      /\ UNCHANGED <<draws, job, attempt, text, i, gen, ended>>
      /\ mid' = Len(text) \div 2 /\ Len(text) = Prefill
      /\ i = 0 /\ gen = 0 /\ text = Xs(Len(text))
  BY <1>1 DEF Prefilled, setup, Prefilling
<1>3. Results'
  BY <1>1, <1>2, ResultsKept
<1>4. job \in Nat \ {0} /\ job <= Len(Plan)
  BY <1>1, <1>2 DEF TypeInv
<1>5. PICK n \in Nat \ {0} : n = Prefill
  BY <1>4, PrefillIs
<1>6. text = Xs(n) /\ mid' = n \div 2 /\ Len(text) = n
  BY <1>2, <1>5
<1>7. TypeInv'
  <2>1. mid' \in Nat
    BY <1>6
  <2> QED BY <1>1, <1>2, <1>4, <2>1 DEF TypeInv
<1>8. Filled(text) = n
  BY <1>6, FilledXs
<1>9. PICK s : s = Row.scenario /\ s \in Scenarios
  BY <1>4, RowIs
<1>10. Worked(s, n, 0, text)
  <2>1. CASE s \in {"mixed", "random"}
    <3> DEFINE h == [j \in 0 .. 0 |-> text]
    <3>1. h[0] = text /\ h \in [0 .. 0 -> Seq(Letter)]
      BY <1>1 DEF TypeInv
    <3>2. \A j \in 0 .. 0 : Len(h[j]) = n + j
      BY <1>6
    <3>3. 0 .. 0 - 1 = {}
      OBVIOUS
    <3> HIDE DEF h
    <3>4. Drops(h, n, 0)
      BY <3>1, <3>2, <3>3, <1>6 DEF Drops
    <3> QED BY <2>1, <3>1, <3>4, Zenon DEF Worked
  <2>2. CASE ~(s \in {"mixed", "random"})
    <3>1. 0 * Len(TypedBy(s)) = 0
      BY <1>9, TypedIs, SMTT(30)
    <3>2. text = Middle(n, 0)
      BY <1>6, MiddleOfNone
    <3> QED BY <2>2, <3>1, <3>2, Zenon DEF Worked
  <2> QED BY <2>1, <2>2
<1>11. Worked(s, n, 0, text)'
  BY <1>2, <1>10, WorkedKept
<1>12. Editing'
  <2>1. /\ Row' = Row /\ Prefill' = n /\ Typed' = Typed
    BY <1>2, <1>5, RowKept
  <2>2. Times[s] \in Nat
    BY <1>9, BenchmarkAssumption
  <2>3. Len(Typed) \in Nat /\ 0 * Len(Typed) = 0
    BY TypedIs, SMTT(30)
  <2>4. i' <= Times[Row'.scenario]
    BY <1>2, <1>9, <2>1, <2>2
  <2>5. mid' = Prefill' \div 2 /\ Len(text') = Prefill' + i' * Len(Typed')
    BY <1>2, <1>6, <2>1, <2>3
  <2>6. Filled(text)' = Prefill'
    BY <1>2, <1>8, <2>1 DEF Filled
  <2>7. Worked(Row.scenario, Prefill, i, text)'
    BY <1>2, <1>9, <1>11, <2>1
  <2> QED BY <1>2, <2>4, <2>5, <2>6, <2>7 DEF Editing
<1>13. Prefilling'
  BY <1>2 DEF Prefilling
<1> QED BY <1>3, <1>7, <1>12, <1>13 DEF IInv

(* and every edit,                                                          *)
LEMMA EditInv ==
  ASSUME IInv, Edit
  PROVE  IInv'
<1>1. TypeInv /\ Editing /\ Results
  BY DEF IInv
<1>2. /\ pc = "edit" /\ pc' = "edit"
      /\ UNCHANGED <<draws, job, attempt, mid, ended>>
      /\ i < Times[Row.scenario] /\ i' = i + 1
      /\ gen' = IF Random THEN gen + 1 ELSE gen
  BY DEF Edit, setup
<1>3. Results'
  BY <1>1, <1>2, ResultsKept
<1>4. /\ job \in Nat \ {0} /\ job <= Len(Plan) /\ i \in Nat /\ gen \in Nat
      /\ text \in Seq(Letter) /\ draws \in [0 .. Period - 1 -> Nat]
  BY <1>1, <1>2 DEF TypeInv
<1>5. PICK n \in Nat \ {0} : n = Prefill
  BY <1>4, PrefillIs
<1>6. PICK s : s = Row.scenario /\ s \in Scenarios
  BY <1>4, RowIs
<1>7. PICK y \in Seq({"A"}) : y = Typed /\ y = TypedBy(s)
  BY <1>6, TypedIs
<1>8. PICK l \in Nat : l = Len(y)
  OBVIOUS
<1>9. PICK m \in Nat : m = i * l
  BY <1>4, <1>8, SMTT(30)
<1>10. (i + 1) * l = m + l
  BY <1>4, <1>8, <1>9, SMTT(30)
<1>11. /\ mid = n \div 2 /\ Len(text) = n + m /\ Filled(text) = n
       /\ Worked(s, n, i, text) /\ (Random => gen = i)
  BY <1>1, <1>2, <1>5, <1>6, <1>7, <1>8, <1>9 DEF Editing
<1>12. PICK p \in 0 .. Len(text) : p = Pos
  BY <1>1, <1>2, PosIs
<1>13. ~Random => p \in n \div 2 .. n \div 2 + m
  BY <1>1, <1>2, <1>7, <1>8, <1>9, <1>11, <1>12, PosIs
<1>14. text' = Seqs!Splice(text, p, y, p + 1)
  BY <1>7, <1>12 DEF Edit, Seqs!Splice
<1>15. text' \in Seq(Letter) /\ Len(text') = n + m + l
  <2>1. text' \in Seq(Letter) /\ Len(text') = Len(text) + Len(y)
    BY <1>4, <1>14, EditLen
  <2> QED BY <2>1, <1>8, <1>11
<1>16. Filled(text') = n
  BY <1>4, <1>11, <1>14, FilledSplice
<1>17. Worked(s, n, i + 1, text')
  <2>1. CASE s \in {"mixed", "random"}
    <3>1. PICK h : Drops(h, n, i) /\ text = h[i]
      BY <2>1, <1>11, Zenon DEF Worked
    <3>2. PICK g : Drops(g, n, i + 1) /\ g[i + 1] = Dropped(text, i)
      BY <3>1, <1>4, DropsGrow
    <3>3. Random /\ s # "paster"
      BY <2>1, <1>6 DEF Random
    <3>4. y = <<"A">>
      BY <3>3, <1>6, <1>7, TypedIs
    <3>5. p = draws[i % Period] % Len(text)
      BY <3>3, <1>11, <1>12 DEF Pos, RandomPos
    <3>6. Dropped(text, i) = text'
      BY <3>4, <3>5, <1>14 DEF Dropped
    <3> QED BY <2>1, <3>2, <3>6, Zenon DEF Worked
  <2>2. CASE ~(s \in {"mixed", "random"})
    <3>1. ~Random
      BY <2>2, <1>6 DEF Random
    <3>2. text = Middle(n, m)
      BY <2>2, <1>7, <1>8, <1>9, <1>11, Zenon DEF Worked
    <3>3. p \in n \div 2 .. n \div 2 + m
      BY <3>1, <1>13
    <3>4. text' = Middle(n, m + l)
      <4>1. Seqs!Splice(Middle(n, m), p, y, p + 1) = Middle(n, m + Len(y))
        BY <3>3, MiddleGrows
      <4> QED BY <4>1, <3>2, <1>8, <1>14, Zenon
    <3>5. text' = Middle(n, (i + 1) * Len(TypedBy(s)))
      BY <3>4, <1>7, <1>8, <1>10
    <3> QED BY <2>2, <3>5, Zenon DEF Worked
  <2> QED BY <2>1, <2>2
<1>18. TypeInv'
  <2>1. i' \in Nat /\ gen' \in Nat
    BY <1>2, <1>4
  <2> QED BY <2>1, <1>1, <1>2, <1>4, <1>15 DEF TypeInv
<1>19. Editing'
  <2>1. PICK t : t = text'
    OBVIOUS
  <2>2. PICK j : j = i + 1
    OBVIOUS
  <2>3. Worked(s, n, j, t)'
    BY <2>1, <2>2, <1>2, <1>17, WorkedKept
  <2>4. Row' = Row /\ Prefill' = n /\ Typed' = y /\ Random' = Random
    BY <1>2, <1>5, <1>7, RowKept
  <2>5. Worked(Row.scenario, Prefill, i, text)'
    BY <2>1, <2>2, <2>3, <2>4, <1>2, <1>6
  <2>6. Filled(text)' = Prefill'
    BY <2>4, <1>16 DEF Filled
  <2>7. Len(text') = Prefill' + i' * Len(Typed')
    <3>1. i' * Len(Typed') = (i + 1) * l
      BY <2>4, <1>2, <1>8
    <3>2. i' * Len(Typed') = m + l
      BY <3>1, <1>10
    <3> QED BY <3>2, <2>4, <1>15
  <2>8. i' <= Times[Row'.scenario]
    <3>1. Times[s] \in Nat
      BY <1>6, BenchmarkAssumption
    <3> QED BY <3>1, <2>4, <1>2, <1>4, <1>6
  <2>9. mid' = Prefill' \div 2 /\ (Random' => gen' = i')
    BY <2>4, <1>2, <1>11
  <2> QED BY <2>5, <2>6, <2>7, <2>8, <2>9 DEF Editing
<1>20. Prefilling'
  BY <1>2 DEF Prefilling
<1> QED BY <1>3, <1>18, <1>19, <1>20 DEF IInv

(* and when an attempt is over its text is one more result.                 *)
LEMMA AttemptEndsInv ==
  ASSUME IInv, AttemptEnds
  PROVE  IInv'
<1>1. TypeInv /\ Editing /\ Results
  BY DEF IInv
<1>2. /\ pc = "edit" /\ pc' = "row" /\ i = Times[Row.scenario]
      /\ UNCHANGED <<draws, gen>>
      /\ text' = << >> /\ mid' = 0 /\ i' = 0
      /\ ended' = ended \cup {<<Row, text>>}
      /\ \/ attempt' = attempt + 1 /\ job' = job
         \/ attempt' = 0 /\ job' = job + 1
  BY DEF AttemptEnds, setup
<1>3. job \in Nat \ {0} /\ job <= Len(Plan)
  BY <1>1, <1>2 DEF TypeInv
<1>4. PICK n \in Nat \ {0} : n = Prefill
  BY <1>3, PrefillIs
<1>5. PICK row, s, t : row = Row /\ s = row.scenario /\ s \in Scenarios /\ t = text
  BY <1>3, RowIs
<1>6. Filled(t) = n /\ Worked(s, n, Times[s], t)
  BY <1>1, <1>2, <1>4, <1>5 DEF Editing
<1>7. Worked(s, n, Times[s], t)'
  BY <1>2, <1>6, WorkedKept
<1>8. Results'
  <2> SUFFICES ASSUME NEW r \in ended \cup {<<row, t>>}
               PROVE  /\ r[1].scenario \in Scenarios
                      /\ Filled(r[2]) \in Nat \ {0}
                      /\ Worked(r[1].scenario, Filled(r[2]),
                                Times[r[1].scenario], r[2])'
    BY <1>2, <1>5 DEF Results, Filled
  <2>1. CASE r \in ended
    <3>1. PICK z, d, k, u : /\ z = r[1].scenario /\ d = Filled(r[2])
                            /\ k = Times[r[1].scenario] /\ u = r[2]
      OBVIOUS
    <3>2. Worked(z, d, k, u)
      BY <2>1, <3>1, <1>1 DEF Results
    <3>3. Worked(z, d, k, u)'
      BY <3>2, <1>2, WorkedKept
    <3> QED BY <2>1, <3>1, <3>3, <1>1 DEF Results, Filled
  <2>2. CASE r = <<row, t>>
    <3>1. r[1] = row /\ r[2] = t
      BY <2>2
    <3>2. r[1].scenario = s /\ Filled(r[2]) = n
      BY <3>1, <1>5, <1>6
    <3> QED BY <3>1, <3>2, <1>5, <1>7
  <2> QED BY <2>1, <2>2
<1>9. TypeInv'
  <2>1. job' \in Nat \ {0} /\ attempt' \in Nat
    BY <1>1, <1>2, <1>3 DEF TypeInv
  <2> QED BY <2>1, <1>1, <1>2, XsOfNone DEF TypeInv
<1>10. Prefilling' /\ Editing'
  BY <1>2 DEF Prefilling, Editing
<1> QED BY <1>8, <1>9, <1>10 DEF IInv

(* A row that is not asked for is passed over.                              *)
LEMMA RowSkippedInv ==
  ASSUME IInv, RowSkipped
  PROVE  IInv'
<1>1. TypeInv /\ Results
  BY DEF IInv
<1>2. /\ pc = "row" /\ pc' = "row" /\ job' = job + 1
      /\ UNCHANGED <<draws, attempt, text, mid, i, gen, ended>>
  BY DEF RowSkipped, setup
<1>3. Results'
  BY <1>1, <1>2, ResultsKept
<1>4. TypeInv'
  BY <1>1, <1>2 DEF TypeInv
<1>5. Prefilling' /\ Editing'
  BY <1>2 DEF Prefilling, Editing
<1> QED BY <1>3, <1>4, <1>5 DEF IInv

-----------------------------------------------------------------------------
(***************************************************************************)
(* The theorems.                                                           *)
(***************************************************************************)

(* The invariant holds in every state the driver reaches.                   *)
THEOREM Invariance == Spec => []IInv
<1>1. IInv /\ [Next]_vars => IInv'
  <2> SUFFICES ASSUME IInv, [Next]_vars PROVE IInv'
    OBVIOUS
  <2>1. CASE RowSkipped
    BY <2>1, RowSkippedInv
  <2>2. CASE AttemptStarts \/ PrefillWhole \/ PrefillChunk
    BY <2>2, PrefillInv
  <2>3. CASE Prefilled
    BY <2>3, PrefilledInv
  <2>4. CASE Edit
    BY <2>4, EditInv
  <2>5. CASE AttemptEnds
    BY <2>5, AttemptEndsInv
  <2>6. CASE UNCHANGED vars
    <3>1. UNCHANGED <<draws, job, attempt, pc, text, mid, i, gen, ended>>
      BY <2>6 DEF vars, setup
    <3>2. Results'
      BY <3>1, ResultsKept DEF IInv
    <3>3. TypeInv' /\ Prefilling'
      BY <3>1 DEF IInv, TypeInv, Prefilling
    <3>4. Editing'
      <4> SUFFICES ASSUME pc = "edit" PROVE Editing'
        BY <3>1 DEF Editing
      <4>1. PICK s, n, k, t : s = Row.scenario /\ n = Prefill /\ k = i /\ t = text
        OBVIOUS
      <4>2. Worked(s, n, k, t)
        BY <4>1 DEF IInv, Editing
      <4>3. Worked(s, n, k, t)'
        BY <4>2, <3>1, WorkedKept
      <4>4. Row' = Row /\ Prefill' = Prefill /\ Typed' = Typed /\ Random' = Random
        BY <3>1, RowKept
      <4>5. Worked(Row.scenario, Prefill, i, text)'
        BY <4>1, <4>3, <4>4, <3>1
      <4> QED BY <4>4, <4>5, <3>1 DEF IInv, Editing, Filled
    <3> QED BY <3>2, <3>3, <3>4 DEF IInv
  <2> QED BY <2>1, <2>2, <2>3, <2>4, <2>5, <2>6 DEF Next, Work
<1> QED BY InitInv, <1>1, PTL DEF Spec

(* No edit is beyond the end of a text and no read at it.                   *)
THEOREM EditsStayInRange == Spec => []EditsInRange
<1>1. IInv => EditsInRange
  <2> SUFFICES ASSUME IInv, pc = "edit"
               PROVE  Pos <= Len(text) /\ (Reads => Pos < Len(text))
    BY DEF EditsInRange
  <2>1. /\ Pos \in 0 .. Len(text)
        /\ Random => Pos < Len(text)
    BY PosIs DEF IInv
  <2>2. Reads => Random
    BY DEF Reads, Random
  <2>3. Len(text) \in Nat
    BY DEF IInv, TypeInv
  <2> QED BY <2>1, <2>2, <2>3
<1> QED BY <1>1, Invariance, PTL

(* All attempts of a scenario end with the same text, on whatever structure *)
(* and by whatever policy, if they began with as much of it.                *)
THEOREM AttemptsDoTheSame == Spec => []SameWork
<1>1. IInv => SameWork
  <2> SUFFICES ASSUME IInv, NEW r1 \in ended, NEW r2 \in ended,
                      r1[1].scenario = r2[1].scenario, Filled(r1[2]) = Filled(r2[2])
               PROVE  r1[2] = r2[2]
    BY DEF SameWork
  <2>1. PICK s, n, k : s = r1[1].scenario /\ n = Filled(r1[2]) /\ k = Times[s]
    OBVIOUS
  <2>2. k \in Nat
    BY <2>1, BenchmarkAssumption DEF IInv, Results
  <2>3. Worked(s, n, k, r1[2]) /\ Worked(s, n, k, r2[2])
    BY <2>1 DEF IInv, Results
  <2> QED BY <2>2, <2>3, WorkedAgree
<1> QED BY <1>1, Invariance, PTL

=============================================================================
