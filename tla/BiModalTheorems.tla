---------------------------- MODULE BiModalTheorems ----------------------------
(***************************************************************************)
(* What holds of every BiModalText: the type invariant, the properties of  *)
(* BiModalStructure, the action properties, the implementation of the      *)
(* abstract text, the readers and the fuzzer, each from the invariant of   *)
(* BiModalProofs.                                                          *)
(***************************************************************************)
EXTENDS BiModalProofs, Fuzzer

(* Types.                                                                   *)
THEOREM TypeCorrect ==
  ASSUME AllocMayFail => LengthsFit
  PROVE  Spec => []TypeOK
<1>1. IInv => TypeOK
  BY DEF IInv
<1> QED BY <1>1, Invariance, PTL

(* Every span is the distance it stands for.                                *)
THEOREM SpansExact ==
  ASSUME AllocMayFail => LengthsFit
  PROVE  Spec => []SpanExact
<1>1. ASSUME IInv PROVE SpanExact
  <2>1. SUFFICES ASSUME Whole, NEW c \in Linked \cup {head}, NEW i \in 0 .. level[c] - 1
                 PROVE  span[c][i] = Distance(c, i)
    BY DEF SpanExact
  <2>2. TypeOK /\ \E r, w : Good(r, w)
    BY <1>1 DEF IInv
  <2>3. PICK r, w : Good(r, w)
    BY <2>2
  <2>4. /\ c \in Cells(r) /\ Spanned(r, w) /\ Ordered(r)
        /\ \A d \in Cells(r) : TextBehind[d] = w[d]
    BY <2>1, <2>2, <2>3, Shape
  <2>5. c \in Cell /\ On(r) \subseteq Cells(r) /\ level[c] \in Nat /\ level[c] <= MaxLevel
    BY <2>2, <2>4, CellFacts
  <2>6. i \in Levels /\ OnLevel(r, c, i)
    BY <2>4, <2>5, BiModalAssumption DEF OnLevel, Levels
  <2>7. FirstBehind(r, c, i)
    BY <2>4, <2>5, <2>6 DEF Ordered
  <2>8. span[c][i] = Len(w[c]) - After(w, next[c][i])
    BY <2>4, <2>5, <2>6 DEF Spanned
  <2>9. next[c][i] # Nil => TextBehind[next[c][i]] = w[next[c][i]]
    BY <2>4, <2>5, <2>7 DEF FirstBehind
  <2> QED BY <2>4, <2>8, <2>9 DEF Distance, After
<1> QED BY <1>1, Invariance, PTL

(* A node is linked once, at exactly its levels, in the order of the text.  *)
THEOREM ListsNested ==
  ASSUME AllocMayFail => LengthsFit
  PROVE  Spec => []LevelsNested
<1>1. ASSUME IInv PROVE LevelsNested
  <2>1. SUFFICES ASSUME Whole, NEW c \in Linked \cup {head}
                 PROVE  /\ c \notin Behind[c]
                        /\ \A i \in 0 .. level[c] - 1 :
                             LET m     == next[c][i]
                                 later == {n \in Behind[c] : level[n] > i}
                             IN  IF m = Nil THEN later = {}
                                            ELSE /\ m \in later
                                                 /\ later \ {m} \subseteq Behind[m]
    BY DEF LevelsNested
  <2>2. TypeOK /\ \E r, w : Good(r, w)
    BY <1>1 DEF IInv
  <2>3. PICK r, w : Good(r, w)
    BY <2>2
  <2>4. /\ c \in Cells(r) /\ Ordered(r)
        /\ \A d \in Cells(r) : Behind[d] = {n \in On(r) : r[n] < r[d]}
    BY <2>1, <2>2, <2>3, Shape
  <2>5. /\ c \in Cell /\ On(r) \subseteq Cells(r) /\ level[c] \in Nat /\ level[c] <= MaxLevel
        /\ On(r) \subseteq Cell /\ \A d \in Cell : r[d] \in Nat
    BY <2>2, <2>4, CellFacts DEF Cell
  <2>6. c \notin Behind[c]
    BY <2>4, <2>5
  <2>7. ASSUME NEW i \in 0 .. level[c] - 1
        PROVE  IF next[c][i] = Nil
                 THEN {n \in Behind[c] : level[n] > i} = {}
                 ELSE /\ next[c][i] \in {n \in Behind[c] : level[n] > i}
                      /\ {n \in Behind[c] : level[n] > i} \ {next[c][i]}
                           \subseteq Behind[next[c][i]]
    <3>1. i \in Levels /\ OnLevel(r, c, i)
      BY <2>4, <2>5, BiModalAssumption DEF OnLevel, Levels
    <3>2. FirstBehind(r, c, i)
      BY <2>4, <2>5, <3>1 DEF Ordered
    <3>3. CASE next[c][i] = Nil
      BY <2>4, <3>2, <3>3 DEF FirstBehind
    <3>4. CASE next[c][i] # Nil
      <4>1. PICK m \in On(r) : m = next[c][i] /\ level[m] > i /\ r[m] < r[c]
        BY <3>2, <3>4 DEF FirstBehind
      <4>2. \A n \in On(r) : level[n] > i /\ r[n] < r[c] => r[n] <= r[m]
        BY <3>2, <4>1 DEF FirstBehind
      <4>3. ASSUME NEW n \in On(r), level[n] > i, r[n] < r[c], n # m
            PROVE  r[n] < r[m]
        <5>1. r[n] # r[m] /\ r[n] <= r[m]
          BY <2>4, <4>2, <4>3 DEF Ordered
        <5> QED BY <2>5, <5>1
      <4> QED BY <2>4, <2>5, <3>4, <4>1, <4>3
    <3> QED BY <3>3, <3>4
  <2> QED BY <2>6, <2>7
<1> QED BY <1>1, Invariance, PTL

(* The steps of a call touch nodes and links that exist.                    *)
THEOREM MemoryIsSafe ==
  ASSUME AllocMayFail => LengthsFit
  PROVE  Spec => []MemorySafe
<1>1. ASSUME IInv PROVE MemorySafe
  <2>1. TypeOK /\ \E r, w : Good(r, w)
    BY <1>1 DEF IInv
  <2>2. PICK r, w : Good(r, w)
    BY <2>1
  <2>3. Ordered(r)
    BY <2>2 DEF Good
  <2>4. On(r) \subseteq Allocated /\ Cells(r) \subseteq Allocated \cup {head}
    BY <2>1, <2>3, CellFacts DEF Allocated, Cells
  <2>5. pc = "find" => x \in Allocated \cup {head} /\ level[x] > lvl
    BY <2>2, <2>4 DEF Good, Finding, OnLevel
  <2>6. pc = "found" => /\ x \in Allocated \cup {Nil}
                        /\ \A i \in Levels : level[update[i]] > i
    <3>1. ASSUME pc = "found"
          PROVE  /\ x \in Allocated \cup {Nil}
                 /\ \A i \in Levels : level[update[i]] > i
      <4>1. Targeting(r, w)
        BY <2>2, <3>1 DEF Good
      <4>2. x = Nil \/ x \in On(r)
        BY <2>1, <2>2, <3>1, TargetIs
      <4> QED BY <2>4, <4>1, <4>2 DEF Targeting, LastBefore, OnLevel
    <3> QED BY <3>1
  <2>7. pc \in {"optimize", "clear"} => x \in Allocated \cup {Nil}
    BY <2>2, <2>4 DEF Good, Packing, Clearing
  <2> QED BY <2>5, <2>6, <2>7 DEF MemorySafe
<1> QED BY <1>1, Invariance, PTL

(* What find_node returns, and the links it remembers.                      *)
THEOREM FindIsExact ==
  ASSUME AllocMayFail => LengthsFit
  PROVE  Spec => []FindExact
<1>1. ASSUME IInv PROVE FindExact
  <2>1. SUFFICES ASSUME pc = "found", ~SkipsTarget, x # Nil
                 PROVE  /\ x \in Linked
                        /\ acc = Len(Text) - Len(TextBehind[x]) - Size(x)
                        /\ 0 <= Offset /\ Offset <= Size(x)
                        /\ \A i \in Levels :
                             /\ update[i] \in Linked \cup {head} /\ level[update[i]] > i
                             /\ x \in Behind[update[i]]
                             /\ \A n \in Behind[update[i]] : level[n] > i => x \notin Behind[n]
    BY DEF FindExact
  <2>2. TypeOK /\ Whole /\ \E r, w : Good(r, w)
    BY <1>1, <2>1 DEF IInv, Whole
  <2>3. PICK r, w : Good(r, w)
    BY <2>2
  <2>4. /\ Linked = On(r) /\ Linked \cup {head} = Cells(r) /\ Text = w[head]
        /\ \A d \in Cells(r) : TextBehind[d] = w[d]
        /\ \A d \in Cells(r) : Behind[d] = {n \in On(r) : r[n] < r[d]}
        /\ Ordered(r)
    BY <2>2, <2>3, Shape
  <2>5. /\ On(r) \subseteq Cells(r) /\ On(r) \subseteq Cell /\ Cells(r) \subseteq Cell
        /\ \A d \in Cell : r[d] \in Nat
    BY <2>2, <2>4, CellFacts DEF Cell
  <2>6. /\ x \in On(r)
        /\ \A n \in On(r) : r[n] < r[update[0]] => r[n] <= r[x]
        /\ \A i \in Levels : LastBefore(r, update[i], update[0], i)
    BY <2>1, <2>2, <2>3, TargetIs
  <2>7. Offset \in Nat /\ Offset <= Size(x) /\ Ahead(w, head) = acc
    BY <2>1, <2>2, <2>3, OffsetFits
  <2>8. acc = Len(Text) - Len(TextBehind[x]) - Size(x)
    BY <2>4, <2>5, <2>6, <2>7 DEF Ahead
  <2>9. ASSUME NEW i \in Levels
        PROVE  /\ update[i] \in Linked \cup {head} /\ level[update[i]] > i
               /\ x \in Behind[update[i]]
               /\ \A n \in Behind[update[i]] : level[n] > i => x \notin Behind[n]
    <3>1. PICK u \in Cell : u = update[i] /\ OnLevel(r, u, i) /\ r[x] < r[u]
      BY <2>1, <2>2, <2>3, UpdateIs
    <3>2. u \in Cells(r) /\ level[u] > i
      BY <2>2, <3>1, Kinds DEF OnLevel, Levels
    <3>3. x \in Behind[u]
      BY <2>4, <2>6, <3>1, <3>2
    <3>4. ASSUME NEW n \in Behind[u], level[n] > i, x \in Behind[n] PROVE FALSE
      <4>1. n \in On(r) /\ r[n] < r[u] /\ r[x] < r[n]
        BY <2>4, <2>5, <3>2, <3>4
      <4>2. r[update[0]] <= r[n] => r[u] <= r[n]
        BY <2>6, <3>1, <3>4, <4>1 DEF LastBefore
      <4>3. update[0] \in Cell
        BY <2>2, <2>4, Kinds, CellFacts
      <4>4. r[n] < r[update[0]]
        BY <2>5, <3>1, <4>1, <4>2, <4>3
      <4>5. r[n] <= r[x]
        BY <2>6, <4>1, <4>4
      <4> QED BY <2>5, <2>6, <4>1, <4>5
    <3> QED BY <2>4, <3>1, <3>2, <3>3, <3>4
  <2>10. 0 <= Offset
    BY <2>7
  <2> QED BY <2>4, <2>6, <2>7, <2>8, <2>9, <2>10
<1> QED BY <1>1, Invariance, PTL

(* The size reported is not ahead of the text.                              *)
THEOREM SizeNeverAhead ==
  ASSUME AllocMayFail => LengthsFit
  PROVE  Spec => []TotalSizeNeverAhead
<1>1. ASSUME IInv PROVE TotalSizeNeverAhead
  BY <1>1, Shape DEF IInv, TotalSizeNeverAhead, Sized
<1> QED BY <1>1, Invariance, PTL

(* The size reported is exact, and no node is lost, while no allocation     *)
(* fails.                                                                   *)
THEOREM SizeIsExact ==
  ASSUME ~AllocMayFail
  PROVE  Spec => []TotalSizeExact
<1>1. ASSUME IInv PROVE TotalSizeExact
  BY <1>1, Shape DEF IInv, TotalSizeExact, Sized
<1> QED BY <1>1, Invariance, PTL

(* Every allocated node is linked, while no allocation fails.               *)
THEOREM NothingLeaks ==
  ASSUME ~AllocMayFail
  PROVE  Spec => []NoLeak
<1>1. ASSUME IInv PROVE NoLeak
  <2>1. SUFFICES ASSUME Whole PROVE Linked = Allocated
    BY DEF NoLeak
  <2>2. TypeOK /\ \E r, w : Good(r, w)
    BY <1>1 DEF IInv
  <2>3. PICK r, w : Good(r, w)
    BY <2>2
  <2>4. Linked = On(r) /\ Ordered(r)
    BY <2>1, <2>2, <2>3, Shape
  <2> QED BY <2>2, <2>4, CellFacts DEF Ordered, Allocated
<1> QED BY <1>1, Invariance, PTL

(* No search returns null where a node must be.                             *)
THEOREM TargetsExist ==
  ASSUME AllocMayFail => LengthsFit
  PROVE  Spec => []TargetExists
<1>1. ASSUME IInv PROVE TargetExists
  <2>1. SUFFICES ASSUME pc = "found", x = Nil PROVE req.op = "insert" /\ total_size = 0
    BY DEF TargetExists
  <2>2. TypeOK /\ Whole /\ \E r, w : Good(r, w)
    BY <1>1, <2>1 DEF IInv, Whole
  <2>3. PICK r, w : Good(r, w)
    BY <2>2
  <2>4. Ordered(r) /\ Texts(w) /\ Sized(w) /\ Targeting(r, w) /\ Served(w)
    BY <2>1, <2>2, <2>3 DEF Good, Held
  <2>5. On(r) = {} /\ FirstBehind(r, head, 0) /\ head \in Cell
    BY <2>1, <2>2, <2>4, CellFacts DEF Targeting, Ordered, OnLevel
  <2>6. w[head] = << >>
    BY <2>4, <2>5 DEF Texts, FirstBehind
  <2>7. total_size = 0
    <3>1. Len(w[head]) = 0 /\ total_size \in Nat
      BY <2>2, <2>6, Kinds
    <3> QED BY <2>4, <3>1 DEF Sized
  <2>8. ASSUME req.op = "erase" PROVE FALSE
    <3>1. PICK p \in Nat, n \in Nat : p = req.pos /\ n = req.len
      BY <2>2, Kinds
    <3>2. /\ p <= 0 /\ n > 0
          /\ \/ p + n <= 0
             \/ p > 0
      BY <2>1, <2>4, <2>7, <2>8, <3>1 DEF Served
    <3> QED BY <3>2
  <2> QED BY <2>1, <2>4, <2>7, <2>8 DEF Served
<1> QED BY <1>1, Invariance, PTL

(* Only the sole node of an empty text is empty.                            *)
THEOREM NodesHoldText ==
  ASSUME AllocMayFail => LengthsFit
  PROVE  Spec => []NoEmptyNode
<1>1. ASSUME IInv PROVE NoEmptyNode
  <2>1. SUFFICES ASSUME Whole, NEW n \in Linked, ~ Size(n) > 0
                 PROVE  total_size = 0 /\ \E m \in Node : Linked = {m}
    BY DEF NoEmptyNode
  <2>2. TypeOK /\ \E r, w : Good(r, w)
    BY <1>1 DEF IInv
  <2>3. PICK r, w : Good(r, w)
    BY <2>2
  <2>4. /\ Linked = On(r) /\ Ordered(r) /\ Texts(w) /\ Sized(w) /\ NoneEmpty(r)
    BY <2>1, <2>2, <2>3, Shape
  <2>5. /\ n \in On(r) /\ n \in Node /\ n \in Cell /\ head \in Cell
        /\ r[n] < r[head] /\ \A c \in Cell : r[c] \in Nat
        /\ n # Nil /\ 0 \in Levels /\ head \in Cells(r) /\ On(r) \subseteq Cells(r)
    BY <2>1, <2>2, <2>4, CellFacts DEF Cell, Cells
  <2>6. data[n] = << >>
    <3>1. data[n] \in Seq(Char) /\ Size(n) \in Nat
      BY <2>2, <2>4, <2>5, TextFacts
    <3> QED BY <2>1, <3>1 DEF Size
  <2>7. Linked = {n}
    BY <2>4, <2>5, <2>6 DEF NoneEmpty
  <2>8. next[head][0] = n
    BY <2>2, <2>4, <2>5, <2>7, NextIsFirst
  <2>9. next[n][0] = Nil
    <3>1. FirstBehind(r, n, 0)
      BY <2>2, <2>4, <2>5, CellFacts DEF Ordered, OnLevel
    <3> QED BY <2>4, <2>5, <2>7, <3>1 DEF FirstBehind
  <2>10. w[head] = << >>
    <3>1. w[n] = << >>
      BY <2>4, <2>5, <2>9 DEF Texts
    <3>2. w[head] = data[n] \o w[n]
      BY <2>4, <2>5, <2>8 DEF Texts
    <3> QED BY <2>6, <3>1, <3>2
  <2>11. total_size = 0
    <3>1. Len(w[head]) = 0 /\ total_size \in Nat
      BY <2>2, <2>10, Kinds
    <3> QED BY <2>4, <3>1 DEF Sized
  <2> QED BY <2>5, <2>7, <2>11
<1> QED BY <1>1, Invariance, PTL

-----------------------------------------------------------------------------
(***************************************************************************)
(* How long a node gets.                                                   *)
(***************************************************************************)
(* The two halves of what a split cuts are no longer than the longer of the *)
(* node and the string inserted.                                            *)
LEMMA HalvesFit ==
  \A k, l \in Nat : /\ (k + l) \div 2 <= k \/ (k + l) \div 2 <= l
                    /\ \/ (k + l) - ((k + l) \div 2) <= k
                       \/ (k + l) - ((k + l) \div 2) <= l
OBVIOUS

(* A length that NodeSizeBounded allows.                                    *)
Allowed(k) == k <= NodeMax \/ \E s \in Inputs : k <= Len(s)

(* What is shorter than an allowed length is allowed.                       *)
LEMMA ShorterAllowed ==
  ASSUME NEW k \in Nat, NEW l \in Nat, k <= l, Allowed(l)
  PROVE  Allowed(k)
<1>1. NodeMax \in Nat /\ \A s \in Inputs : Len(s) \in Nat
  BY BiModalAssumption
<1>2. CASE l <= NodeMax
  BY <1>1, <1>2 DEF Allowed
<1>3. CASE \E s \in Inputs : l <= Len(s)
  <2>1. PICK s \in Inputs : l <= Len(s)
    BY <1>3
  <2>2. PICK m \in Nat : m = Len(s)
    BY <1>1
  <2>3. k <= m
    BY <2>1, <2>2
  <2> QED BY <2>2, <2>3 DEF Allowed
<1> QED BY <1>2, <1>3 DEF Allowed

(* The characters a node holds after a step.                                *)
LEMMA SizesKept ==
  ASSUME ~AllocMayFail, TypeOK, NEW r, NEW w, Good(r, w), NodeSizeBounded,
         Next, NEW n \in Node
  PROVE  Allowed(Len(data'[n]))
<1>1. data[n] \in Seq(Char) /\ Size(n) \in Nat /\ Allowed(Size(n)) /\ Size(n) = Len(data[n])
  BY DEF TypeOK, NodeSizeBounded, Allowed, Size
<1>2. Allowed(Len(<< >>))
  <2>1. Len(<< >>) \in Nat /\ Len(<< >>) <= Size(n)
    BY <1>1
  <2> QED BY <1>1, <2>1, ShorterAllowed
<1>3. CASE data'[n] = data[n] \/ data'[n] = << >>
  BY <1>1, <1>2, <1>3
<1>4. ASSUME Found("insert"), x # Nil, data' = [data EXCEPT ![x] = Edited], ~TooLong
      PROVE  Allowed(Len(data'[n]))
  <2>1. CASE n = x
    <3>1. PICK e, z : InsertedAs(r, w, e, z)
      BY <1>4, InsertedIs
    <3>2. e = Edited /\ e \in Seq(Char)
      BY <3>1 DEF InsertedAs
    <3>3. data'[n] = e
      BY <1>1, <1>4, <2>1, <3>2 DEF TypeOK
    <3>4. Len(e) \in Nat /\ ~ Len(e) > NodeMax
      BY <1>4, <3>2 DEF TooLong
    <3> QED BY <3>3, <3>4, BiModalAssumption DEF Allowed
  <2>2. CASE n # x
    BY <1>1, <1>4, <2>2 DEF TypeOK
  <2> QED BY <2>1, <2>2
<1>5. CASE InsertSplits
  <2>1. Found("insert") /\ x # Nil
    BY <1>5 DEF InsertSplits
  <2>2. PICK e, z : InsertedAs(r, w, e, z)
    BY <2>1, InsertedIs
  <2>3. /\ x \in Node /\ data[x] \in Seq(Char) /\ e = Edited /\ e \in Seq(Char)
        /\ Len(e) = Size(x) + Len(req.str) /\ req.str \in Inputs
        /\ Allowed(Size(x)) /\ Size(x) \in Nat
    <3>1. x \in Node /\ Served(w) /\ req.op = "insert"
      BY <2>1, TargetIs DEF Found, Good
    <3> QED BY <2>2, <3>1 DEF InsertedAs, Served, TypeOK, NodeSizeBounded, Allowed, Size
  <2>4. PICK k \in Nat, l \in Nat, h \in Nat :
          k = Size(x) /\ l = Len(req.str) /\ h = (k + l) \div 2 /\ Len(e) = k + l
    <3>1. Len(req.str) \in Nat
      BY <2>3, BiModalAssumption
    <3>2. PICK k \in Nat, l \in Nat : k = Size(x) /\ l = Len(req.str)
      BY <2>3, <3>1
    <3>3. (k + l) \div 2 \in Nat
      OBVIOUS
    <3> QED BY <2>3, <3>2, <3>3, SMTT(30)
  <2>5. h <= k + l /\ k + l - h \in Nat /\ h \in 0 .. Len(e)
    <3>1. h <= k + l
      BY <2>4, SMTT(60)
    <3>2. Len(e) = k + l
      BY <2>4
    <3> QED BY <3>1, <3>2
  <2>6. PICK v \in Free :
          data' = [data EXCEPT ![x] = SubSeq(e, 1, h), ![v] = SubSeq(e, h + 1, Len(e))]
    BY <1>5, <2>3, <2>4 DEF InsertSplits
  <2>7. Allowed(k) /\ Allowed(l)
    <3>1. l <= l
      OBVIOUS
    <3> QED BY <2>3, <2>4, <3>1 DEF Allowed
  <2>8. (h <= k \/ h <= l) /\ (k + l - h <= k \/ k + l - h <= l)
    <3>1. h = (k + l) \div 2
      BY <2>4
    <3>2. /\ (k + l) \div 2 <= k \/ (k + l) \div 2 <= l
          /\ \/ (k + l) - ((k + l) \div 2) <= k
             \/ (k + l) - ((k + l) \div 2) <= l
      BY HalvesFit
    <3> QED BY <3>1, <3>2
  <2>9. Allowed(h) /\ Allowed(k + l - h)
    BY <2>5, <2>7, <2>8, ShorterAllowed
  <2>10. /\ Len(SubSeq(e, 1, h)) = h
         /\ Len(SubSeq(e, h + 1, Len(e))) = k + l - h
    <3>1. /\ Len(SubSeq(e, 1, h)) = h
          /\ Len(SubSeq(e, h + 1, Len(e))) = Len(e) - h
      BY <2>3, <2>5, Seqs!SeqParts
    <3> QED BY <2>4, <3>1
  <2>11. v \in Node /\ data \in [Node -> Seq(Char)]
    BY <2>6 DEF Free, TypeOK
  <2>12. \/ data'[n] = data[n]
         \/ data'[n] = SubSeq(e, 1, h)
         \/ data'[n] = SubSeq(e, h + 1, Len(e))
    BY <2>3, <2>6, <2>11
  <2> QED BY <1>1, <2>9, <2>10, <2>12
<1>6. CASE EraseShrinks
  <2>1. Found("erase") /\ x # Nil
        /\ data' = [data EXCEPT ![x] = StringErase(data[x], Offset, DelLen)]
    BY <1>6 DEF EraseShrinks
  <2>2. PICK e, z : ErasedAs(r, w, e, z)
    BY <2>1, ErasedIs
  <2>3. CASE n = x
    <3>1. /\ data'[n] = e /\ Len(e) = Size(n) - DelLen /\ DelLen \in Nat /\ e \in Seq(Char)
      BY <1>1, <2>1, <2>2, <2>3 DEF ErasedAs, TypeOK
    <3>2. PICK i \in Nat, j \in Nat, k \in Nat : i = Size(n) /\ j = DelLen /\ k = Len(e)
      <4>1. Len(e) \in Nat
        BY <3>1
      <4> QED BY <1>1, <3>1, <4>1
    <3>3. k <= i
      BY <3>1, <3>2
    <3> QED BY <1>1, <3>1, <3>2, <3>3, ShorterAllowed
  <2>4. CASE n # x
    BY <1>1, <2>1, <2>4 DEF TypeOK
  <2> QED BY <2>3, <2>4
<1>7. CASE InsertFirst
  <2>1. PICK v \in Free : data' = [data EXCEPT ![v] = req.str]
    BY <1>7 DEF InsertFirst
  <2>2. req.str \in Inputs /\ Len(req.str) \in Nat
    BY <1>7, BiModalAssumption DEF InsertFirst, Found, Good, Served
  <2>3. Allowed(Len(req.str))
    <3>1. Len(req.str) <= Len(req.str)
      BY <2>2
    <3> QED BY <2>2, <3>1 DEF Allowed
  <2>4. data'[n] = data[n] \/ data'[n] = req.str
    BY <2>1 DEF TypeOK
  <2> QED BY <1>1, <2>3, <2>4
<1>8. CASE EraseRemoves \/ ClearNode
  <2>1. data' = [data EXCEPT ![x] = << >>]
    BY <1>8 DEF EraseRemoves, ClearNode
  <2>2. data'[n] = data[n] \/ data'[n] = << >>
    BY <2>1 DEF TypeOK
  <2> QED BY <1>3, <2>2
<1>9. CASE InsertFits
  BY <1>4, <1>9 DEF InsertFits
<1>10. CASE CallInsert \/ CallErase \/ CallOptimize \/ CallClear
  BY <1>1, <1>10 DEF CallInsert, CallErase, CallOptimize, CallClear, Call, heap
<1>11. CASE Find
  BY <1>1, <1>11 DEF Find, FindAdvance, FindDescend, FindSkip, heap
<1>12. CASE Insert
  BY <1>1, <1>5, <1>7, <1>9, <1>12
     DEF Insert, InsertRejected, InsertSearch, InsertAllocFails, InsertFirstLost,
         InsertGrowFails, InsertSplitFails, heap
<1>13. CASE Erase
  BY <1>1, <1>6, <1>8, <1>13
     DEF Erase, EraseIgnored, EraseClamp, EraseSearch, EraseDone, EraseFails, heap
<1>14. CASE Optimize
  BY <1>1, <1>14
     DEF Optimize, OptimizeStart, WalkStart, OptimizeNode, OptimizeFails, OptimizeDone, heap
<1>15. CASE Clear
  BY <1>1, <1>8, <1>15 DEF Clear, ClearStart, WalkStart, ClearDone, heap
<1> QED BY <1>10, <1>11, <1>12, <1>13, <1>14, <1>15 DEF Next, Step

(* No node outgrows the maximum and the longest string inserted.            *)
THEOREM NodesBounded ==
  ASSUME ~AllocMayFail
  PROVE  Spec => []NodeSizeBounded
<1>1. Init => NodeSizeBounded
  <2>1. ASSUME Init, NEW n \in Node PROVE Size(n) = 0
    BY <2>1 DEF Init, Size
  <2> QED BY <2>1, BiModalAssumption DEF NodeSizeBounded
<1>2. IInv /\ NodeSizeBounded /\ [Next]_vars => NodeSizeBounded'
  <2>1. ASSUME IInv, NodeSizeBounded, Next PROVE NodeSizeBounded'
    <3>1. TypeOK /\ \E r, w : Good(r, w)
      BY <2>1 DEF IInv
    <3>2. \A n \in Node : Allowed(Len(data'[n]))
      BY <2>1, <3>1, SizesKept
    <3> QED BY <3>2 DEF NodeSizeBounded, Allowed, Size
  <2>2. ASSUME NodeSizeBounded, UNCHANGED vars PROVE NodeSizeBounded'
    BY <2>2 DEF NodeSizeBounded, Size, vars, heap
  <2> QED BY <2>1, <2>2
<1> QED BY <1>1, <1>2, Invariance, PTL DEF Spec

-----------------------------------------------------------------------------
(***************************************************************************)
(* Action properties: what a step does to the lists.                       *)
(***************************************************************************)
(* A failed first insertion allocates a block and links nothing.            *)
LEMMA FirstLostIs ==
  ASSUME TypeOK, NEW r, NEW w, Good(r, w), InsertFirstLost
  PROVE  /\ Whole /\ Whole' /\ Linked = {} /\ outcome' = "bad_alloc"
         /\ pc = "found" /\ x = Nil /\ req.op = "insert"
         /\ \E n \in Free : Allocated' = Allocated \cup {n}
<1>1. /\ Whole /\ Whole' /\ pc = "found" /\ x = Nil /\ outcome' = "bad_alloc"
      /\ req.op = "insert"
  BY DEF InsertFirstLost, Found, Return, Whole
<1>2. Linked = On(r)
  BY <1>1, Shape
<1>3. PICK n \in Free, k \in 1 .. MaxLevel : level' = [level EXCEPT ![n] = k]
  BY DEF InsertFirstLost
<1>4. Allocated' = Allocated \cup {n}
  BY <1>3, BiModalAssumption DEF Allocated, Free, TypeOK, Cell
<1> QED BY <1>1, <1>2, <1>3, <1>4 DEF Good, Targeting

(* optimize() leaves no gap node behind when it returns, and moves nothing. *)
THEOREM OptimizeIsComplete ==
  ASSUME AllocMayFail => LengthsFit
  PROVE  Spec => OptimizePacks
<1> DEFINE Packed == pc = "optimize" => /\ UNCHANGED <<level, next, span, data, total_size>>
                                        /\ pc' = "idle" /\ outcome' = "ok" =>
                                             \A n \in Linked : mode[n] = "compact"
<1>1. ASSUME IInv, Next PROVE Packed
  <2>1. SUFFICES ASSUME pc = "optimize"
                 PROVE  /\ UNCHANGED <<level, next, span, data, total_size>>
                        /\ pc' = "idle" /\ outcome' = "ok" =>
                             \A n \in Linked : mode[n] = "compact"
    OBVIOUS
  <2>2. TypeOK /\ Whole /\ \E r, w : Good(r, w)
    BY <1>1, <2>1 DEF IInv, Whole
  <2>3. PICK r, w : Good(r, w)
    BY <2>2
  <2>4. Linked = On(r) /\ Packing(r)
    BY <2>1, <2>2, <2>3, Shape DEF Good
  <2>5. OptimizeNode \/ OptimizeFails \/ OptimizeDone
    <3>1. ~ Find /\ ~ CallInsert /\ ~ CallErase /\ ~ CallOptimize /\ ~ CallClear
      BY <2>1 DEF Find, FindAdvance, FindDescend, FindSkip, CallInsert, CallErase,
                  CallOptimize, CallClear, Call
    <3>2. ~ Insert
      BY <2>1 DEF Insert, InsertRejected, InsertSearch, InsertFirst, InsertFits,
                  InsertSplits, InsertAllocFails, InsertFirstLost, InsertGrowFails,
                  InsertSplitFails, Found
    <3>3. ~ Erase
      BY <2>1 DEF Erase, EraseIgnored, EraseClamp, EraseSearch, EraseDone, EraseShrinks,
                  EraseRemoves, EraseFails, Found
    <3>4. ~ Clear /\ ~ OptimizeStart
      BY <2>1 DEF Clear, ClearStart, ClearNode, ClearDone, OptimizeStart, WalkStart
    <3> QED BY <1>1, <3>1, <3>2, <3>3, <3>4 DEF Next, Step, Optimize
  <2>6. UNCHANGED <<level, next, span, data, total_size>>
    BY <2>5 DEF OptimizeNode, OptimizeFails, OptimizeDone, heap
  <2>7. CASE OptimizeDone
    BY <2>4, <2>6, <2>7 DEF OptimizeDone, Packing
  <2>8. CASE OptimizeNode \/ OptimizeFails
    BY <2>1, <2>6, <2>8 DEF OptimizeNode, OptimizeFails, Return
  <2> QED BY <2>5, <2>7, <2>8
<1>2. ASSUME UNCHANGED vars PROVE Packed \/ UNCHANGED vars
  BY <1>2
<1>3. IInv /\ [Next]_vars => [Packed]_vars
  BY <1>1
<1> QED BY <1>3, Invariance, PTL DEF Spec, OptimizePacks

(* An edit leaves the nodes it does not edit where an iterator reads them.  *)
THEOREM OthersKeptInPlace ==
  ASSUME AllocMayFail => LengthsFit
  PROVE  Spec => OthersUndisturbed
<1> DEFINE Kept(n) == /\ UNCHANGED <<data[n], mode[n], level[n]>>
                      /\ next'[n][0] = next[n][0] \/ next[n][0] = x
           Undisturbed == Whole /\ Whole' =>
                            LET others == Linked \ {x}
                            IN  /\ others \subseteq Linked'
                                /\ \A n \in others :
                                     /\ UNCHANGED <<data[n], mode[n], level[n]>>
                                     /\ next'[n][0] = next[n][0] \/ next[n][0] = x
<1>1. ASSUME IInv, Next PROVE Undisturbed
  <2>1. SUFFICES ASSUME Whole, Whole'
                 PROVE  /\ Linked \ {x} \subseteq Linked'
                        /\ \A n \in Linked \ {x} : Kept(n)
    OBVIOUS
  <2>2. TypeOK /\ \E r, w : Good(r, w)
    BY <1>1 DEF IInv
  <2>3. PICK r, w : Good(r, w)
    BY <2>2
  <2>4. Linked = On(r) /\ On(r) \subseteq Allocated /\ Linked \subseteq Node
    BY <2>1, <2>2, <2>3, Shape, CellFacts DEF Allocated
  <2>5. 0 \in Levels /\ MaxLevel \in Nat
    BY BiModalAssumption DEF Levels
  <2>6. CASE Still
    <3>1. /\ UNCHANGED <<level, next, span, data, total_size>>
          /\ Linked = On(r) /\ Linked' = On(r)
      BY <1>1, <2>2, <2>3, <2>6, StillKeeps
    <3>2. ASSUME NEW n \in Linked \ {x} PROVE mode'[n] = mode[n]
      <4>1. CASE InsertGrowFails
        BY <4>1 DEF InsertGrowFails, TypeOK
      <4>2. CASE OptimizeNode
        BY <4>2 DEF OptimizeNode, TypeOK
      <4>3. CASE ~ InsertGrowFails /\ ~ OptimizeNode
        BY <2>6, <4>3 DEF Still, Find, FindAdvance, FindDescend, FindSkip,
             CallInsert, CallErase, CallOptimize, CallClear, Call,
             InsertRejected, InsertSearch, InsertAllocFails,
             EraseIgnored, EraseClamp, EraseSearch, EraseDone, EraseFails,
             Optimize, OptimizeStart, WalkStart, OptimizeFails, OptimizeDone, heap
      <4> QED BY <4>1, <4>2, <4>3
    <3> QED BY <3>1, <3>2
  <2>7. CASE Edits
    <3>1. Linked \ {x} \subseteq Linked'
      BY <2>2, <2>3, <2>7, EditKeeps
    <3>2. ASSUME NEW n \in Linked \ {x} PROVE Kept(n)
      <4>1. n \in Node /\ n \in Cell /\ n # x /\ n \notin Free
        BY <2>4, <3>2 DEF Cell, Free
      <4>2. CASE InsertFirst
        <5>1. x = Nil /\ pc = "found"
          BY <4>2 DEF InsertFirst, Found
        <5> QED BY <2>3, <2>4, <3>2, <5>1 DEF Good, Targeting
      <4>3. CASE InsertFits \/ InsertSplitFails
        <5>1. level'[n] = level[n]
          BY <2>2, <4>1, <4>3 DEF InsertFits, InsertSplitFails, SplitNodeFails, TypeOK
        <5> QED BY <2>2, <4>1, <4>3, <5>1 DEF InsertFits, InsertSplitFails, TypeOK
      <4>4. CASE EraseShrinks
        BY <2>2, <4>1, <4>4 DEF EraseShrinks, TypeOK
      <4>5. CASE EraseRemoves
        <5>1. UNCHANGED <<data[n], mode[n], level[n]>>
          BY <2>2, <4>1, <4>5 DEF EraseRemoves, TypeOK
        <5>2. next'[n][0] = CASE n = x             -> Nil
                              [] RemovedLink(n, 0) -> next[x][0]
                              [] OTHER             -> next[n][0]
          BY <2>5, <4>1, <4>5 DEF EraseRemoves
        <5>3. CASE RemovedLink(n, 0)
          BY <5>1, <5>3 DEF RemovedLink
        <5>4. CASE ~ RemovedLink(n, 0)
          BY <4>1, <5>1, <5>2, <5>4
        <5> QED BY <5>3, <5>4
      <4>6. CASE InsertSplits
        <5>1. PICK v \in Free, k \in 1 .. MaxLevel :
                /\ level' = [level EXCEPT ![v] = SplitLevel(x, k)]
                /\ mode' = [mode EXCEPT ![x] = "gap"]
                /\ data' = [data EXCEPT
                              ![x] = SubSeq(Edited, 1, Len(Edited) \div 2),
                              ![v] = SubSeq(Edited, Len(Edited) \div 2 + 1, Len(Edited))]
                /\ next' = SplitNext(x, v, SplitLevel(x, k))
          BY <4>6 DEF InsertSplits
        <5>2. n # v
          BY <4>1, <5>1
        <5>3. UNCHANGED <<data[n], mode[n], level[n]>>
          <6>1. UNCHANGED <<mode[n], level[n]>>
            BY <2>2, <4>1, <5>1, <5>2 DEF TypeOK
          <6>2. \A d, e : [data EXCEPT ![x] = d, ![v] = e][n] = data[n]
            BY <2>2, <4>1, <5>2 DEF TypeOK
          <6> QED BY <5>1, <6>1, <6>2
        <5>4. next'[n][0] = next[n][0]
          BY <2>5, <4>1, <5>1, <5>2 DEF SplitNext
        <5> QED BY <5>3, <5>4
      <4> QED BY <2>7, <4>2, <4>3, <4>4, <4>5, <4>6 DEF Edits
    <3> QED BY <3>1, <3>2
  <2>8. CASE InsertFirstLost
    BY <2>2, <2>3, <2>8, FirstLostIs
  <2>9. CASE Clear
    <3>1. CASE ClearStart \/ ClearNode
      BY <2>1, <3>1 DEF ClearStart, WalkStart, ClearNode, Whole
    <3>2. CASE ClearDone
      BY <2>1, <3>2 DEF ClearDone, Whole
    <3> QED BY <2>9, <3>1, <3>2 DEF Clear
  <2> QED BY <1>1, <2>6, <2>7, <2>8, <2>9, StepKinds
<1>2. IInv /\ [Next]_vars => [Undisturbed]_vars
  BY <1>1
<1> QED BY <1>2, Invariance, PTL DEF Spec, OthersUndisturbed

(* What is linked, or still before the walk of clear(), has a rank.         *)
LEMMA ReachedIs ==
  ASSUME TypeOK, NEW r, NEW w, Good(r, w)
  PROVE  Reached = On(r)
<1>1. CASE Whole
  BY <1>1, Shape DEF Reached
<1>2. CASE ~ Whole
  <2>1. Ordered(r) /\ Clearing(r)
    BY <1>2 DEF Good, Whole
  <2>2. CASE x = Nil
    BY <1>2, <2>1, <2>2 DEF Reached, Clearing
  <2>3. CASE x # Nil
    <3>1. x \in On(r) /\ x \in Cells(r) /\ \A n \in On(r) : r[n] <= r[x]
      BY <2>1, <2>3 DEF Clearing, Cells
    <3>2. Behind[x] = {n \in On(r) : r[n] < r[x]}
      BY <2>1, <3>1, BehindIs
    <3>3. ASSUME NEW n \in On(r), n # x PROVE r[n] < r[x]
      <4>1. r[n] \in Nat /\ r[x] \in Nat /\ r[n] # r[x]
        BY <2>1, <3>1, <3>3, CellFacts DEF Ordered
      <4> QED BY <3>1, <4>1
    <3> QED BY <1>2, <2>3, <3>1, <3>2, <3>3 DEF Reached
  <2> QED BY <2>2, <2>3
<1> QED BY <1>1, <1>2

(* That it has, for all ranks and texts that fit.                           *)
ReachedMatches == \A r, w : TypeOK /\ Good(r, w) => Reached = On(r)

(* It holds of the next state as well.                                      *)
LEMMA ReachedThen == ReachedMatches'
<1>1. ReachedMatches
  BY ReachedIs DEF ReachedMatches
<1> QED BY <1>1, PTL

(* The ranks of the next state are those of what is reached then.           *)
LEMMA ReachedNext ==
  ASSUME TypeOK', NEW r, NEW w, Good(r, w)'
  PROVE  Reached' = On(r)
<1>1. On(r)' = On(r)
  BY DEF On
<1> QED BY <1>1, ReachedThen DEF ReachedMatches

(* What a step may lose: the block of create_node, when the call fails.     *)
LosesAtMostNew ==
  \/ Lost' = Lost
  \/ /\ pc = "found" /\ req.op = "insert" /\ outcome' = "bad_alloc"
     /\ x = Nil \/ TooLong
     /\ \E n \in Free : Lost' = Lost \cup {n}

(* A step of clear() loses nothing: it frees the node that it walks over.   *)
LEMMA ClearLoses ==
  ASSUME TypeOK, NEW r, NEW w, Good(r, w), Clear
  PROVE  Lost' = Lost
<1>1. Lost = Allocated \ On(r)
  BY ReachedIs DEF Lost
<1>2. CASE ClearStart
  <2>1. TypeOK' /\ Good(r, w)'
    BY <1>2, ClearStartKeeps
  <2>2. Reached' = On(r)
    BY <2>1, ReachedNext
  <2>3. Allocated' = Allocated
    BY <1>2 DEF ClearStart, WalkStart, heap, Allocated
  <2> QED BY <1>1, <2>2, <2>3 DEF Lost
<1>3. CASE ClearNode
  <2>1. TypeOK' /\ Allocated' = Allocated \ {x}
    BY <1>3, ClearNodeKeeps
  <2>2. PICK r2 : Good(r2, w)' /\ On(r2) = On(r) \ {x}
    BY <1>3, ClearNodeKeeps
  <2>3. Reached' = On(r) \ {x}
    BY <2>1, <2>2, ReachedNext
  <2>4. x \in On(r)
    BY <1>3 DEF ClearNode, Good, Clearing
  <2> QED BY <1>1, <2>1, <2>3, <2>4 DEF Lost
<1>4. CASE ClearDone
  <2>1. TypeOK'
    BY <1>4, ClearDoneKeeps
  <2>2. PICK w2 : Good(r, w2)'
    BY <1>4, ClearDoneKeeps
  <2>3. Reached' = On(r)
    BY <2>1, <2>2, ReachedNext
  <2>4. Allocated' = Allocated
    BY <1>4 DEF ClearDone, Allocated
  <2> QED BY <1>1, <2>3, <2>4 DEF Lost
<1> QED BY <1>2, <1>3, <1>4 DEF Clear

(* A step loses nothing that was linked.                                    *)
LEMMA StepLoses ==
  ASSUME TypeOK, NEW r, NEW w, Good(r, w), AllocMayFail => LengthsFit, Next
  PROVE  LosesAtMostNew
<1>1. Lost = Allocated \ On(r) /\ Reached = On(r)
  BY ReachedIs DEF Lost
<1>2. CASE Still
  <2>1. TypeOK' /\ Good(r, w)' /\ level' = level
    BY <1>2, StillKeeps
  <2>2. Reached' = On(r)
    BY <2>1, ReachedNext
  <2>3. Lost' = Lost
    BY <1>1, <2>1, <2>2 DEF Lost, Allocated
  <2> QED BY <2>3 DEF LosesAtMostNew
<1>3. CASE Edits
  <2>1. /\ Whole /\ Whole'
        /\ Allocated' \ Linked' = Allocated \ Linked \/ LosesNewBlock
    BY <1>3, EditKeeps
  <2>2. Lost = Allocated \ Linked /\ Lost' = Allocated' \ Linked'
    BY <2>1 DEF Lost, Reached
  <2> QED BY <2>1, <2>2 DEF LosesAtMostNew, LosesNewBlock
<1>4. CASE InsertFirstLost
  <2>1. /\ Whole /\ Whole' /\ Linked = {} /\ outcome' = "bad_alloc"
        /\ pc = "found" /\ x = Nil /\ req.op = "insert"
    BY <1>4, FirstLostIs
  <2>2. PICK n \in Free : Allocated' = Allocated \cup {n}
    BY <1>4, FirstLostIs
  <2>3. TypeOK' /\ Good(r, w)'
    BY <1>4, FirstLostKeeps
  <2>4. Reached' = {} /\ Reached = {}
    <3>1. On(r) = {}
      BY <1>1, <2>1 DEF Reached
    <3> QED BY <1>1, <2>3, <3>1, ReachedNext
  <2>5. Lost' = Lost \cup {n}
    BY <2>2, <2>4 DEF Lost
  <2> QED BY <2>1, <2>5 DEF LosesAtMostNew
<1>5. CASE Clear
  BY <1>5, ClearLoses DEF LosesAtMostNew
<1> QED BY <1>2, <1>3, <1>4, <1>5, StepKinds

(* However often allocations fail, a step loses no block but the one that   *)
(* create_node has taken when it or the insertion after it throws.          *)
THEOREM OnlyNewBlocksLost ==
  ASSUME AllocMayFail => LengthsFit
  PROVE  Spec => LosesOnlyNewBlocks
<1>1. IInv /\ [Next]_vars => [LosesAtMostNew]_vars
  <2>1. ASSUME IInv, Next PROVE LosesAtMostNew
    <3>1. TypeOK /\ \E r, w : Good(r, w)
      BY <2>1 DEF IInv
    <3> QED BY <2>1, <3>1, StepLoses
  <2> QED BY <2>1
<1>2. [LosesAtMostNew]_vars =>
        [\/ Lost' = Lost
         \/ /\ pc = "found" /\ req.op = "insert" /\ outcome' = "bad_alloc"
            /\ x = Nil \/ TooLong
            /\ \E n \in Free : Lost' = Lost \cup {n}]_vars
  BY DEF LosesAtMostNew
<1> QED BY <1>1, <1>2, Invariance, PTL DEF Spec, LosesOnlyNewBlocks

(* A BiModalText is a string to its caller: every call does to the text     *)
(* what std::string would do, whatever nodes, levels and spans it meets.    *)
THEOREM BiModalImplementsText ==
  ASSUME ~AllocMayFail
  PROVE  Spec => Implements
<1>1. Init => Abs!Init
  BY InitImplements
<1>2. IInv /\ [Next]_vars => [Abs!Next]_Abs!vars
  <2>1. ASSUME IInv, Next PROVE Abs!Next \/ UNCHANGED <<AbsText, AbsReq>>
    <3>1. TypeOK /\ \E r, w : Good(r, w)
      BY <2>1 DEF IInv
    <3>2. PICK r, w : Good(r, w)
      BY <3>1
    <3> QED BY <2>1, <3>1, <3>2, StepImplements
  <2>2. ASSUME IInv, UNCHANGED vars PROVE UNCHANGED <<AbsText, AbsReq>>
    BY <2>2, StutterUnseen DEF IInv
  <2> QED BY <2>1, <2>2 DEF Abs!vars
<1> QED BY <1>1, <1>2, Invariance, PTL DEF Spec, Implements, Abs!Spec

-----------------------------------------------------------------------------
(***************************************************************************)
(* The readers.                                                            *)
(***************************************************************************)
(* The text is what is before a cell and then the text behind it.           *)
LEMMA TextBefore ==
  ASSUME TypeOK, NEW r, NEW w, Ordered(r), Texts(w), Whole, NEW c \in Cells(r)
  PROVE  Seqs!EndsWith(Char, w[head], w[c])
<1> DEFINE bad == {d \in Cells(r) : r[c] <= r[d] /\ ~Seqs!EndsWith(Char, w[d], w[c])}
           ranks == {r[d] : d \in bad}
<1>1. /\ Cells(r) \subseteq Cell /\ On(r) \subseteq Cells(r) /\ head \in Cells(r)
      /\ \A d \in Cell : r[d] \in Nat
      /\ \A d \in Cell : w[d] \in Seq(Char)
      /\ \A n \in On(r) : n \in Node /\ n # Nil /\ data[n] \in Seq(Char) /\ r[n] < r[head]
      /\ r[c] <= r[head]
  <2>1. head \in Cells(r)
    BY DEF Cells
  <2>2. \A n \in On(r) : r[n] < r[head] /\ r[n] \in Nat /\ r[head] \in Nat
    BY CellFacts DEF Cell, On
  <2>3. c \in On(r) \/ c = head
    BY DEF Cells
  <2>4. r[c] <= r[head]
    BY <2>2, <2>3, CellFacts
  <2> QED BY <2>1, <2>2, <2>4, CellFacts, TextFacts
<1>2. ASSUME bad # {} PROVE FALSE
  <2>1. ranks \subseteq Nat /\ ranks # {}
    BY <1>1, <1>2
  <2>2. PICK k \in ranks : \A j \in ranks : k <= j
    <3> HIDE DEF ranks
    <3> QED BY <2>1, Seqs!LeastNat
  <2>3. PICK d \in bad : k = r[d]
    OBVIOUS
  <2>4. d \in Cells(r) /\ r[c] <= r[d] /\ ~Seqs!EndsWith(Char, w[d], w[c])
    BY <2>3
  <2>5. CASE r[c] = r[d]
    <3>1. c = d
      BY <2>4, <2>5, SameRank
    <3>2. << >> \in Seq(Char) /\ w[c] \in Seq(Char)
      BY <1>1
    <3>3. w[d] = << >> \o w[c]
      BY <3>1, <3>2
    <3> QED BY <2>4, <3>2, <3>3 DEF Seqs!EndsWith
  <2>6. CASE r[c] # r[d]
    <3>1. r[c] < r[d] /\ r[d] <= r[head]
      <4>1. d \in On(r) \/ d = head
        BY <2>4 DEF Cells
      <4>2. r[d] \in Nat /\ r[c] \in Nat /\ r[head] \in Nat
        BY <2>4, <1>1
      <4> QED BY <1>1, <2>4, <2>6, <4>1, <4>2
    <3>2. c \in On(r)
      <4>1. r[d] \in Nat /\ r[c] \in Nat /\ r[head] \in Nat
        BY <2>4, <1>1
      <4> QED BY <1>1, <3>1, <4>1 DEF Cells
    <3>3. PICK m \in On(r) : m = next[d][0] /\ r[m] < r[d] /\ r[c] <= r[m]
      BY <2>4, <3>1, <3>2, NextIsFirst
    <3>4. w[d] = data[m] \o w[m]
      BY <1>1, <2>4, <3>3 DEF Texts
    <3>5. m \notin bad
      <4>1. r[m] \in Nat /\ r[d] \in Nat
        BY <1>1, <2>4
      <4> HIDE DEF bad
      <4> QED BY <2>2, <2>3, <3>3, <4>1
    <3>6. Seqs!EndsWith(Char, w[m], w[c])
      BY <1>1, <3>3, <3>5
    <3>7. data[m] \in Seq(Char) /\ w[m] \in Seq(Char) /\ w[c] \in Seq(Char) /\ m \in Cell
      BY <1>1
    <3>8. Seqs!EndsWith(Char, w[d], w[c])
      <4>1. Seqs!EndsWith(Char, data[m] \o w[m], w[c])
        BY <3>6, <3>7, Seqs!EndsLonger, Zenon
      <4> QED BY <3>4, <4>1, Zenon
    <3> QED BY <2>4, <3>8
  <2> QED BY <2>5, <2>6
<1>3. Seqs!EndsWith(Char, w[head], w[c])
  BY <1>1, <1>2
<1> QED BY <1>3

(* What at() does at one place of its search.                               *)
SearchStops == {s \in Searches : ~NextIsBefore(s) /\ ~ s.lvl > 0}

SearchStep == [s \in Searches |->
  IF NextIsBefore(s)
    THEN Search(s.pos, next[s.node][s.lvl], s.lvl, s.before + span[s.node][s.lvl])
    ELSE IF s.lvl > 0 THEN Search(s.pos, s.node, s.lvl - 1, s.before) ELSE s]

SearchFinds == [s \in Searches |-> [node |-> next[s.node][0], offset |-> s.pos - s.before]]

LEMMA SearchStepIs ==
  ASSUME TypeOK
  PROVE  SearchStep \in [Searches -> Searches]
<1> SUFFICES ASSUME NEW s \in Searches PROVE SearchStep[s] \in Searches
  BY DEF SearchStep
<1>1. /\ s.pos \in Nat /\ s.node \in Cell /\ s.lvl \in Levels /\ s.before \in Nat
      /\ s = [pos |-> s.pos, node |-> s.node, lvl |-> s.lvl, before |-> s.before]
  BY DEF Searches
<1>2. CASE NextIsBefore(s)
  <2>1. next[s.node][s.lvl] \in Cell /\ span[s.node][s.lvl] \in Nat
    BY <1>1, <1>2, Kinds DEF NextIsBefore, Pointer, Cell
  <2>2. PICK m \in Cell, k \in Nat : m = next[s.node][s.lvl] /\ k = span[s.node][s.lvl]
    BY <2>1
  <2>3. SearchStep[s] = Search(s.pos, m, s.lvl, s.before + k)
    BY <1>2, <2>2 DEF SearchStep
  <2> QED BY <1>1, <2>3 DEF Search, Searches
<1>3. CASE ~NextIsBefore(s) /\ s.lvl > 0
  <2>1. s.lvl - 1 \in Levels
    BY <1>1, <1>3, BiModalAssumption DEF Levels
  <2>2. PICK l \in Levels : l = s.lvl - 1
    BY <2>1
  <2>3. SearchStep[s] = Search(s.pos, s.node, l, s.before)
    BY <1>3, <2>2 DEF SearchStep
  <2> QED BY <1>1, <2>3 DEF Search, Searches
<1>4. CASE ~NextIsBefore(s) /\ ~ s.lvl > 0
  BY <1>4 DEF SearchStep
<1> QED BY <1>2, <1>3, <1>4

(* at() searches: a function that gives what the loops find.                *)
LEMMA AtSearchIs ==
  ASSUME TypeOK
  PROVE  \A s \in Searches :
           AtSearch[s] = IF s \in SearchStops THEN SearchFinds[s]
                                              ELSE AtSearch[SearchStep[s]]
<1> DEFINE body(g) == [s \in Searches |->
                         IF NextIsBefore(s)
                           THEN g[Search(s.pos, next[s.node][s.lvl], s.lvl,
                                         s.before + span[s.node][s.lvl])]
                           ELSE IF s.lvl > 0
                                  THEN g[Search(s.pos, s.node, s.lvl - 1, s.before)]
                                  ELSE [node |-> next[s.node][0],
                                        offset |-> s.pos - s.before]]
           loop(g) == [s \in Searches |-> IF s \in SearchStops THEN SearchFinds[s]
                                                              ELSE g[SearchStep[s]]]
<1>1. ASSUME NEW g PROVE body(g) = loop(g)
  <2>1. ASSUME NEW s \in Searches PROVE body(g)[s] = loop(g)[s]
    <3>1. CASE NextIsBefore(s)
      BY <3>1 DEF SearchStops, SearchStep
    <3>2. CASE ~NextIsBefore(s) /\ s.lvl > 0
      BY <3>2 DEF SearchStops, SearchStep
    <3>3. CASE ~NextIsBefore(s) /\ ~ s.lvl > 0
      BY <3>3 DEF SearchStops, SearchFinds
    <3> QED BY <3>1, <3>2, <3>3
  <2> QED BY <2>1
<1>2. PICK f : Seqs!LoopFunction(f, Searches, SearchStops, SearchStep, SearchFinds)
  <2>1. SearchStep \in [Searches -> Searches]
    BY SearchStepIs
  <2> QED BY <2>1, Seqs!LoopHasResult, Zenon
<1>3. AtSearch = CHOOSE h : h = body(h)
  BY DEF AtSearch
<1>4. \E h : h = body(h)
  <2>1. f = loop(f)
    BY <1>2 DEF Seqs!LoopFunction
  <2> HIDE DEF body, loop
  <2> QED BY <1>1, <2>1, Zenon
<1>5. AtSearch = body(AtSearch)
  <2> HIDE DEF body
  <2> QED BY <1>3, <1>4, Zenon
<1>6. AtSearch = loop(AtSearch)
  <2> HIDE DEF body, loop
  <2> QED BY <1>1, <1>5, Zenon
<1>7. \A g : \A s \in Searches :
        loop(g)[s] = IF s \in SearchStops THEN SearchFinds[s] ELSE g[SearchStep[s]]
  OBVIOUS
<1> HIDE DEF loop
<1> QED BY <1>6, <1>7, Zenon

(* What the skip loop of at() does at one place.                            *)
Places == [node : Pointer, offset : Int]

SkipStops == {s \in Places : ~(s.node # Nil /\ s.offset >= Size(s.node))}

SkipStep == [s \in Places |->
  IF s.node # Nil /\ s.offset >= Size(s.node)
    THEN [node |-> next[s.node][0], offset |-> s.offset - Size(s.node)]
    ELSE s]

SkipFinds == [s \in Places |-> s]

LEMMA SkipStepIs ==
  ASSUME TypeOK
  PROVE  SkipStep \in [Places -> Places]
<1> SUFFICES ASSUME NEW s \in Places PROVE SkipStep[s] \in Places
  BY DEF SkipStep
<1>1. s.node \in Pointer /\ s.offset \in Int
  BY DEF Places
<1>2. CASE s.node # Nil /\ s.offset >= Size(s.node)
  <2>1. s.node \in Cell /\ s.node \in Node /\ 0 \in Levels
    BY <1>1, <1>2, BiModalAssumption DEF Pointer, Cell, Levels
  <2>2. next[s.node][0] \in Pointer
    BY <2>1, Kinds
  <2>3. Size(s.node) \in Nat
    BY <2>1 DEF TypeOK, Size
  <2>4. PICK m \in Pointer, k \in Int : m = next[s.node][0] /\ k = s.offset - Size(s.node)
    BY <1>1, <2>2, <2>3
  <2>5. SkipStep[s] = [node |-> m, offset |-> k]
    BY <1>2, <2>4 DEF SkipStep
  <2> QED BY <2>5 DEF Places
<1>3. CASE ~(s.node # Nil /\ s.offset >= Size(s.node))
  BY <1>3 DEF SkipStep
<1> QED BY <1>2, <1>3

(* at() skips: the loop returns a place at which it does not go on.         *)
LEMMA AtSkipIs ==
  ASSUME TypeOK
  PROVE  \A s \in Places :
           ~(s.node # Nil /\ s.offset >= Size(s.node)) => AtSkip[s] = s
<1> DEFINE body(g) == [s \in [node : Pointer, offset : Int] |->
                         IF s.node # Nil /\ s.offset >= Size(s.node)
                           THEN g[[node   |-> next[s.node][0],
                                   offset |-> s.offset - Size(s.node)]]
                           ELSE s]
           loop(g) == [s \in Places |-> IF s \in SkipStops THEN SkipFinds[s]
                                                          ELSE g[SkipStep[s]]]
<1>1. ASSUME NEW g PROVE body(g) = loop(g)
  <2>1. ASSUME NEW s \in Places PROVE body(g)[s] = loop(g)[s]
    <3>1. CASE s.node # Nil /\ s.offset >= Size(s.node)
      BY <3>1 DEF SkipStops, SkipStep, Places
    <3>2. CASE ~(s.node # Nil /\ s.offset >= Size(s.node))
      BY <3>2 DEF SkipStops, SkipFinds, Places
    <3> QED BY <3>1, <3>2
  <2> QED BY <2>1 DEF Places
<1>2. PICK f : Seqs!LoopFunction(f, Places, SkipStops, SkipStep, SkipFinds)
  <2>1. SkipStep \in [Places -> Places]
    BY SkipStepIs
  <2> QED BY <2>1, Seqs!LoopHasResult, Zenon
<1>3. AtSkip = CHOOSE h : h = body(h)
  BY DEF AtSkip
<1>4. \E h : h = body(h)
  <2>1. f = loop(f)
    BY <1>2 DEF Seqs!LoopFunction
  <2> HIDE DEF body, loop
  <2> QED BY <1>1, <2>1, Zenon
<1>5. AtSkip = body(AtSkip)
  <2> HIDE DEF body
  <2> QED BY <1>3, <1>4, Zenon
<1>6. \A g : \A s \in Places :
        ~(s.node # Nil /\ s.offset >= Size(s.node)) => body(g)[s] = s
  BY DEF Places
<1> HIDE DEF body
<1> QED BY <1>5, <1>6, Zenon

(* Where the search of at() for position p is, and that it gets on.         *)
Searching(r, w, p) ==
  {s \in Searches : /\ s.pos = p
                    /\ OnLevel(r, s.node, s.lvl)
                    /\ s.before = EndOf(w, s.node)
                    /\ s.before <= p}

LEMMA SearchGoesOn ==
  ASSUME TypeOK, NEW r, NEW w, Ordered(r), Texts(w), Spanned(r, w), NEW p \in Nat,
         NEW s \in Searching(r, w, p), s \notin SearchStops
  PROVE  /\ SearchStep[s] \in Searching(r, w, p)
         /\ r[SearchStep[s].node] + SearchStep[s].lvl < r[s.node] + s.lvl
<1>1. /\ s \in Searches /\ s.pos = p /\ OnLevel(r, s.node, s.lvl)
      /\ s.before = EndOf(w, s.node) /\ s.before <= p
  BY DEF Searching
<1>2. PICK c \in Cell, i \in Levels, b \in Nat : c = s.node /\ i = s.lvl /\ b = s.before
  BY <1>1 DEF Searches
<1>3. /\ OnLevel(r, c, i) /\ b = EndOf(w, c) /\ b <= p /\ i \in Nat
      /\ r[c] \in Nat
  BY <1>1, <1>2, CellFacts
<1>4. CASE NextIsBefore(s)
  <2>1. next[c][i] # Nil /\ b + span[c][i] <= p
    BY <1>1, <1>2, <1>4 DEF NextIsBefore
  <2>2. FirstBehind(r, c, i) /\ span[c][i] = Len(w[c]) - After(w, next[c][i])
    BY <1>3 DEF Ordered, Spanned
  <2>3. PICK m \in On(r) : m = next[c][i] /\ level[m] > i /\ r[m] < r[c]
    BY <2>1, <2>2 DEF FirstBehind
  <2>4. /\ m \in Cell /\ m \in Cells(r) /\ r[m] \in Nat /\ m # Nil
        /\ Len(w[m]) \in Nat /\ Len(w[c]) \in Nat /\ Len(w[head]) \in Nat
        /\ level[m] \in Nat
    BY CellFacts, TextFacts
  <2>5. PICK k \in Nat : k = span[c][i]
    BY Kinds
  <2>6. k = Len(w[c]) - Len(w[m])
    BY <2>2, <2>3, <2>4, <2>5 DEF After
  <2>7. b + k = EndOf(w, m) /\ b + k <= p
    BY <1>3, <2>1, <2>4, <2>5, <2>6 DEF EndOf
  <2>8. SearchStep[s] = Search(p, m, i, b + k)
    BY <1>1, <1>2, <1>4, <2>3, <2>5 DEF SearchStep
  <2>9. OnLevel(r, m, i)
    BY <1>3, <2>3, <2>4 DEF OnLevel
  <2>10. PICK q \in Nat : q = b + k
    OBVIOUS
  <2>11. SearchStep[s] = [pos |-> p, node |-> m, lvl |-> i, before |-> q]
    BY <2>8, <2>10 DEF Search
  <2>12. SearchStep[s] \in Searches
    BY <2>4, <2>11 DEF Searches
  <2>13. SearchStep[s] \in Searching(r, w, p)
    BY <2>7, <2>9, <2>10, <2>11, <2>12 DEF Searching
  <2>14. SearchStep[s].node = m /\ SearchStep[s].lvl = i
    BY <2>11
  <2>15. r[m] + i < r[c] + i
    BY <1>3, <2>3, <2>4
  <2> QED BY <1>2, <2>13, <2>14, <2>15
<1>5. CASE ~NextIsBefore(s)
  <2>1. i > 0
    BY <1>1, <1>2, <1>5 DEF SearchStops
  <2>2. PICK l \in Levels : l = i - 1 /\ l < i /\ l \in Nat
    <3>1. i - 1 \in Levels /\ i - 1 < i /\ i - 1 \in Nat
      BY <2>1, <1>3, BiModalAssumption DEF Levels
    <3> QED BY <3>1
  <2>3. SearchStep[s] = [pos |-> p, node |-> c, lvl |-> l, before |-> b]
    BY <1>1, <1>2, <1>5, <2>1, <2>2 DEF SearchStep, Search
  <2>4. OnLevel(r, c, l)
    <3>1. level[c] \in Nat
      BY CellFacts
    <3> QED BY <1>3, <2>2, <3>1 DEF OnLevel
  <2>5. SearchStep[s] \in Searches
    BY <2>3 DEF Searches
  <2>6. SearchStep[s] \in Searching(r, w, p)
    BY <1>3, <2>3, <2>4, <2>5 DEF Searching
  <2>7. SearchStep[s].node = c /\ SearchStep[s].lvl = l
    BY <2>3
  <2>8. r[c] + l < r[c] + i
    BY <1>3, <2>2
  <2> QED BY <1>2, <2>6, <2>7, <2>8
<1> QED BY <1>4, <1>5

(* The node at() ends at holds the position.                                *)
LEMMA SearchEnds ==
  ASSUME TypeOK, NEW r, NEW w, Ordered(r), Texts(w), Spanned(r, w), Whole,
         NEW p \in Nat, p < Len(w[head]),
         NEW s \in Searching(r, w, p), s \in SearchStops
  PROVE  \E m \in On(r), k \in Nat :
           /\ SearchFinds[s] = [node |-> m, offset |-> k]
           /\ k < Size(m)
           /\ data[m][k + 1] = w[head][p + 1]
<1>1. /\ s \in Searches /\ s.pos = p /\ OnLevel(r, s.node, s.lvl)
      /\ s.before = EndOf(w, s.node) /\ s.before <= p
  BY DEF Searching
<1>2. PICK c \in Cell, i \in Levels, b \in Nat : c = s.node /\ i = s.lvl /\ b = s.before
  BY <1>1 DEF Searches
<1>3. i = 0
  BY <1>2, BiModalAssumption DEF SearchStops, Levels
<1>4. /\ c \in Cells(r) /\ OnLevel(r, c, 0) /\ FirstBehind(r, c, 0)
      /\ span[c][0] = Len(w[c]) - After(w, next[c][0])
      /\ b = EndOf(w, c) /\ b <= p
  BY <1>1, <1>2, <1>3 DEF Ordered, Spanned, OnLevel
<1>5. /\ Len(w[c]) \in Nat /\ Len(w[head]) \in Nat /\ w[c] \in Seq(Char)
      /\ w[head] \in Seq(Char) /\ head \in Cell
  BY CellFacts, TextFacts
<1>6. next[c][0] # Nil
  <2>1. ASSUME next[c][0] = Nil PROVE FALSE
    <3>1. w[c] = << >>
      BY <2>1 DEF Texts
    <3>2. Len(w[c]) = 0
      BY <3>1
    <3> QED BY <1>4, <1>5, <3>2 DEF EndOf
  <2> QED BY <2>1
<1>7. PICK m \in On(r) : m = next[c][0]
  BY <1>4, <1>6 DEF FirstBehind
<1>8. /\ m \in Cell /\ m \in Node /\ m # Nil /\ Len(w[m]) \in Nat /\ w[m] \in Seq(Char)
      /\ data[m] \in Seq(Char) /\ Size(m) \in Nat /\ Size(m) = Len(data[m])
      /\ span[c][0] \in Nat
  BY <1>5, CellFacts, TextFacts, Kinds DEF Size
<1>9. w[c] = data[m] \o w[m]
  BY <1>6, <1>7 DEF Texts
<1>10. Len(w[c]) = Size(m) + Len(w[m])
  BY <1>8, <1>9
<1>11. p < b + Size(m)
  <2>1. ~(b + span[c][0] <= p)
    BY <1>1, <1>2, <1>3, <1>6 DEF SearchStops, NextIsBefore
  <2>2. span[c][0] = Size(m)
    BY <1>4, <1>6, <1>7, <1>8, <1>10 DEF After
  <2> QED BY <1>8, <2>1, <2>2
<1>12. PICK k \in Nat : k = p - b
  <2>1. p - b \in Nat
    BY <1>4
  <2> QED BY <2>1
<1>13. k < Size(m)
  BY <1>8, <1>11, <1>12
<1>14. PICK a \in Seq(Char) : w[head] = a \o w[c]
  BY <1>4, TextBefore DEF Seqs!EndsWith
<1>15. Len(a) = b
  <2>1. Len(w[head]) = Len(a) + Len(w[c]) /\ Len(a) \in Nat
    BY <1>5, <1>14
  <2> QED BY <1>4, <1>5, <2>1 DEF EndOf
<1>16. data[m][k + 1] = w[head][p + 1]
  <2>0. PICK d \in Seq(Char), v \in Seq(Char) : d = data[m] /\ v = w[m]
    BY <1>8
  <2>4. k < Len(d)
    BY <1>8, <1>13, <2>0
  <2>5. (a \o (d \o v))[Len(a) + k + 1] = d[k + 1]
    BY <2>4, Seqs!CharWithin
  <2>1. (a \o (data[m] \o w[m]))[Len(a) + k + 1] = data[m][k + 1]
    BY <2>0, <2>5
  <2>2. Len(a) + k + 1 = p + 1
    BY <1>12, <1>15
  <2>3. w[head] = a \o (data[m] \o w[m])
    BY <1>9, <1>14
  <2> QED BY <2>1, <2>2, <2>3
<1>17. SearchFinds[s] = [node |-> m, offset |-> k]
  BY <1>1, <1>2, <1>7, <1>12 DEF SearchFinds
<1> QED BY <1>13, <1>16, <1>17

(* at() returns the character at its position.                              *)
LEMMA AtIs ==
  ASSUME TypeOK, NEW r, NEW w, Ordered(r), Texts(w), Spanned(r, w), Whole,
         NEW p \in Nat, p < Len(w[head])
  PROVE  At(p) = w[head][p + 1]
<1> DEFINE G == Searching(r, w, p)
           rank == [s \in G |-> r[s.node] + s.lvl]
           s0 == Search(p, head, MaxLevel - 1, 0)
<1>1. s0 \in G
  <2>1. /\ head \in Cell /\ MaxLevel - 1 \in Levels /\ OnLevel(r, head, MaxLevel - 1)
        /\ Len(w[head]) \in Nat
    BY CellFacts, TextFacts
  <2>2. s0 = [pos |-> p, node |-> head, lvl |-> MaxLevel - 1, before |-> 0]
    BY DEF Search
  <2>3. s0 \in Searches
    BY <2>1, <2>2 DEF Searches
  <2>4. EndOf(w, head) = 0
    BY <2>1 DEF EndOf
  <2> QED BY <2>1, <2>2, <2>3, <2>4 DEF Searching
<1>2. rank \in [G -> Nat]
  <2> SUFFICES ASSUME NEW s \in G PROVE r[s.node] + s.lvl \in Nat
    OBVIOUS
  <2>1. s.node \in Cell /\ s.lvl \in Levels
    BY DEF Searching, Searches
  <2> QED BY <2>1, CellFacts
<1>3. \A s \in G : s \in SearchStops => AtSearch[s] = SearchFinds[s]
  BY AtSearchIs DEF Searching
<1>4. \A s \in G : s \notin SearchStops => /\ SearchStep[s] \in G
                                           /\ rank[SearchStep[s]] < rank[s]
                                           /\ AtSearch[s] = AtSearch[SearchStep[s]]
  <2> SUFFICES ASSUME NEW s \in G, s \notin SearchStops
               PROVE  /\ SearchStep[s] \in G
                      /\ rank[SearchStep[s]] < rank[s]
                      /\ AtSearch[s] = AtSearch[SearchStep[s]]
    OBVIOUS
  <2>1. /\ SearchStep[s] \in G
        /\ r[SearchStep[s].node] + SearchStep[s].lvl < r[s.node] + s.lvl
    BY SearchGoesOn
  <2>2. AtSearch[s] = AtSearch[SearchStep[s]]
    BY AtSearchIs DEF Searching
  <2> QED BY <2>1, <2>2
<1>5. PICK z \in G \cap SearchStops : AtSearch[s0] = SearchFinds[z]
  <2> HIDE DEF G, rank, s0
  <2>1. Seqs!LoopRuns(AtSearch, G, SearchStops, SearchStep, SearchFinds, rank)
    BY <1>2, <1>3, <1>4 DEF Seqs!LoopRuns
  <2> QED BY <1>1, <2>1, Seqs!LoopResult
<1>6. PICK m \in On(r), k \in Nat : /\ SearchFinds[z] = [node |-> m, offset |-> k]
                                    /\ k < Size(m)
                                    /\ data[m][k + 1] = w[head][p + 1]
  <2>1. z \in Searching(r, w, p) /\ z \in SearchStops
    BY <1>5
  <2> QED BY <2>1, SearchEnds
<1>7. AtTarget(p) = [node |-> m, offset |-> k]
  <2> DEFINE f == [node |-> m, offset |-> k]
  <2>1. m \in Node /\ m # Nil /\ Size(m) \in Nat
    BY CellFacts, TextFacts
  <2>2. f \in Places /\ ~(f.node # Nil /\ f.offset >= Size(f.node))
    BY <1>6, <2>1 DEF Places, Pointer
  <2>3. AtSkip[f] = f
    <3> HIDE DEF f
    <3> QED BY <2>2, AtSkipIs
  <2> QED BY <1>5, <1>6, <2>3 DEF AtTarget
<1>8. m # Nil
  BY CellFacts
<1> QED BY <1>6, <1>7, <1>8 DEF At

(* What the loop over an iterator does.                                     *)
Read == Char \cup {"out_of_bounds"}

IterStops == {s \in Iterations : s.it.node = Nil}

IterStep == [s \in Iterations |->
  IF s.it.node = Nil THEN s ELSE [it   |-> Advance(s.it),
                                  seen |-> Append(s.seen, Deref(s.it))]]

IterFinds == [s \in Iterations |-> s.seen]

LEMMA IterStepIs ==
  ASSUME TypeOK
  PROVE  IterStep \in [Iterations -> Iterations]
<1> SUFFICES ASSUME NEW s \in Iterations PROVE IterStep[s] \in Iterations
  BY DEF IterStep
<1> DEFINE Its == [node : Pointer, offset : Nat, cached_len : Nat]
<1>1. s.it \in Its /\ s.seen \in Seq(Read)
  BY DEF Iterations, Read
<1>2. CASE s.it.node # Nil
  <2>1. PICK i \in Its : i = s.it
    BY <1>1
  <2>2. i.node \in Node /\ i.node \in Cell /\ i.node # Nil /\ 0 \in Levels
    BY <1>2, <2>1, BiModalAssumption DEF Pointer, Cell, Levels
  <2>3. next[i.node][0] \in Pointer /\ data[i.node] \in Seq(Char) /\ Size(i.node) \in Nat
    BY <2>2, Kinds DEF TypeOK, Size
  <2>4. \A n \in Pointer : n # Nil => Size(n) \in Nat
    BY DEF TypeOK, Pointer, Size
  <2>5. Deref(i) \in Read
    BY <2>3 DEF Deref, Read, Size
  <2>6. Iterator(next[i.node][0], 0) \in Its
    BY <2>3, <2>4 DEF Iterator
  <2>7. [i EXCEPT !.offset = @ + 1] \in Its
    OBVIOUS
  <2>8. Advance(i) \in Its
    BY <2>6, <2>7 DEF Advance
  <2>9. Append(s.seen, Deref(i)) \in Seq(Read)
    BY <1>1, <2>5
  <2>10. IterStep[s] = [it |-> Advance(i), seen |-> Append(s.seen, Deref(i))]
    BY <1>2, <2>1 DEF IterStep
  <2> HIDE DEF Its
  <2>11. IterStep[s] \in [it : Its, seen : Seq(Read)]
    BY <2>8, <2>9, <2>10
  <2> QED BY <2>11 DEF Iterations, Read, Its
<1>3. CASE s.it.node = Nil
  BY <1>3 DEF IterStep
<1> QED BY <1>2, <1>3

(* The loop over an iterator: a function that gives what it reads.          *)
LEMMA IterateIs ==
  ASSUME TypeOK
  PROVE  \A s \in Iterations :
           IterateFrom[s] = IF s \in IterStops THEN IterFinds[s]
                                               ELSE IterateFrom[IterStep[s]]
<1> DEFINE body(g) == [s \in Iterations |->
                         IF s.it.node = Nil
                           THEN s.seen
                           ELSE g[[it   |-> Advance(s.it),
                                   seen |-> Append(s.seen, Deref(s.it))]]]
           loop(g) == [s \in Iterations |-> IF s \in IterStops THEN IterFinds[s]
                                                              ELSE g[IterStep[s]]]
<1>1. ASSUME NEW g PROVE body(g) = loop(g)
  <2>1. ASSUME NEW s \in Iterations PROVE body(g)[s] = loop(g)[s]
    <3>1. CASE s.it.node = Nil
      BY <3>1 DEF IterStops, IterFinds
    <3>2. CASE s.it.node # Nil
      BY <3>2 DEF IterStops, IterStep
    <3> QED BY <3>1, <3>2
  <2> QED BY <2>1
<1>2. PICK f : Seqs!LoopFunction(f, Iterations, IterStops, IterStep, IterFinds)
  <2>1. IterStep \in [Iterations -> Iterations]
    BY IterStepIs
  <2> QED BY <2>1, Seqs!LoopHasResult, Zenon
<1>3. IterateFrom = CHOOSE h : h = body(h)
  BY DEF IterateFrom
<1>4. \E h : h = body(h)
  <2>1. f = loop(f)
    BY <1>2 DEF Seqs!LoopFunction
  <2> HIDE DEF body, loop
  <2> QED BY <1>1, <2>1, Zenon
<1>5. IterateFrom = body(IterateFrom)
  <2> HIDE DEF body
  <2> QED BY <1>3, <1>4, Zenon
<1>6. IterateFrom = loop(IterateFrom)
  <2> HIDE DEF body, loop
  <2> QED BY <1>1, <1>5, Zenon
<1>7. \A g : \A s \in Iterations :
        loop(g)[s] = IF s \in IterStops THEN IterFinds[s] ELSE g[IterStep[s]]
  OBVIOUS
<1> HIDE DEF loop
<1> QED BY <1>6, <1>7, Zenon

(* Where a loop over the whole text is: what it has seen and what is ahead  *)
(* of the iterator are the text.                                            *)
Iterating(r, w) ==
  {s \in Iterations :
     \/ s.it.node = Nil /\ s.seen = w[head]
     \/ /\ s.it.node \in On(r)
        /\ s.it.cached_len = Size(s.it.node)
        /\ s.it.offset < Size(s.it.node)
        /\ Seqs!Reading(w[head], s.seen, data[s.it.node], s.it.offset, w[s.it.node])}

LEMMA IterationGoesOn ==
  ASSUME TypeOK, NEW r, NEW w, Ordered(r), Texts(w),
         \A n \in On(r) : Size(n) > 0,
         NEW s \in Iterating(r, w), s \notin IterStops
  PROVE  /\ IterStep[s] \in Iterating(r, w)
         /\ Len(IterStep[s].seen) = Len(s.seen) + 1
<1>1. /\ s \in Iterations /\ s.it.node # Nil /\ s.it.node \in On(r)
      /\ s.it.cached_len = Size(s.it.node) /\ s.it.offset < Size(s.it.node)
      /\ Seqs!Reading(w[head], s.seen, data[s.it.node], s.it.offset, w[s.it.node])
  BY DEF Iterating, IterStops
<1>2. /\ s.it.offset \in Nat /\ s.seen \in Seq(Read)
      /\ s.it \in [node : Pointer, offset : Nat, cached_len : Nat]
  BY <1>1 DEF Iterations, Read
<1>3. PICK n \in On(r), k \in Nat, u \in Seq(Read), i \in [node : Pointer, offset : Nat, cached_len : Nat] :
        n = s.it.node /\ k = s.it.offset /\ u = s.seen /\ i = s.it
  BY <1>1, <1>2
<1>4. /\ n \in Node /\ n \in Cell /\ n # Nil /\ 0 \in Levels /\ n \in Cells(r)
      /\ OnLevel(r, n, 0) /\ FirstBehind(r, n, 0)
      /\ data[n] \in Seq(Char) /\ w[n] \in Seq(Char) /\ head \in Cell
      /\ w[head] \in Seq(Char)
  BY CellFacts, TextFacts DEF OnLevel, Ordered
<1>5. PICK d \in Seq(Read), v \in Seq(Read) : d = data[n] /\ v = w[n] /\ Size(n) = Len(d)
  <2>1. data[n] \in Seq(Read) /\ w[n] \in Seq(Read)
    BY <1>4 DEF Read
  <2> QED BY <2>1 DEF Size
<1>6. k < Len(d) /\ Deref(i) = d[k + 1] /\ i.node = n /\ i.offset = k /\ i.cached_len = Len(d)
  BY <1>1, <1>3, <1>5 DEF Deref
<1>7. Seqs!Reading(w[head], u, d, k, v)
  BY <1>1, <1>3, <1>5
<1> DEFINE u2 == Append(u, d[k + 1])
<1>8. Seqs!Reading(w[head], u2, d, k + 1, v)
  BY <1>6, <1>7, Seqs!ReadOn
<1>9. u2 \in Seq(Read) /\ Len(u2) = Len(u) + 1
  <2>1. d[k + 1] \in Read
    BY <1>6
  <2> QED BY <2>1
<1> HIDE DEF u2
<1>10. IterStep[s] = [it |-> Advance(i), seen |-> u2]
  BY <1>1, <1>3, <1>6 DEF IterStep, u2
<1>11. IterStep[s] \in Iterations
  BY <1>1, IterStepIs
<1>12. CASE k + 1 < Len(d)
  <2>1. Advance(i) = [i EXCEPT !.offset = @ + 1]
    BY <1>6, <1>12 DEF Advance
  <2>2. PICK j \in [node : Pointer, offset : Nat, cached_len : Nat] :
          j = Advance(i) /\ j.node = n /\ j.offset = k + 1 /\ j.cached_len = Len(d)
    <3>1. [i EXCEPT !.offset = @ + 1] \in [node : Pointer, offset : Nat, cached_len : Nat]
      OBVIOUS
    <3>2. /\ [i EXCEPT !.offset = @ + 1].node = n
          /\ [i EXCEPT !.offset = @ + 1].offset = k + 1
          /\ [i EXCEPT !.offset = @ + 1].cached_len = Len(d)
      BY <1>6
    <3> QED BY <2>1, <3>1, <3>2
  <2>3. Seqs!Reading(w[head], u2, data[j.node], j.offset, w[j.node])
    BY <1>5, <1>8, <2>2
  <2>5. IterStep[s].it = j /\ IterStep[s].seen = u2
    BY <1>10, <2>2
  <2>7. j.node \in On(r) /\ j.cached_len = Size(j.node) /\ j.offset < Size(j.node)
    BY <1>5, <1>12, <2>2
  <2> QED BY <1>3, <1>9, <1>11, <2>3, <2>5, <2>7 DEF Iterating
<1>13. CASE k + 1 >= Len(d)
  <2>1. Advance(i) = Iterator(next[n][0], 0)
    BY <1>6, <1>13 DEF Advance
  <2>2. SubSeq(d, (k + 1) + 1, Len(d)) \o v = v
    <3>1. k + 1 \in Nat
      OBVIOUS
    <3> QED BY <1>13, <3>1, Seqs!ReadToEnd
  <2>3. w[head] = u2 \o w[n]
    BY <1>5, <1>8, <2>2 DEF Seqs!Reading
  <2>4. CASE next[n][0] = Nil
    <3>1. w[n] = << >>
      BY <1>4, <2>4 DEF Texts
    <3>2. w[head] = u2
      BY <1>9, <2>3, <3>1
    <3>3. IterStep[s].it.node = Nil /\ IterStep[s].seen = u2
      BY <1>10, <2>1, <2>4 DEF Iterator
    <3> QED BY <1>3, <1>9, <1>11, <3>2, <3>3 DEF Iterating
  <2>5. CASE next[n][0] # Nil
    <3>1. PICK m \in On(r) : m = next[n][0]
      BY <1>4, <2>5 DEF FirstBehind
    <3>2. w[n] = data[m] \o w[m] /\ m # Nil /\ data[m] \in Seq(Char) /\ Size(m) = Len(data[m])
      BY <1>4, <2>5, <3>1, CellFacts, TextFacts DEF Texts, Size
    <3> DEFINE j == Iterator(m, 0)
    <3>3. j.node = m /\ j.offset = 0 /\ j.cached_len = Size(m)
      BY <3>2 DEF Iterator
    <3> HIDE DEF j
    <3>5. Seqs!Reading(w[head], u2, data[j.node], j.offset, w[j.node])
      <4>1. SubSeq(data[m], 1, Len(data[m])) = data[m] /\ 0 + 1 = 1
        BY <3>2, Seqs!ReadFromStart
      <4> QED BY <2>3, <3>2, <3>3, <4>1 DEF Seqs!Reading
    <3>6. IterStep[s].it = j /\ IterStep[s].seen = u2
      BY <1>10, <2>1, <3>1 DEF j
    <3>7. j.node \in On(r) /\ j.cached_len = Size(j.node) /\ j.offset < Size(j.node)
      BY <3>3
    <3> QED BY <1>3, <1>9, <1>11, <3>5, <3>6, <3>7 DEF Iterating
  <2> QED BY <2>4, <2>5
<1>14. k + 1 < Len(d) \/ k + 1 >= Len(d)
  OBVIOUS
<1> QED BY <1>12, <1>13, <1>14

(* An iteration over nodes that all hold text reads the text.               *)
LEMMA IterationIs ==
  ASSUME TypeOK, NEW r, NEW w, Ordered(r), Texts(w), Whole,
         \A n \in On(r) : Size(n) > 0
  PROVE  Iterated = w[head]
<1> DEFINE G == Iterating(r, w)
           t == w[head]
           rank == [s \in G |-> Len(t) - Len(s.seen)]
           s0 == [it |-> Begin, seen |-> << >>]
<1>1. s0 \in G
  <2>1. /\ head \in Cell /\ 0 \in Levels /\ OnLevel(r, head, 0) /\ FirstBehind(r, head, 0)
        /\ next[head][0] \in Pointer /\ t \in Seq(Char)
        /\ \A n \in On(r) : n \in Pointer /\ n # Nil /\ data[n] \in Seq(Char)
                            /\ Size(n) = Len(data[n]) /\ Size(n) \in Nat
                            /\ w[n] \in Seq(Char)
    BY CellFacts, TextFacts, Kinds DEF Ordered, Pointer, Size, Cell
  <2>2. << >> \in Seq(Read)
    OBVIOUS
  <2>3. CASE next[head][0] = Nil
    <3>1. w[head] = << >>
      BY <2>1, <2>3 DEF Texts
    <3>2. Begin = [node |-> Nil, offset |-> 0, cached_len |-> 0]
      BY <2>3 DEF Begin, Iterator
    <3>3. Begin \in [node : Pointer, offset : Nat, cached_len : Nat] /\ Begin.node = Nil
      BY <3>2 DEF Pointer
    <3>4. s0 \in Iterations /\ s0.it.node = Nil /\ s0.seen = << >>
      BY <2>2, <3>3 DEF Iterations, Read
    <3> HIDE DEF s0
    <3> QED BY <3>1, <3>4 DEF Iterating
  <2>4. CASE next[head][0] # Nil
    <3>1. PICK m \in On(r) : m = next[head][0]
      BY <2>1, <2>4 DEF FirstBehind
    <3>2. w[head] = data[m] \o w[m]
      BY <2>1, <2>4, <3>1 DEF Texts
    <3>3. Begin = [node |-> m, offset |-> 0, cached_len |-> Size(m)]
      BY <2>1, <3>1 DEF Begin, Iterator
    <3>4. /\ Begin \in [node : Pointer, offset : Nat, cached_len : Nat]
          /\ Begin.node = m /\ Begin.offset = 0 /\ Begin.cached_len = Size(m)
      BY <2>1, <3>3
    <3>5. s0 \in Iterations /\ s0.it = Begin /\ s0.seen = << >>
      BY <2>2, <3>4 DEF Iterations, Read
    <3>7. Seqs!Reading(w[head], << >>, data[m], 0, w[m])
      <4>1. SubSeq(data[m], 1, Len(data[m])) = data[m] /\ 0 + 1 = 1
        BY <2>1, Seqs!ReadFromStart
      <4>2. w[head] = << >> \o w[head]
        BY <2>1
      <4> QED BY <3>2, <4>1, <4>2 DEF Seqs!Reading
    <3> HIDE DEF s0
    <3> QED BY <3>4, <3>5, <3>7 DEF Iterating
  <2> QED BY <2>3, <2>4
<1>2. rank \in [G -> Nat]
  <2> SUFFICES ASSUME NEW s \in G PROVE Len(t) - Len(s.seen) \in Nat
    OBVIOUS
  <2>1. s.seen \in Seq(Read) /\ w[head] \in Seq(Char)
    BY CellFacts, TextFacts DEF Iterating, Iterations, Read
  <2>2. CASE s.seen = w[head]
    BY <2>1, <2>2
  <2>3. CASE s.seen # w[head]
    <3>1. /\ s.it.node \in On(r)
          /\ Seqs!Reading(w[head], s.seen, data[s.it.node], s.it.offset, w[s.it.node])
      BY <2>3 DEF Iterating
    <3>2. s.it.offset \in Nat /\ data[s.it.node] \in Seq(Char) /\ w[s.it.node] \in Seq(Char)
      BY <3>1, CellFacts, TextFacts DEF Iterating, Iterations, Cell
    <3>3. PICK k \in Nat, d \in Seq(Char), v \in Seq(Char) :
            k = s.it.offset /\ d = data[s.it.node] /\ v = w[s.it.node]
      BY <3>2
    <3>4. SubSeq(d, k + 1, Len(d)) \in Seq(Char)
      OBVIOUS
    <3>5. SubSeq(d, k + 1, Len(d)) \o v \in Seq(Char)
      BY <3>4
    <3>6. PICK a \in Seq(Char), u \in Seq(Read) :
            a = SubSeq(d, k + 1, Len(d)) \o v /\ u = s.seen
      BY <2>1, <3>5
    <3>7. Len(u \o a) = Len(u) + Len(a)
      <4>1. a \in Seq(Read)
        BY DEF Read
      <4> QED BY <4>1
    <3>8. Len(t) = Len(u) + Len(a) /\ Len(u) \in Nat /\ Len(a) \in Nat
      <4>1. w[head] = u \o a
        BY <3>1, <3>3, <3>6 DEF Seqs!Reading
      <4> QED BY <3>7, <4>1
    <3> QED BY <3>6, <3>8
  <2> QED BY <2>2, <2>3
<1>3. \A s \in G : s \in IterStops => IterateFrom[s] = IterFinds[s]
  BY IterateIs DEF Iterating
<1>4. \A s \in G : s \notin IterStops => /\ IterStep[s] \in G
                                         /\ rank[IterStep[s]] < rank[s]
                                         /\ IterateFrom[s] = IterateFrom[IterStep[s]]
  <2> SUFFICES ASSUME NEW s \in G, s \notin IterStops
               PROVE  /\ IterStep[s] \in G
                      /\ rank[IterStep[s]] < rank[s]
                      /\ IterateFrom[s] = IterateFrom[IterStep[s]]
    OBVIOUS
  <2>1. IterStep[s] \in G /\ Len(IterStep[s].seen) = Len(s.seen) + 1
    BY IterationGoesOn
  <2>2. IterateFrom[s] = IterateFrom[IterStep[s]]
    BY IterateIs DEF Iterating
  <2>3. Len(s.seen) \in Nat /\ Len(t) \in Nat
    BY CellFacts, TextFacts DEF Iterating, Iterations
  <2>4. Len(t) - Len(IterStep[s].seen) < Len(t) - Len(s.seen)
    <3>1. PICK k \in Nat, l \in Nat : k = Len(s.seen) /\ l = Len(t)
      BY <2>3
    <3>2. l - (k + 1) < l - k
      OBVIOUS
    <3> QED BY <2>1, <3>1, <3>2
  <2>5. \A q \in G : rank[q] = Len(t) - Len(q.seen)
    <3> HIDE DEF G, t
    <3> QED OBVIOUS
  <2>6. rank[IterStep[s]] < rank[s]
    <3> HIDE DEF rank, G, t
    <3> QED BY <2>1, <2>4, <2>5
  <2> HIDE DEF rank, G
  <2> QED BY <2>1, <2>2, <2>6
<1>5. PICK z \in G \cap IterStops : IterateFrom[s0] = IterFinds[z]
  <2> HIDE DEF G, rank, s0
  <2>1. Seqs!LoopRuns(IterateFrom, G, IterStops, IterStep, IterFinds, rank)
    BY <1>2, <1>3, <1>4 DEF Seqs!LoopRuns
  <2> QED BY <1>1, <2>1, Seqs!LoopResult
<1>6. z.seen = w[head] /\ IterFinds[z] = z.seen
  <2>1. ~(Nil \in On(r))
    BY CellFacts
  <2> QED BY <1>5, <2>1 DEF Iterating, IterStops, IterFinds
<1> QED BY <1>5, <1>6 DEF Iterated

(* Between calls, at() and the iterator read the text to_string() gives.    *)
THEOREM ReadersAgree ==
  ASSUME AllocMayFail => LengthsFit
  PROVE  Spec => []ReadsAgree
<1>1. ASSUME IInv PROVE ReadsAgree
  <2>1. SUFFICES ASSUME pc = "idle"
                 PROVE  /\ \A p \in 0 .. Len(Text) - 1 : At(p) = Text[p + 1]
                        /\ (\A n \in Linked : Size(n) > 0) => Iterated = Text
    BY DEF ReadsAgree
  <2>2. TypeOK /\ Whole /\ \E r, w : Good(r, w)
    BY <1>1, <2>1 DEF IInv, Whole
  <2>3. PICK r, w : Good(r, w)
    BY <2>2
  <2>4. Linked = On(r) /\ Text = w[head] /\ Ordered(r) /\ Texts(w) /\ Spanned(r, w)
    BY <2>2, <2>3, Shape
  <2>5. w[head] \in Seq(Char) /\ Len(w[head]) \in Nat
    BY <2>2, <2>4, CellFacts, TextFacts
  <2>6. ASSUME NEW p \in 0 .. Len(Text) - 1 PROVE At(p) = Text[p + 1]
    <3>1. p \in Nat /\ p < Len(w[head])
      BY <2>4, <2>5
    <3>2. At(p) = w[head][p + 1]
      BY <2>2, <2>4, <3>1, AtIs
    <3> QED BY <2>4, <3>2
  <2>7. ASSUME \A n \in Linked : Size(n) > 0 PROVE Iterated = Text
    BY <2>2, <2>4, <2>7, IterationIs
  <2> QED BY <2>6, <2>7
<1> QED BY <1>1, Invariance, PTL

-----------------------------------------------------------------------------
(***************************************************************************)
(* The fuzzer.  While no allocation has failed under it, its text is one   *)
(* where none can fail, about which BiModalProofs says more.               *)
(***************************************************************************)
(* The same BiModalText where no allocation fails.                          *)
NoFail == INSTANCE BiModalProofs WITH AllocMayFail <- FALSE

(* It has the constants its module assumes.                                 *)
LEMMA NoFailAssumption == NoFail!BiModalAssumption
BY BiModalAssumption DEF NoFail!BiModalAssumption

(* The state is read alike.                                                 *)
LEMMA SameText ==
  /\ NoFail!Text = Text /\ NoFail!AbsText = AbsText /\ NoFail!AbsReq = AbsReq
  /\ NoFail!TypeOK <=> TypeOK
  /\ NoFail!Whole <=> Whole
  /\ NoFail!NoRequest = NoRequest
  /\ NoFail!Request = Request
BY DEF NoFail!Text, Text, NoFail!TextBehind, TextBehind, NoFail!Cell, Cell, NoFail!AbsText, AbsText,
  NoFail!AbsReq, AbsReq, NoFail!Whole, Whole, NoFail!NoRequest, NoRequest, NoFail!MinOf, MinOf,
  NoFail!TypeOK, TypeOK, NoFail!Levels, Levels, NoFail!Pointer, Pointer, NoFail!Request, Request

(* Its steps are those in which nothing fails.                              *)
Fails == \/ InsertAllocFails \/ InsertFirstLost \/ InsertGrowFails \/ InsertSplitFails
         \/ EraseFails \/ OptimizeFails

(* A failed allocation ends the call with bad_alloc.                        *)
LEMMA FailsEndsCall ==
  ASSUME Fails
  PROVE  pc' = "idle" /\ outcome' = "bad_alloc"
BY DEF Fails, InsertAllocFails, InsertFirstLost, InsertGrowFails, InsertSplitFails, EraseFails,
       OptimizeFails, Return

(* The calls are the same.                                                  *)
LEMMA SameCall ==
  \A q : Call(q) => NoFail!Call(q)
BY DEF Call, NoFail!Call, heap, NoFail!heap, locals, NoFail!locals

(* find_node is the same.                                                   *)
LEMMA SameFind == Find => NoFail!Find
BY DEF Find, NoFail!Find, FindAdvance, NoFail!FindAdvance, FindDescend, NoFail!FindDescend,
  FindSkip, NoFail!FindSkip, NextEndsBefore, NoFail!NextEndsBefore, SkipsTarget, NoFail!SkipsTarget,
  Offset, NoFail!Offset, Size, NoFail!Size, heap, NoFail!heap, locals, NoFail!locals, Levels, NoFail!Levels

(* insert is the same.                                                      *)
LEMMA SameInsert ==
  /\ InsertRejected => NoFail!InsertRejected
  /\ InsertSearch => NoFail!InsertSearch
  /\ InsertFirst => NoFail!InsertFirst
  /\ InsertFits => NoFail!InsertFits
  /\ InsertSplits => NoFail!InsertSplits
<1> USE DEF Found, NoFail!Found, SkipsTarget, NoFail!SkipsTarget,
  Offset, NoFail!Offset, Size, NoFail!Size, heap, NoFail!heap, locals, NoFail!locals, Levels,
  NoFail!Levels, Return, NoFail!Return, NoRequest, NoFail!NoRequest, NoUpdate, NoFail!NoUpdate,
  Cell, NoFail!Cell, Free, NoFail!Free, Allocated, NoFail!Allocated
<1>1. InsertRejected => NoFail!InsertRejected
  BY DEF InsertRejected, NoFail!InsertRejected
<1>2. InsertSearch => NoFail!InsertSearch
  BY DEF InsertSearch, NoFail!InsertSearch, FindStart, NoFail!FindStart
<1>3. InsertFirst => NoFail!InsertFirst
  BY DEF InsertFirst, NoFail!InsertFirst
<1> USE DEF TooLong, NoFail!TooLong, Edited, NoFail!Edited, StringInsert, NoFail!StringInsert,
  SpansGrown, NoFail!SpansGrown
<1>4. InsertFits => NoFail!InsertFits
  BY DEF InsertFits, NoFail!InsertFits
<1>5. InsertSplits => NoFail!InsertSplits
  BY DEF InsertSplits, NoFail!InsertSplits, SplitLevel, NoFail!SplitLevel, MinOf, NoFail!MinOf,
         SplitNext, NoFail!SplitNext, SplitSpan, NoFail!SplitSpan
<1> QED BY <1>1, <1>2, <1>3, <1>4, <1>5

(* erase is the same.                                                       *)
LEMMA SameErase ==
  /\ EraseIgnored => NoFail!EraseIgnored
  /\ EraseClamp => NoFail!EraseClamp
  /\ EraseSearch => NoFail!EraseSearch
  /\ EraseDone => NoFail!EraseDone
  /\ EraseShrinks => NoFail!EraseShrinks
  /\ EraseRemoves => NoFail!EraseRemoves
<1> USE DEF Found, NoFail!Found, SkipsTarget, NoFail!SkipsTarget,
  Offset, NoFail!Offset, Size, NoFail!Size, heap, NoFail!heap, locals, NoFail!locals, Levels,
  NoFail!Levels, Return, NoFail!Return, NoRequest, NoFail!NoRequest, NoUpdate, NoFail!NoUpdate,
  Cell, NoFail!Cell, FindStart, NoFail!FindStart
<1>1. /\ EraseIgnored => NoFail!EraseIgnored
      /\ EraseClamp => NoFail!EraseClamp
      /\ EraseSearch => NoFail!EraseSearch
      /\ EraseDone => NoFail!EraseDone
  BY DEF EraseIgnored, NoFail!EraseIgnored, EraseClamp, NoFail!EraseClamp,
         EraseSearch, NoFail!EraseSearch, EraseDone, NoFail!EraseDone
<1> USE DEF Empties, NoFail!Empties, DelLen, NoFail!DelLen, MinOf, NoFail!MinOf,
  StringErase, NoFail!StringErase, SpansShrunk, NoFail!SpansShrunk, EraseAgain, NoFail!EraseAgain
<1>2. EraseShrinks => NoFail!EraseShrinks
  BY DEF EraseShrinks, NoFail!EraseShrinks
<1>3. EraseRemoves => NoFail!EraseRemoves
  BY DEF EraseRemoves, NoFail!EraseRemoves, RemovedLink, NoFail!RemovedLink
<1> QED BY <1>1, <1>2, <1>3

(* optimize and clear are the same.                                         *)
LEMMA SameWalks ==
  /\ OptimizeStart => NoFail!OptimizeStart
  /\ OptimizeNode => NoFail!OptimizeNode
  /\ OptimizeDone => NoFail!OptimizeDone
  /\ Clear => NoFail!Clear
BY DEF OptimizeStart, NoFail!OptimizeStart, OptimizeNode, NoFail!OptimizeNode, OptimizeDone,
  NoFail!OptimizeDone, Clear, NoFail!Clear, ClearStart, NoFail!ClearStart, ClearNode,
  NoFail!ClearNode, ClearDone, NoFail!ClearDone, WalkStart, NoFail!WalkStart, heap, NoFail!heap,
  locals, NoFail!locals, Levels, NoFail!Levels, Return, NoFail!Return, NoRequest,
  NoFail!NoRequest, NoUpdate, NoFail!NoUpdate

(* A step fails, or is one of the text where nothing fails.                 *)
LEMMA FailsOrSteps ==
  ASSUME Step
  PROVE  Fails \/ NoFail!Step
BY SameFind, SameInsert, SameErase, SameWalks
   DEF Step, NoFail!Step, Insert, NoFail!Insert, Erase, NoFail!Erase, Optimize, NoFail!Optimize,
       Fails

-----------------------------------------------------------------------------
(***************************************************************************)
(* The invariant of a fuzzing run: no allocation has failed, and the text  *)
(* will be what the reference will be; or one has, and run() is about to   *)
(* report it.                                                              *)
(***************************************************************************)
Agrees == /\ NoFail!IInv
          /\ verdict = "ok" /\ outcome = "ok"
          /\ NoFail!Becomes(NoFail!Completed(reference, mirror))
          /\ mirror = NoRequest => pc = "idle"
          /\ NoFail!Filled

Doomed == outcome = "bad_alloc" /\ pc = "idle" /\ mirror # NoRequest

(* Between two operations the text is the reference and is read as such.    *)
LEMMA QuietReads ==
  ASSUME Agrees, Quiet
  PROVE  /\ reference \in Seq(Char) /\ Text = reference /\ total_size = Len(reference)
         /\ req = NoRequest
         /\ \A p \in 0 .. Len(reference) - 1 : ReadAt(p) = reference[p + 1]
         /\ Iterated = reference
<1>1. PICK r, w : NoFail!Good(r, w)
  BY DEF Agrees, NoFail!IInv
<1>2. NoFail!TypeOK /\ TypeOK /\ req = NoRequest /\ NoFail!Whole /\ Whole /\ pc = "idle"
  BY SameText DEF Agrees, NoFail!IInv, Quiet, TypeOK, Whole
<1>3. AbsText = Text /\ AbsReq = NoRequest
  BY <1>2, SeenNow DEF Seen, NoRequest
<1>4. Text \in Seq(Char) /\ total_size = Len(Text)
  BY <1>1, <1>2, NoFailAssumption, SameText, NoFail!WholeText
<1>5. Text = reference
  BY <1>3, SameText DEF Agrees, Quiet, NoFail!Becomes, NoFail!Completed, NoRequest
<1>6. Ordered(r) /\ Texts(w) /\ Spanned(r, w)
  BY <1>1, <1>2 DEF NoFail!Good, NoFail!Held, NoFail!Ordered, Ordered, NoFail!Texts, Texts,
       NoFail!Spanned, Spanned, NoFail!On, On, NoFail!OnLevel, OnLevel, NoFail!Cells, Cells,
       NoFail!FirstBehind, FirstBehind, NoFail!Allocated, Allocated, NoFail!After, After,
       NoFail!Cell, Cell, NoFail!Levels, Levels, NoFail!Whole, Whole
<1>7. w[head] = Text
  BY <1>2, <1>6, TextIs
<1>8. \A p \in 0 .. Len(reference) - 1 : ReadAt(p) = reference[p + 1]
  <2> SUFFICES ASSUME NEW p \in 0 .. Len(reference) - 1 PROVE ReadAt(p) = reference[p + 1]
    OBVIOUS
  <2>1. p \in Nat /\ p < Len(w[head]) /\ p < total_size
    BY <1>4, <1>5, <1>7
  <2>2. At(p) = w[head][p + 1]
    BY <1>2, <1>6, <2>1, AtIs
  <2> QED BY <1>5, <1>7, <2>1, <2>2 DEF ReadAt
<1>9. Iterated = reference
  <2>1. ASSUME NEW n \in On(r) PROVE Size(n) > 0
    <3>1. n \in Node /\ level[n] > 0
      BY <1>2, <1>6, CellFacts
    <3>2. data[n] # << >> /\ data[n] \in Seq(Char)
      BY <1>2, <3>1 DEF Agrees, NoFail!Filled, TypeOK
    <3>3. Len(data[n]) > 0
      BY <3>2
    <3> QED BY <3>3 DEF Size
  <2> QED BY <1>2, <1>5, <1>6, <1>7, <2>1, IterationIs
<1> QED BY <1>2, <1>4, <1>5, <1>8, <1>9

(* A new text is the empty string.                                          *)
LEMMA FuzzBegins ==
  ASSUME FuzzInit
  PROVE  Agrees
<1>1. Init /\ reference = << >> /\ mirror = NoRequest /\ verdict = "ok" /\ outcome = "ok"
      /\ pc = "idle" /\ req = NoRequest
  BY DEF FuzzInit, Init
<1>2. NoFail!Init
  BY <1>1 DEF Init, NoFail!Init, NoFail!Cell, Cell, NoFail!Levels, Levels, NoFail!NoRequest,
       NoRequest, NoFail!NoUpdate, NoUpdate
<1>3. NoFail!IInv
  BY <1>2, NoFailAssumption, NoFail!InitGood
<1>4. AbsText = << >> /\ AbsReq = NoRequest
  <2>1. NoFail!Abs!Init
    BY <1>2, NoFailAssumption, NoFail!InitImplements
  <2> QED BY <2>1, SameText DEF NoFail!Abs!Init, NoFail!Abs!NoRequest, NoRequest
<1>5. NoFail!Becomes(NoFail!Completed(reference, mirror))
  BY <1>1, <1>4, SameText DEF NoFail!Becomes, NoFail!Completed, NoFail!InBounds, NoRequest
<1>6. NoFail!Filled
  BY <1>1, BiModalAssumption DEF NoFail!Filled, Init, NoRequest, Cell
<1> QED BY <1>1, <1>3, <1>5, <1>6 DEF Agrees

(* What is left of a request inside the text is all of it.                  *)
LEMMA LeftInBounds ==
  ASSUME NEW p \in Nat, NEW n \in Nat, NEW h \in Nat, p + n <= h
  PROVE  NoFail!LeftOf(p, n, h) = n
BY DEF NoFail!LeftOf, NoFail!MinOf

(* An operation is drawn inside the reference.                              *)
LEMMA DoKeeps ==
  ASSUME Agrees, NEW q \in Request, Do(q),
         NoFail!CallInsert \/ NoFail!CallErase \/ NoFail!CallOptimize \/ NoFail!CallClear,
         NoFail!InBounds(reference, q), q.op = "insert" => q.str # << >>
  PROVE  Agrees'
<1>1. PICK r, w : NoFail!Good(r, w)
  BY DEF Agrees, NoFail!IInv
<1>2. /\ reference \in Seq(Char) /\ Text = reference /\ Quiet /\ Call(q)
      /\ mirror' = q /\ reference' = reference /\ verdict' = verdict
      /\ req' = q /\ outcome' = "ok" /\ q # NoRequest
  BY QuietReads DEF Do, Call, Request, NoRequest
<1>3. /\ NoFail!TypeOK' /\ NoFail!Good(r, w)' /\ NoFail!Whole' /\ UNCHANGED <<level, data>>
      /\ NoFail!Text' = NoFail!Text
  BY <1>1, NoFailAssumption, NoFail!StillKeeps DEF Agrees, NoFail!IInv, NoFail!Still
<1>4. NoFail!Text' = reference /\ NoFail!AbsText' = reference
  BY <1>2, <1>3, SameText, NoFail!SeenThen, NoFailAssumption DEF NoFail!Seen
<1>5. NoFail!AbsReq' = q
  <2>1. CASE q.op # "erase"
    BY <1>2, <1>3, <2>1, NoFail!SeenThen, NoFailAssumption DEF NoFail!Seen
  <2>2. CASE q.op = "erase"
    <3>1. NoFail!AbsReq' = NoFail!WithLen(q, NoFail!LeftOf(q.pos, q.len, Len(reference)))
      BY <1>2, <1>3, <1>4, <2>2, SameText, NoFail!SeenThen, NoFailAssumption DEF NoFail!Seen
    <3>2. q.pos \in Nat /\ q.len \in Nat /\ Len(reference) \in Nat /\ q.pos + q.len <= Len(reference)
      BY <1>2, <2>2 DEF NoFail!InBounds, Request
    <3> QED BY <3>1, <3>2, LeftInBounds DEF NoFail!WithLen, Request
  <2> QED BY <2>1, <2>2
<1>6. NoFail!Becomes(NoFail!Completed(reference, mirror))'
  BY <1>2, <1>4, <1>5, SameText DEF NoFail!Becomes, NoFail!Completed, NoFail!InBounds
<1>7. NoFail!Filled'
  BY <1>2, <1>3 DEF NoFail!Filled, Agrees
<1> QED BY <1>2, <1>3, <1>6, <1>7 DEF Agrees, NoFail!IInv, Quiet

(* Every operation the fuzzer draws is one of these.                        *)
LEMMA DrawKeeps ==
  ASSUME Agrees, DoInsert \/ DoErase \/ DoOptimize \/ DoClear
  PROVE  Agrees'
<1>1. Quiet
  BY DEF DoInsert, DoErase, DoOptimize, DoClear, Do
<1>2. /\ reference \in Seq(Char) /\ Len(reference) \in Nat /\ Text = reference
      /\ total_size = Len(reference)
  BY <1>1, QuietReads
<1>3. \A q : Do(q) => NoFail!Call(q)
  BY SameCall DEF Do
<1>4. \A s \in Inputs : s \in Seq(Char)
  BY BiModalAssumption
<1>5. CASE DoInsert
  <2>1. PICK pos \in 0 .. Len(reference), s \in Inputs :
          /\ s # << >> /\ Len(Text) + Len(s) <= MaxText /\ Free # {}
          /\ Do([op |-> "insert", pos |-> pos, str |-> s, len |-> 0])
    BY <1>5 DEF DoInsert
  <2>2. PICK q : q = [op |-> "insert", pos |-> pos, str |-> s, len |-> 0]
    OBVIOUS
  <2>3. pos \in Nat /\ pos <= Len(reference) /\ pos \in 0 .. total_size + 1
    BY <1>2
  <2>4. q \in Request /\ NoFail!InBounds(reference, q) /\ q.str # << >> /\ q.op = "insert"
    BY <1>4, <2>1, <2>2, <2>3 DEF Request, NoFail!InBounds
  <2>5. NoFail!CallInsert
    BY <1>3, <2>1, <2>3, SameText
       DEF NoFail!CallInsert, Free, Allocated, NoFail!Free, NoFail!Allocated
  <2> QED BY <2>1, <2>2, <2>4, <2>5, DoKeeps
<1>6. CASE DoErase
  <2>1. PICK pos \in 0 .. Len(reference) - 1, n \in EraseLens :
          /\ 0 < n /\ n <= Len(reference) - pos
          /\ Do([op |-> "erase", pos |-> pos, str |-> << >>, len |-> n])
    BY <1>6 DEF DoErase
  <2>2. PICK q : q = [op |-> "erase", pos |-> pos, str |-> << >>, len |-> n]
    OBVIOUS
  <2>3. /\ pos \in Nat /\ n \in Nat /\ pos + n <= Len(reference) /\ pos \in 0 .. total_size
        /\ << >> \in Seq(Char)
    BY <1>2, <2>1, BiModalAssumption
  <2>4. q \in Request /\ NoFail!InBounds(reference, q) /\ q.op # "insert"
    BY <2>2, <2>3 DEF Request, NoFail!InBounds
  <2>5. NoFail!CallErase
    BY <1>3, <2>1, <2>3 DEF NoFail!CallErase
  <2> QED BY <2>1, <2>2, <2>4, <2>5, DoKeeps
<1>7. CASE DoOptimize \/ DoClear
  <2>1. PICK o \in {"keep", "clear"} :
          /\ Do([op |-> o, pos |-> 0, str |-> << >>, len |-> 0])
          /\ NoFail!CallOptimize \/ NoFail!CallClear
    <3>1. CASE DoOptimize
      BY <1>3, <3>1 DEF DoOptimize, NoFail!CallOptimize
    <3>2. CASE DoClear
      BY <1>3, <3>2 DEF DoClear, NoFail!CallClear
    <3> QED BY <1>7, <3>1, <3>2
  <2>2. PICK q : q = [op |-> o, pos |-> 0, str |-> << >>, len |-> 0]
    OBVIOUS
  <2>3. q \in Request /\ NoFail!InBounds(reference, q) /\ q.op # "insert"
    <3>1. << >> \in Seq(Char)
      OBVIOUS
    <3> QED BY <2>2, <3>1 DEF Request, NoFail!InBounds
  <2> QED BY <2>1, <2>2, <2>3, DoKeeps
<1> QED BY <1>5, <1>6, <1>7

(* Serving the call keeps it going to the reference, or fails.              *)
LEMMA ServeKeeps ==
  ASSUME Agrees, Serve
  PROVE  Agrees' \/ Doomed'
<1>1. PICK r, w : NoFail!Good(r, w)
  BY DEF Agrees, NoFail!IInv
<1>2. NoFail!TypeOK /\ Step /\ UNCHANGED <<reference, mirror, verdict>> /\ NoFail!Filled
  BY DEF Agrees, NoFail!IInv, Serve
<1>3. pc # "idle" /\ mirror # NoRequest
  <2>1. pc # "idle"
    BY <1>2 DEF Step, Find, FindAdvance, FindDescend, FindSkip, Insert, InsertRejected,
         InsertSearch, InsertFirst, InsertFits, InsertSplits, InsertAllocFails, InsertFirstLost,
         InsertGrowFails, InsertSplitFails, Erase, EraseIgnored, EraseClamp, EraseSearch,
         EraseDone, EraseShrinks, EraseRemoves, EraseFails, Optimize, OptimizeStart, WalkStart,
         OptimizeNode, OptimizeFails, OptimizeDone, Clear, ClearStart, ClearNode, ClearDone, Found
  <2> QED BY <2>1 DEF Agrees
<1>4. CASE Fails
  BY <1>2, <1>3, <1>4, FailsEndsCall DEF Doomed, NoRequest
<1>5. CASE NoFail!Step
  <2>1. PICK t : t = NoFail!Completed(reference, mirror)
    OBVIOUS
  <2>2. NoFail!Becomes(t)
    BY <2>1 DEF Agrees
  <2>3. NoFail!Becomes(t)'
    BY <1>1, <1>2, <1>5, <2>2, NoFailAssumption, NoFail!StepBecomes
  <2>4. t = NoFail!Completed(reference, mirror)'
    BY <1>2, <2>1 DEF NoFail!Completed
  <2>5. NoFail!Becomes(NoFail!Completed(reference, mirror))'
    BY <2>3, <2>4 DEF NoFail!Becomes
  <2>6. NoFail!Next
    BY <1>5 DEF NoFail!Next
  <2>7. NoFail!TypeOK' /\ \E r2, w2 : NoFail!Good(r2, w2)'
    BY <1>1, <1>2, <2>6, NoFailAssumption, NoFail!StepGood
  <2>8. /\ req'.op = "insert" => req.op = "insert" /\ req'.str = req.str
        /\ outcome' = outcome \/ outcome' = "ok" \/ NoFail!InsertRejected
    BY <1>1, <1>2, <1>5, NoFailAssumption, NoFail!StepRequest
  <2>9. ~ NoFail!InsertRejected
    <3>1. SUFFICES ASSUME NoFail!InsertRejected PROVE FALSE
      OBVIOUS
    <3>2. NoFail!Whole /\ req.op = "insert" /\ req.pos > total_size
      BY <3>1 DEF NoFail!InsertRejected, NoFail!Whole
    <3>3. NoFail!AbsText = NoFail!Text /\ NoFail!AbsReq = req
      BY <3>2, NoFailAssumption, NoFail!SeenNow DEF NoFail!Seen
    <3>4. total_size = Len(NoFail!Text) /\ req.pos \in Nat /\ Len(NoFail!Text) \in Nat
      BY <1>1, <1>2, <3>2, NoFailAssumption, NoFail!WholeText
    <3>5. req.pos <= Len(NoFail!Text)
      BY <2>2, <3>2, <3>3 DEF NoFail!Becomes, NoFail!InBounds
    <3> QED BY <3>2, <3>4, <3>5
  <2>10. NoFail!Filled'
    <3>1. req'.op = "insert" => req'.str # << >>
      BY <1>2, <2>8 DEF NoFail!Filled
    <3> QED BY <1>1, <1>2, <2>6, <3>1, NoFailAssumption, NoFail!StepFills
  <2>11. outcome' = "ok" /\ verdict' = "ok" /\ mirror' # NoRequest'
    BY <1>2, <1>3, <2>8, <2>9 DEF Agrees, NoRequest
  <2> QED BY <2>5, <2>7, <2>10, <2>11 DEF Agrees, NoFail!IInv
<1> QED BY <1>2, <1>4, <1>5, FailsOrSteps

(* Nothing happens to the text.                                             *)
LEMMA TextStays ==
  ASSUME NoFail!IInv, UNCHANGED vars
  PROVE  /\ NoFail!IInv' /\ UNCHANGED <<NoFail!AbsText, NoFail!AbsReq, NoFail!Filled>>
         /\ UNCHANGED <<level, next, span, data, total_size, pc, req, outcome>>
<1>1. PICK r, w : NoFail!Good(r, w)
  BY DEF NoFail!IInv
<1>2. NoFail!TypeOK /\ UNCHANGED NoFail!vars
  BY DEF NoFail!IInv, vars, heap, locals, NoFail!vars, NoFail!heap, NoFail!locals
<1>3. NoFail!IInv'
  BY <1>1, <1>2, NoFailAssumption, NoFail!StutterGood DEF NoFail!IInv
<1>4. UNCHANGED <<NoFail!AbsText, NoFail!AbsReq>>
  BY <1>1, <1>2, NoFailAssumption, NoFail!StutterUnseen
<1>5. UNCHANGED <<level, next, span, data, total_size, pc, req, outcome>>
  BY DEF vars, heap, locals
<1> QED BY <1>3, <1>4, <1>5 DEF NoFail!Filled

(* The reference catches up.                                                *)
LEMMA MirrorKeeps ==
  ASSUME Agrees, Mirror
  PROVE  Agrees'
<1>1. /\ UNCHANGED <<vars, verdict>> /\ reference' = Mirrored /\ mirror' = NoRequest
      /\ pc = "idle" /\ NoFail!IInv
  BY DEF Mirror, Agrees
<1>2. /\ NoFail!IInv' /\ UNCHANGED <<NoFail!AbsText, NoFail!AbsReq, NoFail!Filled>>
      /\ UNCHANGED <<level, next, span, data, total_size, pc, req, outcome>>
  BY <1>1, TextStays
<1>3. Mirrored = NoFail!Completed(reference, mirror)
  BY DEF Mirrored, NoFail!Completed, StringInsert, NoFail!StringInsert, StringErase,
         NoFail!StringErase
<1>4. NoFail!AbsReq = NoRequest /\ NoRequest.op = "none"
  <2>1. req = NoRequest /\ NoFail!Whole
    BY <1>1, SameText DEF NoFail!IInv, TypeOK, NoFail!Whole
  <2> QED BY <2>1, NoFailAssumption, NoFail!SeenNow DEF NoFail!Seen, NoRequest
<1>5. NoFail!AbsText = Mirrored
  BY <1>3, <1>4 DEF Agrees, NoFail!Becomes, NoFail!Completed
<1>6. NoFail!Becomes(NoFail!Completed(reference, mirror))'
  <2>1. NoFail!Completed(reference', mirror') = NoFail!AbsText'
    BY <1>1, <1>2, <1>4, <1>5 DEF NoFail!Completed
  <2>2. NoFail!Completed(NoFail!AbsText', NoFail!AbsReq') = NoFail!AbsText'
    BY <1>2, <1>4 DEF NoFail!Completed
  <2>3. NoFail!InBounds(NoFail!AbsText', NoFail!AbsReq')
    BY <1>2, <1>4 DEF NoFail!InBounds
  <2>4. NoFail!AbsText' \in Seq(Char) /\ NoFail!AbsReq' \in NoFail!Request \cup {NoFail!NoRequest}
    BY <1>2 DEF Agrees, NoFail!Becomes
  <2> QED BY <2>1, <2>2, <2>3, <2>4
         DEF NoFail!Becomes, NoFail!Completed, NoFail!InBounds, NoFail!Request, NoFail!NoRequest
<1>7. NoFail!Filled'
  BY <1>2 DEF Agrees
<1> QED BY <1>1, <1>2, <1>6, <1>7 DEF Agrees

(* Every check passes.                                                      *)
LEMMA ChecksPass ==
  ASSUME Agrees, DoRead \/ Verify \/ CheckInvariants \/ Compare
  PROVE  UNCHANGED fuzzVars
<1>1. Quiet
  BY DEF DoRead, Verify, CheckInvariants, Compare, Check
<1>2. /\ reference \in Seq(Char) /\ Len(reference) \in Nat
      /\ Text = reference /\ total_size = Len(reference) /\ Iterated = reference
      /\ \A p \in 0 .. Len(reference) - 1 : ReadAt(p) = reference[p + 1]
  BY <1>1, QuietReads
<1>3. Check(TRUE) => UNCHANGED fuzzVars
  BY DEF Check, Quiet, fuzzVars
<1>4. CASE DoRead
  <2>1. PICK pos \in 0 .. Len(reference) - 1 : Check(ReadsAsReference(pos))
    BY <1>4 DEF DoRead
  <2>2. ReadsAsReference(pos)
    BY <1>2 DEF ReadsAsReference
  <2> QED BY <1>3, <2>1, <2>2 DEF Check
<1>5. CASE Verify
  <2>1. VerifyState
    BY <1>2 DEF VerifyState
  <2> QED BY <1>3, <1>5, <2>1 DEF Verify, Check
<1>6. CASE CheckInvariants
  <2>1. CheckAll
    BY <1>2 DEF CheckAll
  <2> QED BY <1>3, <1>6, <2>1 DEF CheckInvariants, Check
<1>7. CASE Compare
  <2>1. PICK pos \in 0 .. Len(reference) - 1 : Check(CheckEqual({pos}))
    BY <1>7 DEF Compare
  <2>2. 0 \in 0 .. Len(reference) - 1 /\ Len(reference) - 1 \in 0 .. Len(reference) - 1
    BY <1>2
  <2>3. CheckEqual({pos})
    BY <1>2, <2>2 DEF CheckEqual, ReadsAsReference
  <2> QED BY <1>3, <2>1, <2>3 DEF Check
<1> QED BY <1>4, <1>5, <1>6, <1>7

(* A run that is about to report a failed allocation can do nothing else.   *)
LEMMA DoomedStays ==
  ASSUME Doomed, FuzzNext
  PROVE  Doomed'
<1>1. ~Quiet /\ ~Step /\ outcome # "ok"
  <2>1. ~Step
    BY DEF Doomed, Step, Find, FindAdvance, FindDescend, FindSkip, Insert, InsertRejected,
         InsertSearch, InsertFirst, InsertFits, InsertSplits, InsertAllocFails, InsertFirstLost,
         InsertGrowFails, InsertSplitFails, Erase, EraseIgnored, EraseClamp, EraseSearch,
         EraseDone, EraseShrinks, EraseRemoves, EraseFails, Optimize, OptimizeStart, WalkStart,
         OptimizeNode, OptimizeFails, OptimizeDone, Clear, ClearStart, ClearNode, ClearDone, Found
  <2> QED BY <2>1 DEF Doomed, Quiet
<1>2. CallThrew
  BY <1>1 DEF FuzzNext, DoInsert, DoErase, DoOptimize, DoClear, Do, Serve, Mirror, DoRead, Verify,
         CheckInvariants, Compare, Check
<1> QED BY <1>2 DEF CallThrew, Doomed, vars, NoRequest

(* Nothing happens.                                                         *)
LEMMA StaysSo ==
  ASSUME Agrees \/ Doomed, UNCHANGED fuzzVars
  PROVE  (Agrees \/ Doomed)'
<1>1. UNCHANGED <<vars, reference, mirror, verdict>>
  BY DEF fuzzVars
<1>2. CASE Agrees
  <2>1. NoFail!IInv /\ NoFail!Filled
    BY <1>2 DEF Agrees
  <2>2. /\ NoFail!IInv' /\ UNCHANGED <<NoFail!AbsText, NoFail!AbsReq, NoFail!Filled>>
        /\ UNCHANGED <<level, next, span, data, total_size, pc, req, outcome>>
    BY <1>1, <2>1, TextStays
  <2>3. NoFail!Becomes(NoFail!Completed(reference, mirror))'
    BY <1>1, <1>2, <2>2 DEF Agrees, NoFail!Becomes, NoFail!Completed, NoFail!InBounds,
       NoFail!Request, NoFail!NoRequest
  <2> QED BY <1>1, <1>2, <2>1, <2>2, <2>3 DEF Agrees, NoRequest
<1>3. CASE Doomed
  BY <1>1, <1>3 DEF Doomed, vars, NoRequest
<1> QED BY <1>2, <1>3

(* The fuzzer reports a bug only when an allocation has failed.             *)
THEOREM FuzzerFindsNothing == FuzzSpec => []OnlyFailuresCaught
<1>1. FuzzInit => Agrees \/ Doomed
  BY FuzzBegins
<1>2. (Agrees \/ Doomed) /\ [FuzzNext]_fuzzVars => (Agrees \/ Doomed)'
  <2>1. ASSUME Agrees, FuzzNext PROVE (Agrees \/ Doomed)'
    <3>1. CASE DoRead \/ Verify \/ CheckInvariants \/ Compare
      <4>1. UNCHANGED fuzzVars
        BY <2>1, <3>1, ChecksPass
      <4> QED BY <2>1, <4>1, StaysSo
    <3>2. ~ CallThrew
      BY <2>1 DEF CallThrew, Agrees
    <3> QED BY <2>1, <3>1, <3>2, DrawKeeps, ServeKeeps, MirrorKeeps DEF FuzzNext
  <2>2. ASSUME Doomed, FuzzNext PROVE (Agrees \/ Doomed)'
    BY <2>2, DoomedStays
  <2>3. ASSUME Agrees \/ Doomed, UNCHANGED fuzzVars PROVE (Agrees \/ Doomed)'
    BY <2>3, StaysSo
  <2> QED BY <2>1, <2>2, <2>3
<1>3. Agrees \/ Doomed => OnlyFailuresCaught
  BY DEF Agrees, Doomed, OnlyFailuresCaught
<1> QED BY <1>1, <1>2, <1>3, PTL DEF FuzzSpec

===============================================================================
