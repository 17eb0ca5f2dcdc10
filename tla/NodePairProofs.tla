---------------------------- MODULE NodePairProofs ----------------------------
(***************************************************************************)
(* Theorems about a pair of sibling nodes, for every alphabet, every gap   *)
(* size, every set of inputs and every bound: the nodes stay well formed,  *)
(* every way of reading them agrees, each edit changes its node exactly as *)
(* asked, and the pair is an abstract text.  Before them, what the operations of      *)
(* Nodes.hpp do to the characters of a node.                               *)
(***************************************************************************)
EXTENDS NodePair, TextLemmas

-----------------------------------------------------------------------------
(***************************************************************************)
(* One node.                                                               *)
(***************************************************************************)
(* The gap holds needed bytes more, and the text is the same.               *)
LEMMA WithRoomKeeps ==
  ASSUME NEW b \in Seq(Byte), NEW gs \in Nat, NEW ge \in Nat,
         gs <= ge, ge <= Len(b), NEW needed \in Nat
  PROVE  \E c \in Seq(Byte), he \in Nat :
           /\ WithRoom(Gap(b, gs, ge), needed) = Gap(c, gs, he)
           /\ gs + needed <= he /\ he <= Len(c)
           /\ Chars(c, gs, he) = Chars(b, gs, ge)
<1>1. CASE ge - gs >= needed
  <2>1. GapLen(Gap(b, gs, ge)) = ge - gs
    BY GapFields
  <2>2. WithRoom(Gap(b, gs, ge), needed) = Gap(b, gs, ge) /\ gs + needed <= ge
    BY <1>1, <2>1 DEF WithRoom
  <2> QED BY <2>2
<1>2. CASE ge - gs < needed
  <2>1. PICK he \in Nat :
          /\ gs + needed <= he
          /\ he + (Len(b) - ge) =
               MaxOf(2 * Len(b), (gs + (Len(b) - ge)) + needed + DefaultGap)
    <3> DEFINE cap == MaxOf(2 * Len(b),
                            (gs + (Len(b) - ge)) + needed + DefaultGap)
    <3>1. Len(b) \in Nat /\ DefaultGap \in Nat
      BY NodesAssumption
    <3>2. cap \in Nat /\ cap >= gs + (Len(b) - ge) + needed
      BY <3>1 DEF MaxOf
    <3> HIDE DEF cap
    <3>3. cap - (Len(b) - ge) \in Nat /\ gs + needed <= cap - (Len(b) - ge)
          /\ (cap - (Len(b) - ge)) + (Len(b) - ge) = cap
      BY <3>1, <3>2
    <3> QED BY <3>3 DEF cap
  <2> DEFINE c == Copy(Copy(Vector(he + (Len(b) - ge)), 0, Slice(b, 0, gs)),
                       he, Slice(b, ge, Len(b)))
  <2>2. /\ gs <= he /\ he <= he + (Len(b) - ge)
        /\ (he + (Len(b) - ge)) - (Len(b) - ge) = he
    BY <2>1
  <2>3. WithRoom(Gap(b, gs, ge), needed) = Gap(c, gs, he)
    <3>1. GapLen(Gap(b, gs, ge)) = ge - gs
      BY GapFields
    <3>2. WithRoom(Gap(b, gs, ge), needed)
            = ExpandBuffer(Gap(b, gs, ge), needed)
      BY <1>2, <3>1 DEF WithRoom
    <3> DEFINE cap == MaxOf(2 * Len(b),
                            (gs + (Len(b) - ge)) + needed + DefaultGap)
    <3>3. ExpandBuffer(Gap(b, gs, ge), needed) =
            Gap(Copy(Copy(Vector(cap), 0, Slice(b, 0, gs)),
                     cap - (Len(b) - ge), Slice(b, ge, Len(b))),
                gs, cap - (Len(b) - ge))
      <4> DEFINE g == Gap(b, gs, ge)
                 buf == Copy(Copy(Vector(cap), 0, Slice(b, 0, gs)),
                             cap - (Len(b) - ge), Slice(b, ge, Len(b)))
      <4>1. g.buf = b /\ g.gap_start = gs /\ g.gap_end = ge
        BY GapFields
      <4> HIDE DEF g, cap
      <4> QED BY <4>1 DEF ExpandBuffer, FrontSpan, BackSpan, g, cap
    <3>4. cap = he + (Len(b) - ge)
      BY <2>1
    <3> HIDE DEF cap
    <3> QED BY <3>2, <3>3, <3>4, <2>2
  <2>4. Expanded(c, b, gs, ge, he)
    BY <2>2, ExpandedBytes
  <2> HIDE DEF c
  <2>5. Chars(c, gs, he) = Chars(b, gs, ge)
    BY <2>2, <2>4, ExpandedChars
  <2>6. c \in Seq(Byte) /\ he <= Len(c)
    BY <2>2, <2>4 DEF Expanded
  <2> QED BY <2>1, <2>3, <2>5, <2>6
<1> QED BY <1>1, <1>2

(* GapNode::insert is std::string::insert.                                  *)
LEMMA GapInsertText ==
  ASSUME NEW n \in GapNodes, NEW p \in 0 .. Size(n), NEW s \in Seq(Byte)
  PROVE  /\ GapInsert(n, p, s) \in GapNodes
         /\ Content(GapInsert(n, p, s)) =
              SubSeq(Content(n), 1, p) \o s
                \o SubSeq(Content(n), p + 1, Len(Content(n)))
<1>0. p \in Nat /\ Len(s) \in Nat
  BY SizeIsLen
<1>1. PICK b \in Seq(Byte), ge \in Nat :
        /\ MoveGap(n, p) = Gap(b, p, ge)
        /\ p <= ge /\ ge <= Len(b)
        /\ Chars(b, p, ge) = Content(n)
  BY MoveGapKeeps
<1>2. PICK c \in Seq(Byte), he \in Nat :
        /\ WithRoom(Gap(b, p, ge), Len(s)) = Gap(c, p, he)
        /\ p + Len(s) <= he /\ he <= Len(c)
        /\ Chars(c, p, he) = Chars(b, p, ge)
  BY <1>0, <1>1, WithRoomKeeps, ZenonT(60)
<1>3. GapInsert(n, p, s) = FillGap(Gap(c, p, he), s)
  BY <1>1, <1>2 DEF GapInsert
<1>4. /\ FillGap(Gap(c, p, he), s) \in GapNodes
      /\ Content(FillGap(Gap(c, p, he), s)) =
           SubSeq(Content(n), 1, p) \o s
             \o SubSeq(Content(n), p + 1, Len(Content(n)))
  <2>1. Content(n) = Chars(c, p, he)
    BY <1>1, <1>2
  <2>2. LET t == Chars(c, p, he)
        IN  /\ FillGap(Gap(c, p, he), s) \in GapNodes
            /\ Content(FillGap(Gap(c, p, he), s)) =
                 SubSeq(t, 1, p) \o s \o SubSeq(t, p + 1, Len(t))
    BY <1>0, <1>2, FillGapText, ZenonT(60)
  <2> QED BY <2>1, <2>2
<1> QED BY <1>3, <1>4

(* GapNode::erase is std::string::erase of what the node has.               *)
LEMMA GapEraseText ==
  ASSUME NEW n \in GapNodes, NEW p \in 0 .. Size(n), NEW len \in Nat
  PROVE  LET k == IF p + len > Size(n) THEN Size(n) - p ELSE len
         IN  /\ k \in Nat /\ p + k <= Size(n)
             /\ GapErase(n, p, len) = Cut(n, p, k)
<1>1. Size(n) \in Nat
  BY SizeIsLen
<1> QED BY <1>1 DEF GapErase, Cut

(* A fresh gap node holds what it was packed with.                          *)
LEMMA PackedText ==
  ASSUME NEW data \in Seq(Byte), NEW capacity \in Nat, Len(data) <= capacity
  PROVE  /\ Packed(data, capacity) \in GapNodes
         /\ Content(Packed(data, capacity)) = data
         /\ Size(Packed(data, capacity)) = Len(data)
<1> DEFINE k == Len(data)
           fresh == Vector(capacity)
           c == Copy(fresh, 0, data)
<1>1. k \in Nat /\ fresh \in Seq(Byte) /\ Len(fresh) = capacity
  BY VectorType
<1> HIDE DEF fresh
<1>2. /\ c \in Seq(Byte) /\ Len(c) = capacity
      /\ \A i \in 1 .. k : c[i] = data[i]
  <2>1. \A i \in 1 .. k : data[i - 0] = data[i] /\ i \in 1 .. capacity
    BY <1>1
  <2> QED BY <1>1, <2>1 DEF Copy
<1> HIDE DEF c
<1>3. k <= capacity /\ capacity <= Len(c) /\ Len(c) - (capacity - k) = k
  BY <1>1, <1>2
<1>4. Packed(data, capacity) = Gap(c, k, capacity)
  BY DEF Packed, c, fresh
<1>5. Chars(c, k, capacity) = data
  <2>1. Chars(c, k, capacity) \in Seq(Byte) /\ Len(Chars(c, k, capacity)) = k
    BY <1>1, <1>2, <1>3, CharsType
  <2>2. \A i \in 1 .. k : Chars(c, k, capacity)[i] = data[i]
    BY <1>1, <1>2, <1>3 DEF Chars
  <2> QED BY <2>1, <2>2, SeqEqual
<1> HIDE DEF k
<1>6. /\ Gap(c, k, capacity) \in GapNodes
      /\ Content(Gap(c, k, capacity)) = Chars(c, k, capacity)
      /\ Size(Gap(c, k, capacity)) = Len(c) - (capacity - k)
  <2>1. /\ c \in Seq(Byte) /\ k \in Nat /\ capacity \in Nat
        /\ k <= capacity /\ capacity <= Len(c)
    BY <1>1, <1>2, <1>3
  <2>2. Gap(c, k, capacity) \in GapNodes
    BY <2>1, GapIsNode
  <2>3. Content(Gap(c, k, capacity)) = Chars(c, k, capacity)
    BY <2>1, GapChars
  <2>4. Size(Gap(c, k, capacity)) = Len(c) - (capacity - k)
    BY <2>1, GapFields
  <2> QED BY <2>2, <2>3, <2>4
<1> QED BY <1>3, <1>4, <1>5, <1>6 DEF k

(* A split divides the text.                                                *)
LEMMA SplitText ==
  ASSUME NEW n \in GapNodes, NEW k \in 0 .. Size(n)
  PROVE  /\ SplitLeft(n, k) \in GapNodes /\ SplitRight(n, k) \in GapNodes
         /\ Size(SplitLeft(n, k)) = Size(n) - k
         /\ Content(SplitLeft(n, k)) \o Content(SplitRight(n, k)) = Content(n)
<1> DEFINE p == Size(n) - k
<1>0. /\ k \in Nat /\ p \in 0 .. Size(n) /\ p \in Nat
      /\ DefaultGap \in Nat /\ k = Size(n) - p
  BY SizeIsLen, NodesAssumption
<1> HIDE DEF p
<1>1. PICK b \in Seq(Byte), ge \in Nat :
        /\ MoveGap(n, p) = Gap(b, p, ge)
        /\ p <= ge /\ ge <= Len(b)
        /\ Chars(b, p, ge) = Content(n)
  BY <1>0, MoveGapKeeps
<1> DEFINE front == Slice(b, 0, p)
           back  == Slice(b, ge, Len(b))
<1>2. /\ front \in Seq(Byte) /\ Len(front) = p
      /\ back \in Seq(Byte) /\ Len(back) = Len(b) - ge
  BY <1>0, <1>1 DEF Slice
<1>3. Len(back) = k
  <2>1. Len(Content(n)) = Len(b) - (ge - p) /\ Len(Content(n)) = Size(n)
    BY <1>0, <1>1, CharsType, SizeIsLen
  <2>2. Len(b) - (ge - p) = Size(n) /\ Len(b) \in Nat
    BY <1>1, <2>1
  <2> QED BY <1>0, <1>2, <2>2
<1>4. Content(n) = front \o back
  BY <1>0, <1>1, CharsParts
<1>5. /\ SplitLeft(n, k) = Packed(front, p + DefaultGap)
      /\ SplitRight(n, k) = Packed(back, k + DefaultGap)
  <2>1. /\ Gap(b, p, ge).gap_start = p
        /\ FrontSpan(Gap(b, p, ge)) = front /\ BackSpan(Gap(b, p, ge)) = back
    BY <1>0, <1>1, GapFields, GapSpans
  <2> QED BY <1>1, <2>1 DEF SplitLeft, SplitRight, p
<1> HIDE DEF front, back
<1>6. /\ p + DefaultGap \in Nat /\ p <= p + DefaultGap
      /\ k + DefaultGap \in Nat /\ k <= k + DefaultGap
  BY <1>0
<1>7. /\ SplitLeft(n, k) \in GapNodes /\ Content(SplitLeft(n, k)) = front
      /\ Size(SplitLeft(n, k)) = p
  BY <1>2, <1>5, <1>6, PackedText
<1>8. SplitRight(n, k) \in GapNodes /\ Content(SplitRight(n, k)) = back
  BY <1>2, <1>3, <1>5, <1>6, PackedText
<1> QED BY <1>4, <1>7, <1>8 DEF p

(* to_string(), block by block, gives the characters at() does.             *)
LEMMA ToStringIsContent ==
  ASSUME NEW n \in NodeData
  PROVE  ToString(n) = Content(n)
<1>1. CASE n \in GapNodes
  <2>1. n.kind = "gap"
    BY <1>1 DEF GapNodes
  <2> QED BY <1>1, <2>1, GapToString DEF ToString
<1>2. CASE n \in CompactNodes
  BY <1>2, CompactContent DEF ToString
<1> QED BY <1>1, <1>2 DEF NodeData

(* compact() keeps the text.                                                *)
LEMMA CompactText ==
  ASSUME NEW n \in GapNodes
  PROVE  Compact(n) \in CompactNodes /\ Content(Compact(n)) = Content(n)
<1>1. FrontSpan(n) \o BackSpan(n) = Content(n) /\ Content(n) \in Seq(Byte)
  BY GapToString, SizeIsLen
<1>2. Compact(n) = [kind |-> "compact", buf |-> Content(n)]
  BY <1>1 DEF Compact
<1>3. Compact(n) \in CompactNodes /\ Compact(n).buf = Content(n)
  BY <1>1, <1>2 DEF CompactNodes
<1> QED BY <1>3, CompactContent

(* expand() keeps the text.                                                 *)
LEMMA ExpandText ==
  ASSUME NEW n \in CompactNodes, NEW for_deletion \in BOOLEAN
  PROVE  /\ Expand(n, for_deletion) \in GapNodes
         /\ Content(Expand(n, for_deletion)) = Content(n)
         /\ Size(Expand(n, for_deletion)) = Size(n)
<1>1. n.buf \in Seq(Byte) /\ Size(n) = Len(n.buf) /\ Content(n) = n.buf
  BY CompactContent
<1> DEFINE pad == IF for_deletion THEN DeletePad ELSE DefaultGap
           capacity == MaxOf(Len(n.buf) + pad, DefaultGap)
<1>2. capacity \in Nat /\ Len(n.buf) <= capacity
  <2>1. pad \in Nat /\ DefaultGap \in Nat /\ Len(n.buf) \in Nat
    BY <1>1, NodesAssumption
  <2> HIDE DEF pad
  <2> QED BY <2>1 DEF MaxOf
<1>3. Expand(n, for_deletion) = Packed(n.buf, capacity)
  BY DEF Expand
<1> HIDE DEF capacity
<1> QED BY <1>1, <1>2, <1>3, PackedText

-----------------------------------------------------------------------------
(***************************************************************************)
(* Two nodes.                                                              *)
(***************************************************************************)

(* What each node holds consists of characters, never of fill bytes.        *)
(* Text \in Seq(Char) alone would not say where a text may be cut.          *)
CleanNodes == TextOf(u) \in Seq(Char) /\ TextOf(v) \in Seq(Char)

(* The inductive invariant.                                                 *)
IInv == TypeOK /\ CleanNodes

-----------------------------------------------------------------------------
(***************************************************************************)
(* A node of either kind.                                                  *)
(***************************************************************************)

(* A node is not the absence of one, and its text is size() bytes long.     *)
LEMMA NodeText ==
  ASSUME NEW n \in NodeData
  PROVE  /\ n # NoNode /\ TextOf(n) = Content(n)
         /\ Content(n) \in Seq(Byte)
         /\ Len(Content(n)) = Size(n) /\ Size(n) \in Nat
<1>1. CASE n \in GapNodes
  <2>1. n.kind = "gap" /\ NoNode.kind = "none"
    BY <1>1 DEF GapNodes, NoNode
  <2> QED BY <1>1, <2>1, SizeIsLen DEF TextOf
<1>2. CASE n \in CompactNodes
  <2>1. n.kind = "compact" /\ NoNode.kind = "none"
    BY <1>2 DEF CompactNodes, NoNode
  <2>2. Len(n.buf) \in Nat /\ n.buf \in Seq(Byte)
    BY <1>2 DEF CompactNodes
  <2> QED BY <1>2, <2>1, <2>2, CompactContent DEF TextOf
<1> QED BY <1>1, <1>2 DEF NodeData

(* Reopening a node for an edit keeps its text.                             *)
LEMMA OpenedText ==
  ASSUME NEW n \in NodeData, NEW d \in BOOLEAN
  PROVE  /\ Opened(n, d) \in GapNodes
         /\ Content(Opened(n, d)) = Content(n)
         /\ Size(Opened(n, d)) = Size(n)
<1>1. CASE n \in GapNodes
  <2>1. n.kind = "gap"
    BY <1>1 DEF GapNodes
  <2> QED BY <1>1, <2>1 DEF Opened
<1>2. CASE n \in CompactNodes
  <2>1. n.kind = "compact"
    BY <1>2 DEF CompactNodes
  <2> QED BY <1>2, <2>1, ExpandText DEF Opened
<1> QED BY <1>1, <1>2 DEF NodeData

(* A fresh gap node is empty.                                               *)
LEMMA FreshNode ==
  /\ NewGap(DefaultGap) \in GapNodes
  /\ Content(NewGap(DefaultGap)) = << >>
<1>1. /\ << >> \in Seq(Byte) /\ Len(<< >>) = 0
  OBVIOUS
<1> DEFINE capacity == MaxOf(DefaultGap, DefaultGap)
<1>2. capacity \in Nat /\ 0 <= capacity
  BY NodesAssumption DEF MaxOf
<1>3. NewGap(DefaultGap) = Packed(<< >>, capacity)
  BY DEF NewGap
<1> HIDE DEF capacity
<1> QED BY <1>1, <1>2, <1>3, PackedText

(* A move of the gap keeps the text.                                        *)
LEMMA MovedText ==
  ASSUME NEW n \in GapNodes, NEW p \in 0 .. Size(n)
  PROVE  MoveGap(n, p) \in GapNodes /\ Content(MoveGap(n, p)) = Content(n)
<1>1. PICK b \in Seq(Byte), ge \in Nat :
        /\ MoveGap(n, p) = Gap(b, p, ge)
        /\ p <= ge /\ ge <= Len(b)
        /\ Chars(b, p, ge) = Content(n)
  BY MoveGapKeeps
<1>2. p \in Nat
  BY SizeIsLen
<1> QED BY <1>1, <1>2, GapIsNode, GapChars

(* An insert into a node, packed or not, is std::string::insert.            *)
LEMMA InsertText ==
  ASSUME NEW n \in NodeData, NEW p \in 0 .. Size(n), NEW s \in Seq(Char)
  PROVE  /\ GapInsert(Opened(n, FALSE), p, s) \in GapNodes
         /\ Content(GapInsert(Opened(n, FALSE), p, s)) =
              SubSeq(Content(n), 1, p) \o s
                \o SubSeq(Content(n), p + 1, Len(Content(n)))
<1>1. s \in Seq(Byte)
  BY DEF Byte
<1>2. /\ Opened(n, FALSE) \in GapNodes
      /\ Content(Opened(n, FALSE)) = Content(n)
      /\ p \in 0 .. Size(Opened(n, FALSE))
  BY OpenedText
<1> QED BY <1>1, <1>2, GapInsertText

(* An erase takes the characters the node has from p on, len at most.       *)
LEMMA EraseText ==
  ASSUME NEW n \in NodeData, NEW p \in 0 .. Size(n), NEW len \in Nat
  PROVE  LET k == MinOf(len, Size(n) - p)
             r == GapErase(Opened(n, TRUE), p, len)
         IN  /\ k \in Nat /\ p + k <= Size(n)
             /\ r \in GapNodes /\ Size(r) = Size(n) - k
             /\ Content(r) = SubSeq(Content(n), 1, p)
                               \o SubSeq(Content(n), p + k + 1, Len(Content(n)))
<1> DEFINE g == Opened(n, TRUE)
           k == MinOf(len, Size(n) - p)
<1>1. g \in GapNodes /\ Content(g) = Content(n) /\ Size(g) = Size(n)
  BY OpenedText
<1>2. Size(n) \in Nat /\ p \in 0 .. Size(g)
  BY <1>1, NodeText
<1>3. /\ k \in Nat /\ p + k <= Size(n)
      /\ k = IF p + len > Size(n) THEN Size(n) - p ELSE len
  BY <1>2 DEF MinOf
<1> HIDE DEF g, k
<1>4. GapErase(g, p, len) = Cut(g, p, k)
  BY <1>1, <1>2, <1>3, GapEraseText
<1>5. g \in GapNodes /\ p \in 0 .. Size(g) /\ k \in Nat /\ p + k <= Size(g)
  BY <1>1, <1>2, <1>3
<1>6. /\ Cut(g, p, k) \in GapNodes /\ Size(Cut(g, p, k)) = Size(g) - k
      /\ Content(Cut(g, p, k)) =
           SubSeq(Content(g), 1, p)
             \o SubSeq(Content(g), p + k + 1, Len(Content(g)))
  BY <1>5, CutText
<1> QED BY <1>1, <1>3, <1>4, <1>6 DEF g, k

-----------------------------------------------------------------------------
(***************************************************************************)
(* The inductive invariant.                                                *)
(***************************************************************************)

(* A piece of a text of characters is a text of characters.                 *)
LEMMA CleanEdit ==
  ASSUME NEW t \in Seq(Char), NEW s \in Seq(Char),
         NEW p \in 0 .. Len(t), NEW q \in 1 .. Len(t) + 1
  PROVE  /\ SubSeq(t, 1, p) \o s \o SubSeq(t, q, Len(t)) \in Seq(Char)
         /\ SubSeq(t, 1, p) \o SubSeq(t, q, Len(t)) \in Seq(Char)
<1>1. SubSeq(t, 1, p) \in Seq(Char) /\ SubSeq(t, q, Len(t)) \in Seq(Char)
  OBVIOUS
<1> QED BY <1>1

(* Both parts of a text of characters are texts of characters.              *)
LEMMA CleanParts ==
  ASSUME NEW a \in Seq(Byte), NEW b \in Seq(Byte), a \o b \in Seq(Char)
  PROVE  a \in Seq(Char) /\ b \in Seq(Char)
<1>1. \A i \in 1 .. Len(a) : (a \o b)[i] = a[i] /\ i \in 1 .. Len(a \o b)
  OBVIOUS
<1>2. \A i \in 1 .. Len(b) : /\ (a \o b)[Len(a) + i] = b[i]
                             /\ Len(a) + i \in 1 .. Len(a \o b)
  OBVIOUS
<1> DEFINE c == a \o b
<1>3. c \in Seq(Char) /\ \A i \in 1 .. Len(c) : c[i] \in Char
  OBVIOUS
<1>4. \A i \in 1 .. Len(a) : a[i] \in Char
  BY <1>1, <1>3
<1>5. \A i \in 1 .. Len(b) : b[i] \in Char
  BY <1>2, <1>3
<1> QED BY <1>4, <1>5

(* The node a call names exists, and its text is one of characters.         *)
LEMMA TargetText ==
  ASSUME IInv, req # NoCall
  PROVE  /\ req \in Call /\ Target \in NodeData
         /\ TextOf(Target) \in Seq(Char) /\ Content(Target) \in Seq(Char)
<1>1. /\ req \in Call /\ Exists(req.node) /\ req.node \in {"u", "v"}
      /\ u \in NodeData /\ v \in NodeData \cup {NoNode}
      /\ TextOf(u) \in Seq(Char) /\ TextOf(v) \in Seq(Char)
  BY DEF IInv, TypeOK, CleanNodes, Call
<1>2. Target \in NodeData /\ TextOf(Target) \in Seq(Char)
  BY <1>1 DEF Target, Exists
<1> QED BY <1>1, <1>2, NodeText

(* A call is over, and what it left are nodes of characters.                *)
LEMMA AfterCall ==
  ASSUME req' = NoCall,
         u' \in NodeData, v' \in NodeData \cup {NoNode},
         TextOf(u)' \in Seq(Char), TextOf(v)' \in Seq(Char)
  PROVE  IInv'
BY DEF IInv, TypeOK, CleanNodes, NoCall

(* A call that is over and changed neither node.                            *)
LEMMA AfterStutter ==
  ASSUME IInv, req' = NoCall, u' = u, v' = v
  PROVE  IInv'
<1>1. /\ u' \in NodeData /\ v' \in NodeData \cup {NoNode}
      /\ TextOf(u') \in Seq(Char) /\ TextOf(v') \in Seq(Char)
  BY DEF IInv, TypeOK, CleanNodes
<1> QED BY <1>1, AfterCall

(* A node of characters replaces the one the call names.                    *)
LEMMA AfterReplace ==
  ASSUME IInv, req # NoCall, req' = NoCall, NEW n \in NodeData,
         Content(n) \in Seq(Char), Replace(n)
  PROVE  IInv'
<1>1. TextOf(n) = Content(n)
  BY NodeText
<1>2. /\ u \in NodeData /\ v \in NodeData \cup {NoNode}
      /\ TextOf(u) \in Seq(Char) /\ TextOf(v) \in Seq(Char)
  BY DEF IInv, TypeOK, CleanNodes
<1>3. /\ u' \in NodeData /\ v' \in NodeData \cup {NoNode}
      /\ TextOf(u)' \in Seq(Char) /\ TextOf(v)' \in Seq(Char)
  BY <1>1, <1>2 DEF Replace, TextOf, Content, Size, GapLen, At, PhysicalIndex
<1> QED BY <1>3, AfterCall

-----------------------------------------------------------------------------
(***************************************************************************)
(* Every step keeps the inductive invariant.                               *)
(***************************************************************************)

(* Initially there is one empty gap node.                                   *)
LEMMA InitInv == Init => IInv
<1> SUFFICES ASSUME Init PROVE IInv
  OBVIOUS
<1>1. /\ u \in GapNodes /\ Content(u) = << >>
  BY FreshNode DEF Init
<1>2. v = NoNode /\ req = NoCall
  BY DEF Init
<1>3. TextOf(u) = << >> /\ TextOf(v) = << >>
  BY <1>1, <1>2, NodeText DEF NodeData, TextOf
<1> QED BY <1>1, <1>2, <1>3 DEF IInv, TypeOK, CleanNodes, NodeData, NoCall

(* A call only records its arguments.                                       *)
LEMMA CallsKeepInv ==
  ASSUME IInv, CallInsert \/ CallErase \/ CallSplit \/ CallOptimize
  PROVE  IInv'
<1>1. /\ u' = u /\ v' = v
      /\ u \in NodeData /\ v \in NodeData \cup {NoNode}
  BY DEF IInv, TypeOK, CallInsert, CallErase, CallSplit, CallOptimize
<1>2. CleanNodes'
  BY <1>1 DEF IInv, CleanNodes, TextOf, Content, Size, GapLen, At, PhysicalIndex
<1>3. \A k \in {"u", "v"} : Exists(k) => Named(k) \in NodeData
  BY <1>1 DEF Exists, Named
<1>4. \A k \in {"u", "v"} : Exists(k) => Size(Named(k)) \in Nat
  BY <1>3, NodeText
<1>5. CASE CallInsert
  <2>1. PICK k \in {"u", "v"}, s \in Inputs, p \in Int :
           /\ Exists(k) /\ p \in 0 .. Size(Named(k))
           /\ req' = [op |-> "insert", node |-> k, pos |-> p,
                      str |-> s, len |-> 0]
    BY <1>5 DEF CallInsert
  <2>2. s \in Seq(Char) /\ p \in Nat /\ p <= Size(Named(k))
    BY <2>1, <1>4, NodePairAssumption
  <2>3. /\ req'.op = "insert" /\ req'.node = k /\ req'.pos = p
        /\ req' \in Call
    BY <2>1, <2>2 DEF Call
  <2> QED BY <1>1, <1>2, <2>1, <2>2, <2>3
          DEF IInv, TypeOK, Exists, Target, Named, Size, GapLen
<1>6. CASE CallErase
  <2>1. PICK k \in {"u", "v"}, n \in 0 .. MaxText, p \in Int :
           /\ Exists(k) /\ p \in 0 .. Size(Named(k)) /\ Size(Named(k)) > p
           /\ req' = [op |-> "erase", node |-> k, pos |-> p,
                      str |-> << >>, len |-> n]
    BY <1>6 DEF CallErase
  <2>2. n \in Nat /\ p \in Nat /\ p < Size(Named(k))
    BY <2>1, <1>4, NodePairAssumption
  <2>3. /\ req'.op = "erase" /\ req'.node = k /\ req'.pos = p
        /\ req' \in Call
    BY <2>1, <2>2 DEF Call
  <2> QED BY <1>1, <1>2, <2>1, <2>2, <2>3
          DEF IInv, TypeOK, Exists, Target, Named, Size, GapLen
<1>7. CASE CallSplit
  <2>1. PICK n \in 1 .. Size(u) - 1 :
           req' = [op |-> "split", node |-> "u", pos |-> 0,
                   str |-> << >>, len |-> n]
    BY <1>7 DEF CallSplit
  <2>2. u.kind = "gap" /\ v = NoNode /\ Size(u) \in Nat
    BY <1>1, <1>7, NodeText DEF CallSplit
  <2>3. n \in Nat /\ n < Size(u)
    BY <2>1, <2>2
  <2>4. /\ req'.op = "split" /\ req'.node = "u" /\ req'.len = n
        /\ req' \in Call
    BY <2>1, <2>3 DEF Call
  <2> QED BY <1>1, <1>2, <2>2, <2>3, <2>4
          DEF IInv, TypeOK, Exists, Size, GapLen
<1>8. CASE CallOptimize
  <2>1. PICK k \in {"u", "v"} :
           /\ Exists(k)
           /\ req' = [op |-> "optimize", node |-> k, pos |-> 0,
                      str |-> << >>, len |-> 0]
    BY <1>8 DEF CallOptimize
  <2>2. req'.op = "optimize" /\ req'.node = k /\ req' \in Call
    BY <2>1 DEF Call
  <2> QED BY <1>1, <1>2, <2>1, <2>2 DEF IInv, TypeOK, Exists
<1> QED BY <1>5, <1>6, <1>7, <1>8

(* An insertion that is carried out.                                        *)
LEMMA DoInsertKeepsInv ==
  ASSUME IInv, DoInsert
  PROVE  IInv'
<1>1. req # NoCall /\ req.op = "insert" /\ req' = NoCall
  BY DEF DoInsert, NoCall, Return
<1> DEFINE x == Target
           p == req.pos
           s == req.str
           t == Content(x)
           n == GapInsert(Opened(x, FALSE), p, s)
<1>2. /\ x \in NodeData /\ t \in Seq(Char)
      /\ s \in Seq(Char) /\ p \in Nat /\ p <= Size(x)
  BY <1>1, TargetText DEF Call, IInv, TypeOK
<1>6. Replace(n)
  BY DEF DoInsert
<1> HIDE DEF x, p, s
<1>3. /\ Len(t) = Size(x) /\ Size(x) \in Nat
      /\ p \in 0 .. Size(x)
  BY <1>2, NodeText
<1>4. /\ n \in GapNodes
      /\ Content(n) = SubSeq(t, 1, p) \o s \o SubSeq(t, p + 1, Len(t))
  BY <1>2, <1>3, InsertText
<1> HIDE DEF n
<1>5. Content(n) \in Seq(Char)
  <2>1. p \in 0 .. Len(t) /\ p + 1 \in 1 .. Len(t) + 1
    BY <1>2, <1>3
  <2>2. SubSeq(t, 1, p) \o s \o SubSeq(t, p + 1, Len(t)) \in Seq(Char)
    BY <1>2, <2>1, CleanEdit
  <2> QED BY <1>4, <2>2
<1> QED BY <1>1, <1>4, <1>5, <1>6, AfterReplace DEF NodeData

(* An erase that is carried out, whether it leaves its node empty or not.   *)
LEMMA DoEraseKeepsInv ==
  ASSUME IInv, DoErase
  PROVE  IInv'
<1>1. req # NoCall /\ req.op = "erase" /\ req' = NoCall
  BY DEF DoErase, NoCall, Return
<1> DEFINE x == Target
           p == req.pos
           len == req.len
           t == Content(x)
           k == MinOf(len, Size(x) - p)
           n == GapErase(Opened(x, TRUE), p, len)
<1>2. /\ x \in NodeData /\ t \in Seq(Char)
      /\ len \in Nat /\ p \in Nat /\ p < Size(x)
  BY <1>1, TargetText DEF Call, IInv, TypeOK
<1>d. IF Size(n) > 0
        THEN Replace(n)
        ELSE /\ u' = IF req.node = "v" THEN u
                     ELSE IF v = NoNode THEN NewGap(DefaultGap) ELSE v
             /\ v' = NoNode
  BY DEF DoErase
<1> HIDE DEF x, p, len
<1>3. /\ Len(t) = Size(x) /\ Size(x) \in Nat
      /\ p \in 0 .. Size(x)
  BY <1>2, NodeText
<1>4. /\ k \in Nat /\ p + k <= Size(x) /\ n \in GapNodes
      /\ Content(n) = SubSeq(t, 1, p) \o SubSeq(t, p + k + 1, Len(t))
  BY <1>2, <1>3, EraseText
<1> HIDE DEF k, n
<1>5. Content(n) \in Seq(Char)
  <2>1. p \in 0 .. Len(t) /\ p + k + 1 \in 1 .. Len(t) + 1
    BY <1>2, <1>3, <1>4
  <2>2. SubSeq(t, 1, p) \o SubSeq(t, p + k + 1, Len(t)) \in Seq(Char)
    BY <1>2, <2>1, CleanEdit
  <2> QED BY <1>4, <2>2
<1>6. CASE Size(n) > 0
  <2>1. Replace(n)
    BY <1>6, <1>d
  <2> QED BY <1>1, <1>4, <1>5, <2>1, AfterReplace DEF NodeData
<1>7. CASE ~(Size(n) > 0)
  <2>1. /\ u' \in {u, v, NewGap(DefaultGap)} /\ u' # NoNode
        /\ v' = NoNode
    <3>1. /\ u' = IF req.node = "v" THEN u
                  ELSE IF v = NoNode THEN NewGap(DefaultGap) ELSE v
          /\ v' = NoNode
      BY <1>7, <1>d
    <3>2. u # NoNode /\ NewGap(DefaultGap) # NoNode
      BY NodeText, FreshNode DEF IInv, TypeOK, NodeData
    <3> QED BY <3>1, <3>2
  <2>2. /\ NewGap(DefaultGap) \in NodeData
        /\ TextOf(NewGap(DefaultGap)) \in Seq(Char)
    BY FreshNode, NodeText DEF NodeData
  <2>3. u' \in NodeData /\ v' \in NodeData \cup {NoNode}
    BY <2>1, <2>2 DEF IInv, TypeOK
  <2>4. TextOf(u)' \in Seq(Char) /\ TextOf(v)' \in Seq(Char)
    <3>1. \A m \in {u, v, NewGap(DefaultGap)} : TextOf(m) \in Seq(Char)
      BY <2>2 DEF IInv, CleanNodes
    <3>2. TextOf(u') \in Seq(Char)
      BY <3>1, <2>1
    <3>3. TextOf(v') \in Seq(Char)
      BY <2>1 DEF TextOf
    <3> QED BY <3>2, <3>3
  <2> QED BY <1>1, <2>3, <2>4, AfterCall
<1> QED BY <1>6, <1>7

(* A split: the two halves together are the text that was divided.          *)
LEMMA DoSplitKeepsInv ==
  ASSUME IInv, DoSplit
  PROVE  IInv'
<1> DEFINE k == req.len
           l == SplitLeft(u, k)
           r == SplitRight(u, k)
<1>1. req.op = "split" /\ req # NoCall /\ req' = NoCall /\ u' = l /\ v' = r
  BY DEF DoSplit, NoCall, Return
<1>2. /\ u \in GapNodes /\ k \in Nat /\ k < Size(u)
      /\ TextOf(u) \in Seq(Char)
  BY <1>1 DEF IInv, TypeOK, CleanNodes, Call, NodeData, CompactNodes
<1> HIDE DEF k
<1>3. /\ l \in GapNodes /\ r \in GapNodes
      /\ Content(l) \o Content(r) = Content(u)
  BY <1>2, SizeIsLen, SplitText
<1> HIDE DEF l, r
<1>4. /\ l \in NodeData /\ r \in NodeData /\ u \in NodeData
  BY <1>2, <1>3 DEF NodeData
<1>5. /\ Content(l) \in Seq(Byte) /\ Content(r) \in Seq(Byte)
      /\ Content(u) \in Seq(Char)
      /\ TextOf(l) = Content(l) /\ TextOf(r) = Content(r)
  BY <1>2, <1>4, NodeText
<1>6. TextOf(l) \in Seq(Char) /\ TextOf(r) \in Seq(Char)
  BY <1>3, <1>5, CleanParts
<1>7. TextOf(u') \in Seq(Char) /\ TextOf(v') \in Seq(Char)
  BY <1>1, <1>6
<1> QED BY <1>1, <1>4, <1>7, AfterCall

(* A node is packed.                                                        *)
LEMMA DoOptimizeKeepsInv ==
  ASSUME IInv, DoOptimize
  PROVE  IInv'
<1>1. req # NoCall /\ req' = NoCall
  BY DEF DoOptimize, NoCall, Return
<1> DEFINE x == Target
<1>2. x \in NodeData /\ Content(x) \in Seq(Char)
  BY <1>1, TargetText
<1>3. IF x.kind = "gap" THEN Replace(Compact(x)) ELSE u' = u /\ v' = v
  BY DEF DoOptimize
<1> HIDE DEF x
<1>4. CASE x.kind = "gap"
  <2>1. x \in GapNodes
    BY <1>2, <1>4 DEF NodeData, CompactNodes
  <2>2. Compact(x) \in NodeData /\ Content(Compact(x)) \in Seq(Char)
    BY <1>2, <2>1, CompactText DEF NodeData
  <2> QED BY <1>1, <1>3, <1>4, <2>2, AfterReplace
<1>5. CASE x.kind # "gap"
  BY <1>1, <1>3, <1>5, AfterStutter
<1> QED BY <1>4, <1>5

(* A failed allocation leaves the gap of one node moved at most.            *)
LEMMA FailuresKeepInv ==
  ASSUME IInv, ConversionFails \/ InsertFails \/ SplitFails
  PROVE  IInv'
<1>1. CASE ConversionFails
  <2>1. req' = NoCall /\ u' = u /\ v' = v
    BY <1>1 DEF ConversionFails, Return
  <2> QED BY <2>1, AfterStutter
<1>2. CASE InsertFails
  <2> DEFINE x == Target
             p == req.pos
             n == Opened(x, FALSE)
  <2>0. Replace(MoveGap(n, p))
    BY <1>2, Zenon DEF InsertFails
  <2>1. req # NoCall /\ req' = NoCall /\ req.op = "insert"
    BY <1>2 DEF InsertFails, NoCall, Return
  <2>2. /\ x \in NodeData /\ Content(x) \in Seq(Char)
        /\ p \in Nat /\ p <= Size(x)
    BY <2>1, TargetText DEF Call, IInv, TypeOK
  <2> HIDE DEF x, p
  <2>3. n \in GapNodes /\ Content(n) = Content(x) /\ Size(n) = Size(x)
    BY <2>2, OpenedText
  <2> HIDE DEF n
  <2>4. p \in 0 .. Size(n)
    BY <2>2, <2>3, SizeIsLen
  <2>5. MoveGap(n, p) \in GapNodes /\ Content(MoveGap(n, p)) = Content(n)
    BY <2>3, <2>4, MovedText
  <2>6. MoveGap(n, p) \in NodeData /\ Content(MoveGap(n, p)) \in Seq(Char)
    BY <2>2, <2>3, <2>5 DEF NodeData
  <2> QED BY <2>0, <2>1, <2>6, AfterReplace
<1>3. CASE SplitFails
  <2> DEFINE k == req.len
             n == MoveGap(u, Size(u) - k)
  <2>1. /\ req # NoCall /\ req' = NoCall /\ req.op = "split"
        /\ u' = n /\ v' = v
    BY <1>3 DEF SplitFails, NoCall, Return
  <2>2. /\ u \in GapNodes /\ k \in Nat /\ k < Size(u)
        /\ TextOf(u) \in Seq(Char) /\ TextOf(v) \in Seq(Char)
        /\ v \in NodeData \cup {NoNode}
    BY <2>1 DEF IInv, TypeOK, CleanNodes, Call, NodeData, CompactNodes
  <2> HIDE DEF k
  <2>3. Size(u) - k \in 0 .. Size(u)
    BY <2>2, SizeIsLen
  <2>4. n \in GapNodes /\ Content(n) = Content(u)
    BY <2>2, <2>3, MovedText
  <2> HIDE DEF n
  <2>5. n \in NodeData /\ u \in NodeData
    BY <2>2, <2>4 DEF NodeData
  <2>6. TextOf(n) \in Seq(Char)
    BY <2>2, <2>4, <2>5, NodeText
  <2>7. TextOf(u') \in Seq(Char) /\ TextOf(v') \in Seq(Char)
    BY <2>1, <2>2, <2>6
  <2> QED BY <2>1, <2>2, <2>5, <2>7, AfterCall
<1> QED BY <1>1, <1>2, <1>3

(* The induction step.                                                      *)
LEMMA NextInv == IInv /\ [Next]_vars => IInv'
<1> SUFFICES ASSUME IInv, [Next]_vars PROVE IInv'
  OBVIOUS
<1>1. CASE CallInsert \/ CallErase \/ CallSplit \/ CallOptimize
  BY <1>1, CallsKeepInv
<1>2. CASE DoInsert
  BY <1>2, DoInsertKeepsInv
<1>3. CASE DoErase
  BY <1>3, DoEraseKeepsInv
<1>4. CASE DoSplit
  BY <1>4, DoSplitKeepsInv
<1>5. CASE DoOptimize
  BY <1>5, DoOptimizeKeepsInv
<1>6. CASE ConversionFails \/ InsertFails \/ SplitFails
  BY <1>6, FailuresKeepInv
<1>7. CASE UNCHANGED vars
  BY <1>7 DEF vars, IInv, TypeOK, CleanNodes, Exists, Target, TextOf, Content,
              Size, GapLen, At, PhysicalIndex
<1> QED BY <1>1, <1>2, <1>3, <1>4, <1>5, <1>6, <1>7 DEF Next

(* The inductive invariant holds in every state.                            *)
THEOREM Inductive == Spec => []IInv
BY InitInv, NextInv, PTL DEF Spec

-----------------------------------------------------------------------------
(***************************************************************************)
(* The theorems.                                                           *)
(***************************************************************************)

(* Type correctness: through any sequence of edits, splits, packings and    *)
(* failed allocations every gap lies inside its buffer, and a call that is  *)
(* under way stays inside the node it names.                                *)
THEOREM TypeCorrect == Spec => []TypeOK
<1>1. IInv => TypeOK
  BY DEF IInv
<1> QED BY <1>1, Inductive, PTL

(* at(), which goes through physical_index, and scan(), to_string() and     *)
(* compact(), which copy block by block, always see the same text.          *)
THEOREM ReadersAgree == Spec => []ReadsAgree
<1>1. IInv => ReadsAgree
  <2> SUFFICES ASSUME IInv PROVE ReadsAgree
    OBVIOUS
  <2>1. u \in NodeData /\ v \in NodeData \cup {NoNode}
    BY DEF IInv, TypeOK
  <2> QED BY <2>1, ToStringIsContent DEF ReadsAgree
<1> QED BY <1>1, Inductive, PTL

-----------------------------------------------------------------------------
(***************************************************************************)
(* The refinement of TextBuffer.  An edit of one node is an edit of the     *)
(* whole text: each step of the nodes is a step of the text or leaves it   *)
(* and its request alone.                                                  *)
(***************************************************************************)

(* The parts of the text.                                                   *)
LEMMA TextParts ==
  ASSUME IInv
  PROVE  /\ u \in NodeData /\ v \in NodeData \cup {NoNode}
         /\ TextOf(u) = Content(u) /\ TextOf(v) \in Seq(Byte)
         /\ Content(u) \in Seq(Byte) /\ Len(Content(u)) = Size(u)
         /\ Size(u) \in Nat
         /\ Text = Content(u) \o TextOf(v) /\ Text \in Seq(Byte)
<1>1. u \in NodeData /\ v \in NodeData \cup {NoNode}
  BY DEF IInv, TypeOK
<1>2. TextOf(u) \in Seq(Byte) /\ TextOf(v) \in Seq(Byte)
  BY DEF IInv, CleanNodes, Byte
<1> DEFINE a == TextOf(u)
           b == TextOf(v)
<1>3. a \in Seq(Byte) /\ b \in Seq(Byte)
  BY <1>2
<1> HIDE DEF a, b
<1>4. a \o b \in Seq(Byte)
  BY <1>3
<1> QED BY <1>1, <1>2, <1>4, NodeText DEF Text, a, b

(* A place inside the node a call names is a place inside the text.         *)
LEMMA TargetPlace ==
  ASSUME IInv, req # NoCall, NEW p \in 0 .. Size(Target)
  PROVE  (IF req.node = "u" THEN 0 ELSE Size(u)) + p <= Len(Text)
<1>1. /\ TextOf(v) \in Seq(Byte) /\ Content(u) \in Seq(Byte)
      /\ Len(Content(u)) = Size(u) /\ Size(u) \in Nat
      /\ Text = Content(u) \o TextOf(v)
  BY TextParts
<1>2. Target \in NodeData
  BY TargetText
<1>3. Len(TextOf(Target)) = Size(Target) /\ Size(Target) \in Nat
  BY <1>2, NodeText
<1>4. Len(Text) = Size(u) + Len(TextOf(v)) /\ Len(TextOf(v)) \in Nat
  <2> DEFINE a == Content(u)
             b == TextOf(v)
  <2>1. a \in Seq(Byte) /\ b \in Seq(Byte)
    BY <1>1
  <2> HIDE DEF a, b
  <2>2. Len(a \o b) = Len(a) + Len(b) /\ Len(b) \in Nat
    BY <2>1
  <2> QED BY <1>1, <2>2 DEF a, b
<1>5. CASE req.node = "u"
  <2>1. Target = u
    BY <1>5 DEF Target
  <2> QED BY <1>1, <1>4, <1>5, <2>1
<1>6. CASE req.node # "u"
  <2>1. Target = v
    BY <1>6 DEF Target
  <2>2. Len(TextOf(v)) = Size(Target)
    BY <1>3, <2>1
  <2> QED BY <1>1, <1>4, <1>6, <2>2
<1> QED BY <1>5, <1>6

(* Splicing the node a call names splices the text, at the place the caller *)
(* of the text would name.                                                  *)
LEMMA SpliceText ==
  ASSUME IInv, req # NoCall, NEW s \in Seq(Byte),
         NEW p \in 0 .. Size(Target), NEW q \in 1 .. Size(Target) + 1,
         NEW new, new = Splice(Content(Target), p, s, q),
         Text' = IF req.node = "u" THEN new \o TextOf(v) ELSE TextOf(u) \o new
  PROVE  LET d == IF req.node = "u" THEN 0 ELSE Size(u)
         IN  Text' = Splice(Text, d + p, s, d + q)
<1>1. /\ TextOf(u) = Content(u) /\ TextOf(v) \in Seq(Byte)
      /\ Content(u) \in Seq(Byte) /\ Len(Content(u)) = Size(u)
      /\ Size(u) \in Nat /\ Text = Content(u) \o TextOf(v)
  BY TextParts
<1>2. Target \in NodeData
  BY TargetText
<1>3. Len(Content(Target)) = Size(Target) /\ Size(Target) \in Nat
  BY <1>2, NodeText
<1>4. CASE req.node = "u"
  <2>1. Target = u
    BY <1>4 DEF Target
  <2>2. p \in 0 .. Len(Content(u)) /\ q \in 1 .. Len(Content(u)) + 1
    BY <1>3, <2>1
  <2>3. Splice(Content(u), p, s, q) \o TextOf(v)
          = Splice(Content(u) \o TextOf(v), p, s, q)
    BY <1>1, <2>2, SpliceLeft, SMTT(60)
  <2>4. 0 + p = p /\ 0 + q = q
    BY <2>2
  <2> QED BY <1>1, <1>4, <2>1, <2>3, <2>4
<1>5. CASE req.node # "u"
  <2>1. Target = v
    BY <1>5 DEF Target
  <2>2. TextOf(v) = Content(v)
    BY <1>2, <2>1, NodeText
  <2>3. p \in 0 .. Len(TextOf(v)) /\ q \in 1 .. Len(TextOf(v)) + 1
    BY <1>3, <2>1, <2>2
  <2>4. Content(u) \o Splice(TextOf(v), p, s, q)
          = Splice(Content(u) \o TextOf(v), Len(Content(u)) + p, s,
                   Len(Content(u)) + q)
    BY <1>1, <2>3, SpliceRight
  <2> QED BY <1>1, <1>5, <2>1, <2>2, <2>4
<1> QED BY <1>4, <1>5

(* A node replaces the one the call names.                                  *)
LEMMA ReplacedText ==
  ASSUME IInv, NEW n \in NodeData, Replace(n)
  PROVE  Text' = IF req.node = "u" THEN Content(n) \o TextOf(v)
                                   ELSE TextOf(u) \o Content(n)
<1>1. TextOf(n) = Content(n)
  BY NodeText
<1>2. Text' = TextOf(u') \o TextOf(v')
  BY DEF Text, TextOf, Content, Size, GapLen, At, PhysicalIndex
<1>3. /\ req.node = "u" => u' = n /\ v' = v
      /\ req.node # "u" => u' = u /\ v' = n
  BY DEF Replace
<1> QED BY <1>1, <1>2, <1>3

(* A node with the same text replaces the one the call names.               *)
LEMMA SameText ==
  ASSUME IInv, req # NoCall, NEW n \in NodeData, Replace(n),
         Content(n) = Content(Target)
  PROVE  Text' = Text
<1>1. Target \in NodeData /\ u \in NodeData
  BY TargetText DEF IInv, TypeOK
<1>2. TextOf(Target) = Content(n)
  BY <1>1, NodeText
<1>3. CASE req.node = "u"
  <2>1. Text' = Content(n) \o TextOf(v) /\ Target = u
    BY <1>3, ReplacedText DEF Target
  <2> QED BY <1>2, <2>1 DEF Text
<1>4. CASE req.node # "u"
  <2>1. Text' = TextOf(u) \o Content(n) /\ Target = v
    BY <1>4, ReplacedText DEF Target
  <2> QED BY <1>2, <2>1 DEF Text
<1> QED BY <1>3, <1>4

(* An empty node goes: what is left is what the other node holds.           *)
LEMMA EmptiedText ==
  ASSUME IInv, req # NoCall, NEW n \in NodeData, ~(Size(n) > 0), v' = NoNode,
         u' = IF req.node = "v" THEN u
              ELSE IF v = NoNode THEN NewGap(DefaultGap) ELSE v
  PROVE  Text' = IF req.node = "u" THEN Content(n) \o TextOf(v)
                                   ELSE TextOf(u) \o Content(n)
<1>1. Content(n) = << >>
  <2>1. Content(n) \in Seq(Byte) /\ Len(Content(n)) = Size(n) /\ Size(n) \in Nat
    BY NodeText
  <2>2. Len(Content(n)) = 0
    BY <2>1
  <2> QED BY <2>1, <2>2
<1>2. Text' = TextOf(u')
  <2>1. Text' = TextOf(u') \o TextOf(v')
    BY DEF Text, TextOf, Content, Size, GapLen, At, PhysicalIndex
  <2>2. TextOf(v') = << >>
    BY DEF TextOf
  <2>3. TextOf(u') \in Seq(Byte)
    <3>1. /\ TextOf(u) \in Seq(Byte) /\ TextOf(v) \in Seq(Byte)
          /\ NewGap(DefaultGap) \in NodeData
      BY TextParts, FreshNode DEF NodeData
    <3>2. TextOf(NewGap(DefaultGap)) \in Seq(Byte)
      BY <3>1, NodeText
    <3> QED BY <3>1, <3>2
  <2> QED BY <2>1, <2>2, <2>3
<1>3. TextOf(u) \in Seq(Byte) /\ TextOf(v) \in Seq(Byte)
  BY TextParts
<1>4. CASE req.node = "u"
  <2>1. << >> \o TextOf(v) = TextOf(v)
    BY <1>3
  <2>2. v = NoNode => TextOf(u') = TextOf(v)
    <3>1. TextOf(NewGap(DefaultGap)) = << >> /\ TextOf(NoNode) = << >>
      BY FreshNode, NodeText DEF NodeData, TextOf
    <3> QED BY <1>4, <3>1
  <2> QED BY <1>1, <1>2, <1>4, <2>1, <2>2
<1>5. CASE req.node # "u"
  <2>1. req.node = "v"
    BY <1>5, TargetText DEF Call
  <2>2. TextOf(u) \o << >> = TextOf(u)
    BY <1>3
  <2> QED BY <1>1, <1>2, <1>5, <2>1, <2>2
<1> QED BY <1>4, <1>5

(* Neither node changes.                                                    *)
LEMMA UnchangedText ==
  ASSUME u' = u, v' = v
  PROVE  Text' = Text
BY DEF Text, TextOf, Content, Size, GapLen, At, PhysicalIndex

-----------------------------------------------------------------------------
(***************************************************************************)
(* The steps.                                                              *)
(***************************************************************************)

(* The request the caller of the text sees.                                 *)
LEMMA AbsReqIdle ==
  /\ req = NoCall => AbsReq = Abs!NoRequest
  /\ req' = NoCall => AbsReq' = Abs!NoRequest
BY DEF AbsReq, NoCall, Abs!NoRequest

(* A call under way is a request under way.                                 *)
LEMMA AbsReqBusy ==
  ASSUME IInv, req # NoCall
  PROVE  /\ req \in Call /\ AbsReq # Abs!NoRequest
         /\ AbsReq \in Abs!Request
<1>1. /\ req \in Call /\ Target \in NodeData /\ u \in NodeData
  BY TargetText DEF IInv, TypeOK
<1>2. Size(u) \in Nat /\ Size(Target) \in Nat
  BY <1>1, NodeText
<1>3. /\ req.op \in {"insert", "erase", "split", "optimize"}
      /\ req.pos \in Nat /\ req.str \in Seq(Char) /\ req.len \in Nat
  BY <1>1 DEF Call
<1>4. AbsReq.op \in {"insert", "erase", "keep"}
  BY <1>3 DEF AbsReq
<1>5. req.op = "erase" => MinOf(req.len, Size(Target) - req.pos) \in Nat
  BY <1>2, <1>3 DEF MinOf, IInv, TypeOK
<1>6. AbsReq \in Abs!Request
  BY <1>2, <1>3, <1>5 DEF AbsReq, Abs!Request
<1>7. AbsReq # Abs!NoRequest
  BY <1>4 DEF Abs!NoRequest
<1> QED BY <1>1, <1>6, <1>7

(* The same of the state a step leads to.                                   *)
LEMMA AbsReqBusyImp == IInv /\ req # NoCall => AbsReq \in Abs!Request
BY AbsReqBusy

(* AbsReqBusy after a step.                                                 *)
LEMMA AbsReqBusyNext == (IInv /\ req # NoCall => AbsReq \in Abs!Request)'
BY AbsReqBusyImp, PTL

(* A call is an invocation.                                                 *)
LEMMA CallsInvoke ==
  ASSUME IInv, IInv', CallInsert \/ CallErase \/ CallSplit \/ CallOptimize
  PROVE  Abs!Invoke
<1>1. req = NoCall /\ u' = u /\ v' = v
  BY DEF CallInsert, CallErase, CallSplit, CallOptimize
<1>2. (req # NoCall)'
  BY DEF CallInsert, CallErase, CallSplit, CallOptimize, NoCall
<1>3. AbsReq' \in Abs!Request
  BY <1>2, AbsReqBusyNext
<1> QED BY <1>1, <1>3, UnchangedText, AbsReqIdle DEF Abs!Invoke

(* An insertion inserts.                                                    *)
LEMMA DoInsertInserts ==
  ASSUME IInv, DoInsert
  PROVE  Abs!Insert
<1>1. req # NoCall /\ req.op = "insert" /\ req' = NoCall
  BY DEF DoInsert, NoCall, Return
<1> DEFINE x == Target
           p == req.pos
           s == req.str
           d == IF req.node = "u" THEN 0 ELSE Size(u)
           n == GapInsert(Opened(x, FALSE), p, s)
<1>2. /\ x \in NodeData /\ s \in Seq(Char) /\ s \in Seq(Byte)
      /\ p \in Nat /\ p <= Size(x)
  BY <1>1, TargetText DEF Call, IInv, TypeOK, Byte
<1>3. Replace(n)
  BY DEF DoInsert
<1>4. AbsReq.op = "insert" /\ AbsReq.pos = d + p /\ AbsReq.str = s
  BY <1>1, <1>2, TextParts DEF AbsReq
<1> HIDE DEF x, p, s
<1>5. /\ Len(Content(x)) = Size(x) /\ Size(x) \in Nat
      /\ p \in 0 .. Size(x) /\ p + 1 \in 1 .. Size(x) + 1
  BY <1>2, NodeText
<1>6. /\ n \in GapNodes
      /\ Content(n) = Splice(Content(x), p, s, p + 1)
  BY <1>2, <1>5, InsertText DEF Splice
<1> HIDE DEF n
<1>7. Text' = IF req.node = "u" THEN Content(n) \o TextOf(v)
                                ELSE TextOf(u) \o Content(n)
  BY <1>3, <1>6, ReplacedText DEF NodeData
<1>8. Text' = Splice(Text, d + p, s, d + (p + 1))
  BY <1>1, <1>2, <1>5, <1>6, <1>7, SpliceText DEF x
<1>9. d \in Nat /\ d + (p + 1) = d + p + 1 /\ d + p <= Len(Text)
  <2>1. d \in Nat
    BY TextParts
  <2>2. d + p <= Len(Text)
    BY <1>1, <1>2, <1>5, TargetPlace DEF x
  <2> QED BY <1>2, <2>1, <2>2
<1>10. Text' = Abs!StringInsert(Text, d + p, s)
  BY <1>8, <1>9 DEF Splice, Abs!StringInsert
<1> QED BY <1>1, <1>4, <1>9, <1>10, AbsReqIdle DEF Abs!Insert

(* An erase erases what its node has, whether the node survives or not.     *)
LEMMA DoEraseErases ==
  ASSUME IInv, DoErase
  PROVE  Abs!Erase
<1>1. req # NoCall /\ req.op = "erase" /\ req' = NoCall
  BY DEF DoErase, NoCall, Return
<1> DEFINE x == Target
           p == req.pos
           len == req.len
           k == MinOf(len, Size(x) - p)
           d == IF req.node = "u" THEN 0 ELSE Size(u)
           n == GapErase(Opened(x, TRUE), p, len)
<1>2. /\ x \in NodeData /\ len \in Nat
      /\ p \in Nat /\ p < Size(x)
  BY <1>1, TargetText DEF Call, IInv, TypeOK
<1>3. IF Size(n) > 0
        THEN Replace(n)
        ELSE /\ u' = IF req.node = "v" THEN u
                     ELSE IF v = NoNode THEN NewGap(DefaultGap) ELSE v
             /\ v' = NoNode
  BY DEF DoErase
<1>4. AbsReq.op = "erase" /\ AbsReq.pos = d + p /\ AbsReq.len = k
  BY <1>1, <1>2, TextParts DEF AbsReq
<1> HIDE DEF x, p, len
<1>5. /\ Content(x) \in Seq(Byte) /\ Len(Content(x)) = Size(x)
      /\ Size(x) \in Nat /\ p \in 0 .. Size(x)
  BY <1>2, NodeText
<1>6. /\ k \in Nat /\ p + k <= Size(x) /\ n \in GapNodes
      /\ Content(n) = SubSeq(Content(x), 1, p)
                        \o SubSeq(Content(x), p + k + 1, Len(Content(x)))
  BY <1>2, <1>5, EraseText
<1> HIDE DEF k, n
<1>7. p + k + 1 \in 1 .. Size(x) + 1
  BY <1>2, <1>5, <1>6
<1>8. Content(n) = Splice(Content(x), p, << >>, p + k + 1)
  BY <1>5, <1>6, <1>7, SpliceNothing
<1>9. n \in NodeData
  BY <1>6 DEF NodeData
<1>10. Text' = IF req.node = "u" THEN Content(n) \o TextOf(v)
                                 ELSE TextOf(u) \o Content(n)
  <2>1. CASE Size(n) > 0
    BY <2>1, <1>3, <1>9, ReplacedText
  <2>2. CASE ~(Size(n) > 0)
    BY <2>2, <1>1, <1>3, <1>9, EmptiedText
  <2> QED BY <2>1, <2>2
<1>11. Text' = Splice(Text, d + p, << >>, d + (p + k + 1))
  <2>1. << >> \in Seq(Byte)
    OBVIOUS
  <2> QED BY <1>1, <1>5, <1>7, <1>8, <1>10, <2>1, SpliceText DEF x
<1>12. /\ d + p \in 0 .. Len(Text) /\ d + (p + k + 1) \in 1 .. Len(Text) + 1
       /\ d + (p + k + 1) = d + p + k + 1 /\ Text \in Seq(Byte)
  <2>1. d \in Nat /\ Text \in Seq(Byte)
    BY TextParts
  <2>2. p + k \in 0 .. Size(x)
    BY <1>2, <1>6
  <2>3. d + p <= Len(Text) /\ d + (p + k) <= Len(Text)
    BY <1>1, <1>5, <2>2, TargetPlace DEF x
  <2> QED BY <1>2, <1>6, <2>1, <2>3
<1> HIDE DEF d
<1>13. Text' = SubSeq(Text, 1, d + p)
                 \o SubSeq(Text, d + p + k + 1, Len(Text))
  BY <1>11, <1>12, SpliceNothing
<1>14. Text' = Abs!StringErase(Text, d + p, k)
  BY <1>13 DEF Abs!StringErase
<1>15. d + p <= Len(Text)
  BY <1>12
<1> QED BY <1>1, <1>4, <1>14, <1>15, AbsReqIdle DEF Abs!Erase

(* Keeping the text is what a split and optimize() do.                      *)
LEMMA DoSplitKeeps ==
  ASSUME IInv, DoSplit
  PROVE  Abs!Keep
<1> DEFINE k == req.len
           l == SplitLeft(u, k)
           r == SplitRight(u, k)
<1>1. /\ req.op = "split" /\ req # NoCall /\ req' = NoCall
      /\ u' = l /\ v' = r
  BY DEF DoSplit, NoCall, Return
<1>2. /\ u \in GapNodes /\ u \in NodeData /\ v = NoNode
      /\ k \in Nat /\ k < Size(u)
  BY <1>1 DEF IInv, TypeOK, Call, NodeData, CompactNodes
<1> HIDE DEF k
<1>3. /\ l \in GapNodes /\ r \in GapNodes
      /\ Content(l) \o Content(r) = Content(u)
  BY <1>2, SizeIsLen, SplitText
<1> HIDE DEF l, r
<1>4. TextOf(l) = Content(l) /\ TextOf(r) = Content(r)
  BY <1>3, NodeText DEF NodeData
<1>5. Text' = Content(u)
  <2>1. Text' = TextOf(u') \o TextOf(v')
    BY DEF Text, TextOf, Content, Size, GapLen, At, PhysicalIndex
  <2> QED BY <2>1, <1>1, <1>3, <1>4
<1>6. Text = Content(u)
  <2>1. Text = Content(u) \o TextOf(v) /\ Content(u) \in Seq(Byte)
    BY TextParts
  <2>2. TextOf(v) = << >>
    BY <1>2 DEF TextOf
  <2> QED BY <2>1, <2>2
<1>7. AbsReq.op = "keep"
  BY <1>1 DEF AbsReq
<1> QED BY <1>1, <1>5, <1>6, <1>7, AbsReqIdle DEF Abs!Keep

(* optimize() packs both nodes and leaves the text alone: a stutter.        *)
LEMMA DoOptimizeKeeps ==
  ASSUME IInv, DoOptimize
  PROVE  Abs!Keep
<1> DEFINE x == Target
<1>1. req.op = "optimize" /\ req # NoCall /\ req' = NoCall
  BY DEF DoOptimize, NoCall, Return
<1>2. x \in NodeData
  BY <1>1, TargetText
<1>3. IF x.kind = "gap" THEN Replace(Compact(x)) ELSE u' = u /\ v' = v
  BY DEF DoOptimize
<1>4. Text' = Text
  <2>1. CASE x.kind = "gap"
    <3>1. x \in GapNodes
      BY <1>2, <2>1 DEF NodeData, CompactNodes
    <3>2. Compact(x) \in NodeData /\ Content(Compact(x)) = Content(x)
      BY <3>1, CompactText DEF NodeData
    <3> QED BY <1>1, <1>3, <2>1, <3>2, SameText
  <2>2. CASE x.kind # "gap"
    BY <1>3, <2>2, UnchangedText
  <2> QED BY <2>1, <2>2
<1>5. AbsReq.op = "keep"
  BY <1>1 DEF AbsReq
<1> QED BY <1>1, <1>4, <1>5, AbsReqIdle DEF Abs!Keep

(* A failed allocation fails the request and keeps the text.                *)
LEMMA FailuresFail ==
  ASSUME IInv, ConversionFails \/ InsertFails \/ SplitFails
  PROVE  Abs!Fail
<1>1. AllocMayFail /\ req # NoCall /\ req' = NoCall
  <2>1. CASE ConversionFails
    BY <2>1 DEF ConversionFails, Return, NoCall
  <2>2. CASE InsertFails
    <3>1. AllocMayFail /\ req.op = "insert" /\ req' = NoCall
      BY <2>2 DEF InsertFails, Return
    <3> QED BY <3>1 DEF NoCall
  <2>3. CASE SplitFails
    BY <2>3 DEF SplitFails, Return, NoCall
  <2> QED BY <2>1, <2>2, <2>3
<1>2. Text' = Text
  <2>1. CASE ConversionFails
    <3>1. u' = u /\ v' = v
      BY <2>1 DEF ConversionFails
    <3> QED BY <3>1, UnchangedText
  <2>2. CASE InsertFails
    <3> DEFINE x == Target
               p == req.pos
               n == Opened(x, FALSE)
    <3>1. Replace(MoveGap(n, p))
      BY <2>2, Zenon DEF InsertFails
    <3>2. x \in NodeData /\ p \in Nat /\ p <= Size(x)
      BY <2>2, <1>1, TargetText DEF InsertFails, Call, IInv, TypeOK
    <3> HIDE DEF x, p
    <3>3. n \in GapNodes /\ Content(n) = Content(x) /\ Size(n) = Size(x)
      BY <3>2, OpenedText
    <3> HIDE DEF n
    <3>4. p \in 0 .. Size(n)
      BY <3>2, <3>3, SizeIsLen
    <3>5. /\ MoveGap(n, p) \in GapNodes
          /\ Content(MoveGap(n, p)) = Content(n)
      BY <3>3, <3>4, MovedText
    <3>6. /\ MoveGap(n, p) \in NodeData
          /\ Content(MoveGap(n, p)) = Content(x)
      BY <3>3, <3>5 DEF NodeData
    <3> QED BY <1>1, <3>1, <3>6, SameText DEF x
  <2>3. CASE SplitFails
    <3> DEFINE k == req.len
               n == MoveGap(u, Size(u) - k)
    <3>1. req.op = "split" /\ u' = n /\ v' = v
      BY <2>3 DEF SplitFails
    <3>2. u \in GapNodes /\ k \in Nat /\ k < Size(u)
      BY <3>1, <1>1 DEF IInv, TypeOK, Call, NodeData, CompactNodes
    <3> HIDE DEF k
    <3>3. Size(u) - k \in 0 .. Size(u)
      BY <3>2, SizeIsLen
    <3>4. n \in GapNodes /\ Content(n) = Content(u)
      BY <3>2, <3>3, MovedText
    <3> HIDE DEF n
    <3>5. TextOf(n) = TextOf(u)
      BY <3>2, <3>4, NodeText DEF NodeData
    <3>6. Text' = TextOf(u') \o TextOf(v')
      BY DEF Text, TextOf, Content, Size, GapLen, At, PhysicalIndex
    <3> QED BY <3>1, <3>5, <3>6 DEF Text
  <2> QED BY <2>1, <2>2, <2>3
<1> QED BY <1>1, <1>2, AbsReqIdle, AbsReqBusy DEF Abs!Fail

(* The initial state holds the empty text and no request.                   *)
LEMMA InitImplements == Init => Abs!Init
<1> SUFFICES ASSUME Init PROVE Abs!Init
  OBVIOUS
<1>1. u = NewGap(DefaultGap) /\ v = NoNode /\ req = NoCall
  BY DEF Init
<1>2. u \in NodeData /\ Content(u) = << >>
  BY <1>1, FreshNode DEF NodeData
<1>3. TextOf(u) = << >> /\ TextOf(v) = << >>
  BY <1>1, <1>2, NodeText DEF TextOf
<1>4. Text = << >>
  BY <1>3 DEF Text
<1> QED BY <1>1, <1>4, AbsReqIdle DEF Abs!Init

(* Every step of the nodes is a step of the text, or a stutter.             *)
LEMMA StepImplements == IInv /\ IInv' /\ [Next]_vars => [Abs!Next]_Abs!vars
<1> SUFFICES ASSUME IInv, IInv', [Next]_vars PROVE [Abs!Next]_Abs!vars
  OBVIOUS
<1>1. CASE CallInsert \/ CallErase \/ CallSplit \/ CallOptimize
  BY <1>1, CallsInvoke DEF Abs!Next
<1>2. CASE DoInsert
  BY <1>2, DoInsertInserts DEF Abs!Next
<1>3. CASE DoErase
  BY <1>3, DoEraseErases DEF Abs!Next
<1>4. CASE DoSplit
  BY <1>4, DoSplitKeeps DEF Abs!Next
<1>5. CASE DoOptimize
  BY <1>5, DoOptimizeKeeps DEF Abs!Next
<1>6. CASE ConversionFails \/ InsertFails \/ SplitFails
  BY <1>6, FailuresFail DEF Abs!Next
<1>7. CASE UNCHANGED vars
  <2>1. u' = u /\ v' = v /\ req' = req
    BY <1>7 DEF vars
  <2>2. AbsReq' = AbsReq
    BY <2>1 DEF AbsReq, Target, Size, GapLen
  <2> QED BY <2>1, <2>2, UnchangedText DEF Abs!vars
<1> QED BY <1>1, <1>2, <1>3, <1>4, <1>5, <1>6, <1>7 DEF Next

-----------------------------------------------------------------------------
(* The nodes implement the abstract text: through any sequence of edits,    *)
(* splits, packings and failed allocations a text is edited as a            *)
(* std::string would be.                                                    *)
THEOREM NodesImplementText == Spec => Implements
<1>1. Spec => []IInv
  BY Inductive
<1> QED BY <1>1, InitImplements, StepImplements, PTL
        DEF Spec, Implements, Abs!Spec

-----------------------------------------------------------------------------
(***************************************************************************)
(* Each node by itself.                                                    *)
(***************************************************************************)

(* What the nodes hold after a step.                                        *)
LEMMA TextsAfter == Texts' = <<TextOf(u'), TextOf(v')>>
BY DEF Texts, TextOf, Content, Size, GapLen, At, PhysicalIndex

(* Neither node changes.                                                    *)
LEMMA TextsStay ==
  ASSUME u' = u, v' = v
  PROVE  Texts' = Texts
BY TextsAfter DEF Texts

(* The target is replaced by a node that is not dropped.                    *)
LEMMA TextsReplaced ==
  ASSUME IInv, req # NoCall, NEW n \in NodeData, Replace(n),
         req.op # "erase" \/ Content(n) # << >>
  PROVE  Texts' = Holding(Content(n))
<1>1. req.node \in {"u", "v"} /\ TextOf(n) = Content(n)
  BY TargetText, NodeText DEF Call
<1>2. CASE req.node = "u"
  <2>1. u' = n /\ v' = v /\ req.node # "v"
    BY <1>2 DEF Replace
  <2>2. Texts' = <<Content(n), TextOf(v)>>
    BY <1>1, <2>1, TextsAfter
  <2> QED BY <2>1, <2>2 DEF Holding
<1>3. CASE req.node = "v"
  <2>1. u' = u /\ v' = n
    BY <1>3 DEF Replace
  <2>2. Texts' = <<TextOf(u), Content(n)>>
    BY <1>1, <2>1, TextsAfter
  <2> QED BY <1>3, <2>2 DEF Holding
<1> QED BY <1>1, <1>2, <1>3

(* The target is replaced by a node that holds the same.                    *)
LEMMA TextsSame ==
  ASSUME IInv, req # NoCall, NEW n \in NodeData, Replace(n),
         Content(n) = Content(Target)
  PROVE  Texts' = Texts
<1>1. TextOf(n) = TextOf(Target)
  BY TargetText, NodeText
<1>2. CASE req.node = "u"
  BY <1>1, <1>2, TextsAfter DEF Replace, Target, Texts
<1>3. CASE req.node # "u"
  BY <1>1, <1>3, TextsAfter DEF Replace, Target, Texts
<1> QED BY <1>2, <1>3

(* An insertion writes its string into its node.                            *)
LEMMA InsertsExactly ==
  ASSUME IInv, DoInsert
  PROVE  EditsExactly
<1>1. req # NoCall /\ req.op = "insert"
  BY DEF DoInsert, NoCall
<1> DEFINE y == Target
           p == req.pos
           s == req.str
           n == GapInsert(Opened(y, FALSE), p, s)
<1>2. /\ y \in NodeData /\ s \in Seq(Char) /\ p \in Nat /\ p <= Size(y)
  BY <1>1, TargetText DEF Call, IInv, TypeOK
<1>3. Replace(n)
  BY DEF DoInsert
<1> HIDE DEF y, p, s
<1>4. p \in 0 .. Size(y) /\ TextOf(y) = Content(y)
  BY <1>2, NodeText
<1>5. /\ n \in GapNodes
      /\ Content(n) = Abs!StringInsert(Content(y), p, s)
  BY <1>2, <1>4, InsertText DEF Abs!StringInsert
<1> HIDE DEF n
<1>6. n \in NodeData
  BY <1>5 DEF NodeData
<1>7. Texts' = Holding(Abs!StringInsert(TextOf(Target), req.pos, req.str))
  BY <1>1, <1>3, <1>4, <1>5, <1>6, TextsReplaced, Zenon DEF y, p, s
<1> QED BY <1>1, <1>7, Zenon DEF EditsExactly

(* What is behind the end of a text is nothing, however far behind.         *)
LEMMA CutErase ==
  ASSUME NEW t \in Seq(Byte), NEW p \in 0 .. Len(t), NEW len \in Nat
  PROVE  SubSeq(t, p + MinOf(len, Len(t) - p) + 1, Len(t))
           = SubSeq(t, p + len + 1, Len(t))
<1>1. CASE len < Len(t) - p
  BY <1>1 DEF MinOf
<1>2. CASE ~(len < Len(t) - p)
  <2>1. MinOf(len, Len(t) - p) = Len(t) - p
    BY <1>2 DEF MinOf
  <2>2. p + (Len(t) - p) + 1 > Len(t) /\ p + len + 1 > Len(t)
    BY <1>2
  <2>3. /\ p + (Len(t) - p) + 1 \in Nat \ {0} /\ p + len + 1 \in Nat \ {0}
    OBVIOUS
  <2>4. /\ SubSeq(t, p + (Len(t) - p) + 1, Len(t)) = << >>
        /\ SubSeq(t, p + len + 1, Len(t)) = << >>
    BY <2>2, <2>3
  <2> QED BY <2>1, <2>4
<1> QED BY <1>1, <1>2

(* An erase takes its characters out of its node, which goes when there is  *)
(* nothing left.                                                            *)
LEMMA ErasesExactly ==
  ASSUME IInv, DoErase
  PROVE  EditsExactly
<1>1. req # NoCall /\ req.op = "erase" /\ req.node \in {"u", "v"}
  <2>1. req # NoCall /\ req.op = "erase"
    BY DEF DoErase, NoCall
  <2> QED BY <2>1, TargetText DEF Call
<1> DEFINE y == Target
           p == req.pos
           len == req.len
           k == MinOf(len, Size(y) - p)
           n == GapErase(Opened(y, TRUE), p, len)
<1>2. y \in NodeData /\ len \in Nat /\ p \in Nat /\ p < Size(y)
  BY <1>1, TargetText DEF Call, IInv, TypeOK
<1>3. IF Size(n) > 0
        THEN Replace(n)
        ELSE /\ u' = IF req.node = "v" THEN u
                     ELSE IF v = NoNode THEN NewGap(DefaultGap) ELSE v
             /\ v' = NoNode
  BY DEF DoErase
<1> HIDE DEF y, p, len
<1>4. /\ Content(y) \in Seq(Byte) /\ Len(Content(y)) = Size(y)
      /\ Size(y) \in Nat /\ p \in 0 .. Size(y) /\ TextOf(y) = Content(y)
  BY <1>2, NodeText
<1>5. /\ n \in GapNodes
      /\ Content(n) = SubSeq(Content(y), 1, p)
                        \o SubSeq(Content(y), p + k + 1, Len(Content(y)))
  BY <1>2, <1>4, EraseText
<1>6. SubSeq(Content(y), p + k + 1, Len(Content(y)))
        = SubSeq(Content(y), p + len + 1, Len(Content(y)))
  BY <1>2, <1>4, CutErase
<1>7. Content(n) = Abs!StringErase(TextOf(y), p, len)
  BY <1>4, <1>5, <1>6, Zenon DEF Abs!StringErase
<1>8. n \in NodeData
  BY <1>5 DEF NodeData
<1> HIDE DEF n
<1>9. /\ Content(n) \in Seq(Byte) /\ Len(Content(n)) = Size(n)
      /\ Size(n) \in Nat
  BY <1>8, NodeText
<1>10. Texts' = Holding(Content(n))
  <2>1. CASE Size(n) > 0
    <3>1. Content(n) # << >>
      BY <1>9, <2>1
    <3> QED BY <1>1, <1>3, <1>8, <2>1, <3>1, TextsReplaced
  <2>2. CASE ~(Size(n) > 0)
    <3>1. Content(n) = << >>
      BY <1>9, <2>2
    <3>2. /\ u' = IF req.node = "v" THEN u
                  ELSE IF v = NoNode THEN NewGap(DefaultGap) ELSE v
          /\ v' = NoNode
      BY <1>3, <2>2
    <3>3. TextOf(v') = << >>
      BY <3>2 DEF TextOf
    <3>4. TextOf(NewGap(DefaultGap)) = << >> /\ TextOf(NoNode) = << >>
      BY FreshNode, NodeText DEF NodeData, TextOf
    <3>5. CASE req.node = "v"
      BY <3>1, <3>2, <3>3, <3>5, TextsAfter DEF Holding
    <3>6. CASE req.node = "u"
      <4>1. TextOf(u') = TextOf(v) /\ req.node # "v"
        BY <3>2, <3>4, <3>6
      <4> QED BY <1>1, <3>1, <3>3, <4>1, TextsAfter DEF Holding
    <3> QED BY <1>1, <3>5, <3>6
  <2> QED BY <2>1, <2>2
<1>11. Texts' = Holding(Abs!StringErase(TextOf(Target), req.pos, req.len))
  BY <1>7, <1>10, Zenon DEF y, p, len
<1> QED BY <1>1, <1>11, Zenon DEF EditsExactly

(* Two parts put together can be taken apart again.                         *)
LEMMA Halves ==
  ASSUME NEW a \in Seq(Byte), NEW b \in Seq(Byte), NEW k \in Nat, Len(b) = k
  PROVE  LET t == a \o b
         IN  /\ SubSeq(t, 1, Len(t) - k) = a
             /\ SubSeq(t, Len(t) - k + 1, Len(t)) = b
<1> DEFINE t == a \o b
<1>1. /\ Len(t) = Len(a) + k /\ Len(a) \in Nat
      /\ Len(t) - k = Len(a) /\ Len(t) - k + 1 = Len(a) + 1
  OBVIOUS
<1>2. SubSeq(t, 1, Len(a)) = SubSeq(a, 1, Len(a))
  BY <1>1, PrefixLeft
<1>3. SubSeq(t, Len(a) + 1, Len(t)) = SubSeq(b, 1, Len(b))
  <2>1. 1 \in 1 .. Len(b) + 1
    OBVIOUS
  <2> QED BY <2>1, SuffixRight
<1>4. SubSeq(a, 1, Len(a)) = a /\ SubSeq(b, 1, Len(b)) = b
  OBVIOUS
<1> HIDE DEF t
<1> QED BY <1>1, <1>2, <1>3, <1>4 DEF t

(* A split gives v the last len characters.                                 *)
LEMMA SplitsExactly ==
  ASSUME IInv, DoSplit
  PROVE  EditsExactly
<1> DEFINE k == req.len
           l == SplitLeft(u, k)
           r == SplitRight(u, k)
<1>1. /\ req.op = "split" /\ req # NoCall /\ u' = l /\ v' = r
  BY DEF DoSplit, NoCall
<1>2. /\ u \in GapNodes /\ u \in NodeData /\ k \in Nat /\ k < Size(u)
      /\ Target = u
  <2>1. req \in Call /\ req.node = "u"
    BY <1>1 DEF IInv, TypeOK, Exists
  <2> QED BY <1>1, <2>1 DEF IInv, TypeOK, Call, NodeData, CompactNodes, Target
<1> HIDE DEF k
<1>3. /\ l \in GapNodes /\ r \in GapNodes /\ Size(l) = Size(u) - k
      /\ Content(l) \o Content(r) = Content(u)
  <2>1. k \in 0 .. Size(u)
    BY <1>2, SizeIsLen
  <2> QED BY <1>2, <2>1, SplitText
<1> HIDE DEF l, r
<1>4. /\ TextOf(l) = Content(l) /\ TextOf(r) = Content(r)
      /\ Content(l) \in Seq(Byte) /\ Content(r) \in Seq(Byte)
      /\ Len(Content(l)) = Size(u) - k
      /\ TextOf(u) = Content(u) /\ Len(Content(u)) = Size(u)
      /\ Size(u) \in Nat
  BY <1>2, <1>3, NodeText DEF NodeData
<1>5. Len(Content(r)) = k
  <2> DEFINE a == Content(l)
             b == Content(r)
  <2>1. a \in Seq(Byte) /\ b \in Seq(Byte)
    BY <1>4
  <2> HIDE DEF a, b
  <2>2. Len(a \o b) = Len(a) + Len(b) /\ Len(b) \in Nat
    BY <2>1
  <2>3. Len(a) = Size(u) - k /\ Len(a \o b) = Size(u)
    BY <1>3, <1>4 DEF a, b
  <2> QED BY <1>2, <1>4, <2>2, <2>3 DEF b
<1> DEFINE t == TextOf(Target)
<1>6. /\ SubSeq(t, 1, Len(t) - k) = Content(l)
      /\ SubSeq(t, Len(t) - k + 1, Len(t)) = Content(r)
  <2> DEFINE a == Content(l)
             b == Content(r)
  <2>1. t = a \o b
    BY <1>2, <1>3, <1>4
  <2>2. a \in Seq(Byte) /\ b \in Seq(Byte) /\ Len(b) = k
    BY <1>4, <1>5
  <2> HIDE DEF a, b, t
  <2>3. /\ SubSeq(a \o b, 1, Len(a \o b) - k) = a
        /\ SubSeq(a \o b, Len(a \o b) - k + 1, Len(a \o b)) = b
    BY <1>2, <2>2, Halves
  <2> QED BY <2>1, <2>3, Zenon DEF a, b
<1>7. Texts' = <<SubSeq(t, 1, Len(t) - k), SubSeq(t, Len(t) - k + 1, Len(t))>>
  BY <1>1, <1>4, <1>6, TextsAfter
<1> QED BY <1>1, <1>7, Zenon DEF EditsExactly, k

(* A packing changes neither text.                                          *)
LEMMA PacksExactly ==
  ASSUME IInv, DoOptimize
  PROVE  EditsExactly
<1> DEFINE y == Target
<1>1. req.op = "optimize" /\ req # NoCall
  BY DEF DoOptimize, NoCall
<1>2. y \in NodeData
  BY <1>1, TargetText
<1>3. IF y.kind = "gap" THEN Replace(Compact(y)) ELSE u' = u /\ v' = v
  BY DEF DoOptimize
<1>4. Texts' = Texts
  <2>1. CASE y.kind = "gap"
    <3>1. y \in GapNodes
      BY <1>2, <2>1 DEF NodeData, CompactNodes
    <3>2. Compact(y) \in NodeData /\ Content(Compact(y)) = Content(y)
      BY <3>1, CompactText DEF NodeData
    <3> QED BY <1>1, <1>3, <2>1, <3>2, TextsSame
  <2>2. CASE y.kind # "gap"
    BY <1>3, <2>2, TextsStay
  <2> QED BY <2>1, <2>2
<1>5. req.op \notin {"insert", "erase", "split"}
  BY <1>1
<1> QED BY <1>4, <1>5, Zenon DEF EditsExactly

(* A call changes neither text.                                             *)
LEMMA CallsExactly ==
  ASSUME CallInsert \/ CallErase \/ CallSplit \/ CallOptimize
  PROVE  EditsExactly
<1>1. u' = u /\ v' = v /\ req = NoCall
  BY DEF CallInsert, CallErase, CallSplit, CallOptimize
<1>2. req.op \notin {"insert", "erase", "split"}
  BY <1>1 DEF NoCall
<1>3. Texts' = Texts
  BY <1>1, TextsStay
<1> QED BY <1>2, <1>3, Zenon DEF EditsExactly

(* What fails is an allocation, and it changes neither text.                *)
LEMMA FailuresKeepTexts ==
  ASSUME IInv, ConversionFails \/ InsertFails \/ SplitFails
  PROVE  \/ EditsExactly
         \/ AllocMayFail /\ Allocates /\ Texts' = Texts
<1>1. CASE ConversionFails
  <2>1. Texts' = Texts
    BY <1>1, TextsStay DEF ConversionFails
  <2>2. CASE req.op \in {"insert", "erase"} /\ Target.kind = "compact"
    BY <1>1, <2>1, <2>2 DEF ConversionFails, Allocates
  <2>3. CASE req.op = "optimize"
    <3>1. req.op \notin {"insert", "erase", "split"}
      BY <2>3
    <3> QED BY <2>1, <3>1, Zenon DEF EditsExactly
  <2>4. \/ req.op \in {"insert", "erase"} /\ Target.kind = "compact"
        \/ req.op = "optimize"
    BY <1>1, Zenon DEF ConversionFails
  <2> QED BY <2>2, <2>3, <2>4, Zenon
<1>2. CASE InsertFails
  <2> DEFINE y == Target
             p == req.pos
             n == Opened(y, FALSE)
  <2>1. /\ Replace(MoveGap(n, p)) /\ GapLen(n) < Len(req.str)
        /\ req.op = "insert" /\ AllocMayFail
    BY <1>2, Zenon DEF InsertFails
  <2>2. req # NoCall
    BY <2>1 DEF NoCall
  <2>3. y \in NodeData /\ p \in Nat /\ p <= Size(y)
    BY <2>1, <2>2, TargetText DEF Call, IInv, TypeOK
  <2>4. Allocates
    <3>1. CASE y.kind = "compact"
      BY <2>1, <3>1 DEF Allocates
    <3>2. CASE y.kind # "compact"
      <4>1. n = y
        BY <3>2 DEF Opened
      <4> QED BY <2>1, <4>1 DEF Allocates
    <3> QED BY <3>1, <3>2
  <2> HIDE DEF y, p
  <2>5. n \in GapNodes /\ Content(n) = Content(y) /\ Size(n) = Size(y)
    BY <2>3, OpenedText
  <2> HIDE DEF n
  <2>6. p \in 0 .. Size(n)
    BY <2>3, <2>5, SizeIsLen
  <2>7. MoveGap(n, p) \in NodeData /\ Content(MoveGap(n, p)) = Content(y)
    BY <2>5, <2>6, MovedText DEF NodeData
  <2>8. Texts' = Texts
    BY <2>1, <2>2, <2>7, TextsSame DEF y
  <2> QED BY <2>1, <2>4, <2>8
<1>3. CASE SplitFails
  <2> DEFINE k == req.len
             n == MoveGap(u, Size(u) - k)
  <2>1. /\ req.op = "split" /\ u' = n /\ v' = v /\ AllocMayFail
    BY <1>3 DEF SplitFails
  <2>2. u \in GapNodes /\ k \in Nat /\ k < Size(u)
    <3>1. req # NoCall
      BY <2>1 DEF NoCall
    <3> QED BY <2>1, <3>1 DEF IInv, TypeOK, Call, NodeData, CompactNodes
  <2> HIDE DEF k
  <2>3. Size(u) - k \in 0 .. Size(u)
    BY <2>2, SizeIsLen
  <2>4. n \in GapNodes /\ Content(n) = Content(u)
    BY <2>2, <2>3, MovedText
  <2> HIDE DEF n
  <2>5. TextOf(n) = TextOf(u)
    BY <2>2, <2>4, NodeText DEF NodeData
  <2>6. Texts' = Texts
    BY <2>1, <2>5, TextsAfter DEF Texts
  <2> QED BY <2>1, <2>6 DEF Allocates
<1> QED BY <1>1, <1>2, <1>3

(* Every edit changes exactly the characters it was asked to change, in its *)
(* own node, a split divides where it was told to, and everything else      *)
(* leaves both nodes as they were (Nodes.hpp:66-221): what BiModalText      *)
(* relies on node by node.                                                  *)
THEOREM NodesEditExactly == Spec => EachNodeExact
<1> DEFINE Done == \/ EditsExactly
                   \/ AllocMayFail /\ Allocates /\ Texts' = Texts
<1>1. IInv /\ [Next]_vars => [Done]_vars
  <2> SUFFICES ASSUME IInv, Next PROVE Done
    OBVIOUS
  <2>1. CASE CallInsert \/ CallErase \/ CallSplit \/ CallOptimize
    BY <2>1, CallsExactly
  <2>2. CASE DoInsert
    BY <2>2, InsertsExactly
  <2>3. CASE DoErase
    BY <2>3, ErasesExactly
  <2>4. CASE DoSplit
    BY <2>4, SplitsExactly
  <2>5. CASE DoOptimize
    BY <2>5, PacksExactly
  <2>6. CASE ConversionFails \/ InsertFails \/ SplitFails
    BY <2>6, FailuresKeepTexts
  <2> QED BY <2>1, <2>2, <2>3, <2>4, <2>5, <2>6 DEF Next
<1> QED BY <1>1, Inductive, PTL DEF Spec, EachNodeExact
===============================================================================
