------------------------- MODULE SimpleGapBufferProofs -------------------------
(***************************************************************************)
(* The gap buffer of src/Baselines.hpp keeps its gap inside the buffer and *)
(* is an abstract text: for every alphabet, capacity, growth, input and    *)
(* length.                                                                 *)
(***************************************************************************)
EXTENDS SimpleGapBuffer, TextLemmas

(* The grown buffer has the same text around a gap of at least needed bytes.*)
Grown(b, gs, ge, needed) ==
  \E c \in Seq(Byte), he \in Nat :
    /\ Grow(Gap(b, gs, ge), needed) = Gap(c, gs, he)
    /\ gs + needed <= he /\ he <= Len(c)
    /\ Chars(c, gs, he) = Chars(b, gs, ge)

(* expand() keeps the text and makes a gap of at least what was needed.     *)
LEMMA GrowKeeps ==
  ASSUME NEW b \in Seq(Byte), NEW gs \in Nat, NEW ge \in Nat,
         gs <= ge, ge <= Len(b), NEW needed \in Nat
  PROVE  Grown(b, gs, ge, needed)
<1> DEFINE cap == MaxOf(2 * Len(b), Len(b) + needed)
<1>1. PICK he \in Nat : gs + needed <= he /\ he + (Len(b) - ge) = cap
  <2>1. Len(b) \in Nat /\ cap \in Nat /\ cap >= Len(b) + needed
    BY DEF MaxOf
  <2> HIDE DEF cap
  <2>2. /\ cap - (Len(b) - ge) \in Nat /\ gs + needed <= cap - (Len(b) - ge)
        /\ (cap - (Len(b) - ge)) + (Len(b) - ge) = cap
    BY <2>1
  <2> QED BY <2>2
<1> DEFINE c == Copy(Copy(Vector(he + (Len(b) - ge)), 0, Slice(b, 0, gs)),
                     he, Slice(b, ge, Len(b)))
<1>2. /\ gs <= he /\ he <= he + (Len(b) - ge)
      /\ (he + (Len(b) - ge)) - (Len(b) - ge) = he
  BY <1>1
<1>3. Grow(Gap(b, gs, ge), needed) = Gap(c, gs, he)
  <2> DEFINE n == Gap(b, gs, ge)
  <2>1. n.buf = b /\ n.gap_start = gs /\ n.gap_end = ge
    BY GapFields
  <2>2. FrontSpan(n) = Slice(b, 0, gs) /\ BackSpan(n) = Slice(b, ge, Len(b))
    BY GapSpans
  <2> HIDE DEF n, cap
  <2>3. Grow(n, needed) =
          Gap(Copy(Copy(Vector(cap), 0, Slice(b, 0, gs)),
                   cap - (Len(b) - ge), Slice(b, ge, Len(b))),
              gs, cap - (Len(b) - ge))
    BY <2>1, <2>2 DEF Grow, cap
  <2> QED BY <1>1, <1>2, <2>3 DEF n
<1>4. Expanded(c, b, gs, ge, he)
  BY <1>2, ExpandedBytes
<1> HIDE DEF c
<1>5. Chars(c, gs, he) = Chars(b, gs, ge)
  BY <1>2, <1>4, ExpandedChars
<1>6. c \in Seq(Byte) /\ he <= Len(c)
  BY <1>2, <1>4 DEF Expanded
<1> QED BY <1>1, <1>3, <1>5, <1>6 DEF Grown

(* insert(pos, string) and insert(pos, char): the gap is moved and, where   *)
(* it is too small, grown by any amount that makes room; then it is filled. *)
LEMMA InsertedText ==
  ASSUME NEW n \in GapNodes, NEW p \in 0 .. Size(n), NEW s \in Seq(Byte),
         NEW r, NEW needed \in Nat, Len(s) <= needed,
         \/ r = MoveGap(n, p) /\ Len(s) <= GapLen(r)
         \/ r = Grow(MoveGap(n, p), needed)
  PROVE  /\ FillGap(r, s) \in GapNodes
         /\ Content(FillGap(r, s)) =
              SubSeq(Content(n), 1, p) \o s
                \o SubSeq(Content(n), p + 1, Len(Content(n)))
<1>0. p \in Nat /\ Len(s) \in Nat
  BY SizeIsLen
<1>1. PICK b \in Seq(Byte), ge \in Nat :
        /\ MoveGap(n, p) = Gap(b, p, ge)
        /\ p <= ge /\ ge <= Len(b)
        /\ Chars(b, p, ge) = Content(n)
  BY MoveGapKeeps
<1>2. PICK c \in Seq(Byte), he \in Nat :
        /\ r = Gap(c, p, he)
        /\ p + Len(s) <= he /\ he <= Len(c)
        /\ Chars(c, p, he) = Content(n)
  <2>1. CASE r = MoveGap(n, p) /\ Len(s) <= GapLen(r)
    <3>1. GapLen(r) = ge - p
      BY <1>0, <1>1, <2>1, GapFields
    <3>2. p + Len(s) <= ge
      BY <1>0, <2>1, <3>1
    <3> QED BY <1>1, <2>1, <3>2
  <2>2. CASE r = Grow(MoveGap(n, p), needed)
    <3>0. Grown(b, p, ge, needed)
      BY <1>0, <1>1, GrowKeeps
    <3>1. PICK c \in Seq(Byte), he \in Nat :
            /\ Grow(Gap(b, p, ge), needed) = Gap(c, p, he)
            /\ p + needed <= he /\ he <= Len(c)
            /\ Chars(c, p, he) = Chars(b, p, ge)
      BY <3>0 DEF Grown
    <3>2. p + Len(s) <= he
      <4>1. PICK l \in Nat : l = Len(s) /\ l <= needed
        BY <1>0
      <4>2. p + l <= p + needed /\ p + needed <= he
        BY <1>0, <3>1, <4>1
      <4> QED BY <1>0, <4>1, <4>2
    <3>3. r = Gap(c, p, he) /\ Chars(c, p, he) = Content(n)
      BY <1>1, <2>2, <3>1
    <3> QED BY <3>1, <3>2, <3>3
  <2> QED BY <2>1, <2>2
<1>3. /\ FillGap(Gap(c, p, he), s) \in GapNodes
      /\ Content(FillGap(Gap(c, p, he), s)) =
           SubSeq(Content(n), 1, p) \o s
             \o SubSeq(Content(n), p + 1, Len(Content(n)))
  <2>1. LET t == Chars(c, p, he)
        IN  /\ FillGap(Gap(c, p, he), s) \in GapNodes
            /\ Content(FillGap(Gap(c, p, he), s)) =
                 SubSeq(t, 1, p) \o s \o SubSeq(t, p + 1, Len(t))
    BY <1>0, <1>2, FillGapText, ZenonT(60)
  <2> QED BY <1>2, <2>1
<1> QED BY <1>2, <1>3

-----------------------------------------------------------------------------
(***************************************************************************)
(* What each operation does.                                               *)
(***************************************************************************)
Spliced(p, s) == SubSeq(Text, 1, p) \o s \o SubSeq(Text, p + 1, Len(Text))

(* insert(pos, char) makes room for CharGrowth bytes and writes one.        *)
OneChar == req.op = "insert_char" => Len(req.str) = 1

(* The text consists of characters, never of fill bytes.                    *)
CleanText == Text \in Seq(Char)

IInv == TypeOK /\ CleanText /\ OneChar

(* What is known of a call under way.                                       *)
LEMMA CallFacts ==
  ASSUME IInv
  PROVE  /\ g \in GapNodes /\ Text \in Seq(Char)
         /\ Size(g) = Len(Text) /\ Size(g) \in Nat
         /\ req.pos \in Nat /\ req.len \in Nat
         /\ req.str \in Seq(Char) /\ req.str \in Seq(Byte)
         /\ Placed \in 0 .. Size(g)
<1>1. g \in GapNodes /\ Text \in Seq(Char) /\ req \in Call \cup {NoCall}
  BY DEF IInv, TypeOK, CleanText
<1>2. Size(g) = Len(Text) /\ Size(g) \in Nat
  BY <1>1, SizeIsLen DEF Text
<1>3. req.pos \in Nat /\ req.len \in Nat /\ req.str \in Seq(Char)
  <2>1. CASE req \in Call
    BY <2>1 DEF Call
  <2>2. CASE req = NoCall
    BY <2>2 DEF NoCall
  <2> QED BY <1>1, <2>1, <2>2
<1>4. req.str \in Seq(Byte)
  BY <1>3 DEF Byte
<1>5. Placed \in 0 .. Size(g)
  BY <1>2, <1>3 DEF Placed
<1> QED BY <1>1, <1>2, <1>3, <1>4, <1>5

(* Both insertions put the string where the position is, or at the end.     *)
LEMMA Inserts ==
  ASSUME IInv, DoInsert \/ DoInsertChar
  PROVE  g' \in GapNodes /\ Text' = Spliced(Placed, req.str)
<1>1. /\ g \in GapNodes /\ Text \in Seq(Char)
      /\ req.str \in Seq(Byte) /\ Len(req.str) \in Nat
      /\ Placed \in 0 .. Size(g)
  BY CallFacts
<1>2. PICK b \in Seq(Byte), ge \in Nat :
        /\ Opened = Gap(b, Placed, ge)
        /\ Placed <= ge /\ ge <= Len(b)
  BY <1>1, MoveGapKeeps DEF Opened
<1>3. Placed \in Nat
  BY CallFacts
<1>4. GapLen(Opened) = ge - Placed /\ Opened.gap_start = Placed /\ Opened.gap_end = ge
  BY <1>2, <1>3, GapFields
<1>5. ASSUME NEW r, NEW needed \in Nat, Len(req.str) <= needed,
             g' = FillGap(r, req.str),
             \/ r = MoveGap(g, Placed) /\ Len(req.str) <= GapLen(r)
             \/ r = Grow(MoveGap(g, Placed), needed)
      PROVE  g' \in GapNodes /\ Text' = Spliced(Placed, req.str)
  <2>1. /\ FillGap(r, req.str) \in GapNodes
        /\ Content(FillGap(r, req.str)) = Spliced(Placed, req.str)
    BY <1>1, <1>5, InsertedText DEF Text, Spliced
  <2> QED BY <1>5, <2>1 DEF Text
<1>6. CASE DoInsert
  <2>1. PICK r : /\ g' = FillGap(r, req.str)
                 /\ r = IF GapLen(Opened) < Len(req.str)
                          THEN Grow(Opened, Len(req.str)) ELSE Opened
    BY <1>6 DEF DoInsert
  <2>2. CASE GapLen(Opened) < Len(req.str)
    <3>1. r = Grow(MoveGap(g, Placed), Len(req.str))
      BY <2>1, <2>2 DEF Opened
    <3>2. Len(req.str) \in Nat /\ Len(req.str) <= Len(req.str)
      BY <1>1
    <3> QED BY <1>5, <2>1, <3>1, <3>2
  <2>3. CASE ~(GapLen(Opened) < Len(req.str))
    <3>1. Len(req.str) <= GapLen(Opened)
      BY <1>1, <1>3, <1>4, <2>3
    <3>2. r = MoveGap(g, Placed) /\ Len(req.str) <= GapLen(r)
      BY <2>1, <2>3, <3>1 DEF Opened
    <3> QED BY <1>1, <1>5, <2>1, <3>2
  <2> QED BY <2>2, <2>3
<1>7. CASE DoInsertChar
  <2>1. PICK r : /\ g' = FillGap(r, req.str)
                 /\ r = IF Opened.gap_start = Opened.gap_end
                          THEN Grow(Opened, CharGrowth) ELSE Opened
    BY <1>7 DEF DoInsertChar
  <2>2. Len(req.str) = 1
    BY <1>7 DEF DoInsertChar, IInv, OneChar
  <2>3. CASE Opened.gap_start = Opened.gap_end
    <3>1. CharGrowth \in Nat /\ 1 <= CharGrowth
      BY GapBufferAssumption
    <3>2. r = Grow(MoveGap(g, Placed), CharGrowth)
      BY <2>1, <2>3 DEF Opened
    <3> QED BY <1>1, <1>5, <2>1, <2>2, <3>1, <3>2
  <2>4. CASE Opened.gap_start # Opened.gap_end
    <3>1. 1 <= GapLen(Opened)
      BY <1>2, <1>3, <1>4, <2>4
    <3>2. r = MoveGap(g, Placed) /\ Len(req.str) <= GapLen(r)
      BY <2>1, <2>2, <2>4, <3>1 DEF Opened
    <3> QED BY <1>1, <1>5, <2>1, <2>2, <3>2
  <2> QED BY <2>3, <2>4
<1> QED BY <1>6, <1>7
(* The erase takes its characters at once, and no more than there are.      *)
LEMMA Erases ==
  ASSUME IInv, DoErase
  PROVE  /\ g' \in GapNodes
         /\ \E k \in Nat :
              /\ k = IF req.pos + req.len > Len(Text) THEN Len(Text) - req.pos
                                                     ELSE req.len
              /\ Text' = SubSeq(Text, 1, req.pos)
                          \o SubSeq(Text, req.pos + k + 1, Len(Text))
<1>1. /\ g \in GapNodes /\ Size(g) = Len(Text) /\ Size(g) \in Nat
      /\ req.pos \in Nat /\ req.len \in Nat /\ req.pos < Size(g)
  BY CallFacts DEF DoErase
<1>2. PICK k \in Nat :
        /\ k = IF req.pos + req.len > Size(g) THEN Size(g) - req.pos ELSE req.len
        /\ req.pos + k <= Size(g)
  BY <1>1
<1>3. g' = Cut(g, req.pos, k)
  BY <1>2 DEF DoErase, Cut
<1>4. req.pos \in 0 .. Size(g)
  BY <1>1
<1>5. /\ Cut(g, req.pos, k) \in GapNodes
      /\ Content(Cut(g, req.pos, k)) =
           SubSeq(Content(g), 1, req.pos)
             \o SubSeq(Content(g), req.pos + k + 1, Len(Content(g)))
  BY <1>1, <1>2, <1>4, CutText
<1> QED BY <1>1, <1>2, <1>3, <1>5 DEF Text

-----------------------------------------------------------------------------
(***************************************************************************)
(* The invariant, for every reachable state.                               *)
(***************************************************************************)
(* The buffer begins as one gap.                                            *)
LEMMA InitHolds ==
  ASSUME Init
  PROVE  IInv
<1>1. /\ Vector(InitialSize) \in Seq(Byte) /\ Len(Vector(InitialSize)) = InitialSize
      /\ InitialSize \in Nat /\ 0 \in Nat /\ 0 <= InitialSize
  BY VectorType, GapBufferAssumption
<1>2. g \in GapNodes
  BY <1>1, GapIsNode DEF Init
<1>3. Text = << >>
  <2>1. Size(g) = 0
    BY <1>1, GapFields DEF Init
  <2>2. Len(Text) = 0 /\ Text \in Seq(Byte)
    BY <1>2, <2>1, SizeIsLen DEF Text
  <2> QED BY <2>2
<1>4. Text \in Seq(Char)
  BY <1>3
<1>5. req = NoCall /\ req.op = "none"
  BY DEF Init, NoCall
<1> QED BY <1>2, <1>4, <1>5 DEF IInv, TypeOK, CleanText, OneChar

(* A call leaves the buffer as it is.                                       *)
LEMMA CallKeeps ==
  ASSUME IInv, CallInsert \/ CallInsertChar \/ CallErase
  PROVE  IInv' /\ Text' = Text /\ req' \in Call /\ req = NoCall
<1>1. g \in GapNodes /\ Size(g) \in Nat /\ Text \in Seq(Char)
  BY CallFacts
<1>2. Text' = Text /\ g' \in GapNodes /\ req = NoCall
  BY <1>1 DEF CallInsert, CallInsertChar, CallErase, Text
<1>3. ASSUME NEW p \in 0 .. Size(g) + 1 PROVE p \in Nat
  BY <1>1
<1>4. CASE CallInsert
  <2>1. PICK s \in Inputs, p \in 0 .. Size(g) + 1 :
          req' = [op |-> "insert", pos |-> p, str |-> s, len |-> 0]
    BY <1>4 DEF CallInsert
  <2>2. s \in Seq(Char) /\ p \in Nat
    BY <1>3, GapBufferAssumption
  <2>3. req' \in Call /\ req'.op = "insert"
    BY <2>1, <2>2 DEF Call
  <2> QED BY <1>1, <1>2, <2>3 DEF IInv, TypeOK, CleanText, OneChar
<1>5. CASE CallInsertChar
  <2>1. PICK c \in Char, p \in 0 .. Size(g) + 1 :
          req' = [op |-> "insert_char", pos |-> p, str |-> <<c>>, len |-> 0]
    BY <1>5 DEF CallInsertChar
  <2>2. <<c>> \in Seq(Char) /\ Len(<<c>>) = 1 /\ p \in Nat
    BY <1>3
  <2>3. req' \in Call /\ Len(req'.str) = 1
    BY <2>1, <2>2 DEF Call
  <2> QED BY <1>1, <1>2, <2>3 DEF IInv, TypeOK, CleanText, OneChar
<1>6. CASE CallErase
  <2>1. PICK n \in EraseLens, p \in 0 .. Size(g) + 1 :
          req' = [op |-> "erase", pos |-> p, str |-> << >>, len |-> n]
    BY <1>6 DEF CallErase
  <2>2. n \in Nat /\ p \in Nat /\ << >> \in Seq(Char)
    BY <1>3, GapBufferAssumption
  <2>3. req' \in Call /\ req'.op = "erase"
    BY <2>1, <2>2 DEF Call
  <2> QED BY <1>1, <1>2, <2>3 DEF IInv, TypeOK, CleanText, OneChar
<1> QED BY <1>4, <1>5, <1>6

(* The body of an operation ends the call.                                  *)
LEMMA BodyKeeps ==
  ASSUME IInv, DoInsert \/ DoInsertChar \/ EraseIgnored \/ DoErase
  PROVE  IInv'
<1>1. /\ g \in GapNodes /\ Text \in Seq(Char) /\ req.pos \in Nat
      /\ req.str \in Seq(Char) /\ Placed \in 0 .. Len(Text)
  BY CallFacts
<1>2. req' = NoCall /\ req'.op = "none"
  BY DEF DoInsert, DoInsertChar, EraseIgnored, DoErase, Return, NoCall
<1>3. g' \in GapNodes /\ Text' \in Seq(Char)
  <2>1. CASE DoInsert \/ DoInsertChar
    <3>1. Spliced(Placed, req.str) \in Seq(Char)
      BY <1>1 DEF Spliced
    <3> QED BY <2>1, <3>1, Inserts
  <2>2. CASE EraseIgnored
    BY <1>1, <2>2 DEF EraseIgnored, Text
  <2>3. CASE DoErase
    <3>1. PICK k \in Nat : Text' = SubSeq(Text, 1, req.pos)
                                    \o SubSeq(Text, req.pos + k + 1, Len(Text))
      BY <2>3, Erases
    <3>2. g' \in GapNodes
      BY <2>3, Erases
    <3>3. req.pos \in 0 .. Len(Text)
      BY <2>3, CallFacts DEF DoErase
    <3>4. /\ SubSeq(Text, 1, req.pos) \in Seq(Char)
          /\ SubSeq(Text, req.pos + k + 1, Len(Text)) \in Seq(Char)
      BY <1>1, <3>3
    <3> QED BY <3>1, <3>2, <3>4
  <2> QED BY <2>1, <2>2, <2>3
<1> QED BY <1>2, <1>3 DEF IInv, TypeOK, CleanText, OneChar

(* IInv is an invariant: what TypeOK and CleanText say of the buffer is     *)
(* kept by every operation, given that insert(pos, char) writes one byte.   *)
THEOREM Inductive == Spec => []IInv
<1>1. Init => IInv
  BY InitHolds
<1>2. IInv /\ [Next]_vars => IInv'
  <2>1. CASE UNCHANGED vars
    BY <2>1 DEF vars, IInv, TypeOK, CleanText, OneChar, Text
  <2> QED BY <2>1, CallKeeps, BodyKeeps DEF Next
<1> QED BY <1>1, <1>2, PTL DEF Spec

(* The gap never leaves the buffer (Baselines.hpp:26-80), for every         *)
(* capacity, growth and sequence of calls.                                  *)
THEOREM TypeCorrect == Spec => []TypeOK
<1>1. IInv => TypeOK
  BY DEF IInv
<1> QED BY <1>1, Inductive, PTL

-----------------------------------------------------------------------------
(***************************************************************************)
(* The refinement of TextBuffer.                                           *)
(***************************************************************************)
(* What an observer sees of a call under way, and of its end.               *)
LEMMA Requests ==
  ASSUME IInv
  PROVE  /\ AbsReq.pos = req.pos /\ AbsReq.len = req.len /\ AbsReq.str = req.str
         /\ AbsReq.op = IF req.op = "insert_char" THEN "insert" ELSE req.op
         /\ req = NoCall => AbsReq = Abs!NoRequest
         /\ req \in Call => AbsReq \in Abs!Request
<1>1. CASE req \in Call
  <2>1. /\ AbsReq.pos = req.pos /\ AbsReq.len = req.len /\ AbsReq.str = req.str
        /\ AbsReq.op = IF req.op = "insert_char" THEN "insert" ELSE req.op
    BY <1>1 DEF AbsReq, Call
  <2>2. AbsReq \in Abs!Request
    BY <1>1 DEF AbsReq, Call, Abs!Request
  <2>3. req # NoCall
    BY <1>1 DEF Call, NoCall
  <2> QED BY <2>1, <2>2, <2>3
<1>2. CASE req = NoCall
  <2>1. AbsReq = Abs!NoRequest
    BY <1>2 DEF AbsReq, NoCall, Abs!NoRequest
  <2>2. req \notin Call
    BY <1>2 DEF Call, NoCall
  <2>3. /\ AbsReq.pos = req.pos /\ AbsReq.len = req.len /\ AbsReq.str = req.str
        /\ AbsReq.op = IF req.op = "insert_char" THEN "insert" ELSE req.op
    BY <1>2 DEF AbsReq, NoCall
  <2> QED BY <2>1, <2>2, <2>3
<1> QED BY <1>1, <1>2 DEF IInv, TypeOK

Mapped == IInv => /\ req = NoCall => AbsReq = Abs!NoRequest
                  /\ req \in Call => AbsReq \in Abs!Request

(* It holds of every state, the hypothesis IInv being inside.              *)
LEMMA MappedNow == Mapped
BY Requests DEF Mapped

(* The same of the state after a step.                                      *)
LEMMA MappedThen == Mapped'
<1>1. Mapped
  BY MappedNow
<1> QED BY <1>1, PTL

(* The empty text and no request.                                           *)
LEMMA InitImplements ==
  ASSUME Init
  PROVE  Abs!Init
<1>1. IInv
  BY InitHolds
<1>2. Text = << >>
  <2>1. Size(g) = 0
    <3>1. /\ Vector(InitialSize) \in Seq(Byte)
          /\ Len(Vector(InitialSize)) = InitialSize
          /\ InitialSize \in Nat /\ 0 \in Nat /\ 0 <= InitialSize
      BY VectorType, GapBufferAssumption
    <3> QED BY <3>1, GapFields DEF Init
  <2>2. Text \in Seq(Char) /\ Len(Text) = 0
    BY <1>1, <2>1, CallFacts
  <2> QED BY <2>2
<1>3. AbsReq = Abs!NoRequest
  BY <1>1, Requests DEF Init
<1> QED BY <1>2, <1>3 DEF Abs!Init

(* A call is invoked.                                                       *)
LEMMA CallImplements ==
  ASSUME IInv, CallInsert \/ CallInsertChar \/ CallErase
  PROVE  Abs!Next
<1>1. IInv' /\ Text' = Text /\ req' \in Call /\ req = NoCall
  BY CallKeeps
<1>2. AbsReq = Abs!NoRequest /\ AbsReq' \in Abs!Request
  BY <1>1, Requests, MappedThen DEF Mapped
<1> QED BY <1>1, <1>2 DEF Abs!Next, Abs!Invoke

(* An insertion is one, at the position or at the end.                      *)
LEMMA InsertImplements ==
  ASSUME IInv, DoInsert \/ DoInsertChar
  PROVE  Abs!Next
<1>1. IInv' /\ req' = NoCall
  BY BodyKeeps DEF DoInsert, DoInsertChar, Return
<1>2. AbsReq' = Abs!NoRequest
  BY <1>1, MappedThen DEF Mapped
<1>3. /\ AbsReq.op = "insert" /\ AbsReq.pos = req.pos /\ AbsReq.str = req.str
  BY Requests DEF DoInsert, DoInsertChar
<1>4. /\ Text \in Seq(Char) /\ Size(g) = Len(Text) /\ req.pos \in Nat
      /\ req.str \in Seq(Char)
  BY CallFacts
<1>5. Text' = Spliced(Placed, req.str)
  BY Inserts
<1>6. CASE req.pos <= Len(Text)
  <2>1. Placed = req.pos
    BY <1>4, <1>6 DEF Placed
  <2>2. Text' = Abs!StringInsert(Text, req.pos, req.str)
    BY <1>5, <2>1 DEF Spliced, Abs!StringInsert
  <2> QED BY <1>2, <1>3, <1>6, <2>2 DEF Abs!Next, Abs!Insert
<1>7. CASE req.pos > Len(Text)
  <2>1. Placed = Len(Text)
    BY <1>4, <1>7 DEF Placed
  <2>2. SubSeq(Text, 1, Len(Text)) = Text
    BY <1>4
  <2>3. SubSeq(Text, Len(Text) + 1, Len(Text)) = << >>
    BY <1>4
  <2>4. (Text \o req.str) \o << >> = Text \o req.str
    BY <1>4
  <2>5. Text' = Text \o req.str
    BY <1>5, <2>1, <2>2, <2>3, <2>4 DEF Spliced
  <2> QED BY <1>2, <1>3, <1>7, <2>5 DEF Abs!Next, Abs!InsertBeyondEnd
<1> QED BY <1>4, <1>6, <1>7

(* An erase is one, cut at the end of the text; one that is ignored erases  *)
(* nothing, or begins at or beyond the end.                                 *)
LEMMA EraseImplements ==
  ASSUME IInv, EraseIgnored \/ DoErase
  PROVE  Abs!Next
<1>1. IInv' /\ req' = NoCall
  BY BodyKeeps DEF EraseIgnored, DoErase, Return
<1>2. AbsReq' = Abs!NoRequest
  BY <1>1, MappedThen DEF Mapped
<1>3. /\ AbsReq.op = "erase" /\ AbsReq.pos = req.pos /\ AbsReq.len = req.len
  BY Requests DEF EraseIgnored, DoErase
<1>4. PICK t \in Seq(Char), p \in Nat, n \in Nat :
        /\ t = Text /\ p = req.pos /\ n = req.len /\ Size(g) = Len(t)
  BY CallFacts
<1>5. CASE EraseIgnored
  <2>1. Text' = t
    BY <1>4, <1>5 DEF EraseIgnored, Text
  <2>2. CASE p > Len(t)
    BY <1>2, <1>3, <1>4, <2>1, <2>2 DEF Abs!Next, Abs!EraseBeyondEnd
  <2>3. CASE p <= Len(t)
    <3>1. t = SubSeq(t, 1, p) \o SubSeq(t, p + n + 1, Len(t))
      <4>1. CASE p = Len(t)
        <5>1. SubSeq(t, p + n + 1, Len(t)) = << >> /\ SubSeq(t, 1, p) = t
          BY <4>1
        <5>2. t \o << >> = t
          OBVIOUS
        <5> QED BY <5>1, <5>2
      <4>2. CASE n = 0
        <5>1. p + n + 1 = p + 1 /\ p \in 0 .. Len(t)
          BY <2>3, <4>2
        <5>2. t = SubSeq(t, 1, p) \o SubSeq(t, p + 1, Len(t))
          BY <5>1, SeqParts
        <5> QED BY <5>1, <5>2
      <4>3. p = Len(t) \/ n = 0
        BY <1>4, <1>5, <2>3 DEF EraseIgnored
      <4> QED BY <4>1, <4>2, <4>3
    <3>2. Text' = Abs!StringErase(Text, AbsReq.pos, AbsReq.len)
      BY <1>3, <1>4, <2>1, <3>1 DEF Abs!StringErase
    <3> QED BY <1>2, <1>3, <1>4, <2>3, <3>2 DEF Abs!Next, Abs!Erase
  <2> QED BY <2>2, <2>3
<1>6. CASE DoErase
  <2>1. p < Len(t)
    BY <1>4, <1>6 DEF DoErase
  <2>2. PICK k \in Nat :
          /\ k = IF p + n > Len(t) THEN Len(t) - p ELSE n
          /\ Text' = SubSeq(t, 1, p) \o SubSeq(t, p + k + 1, Len(t))
    BY <1>4, <1>6, Erases
  <2>3. SubSeq(t, p + k + 1, Len(t)) = SubSeq(t, p + n + 1, Len(t))
    <3>1. CASE p + n > Len(t)
      <4>1. p + k + 1 > Len(t) /\ p + n + 1 > Len(t)
        BY <2>1, <2>2, <3>1
      <4> QED BY <4>1
    <3>2. CASE ~(p + n > Len(t))
      BY <2>2, <3>2
    <3> QED BY <3>1, <3>2
  <2>4. Text' = Abs!StringErase(Text, AbsReq.pos, AbsReq.len)
    BY <1>3, <1>4, <2>2, <2>3 DEF Abs!StringErase
  <2> QED BY <1>2, <1>3, <1>4, <2>1, <2>4 DEF Abs!Next, Abs!Erase
<1> QED BY <1>5, <1>6

(* The baseline is the std::string it is compared with: every behaviour of  *)
(* the gap buffer is one of the abstract text, positions beyond the end     *)
(* moved to the end.                                                        *)
THEOREM GapBufferImplementsText == Spec => Implements
<1>1. Init => Abs!Init
  BY InitImplements
<1>2. IInv /\ [Next]_vars => [Abs!Next]_(Abs!vars)
  <2>1. CASE UNCHANGED vars
    BY <2>1 DEF vars, Abs!vars, Text, AbsReq
  <2> QED BY <2>1, CallImplements, InsertImplements, EraseImplements DEF Next
<1> QED BY <1>1, <1>2, Inductive, PTL DEF Spec, Implements, Abs!Spec
===============================================================================
