---------------------------------- MODULE Rope ----------------------------------
(***************************************************************************)
(* librope (src/librope/rope.c) behind the class LibRope of                *)
(* src/librope_wrapper.cpp: a skip list of nodes that each hold up to      *)
(* NodeStrSize bytes of UTF-8.  skip[n][i] is the number of characters     *)
(* from the START of n to the start of next[n][i] (to the end of the text  *)
(* where that is null).  Unlike the sentinel of BiModalText the head holds *)
(* text too, and it grows taller as taller nodes appear.                   *)
(*                                                                         *)
(* The loops of iter_at_char_pos, rope_insert_at_iter, rope_del_at_iter    *)
(* and rope_free are stepped through one iteration at a time.  Sizes and   *)
(* skips are lengths of text in memory; a subtraction below zero would     *)
(* wrap a size_t, and TypeOK rules it out.                                 *)
(***************************************************************************)
EXTENDS Integers, FiniteSets, SequencesExt

CONSTANTS
  Node,        (* Bound: the nodes that can be allocated at one time.       *)
  head,        (* The node inline in the rope structure.                    *)
  Nil,         (* The null pointer.                                         *)
  Char,        (* The characters; Width[c] is their size in UTF-8.          *)
  Width,
  Nul,         (* The zero character, which ends a C string.                *)
  Bad,         (* A byte that no UTF-8 character starts with.               *)
  Inputs,      (* The strings a caller inserts.                             *)
  DelLens,     (* The lengths a caller erases.                              *)
  MaxHeight,   (* ROPE_MAX_HEIGHT: nodes are lower, the head may reach it.  *)
  NodeStrSize, (* ROPE_NODE_STR_SIZE.                                       *)
  MaxText      (* Bound: no insertion makes the text longer than this.      *)

ASSUME RopeAssumption ==
  /\ head # Nil /\ head \notin Node /\ Nil \notin Node
  /\ Nul \notin Char /\ Bad \notin Char /\ Nul # Bad
  /\ Inputs \subseteq Seq(Char \cup {Nul, Bad})
  /\ NodeStrSize \in Nat
  /\ Width \in [Char -> 1 .. NodeStrSize]
  /\ MaxHeight \in Nat \ {0, 1}
  /\ DelLens \subseteq Nat
  /\ MaxText \in Nat

VARIABLES
  height,    (* How many levels a node has; 0 when it is not allocated.     *)
  next,      (* nexts[i].node.                                              *)
  skip,      (* nexts[i].skip_size.                                         *)
  data,      (* The characters in str.                                      *)
  num_chars, (* The rope's character count,                                 *)
  num_bytes, (* and its byte count.                                         *)
  pc,        (* Where the call is: between calls it is "idle".              *)
  req,       (* Its arguments; req.len is what an erase has left to do.     *)
  e,         (* The node the call is on.                                    *)
  offset,    (* The characters of e (or left of it) before the position.    *)
  lvl,       (* The level iter_at_char_pos searches.                        *)
  iter,      (* iter[i]: the node whose level-i link spans the position,    *)
             (* and the characters from its start to the position.          *)
  rest,      (* What an insertion has still to put into new nodes,          *)
  tail       (* and the end of e it cut off, to be put back after it.       *)

heap   == <<height, next, skip, data, num_chars, num_bytes>>
locals == <<e, offset, lvl, iter, rest, tail>>
vars   == <<heap, pc, req, locals>>

-----------------------------------------------------------------------------
Levels    == 0 .. MaxHeight - 1
Cell      == Node \cup {head}
Pointer   == Node \cup {Nil}
Allocated == {n \in Node : height[n] > 0}
Free      == Node \ Allocated

MinOf(i, j) == IF i < j THEN i ELSE j

(* strlen counts characters as Len does; count_bytes_in_utf8 adds widths.   *)
Bytes(s) ==
  LET sum[k \in 0 .. Len(s)] == IF k = 0 THEN 0 ELSE sum[k - 1] + Width[s[k]]
  IN  sum[Len(s)]

(* bytelen_and_check_utf8 accepts it.                                       *)
Valid(s) == Bad \notin ToSet(s)

(* LibRope::insert hands over s.c_str(): what follows a zero is not seen.   *)
CStr(s) ==
  LET ends(k) == k = Len(s) \/ s[k + 1] = Nul
  IN  SubSeq(s, 1, CHOOSE k \in 0 .. Len(s) :
                     ends(k) /\ \A j \in 0 .. k - 1 : ~ends(j))

(* Slip: the bytes behind the position are not moved but overwritten.       *)
StringInsertOver(t, p, s) ==
  SubSeq(t, 1, p) \o s \o SubSeq(t, p + 1 + Len(s), Len(t))

StringInsert(t, p, s) == SubSeq(t, 1, p) \o s \o SubSeq(t, p + 1, Len(t))
StringErase(t, p, n) == SubSeq(t, 1, p) \o SubSeq(t, p + n + 1, Len(t))

NoRequest == [op |-> "none", pos |-> 0, str |-> << >>, len |-> 0]

Request == [op  : {"insert", "erase", "clear"},
            pos : Nat, str : Seq(Char \cup {Bad}), len : Nat]

-----------------------------------------------------------------------------
(* A level the rope has not reached yet.                                    *)
NoLink == [node |-> Nil, skip |-> 0]
NoIter == [i \in Levels |-> NoLink]

Init ==
  /\ height = [c \in Cell |-> IF c = head THEN 1 ELSE 0]
  /\ next = [c \in Cell |-> [i \in Levels |-> Nil]]
  /\ skip = [c \in Cell |-> [i \in Levels |-> 0]]
  /\ data = [c \in Cell |-> << >>]
  /\ num_chars = 0 /\ num_bytes = 0
  /\ pc = "idle"
  /\ req = NoRequest
  /\ e = head /\ offset = 0 /\ lvl = 0 /\ iter = NoIter
  /\ rest = << >> /\ tail = << >>

(***************************************************************************)
(* Calls of LibRope.  "clear" is its destruction, and a new rope.          *)
(***************************************************************************)
Call(r) ==
  /\ pc = "idle"
  /\ pc' = "entry"
  /\ req' = r
  /\ UNCHANGED <<heap, locals>>

(* Bounds: the text fits MaxText, and there are nodes for every character   *)
(* and for the end that is cut off.                                         *)
CallInsert ==
  \E s \in Inputs, p \in 0 .. num_chars + 1 :
    /\ num_chars + Len(s) <= MaxText
    /\ Cardinality(Free) > Len(s)
    /\ Call([op |-> "insert", pos |-> p, str |-> CStr(s), len |-> 0])

CallErase ==
  \E n \in DelLens, p \in 0 .. num_chars + 1 :
    Call([op |-> "erase", pos |-> p, str |-> << >>, len |-> n])

CallDestroy == Call([op |-> "clear", pos |-> 0, str |-> << >>, len |-> 0])

Return ==
  /\ pc' = "idle"
  /\ req' = NoRequest
  /\ e' = head /\ offset' = 0 /\ lvl' = 0 /\ iter' = NoIter
  /\ rest' = << >> /\ tail' = << >>

-----------------------------------------------------------------------------
(***************************************************************************)
(* rope_insert and rope_del bound the position and the length, then        *)
(* iter_at_char_pos goes right while the position lies beyond the link and *)
(* down otherwise.                                                         *)
(***************************************************************************)
(* Slip: the position is not bounded.                                       *)
ClampedAsGiven(p) == p

Clamped(p) == MinOf(p, num_chars)

Start ==
  /\ pc = "entry" /\ req.op \in {"insert", "erase"}
  /\ pc' = "find"
  /\ req' = [req EXCEPT !.len = MinOf(@, num_chars - Clamped(req.pos))]
  /\ offset' = Clamped(req.pos)
  /\ e' = head
  /\ lvl' = height[head] - 1
  /\ UNCHANGED <<heap, iter, rest, tail>>

Beyond == offset > skip[e][lvl]

FindRight ==
  /\ pc = "find"
  /\ Beyond
  /\ offset' = offset - skip[e][lvl]
  /\ e' = next[e][lvl]
  /\ UNCHANGED <<heap, pc, req, lvl, iter, rest, tail>>

FindDown ==
  /\ pc = "find"
  /\ ~Beyond
  /\ iter' = [iter EXCEPT ![lvl] = [node |-> e, skip |-> offset]]
  /\ IF lvl > 0 THEN lvl' = lvl - 1 /\ UNCHANGED pc
                ELSE pc' = "found" /\ UNCHANGED lvl
  /\ UNCHANGED <<heap, req, e, offset, rest, tail>>

Found(op) == pc = "found" /\ req.op = op

(* The levels the head has; iter is filled in at these.                     *)
Reached == 0 .. height[head] - 1

(* update_offset_list: every link that spans the position grows by k.       *)
Spans(it, k) ==
  [c \in Cell |-> [i \in Levels |->
     IF i \in Reached /\ it[i].node = c THEN skip[c][i] + k ELSE skip[c][i]]]

-----------------------------------------------------------------------------
(***************************************************************************)
(* rope_insert_at_iter.  The string goes into the node found, or to the    *)
(* start of the next one, if it fits there.                                *)
(***************************************************************************)
InvalidUtf8 ==
  /\ Found("insert")
  /\ ~Valid(req.str)
  /\ Return
  /\ UNCHANGED heap

Room(n) == Bytes(data[n]) + Bytes(req.str) <= NodeStrSize

AtEnd == offset = Len(data[e])

NextHasRoom == AtEnd /\ next[e][0] # Nil /\ Room(next[e][0])

Put(n, off, it) ==
  /\ data' = [data EXCEPT ![n] = StringInsert(@, off, req.str)]
  /\ skip' = Spans(it, Len(req.str))
  /\ num_chars' = num_chars + Len(req.str)
  /\ num_bytes' = num_bytes + Bytes(req.str)
  /\ Return
  /\ UNCHANGED <<height, next>>

InsertHere ==
  /\ Found("insert") /\ Valid(req.str)
  /\ Room(e)
  /\ Put(e, offset, iter)

(* Slip: the iterator is left in the node before.                           *)
MovedNowhere(n) == iter

(* The iterator moves to n at the levels n has.                             *)
MovedTo(n) == [i \in Levels |-> IF i < height[n]
                                  THEN [iter[i] EXCEPT !.node = n]
                                  ELSE iter[i]]

InsertIntoNext ==
  /\ Found("insert") /\ Valid(req.str)
  /\ ~Room(e) /\ NextHasRoom
  /\ Put(next[e][0], 0, MovedTo(next[e][0]))

(* There is no room.  The end of e is cut off, to be put back last.         *)
InsertCut ==
  /\ Found("insert") /\ Valid(req.str)
  /\ ~Room(e) /\ ~NextHasRoom
  /\ LET num_end_chars == skip[e][0] - offset
     IN  /\ tail' = SubSeq(data[e], offset + 1, Len(data[e]))
         /\ data' = [data EXCEPT ![e] = SubSeq(@, 1, offset)]
         /\ skip' = Spans(iter, -num_end_chars)
         /\ num_chars' = num_chars - num_end_chars
         /\ num_bytes' = num_bytes - Bytes(tail')
  /\ rest' = req.str
  /\ pc' = "pieces"
  /\ UNCHANGED <<height, next, req, e, offset, lvl, iter>>

(***************************************************************************)
(* insert_at: a new node of k levels that holds s, behind the position.    *)
(* If it is as tall as the head, the head grows: its top link and that of  *)
(* the iterator are copied upwards.                                        *)
(***************************************************************************)
Raised(f, k) == [i \in Levels |-> IF i \in height[head] .. k
                                    THEN f[height[head] - 1] ELSE f[i]]

(* Slip: the levels above those of n are left behind.                       *)
IterBehindLow(it, n, k, top, len) ==
  [i \in Levels |-> IF i < k THEN [node |-> n, skip |-> len] ELSE it[i]]

(* The iterator moves to the end of n.                                      *)
IterBehind(it, n, k, top, len) ==
  [i \in Levels |-> CASE i < k -> [node |-> n, skip |-> len]
                      [] i \in k .. top - 1 -> [it[i] EXCEPT !.skip = @ + len]
                      [] OTHER -> it[i]]

LinkNew(s) ==
  \E n \in Free, k \in 1 .. MaxHeight - 1 :
    LET it  == Raised(iter, k)
        nx  == [next EXCEPT ![head] = Raised(@, k)]
        sk  == [skip EXCEPT ![head] = Raised(@, k)]
        top == IF height[head] <= k THEN k + 1 ELSE height[head]
    IN  /\ height' = [height EXCEPT ![n] = k, ![head] = top]
        /\ data' = [data EXCEPT ![n] = s]
        /\ next' = [c \in Cell |-> [i \in Levels |->
                      CASE i < k /\ c = n          -> nx[it[i].node][i]
                        [] i < k /\ c = it[i].node -> n
                        [] OTHER                   -> nx[c][i]]]
        /\ skip' = [c \in Cell |-> [i \in Levels |->
                      CASE i < k /\ c = n ->
                             Len(s) + sk[it[i].node][i] - it[i].skip
                        [] i < k /\ c = it[i].node -> it[i].skip
                        [] i \in k .. top - 1 /\ c = it[i].node
                                           -> sk[c][i] + Len(s)
                        [] OTHER           -> sk[c][i]]]
        /\ iter' = IterBehind(it, n, k, top, Len(s))
        /\ num_chars' = num_chars + Len(s)
        /\ num_bytes' = num_bytes + Bytes(s)

(* As many characters as a node holds: no boundary inside a character.      *)
PieceLen ==
  LET fits(k) == Bytes(SubSeq(rest, 1, k)) <= NodeStrSize
  IN  CHOOSE k \in 1 .. Len(rest) : /\ fits(k)
                                    /\ k = Len(rest) \/ ~fits(k + 1)

InsertPiece ==
  /\ pc = "pieces"
  /\ rest # << >>
  /\ LinkNew(SubSeq(rest, 1, PieceLen))
  /\ rest' = SubSeq(rest, PieceLen + 1, Len(rest))
  /\ UNCHANGED <<pc, req, e, offset, lvl, tail>>

InsertTail ==
  /\ pc = "pieces"
  /\ rest = << >> /\ tail # << >>
  /\ LinkNew(tail)
  /\ tail' = << >>
  /\ UNCHANGED <<pc, req, e, offset, lvl, rest>>

InsertDone ==
  /\ pc = "pieces"
  /\ rest = << >> /\ tail = << >>
  /\ Return
  /\ UNCHANGED heap

-----------------------------------------------------------------------------
(***************************************************************************)
(* rope_del_at_iter.  Each round takes characters from one node.           *)
(***************************************************************************)
DelStart ==
  /\ Found("erase")
  /\ num_chars' = num_chars - req.len
  /\ pc' = "del"
  /\ UNCHANGED <<height, next, skip, data, num_bytes, req, locals>>

(* Slip: the end of e is not noticed.                                       *)
DelAtEndMissed == FALSE

(* At the end of e the round goes to the node behind the iterator.          *)
DelAtEnd  == offset = skip[e][0]
DelNode   == IF DelAtEnd THEN next[iter[0].node][0] ELSE e
DelOffset == IF DelAtEnd THEN 0 ELSE offset

Removed == MinOf(req.len, skip[DelNode][0] - DelOffset)

KeepsNode == Removed < skip[DelNode][0] \/ DelNode = head

DelLoop == pc = "del" /\ req.len > 0

(* Slip: the length is not counted down.                                    *)
DelAgainWhole ==
  UNCHANGED <<req, num_chars, pc, lvl, iter, rest, tail>>

DelAgain ==
  /\ req' = [req EXCEPT !.len = @ - Removed]
  /\ UNCHANGED <<num_chars, pc, lvl, iter, rest, tail>>

(* A link that spans the node from above.                                   *)
Above(c, i) == i \in height[DelNode] .. height[head] - 1 /\ c = iter[i].node

DelTrim ==
  /\ DelLoop
  /\ KeepsNode
  /\ data' = [data EXCEPT ![DelNode] = StringErase(@, DelOffset, Removed)]
  /\ num_bytes' = num_bytes
       - Bytes(SubSeq(data[DelNode], DelOffset + 1, DelOffset + Removed))
  /\ skip' = [c \in Cell |-> [i \in Levels |->
                IF (c = DelNode /\ i < height[c]) \/ Above(c, i)
                  THEN skip[c][i] - Removed ELSE skip[c][i]]]
  /\ e' = DelNode
  /\ offset' = DelOffset
  /\ DelAgain
  /\ UNCHANGED <<height, next>>

(* Slip: the node stays linked at level 0.                                  *)
LeadsToUpper(c, i) == i \in 1 .. height[DelNode] - 1 /\ c = iter[i].node

LeadsTo(c, i) == i < height[DelNode] /\ c = iter[i].node

DelRemove ==
  /\ DelLoop
  /\ ~KeepsNode
  /\ next' = [c \in Cell |-> [i \in Levels |->
                CASE c = DelNode   -> Nil
                  [] LeadsTo(c, i) -> next[DelNode][i]
                  [] OTHER         -> next[c][i]]]
  /\ skip' = [c \in Cell |-> [i \in Levels |->
                CASE c = DelNode   -> 0
                  [] LeadsTo(c, i) -> skip[c][i] + skip[DelNode][i] - Removed
                  [] Above(c, i)   -> skip[c][i] - Removed
                  [] OTHER         -> skip[c][i]]]
  /\ num_bytes' = num_bytes - Bytes(data[DelNode])
  /\ height' = [height EXCEPT ![DelNode] = 0]
  /\ data' = [data EXCEPT ![DelNode] = << >>]
  /\ e' = next[DelNode][0]
  /\ offset' = DelOffset
  /\ DelAgain

DelDone ==
  /\ pc = "del"
  /\ req.len = 0
  /\ Return
  /\ UNCHANGED heap

-----------------------------------------------------------------------------
(***************************************************************************)
(* rope_free, the successor read before the node is freed; then rope_new.  *)
(***************************************************************************)
FreeStart ==
  /\ pc = "entry" /\ req.op = "clear"
  /\ pc' = "free"
  /\ e' = next[head][0]
  /\ UNCHANGED <<heap, req, offset, lvl, iter, rest, tail>>

FreeNode ==
  /\ pc = "free"
  /\ e # Nil
  /\ e' = next[e][0]
  /\ height' = [height EXCEPT ![e] = 0]
  /\ data' = [data EXCEPT ![e] = << >>]
  /\ next' = [next EXCEPT ![e] = [i \in Levels |-> Nil]]
  /\ skip' = [skip EXCEPT ![e] = [i \in Levels |-> 0]]
  /\ UNCHANGED <<num_chars, num_bytes, pc, req, offset, lvl, iter, rest, tail>>

FreeDone ==
  /\ pc = "free"
  /\ e = Nil
  /\ height' = [height EXCEPT ![head] = 1]
  /\ data' = [data EXCEPT ![head] = << >>]
  /\ next' = [next EXCEPT ![head] = [i \in Levels |-> Nil]]
  /\ skip' = [skip EXCEPT ![head] = [i \in Levels |-> 0]]
  /\ num_chars' = 0 /\ num_bytes' = 0
  /\ Return

-----------------------------------------------------------------------------
Insert == \/ InvalidUtf8 \/ InsertHere \/ InsertIntoNext
          \/ InsertCut \/ InsertPiece \/ InsertTail \/ InsertDone

Del == DelStart \/ DelTrim \/ DelRemove \/ DelDone

Destroy == FreeStart \/ FreeNode \/ FreeDone

(* A step of the call being served.                                         *)
Step == Start \/ FindRight \/ FindDown \/ Insert \/ Del \/ Destroy

Next == CallInsert \/ CallErase \/ CallDestroy \/ Step

Spec == Init /\ [][Next]_vars

-----------------------------------------------------------------------------
(***************************************************************************)
(* Properties.                                                             *)
(***************************************************************************)

(* Type invariant: no count, skip or offset has gone below zero, where a    *)
(* size_t would wrap, and the head is never taller than ROPE_MAX_HEIGHT.    *)
TypeOK ==
  /\ height \in [Cell -> 0 .. MaxHeight] /\ height[head] > 0
  /\ next \in [Cell -> [Levels -> Pointer]]
  /\ skip \in [Cell -> [Levels -> Nat]]
  /\ data \in [Cell -> Seq(Char)]
  /\ num_chars \in Nat /\ num_bytes \in Nat
  /\ pc \in {"idle", "entry", "find", "found", "pieces", "del", "free"}
  /\ req \in Request \cup {NoRequest}
  /\ e \in Cell \cup {Nil}
  /\ offset \in Nat
  /\ lvl \in Levels
  /\ iter \in [Levels -> [node : Cell \cup {Nil}, skip : Nat]]
  /\ rest \in Seq(Char) /\ tail \in Seq(Char)

(* rope_free leaves freed nodes behind it; everywhere else the lists can be *)
(* followed.                                                                *)
Whole == pc # "free"

(* The nodes that level 0 leads to from c.                                  *)
Behind[c \in Cell] ==
  IF next[c][0] = Nil THEN {} ELSE {next[c][0]} \cup Behind[next[c][0]]

Linked == Behind[head] \cup {head}

(* rope_write_cstr, begun at c.                                             *)
TextFrom[c \in Cell] ==
  data[c] \o (IF next[c][0] = Nil THEN << >> ELSE TextFrom[next[c][0]])

Text == TextFrom[head]

(* The characters before c.                                                 *)
StartOf(c) == Len(Text) - Len(TextFrom[c])

(* At every level, each link leads to the next node of that level (null     *)
(* behind the last) and its skip is the number of characters in between;    *)
(* the top level has the head alone.                                        *)
LinksExact ==
  /\ next[head][height[head] - 1] = Nil
  /\ \A c \in Linked :
       /\ c \notin Behind[c]
       /\ \A i \in 0 .. height[c] - 1 :
            LET m     == next[c][i]
                later == {n \in Behind[c] : height[n] > i}
            IN  /\ IF m = Nil THEN later = {}
                              ELSE /\ m \in later
                                   /\ later \ {m} \subseteq Behind[m]
                /\ skip[c][i] = (IF m = Nil THEN Len(Text) ELSE StartOf(m))
                                 - StartOf(c)

(* The two counters are those of the text, on which the bounds of           *)
(* positions and the buffer of scan() rely.                                 *)
CountsExact == num_chars = Len(Text) /\ num_bytes = Bytes(Text)

(* Every node but the head holds something, and none holds more bytes than  *)
(* str[] has.                                                               *)
NodesFilled ==
  \A c \in Linked : /\ c # head => data[c] # << >>
                    /\ Bytes(data[c]) <= NodeStrSize

(* What _rope_check asserts before and after a call, the links and nodes    *)
(* also between the steps of one: while a cut end waits to be put back, and *)
(* between the rounds of a deletion.                                        *)
RopeCheck == Whole => /\ LinksExact
                      /\ NodesFilled
                      /\ pc = "idle" => CountsExact

(* Where an edit writes through the iterator, every level of it stands on a *)
(* linked node that has that level, all at the same distance from the       *)
(* position, and the link found there spans it: also after the head has     *)
(* grown in the middle of an insertion, and after nodes behind the iterator *)
(* were freed.                                                              *)
IterExact ==
  pc \in {"found", "pieces", "del"} =>
    LET at(i) == StartOf(iter[i].node) + iter[i].skip
    IN  /\ \A i \in Reached :
             /\ iter[i].node \in Linked /\ height[iter[i].node] > i
             /\ at(i) = at(0)
             /\ iter[i].skip <= skip[iter[i].node][i]
             /\ iter[i].node = head \/ iter[i].skip > 0
        /\ pc # "pieces" => at(0) = MinOf(req.pos, Len(Text))

(* The node a step reads or frees exists: a search at level lvl stands on a *)
(* node of that level, a deletion finds a node while it has something left  *)
(* to delete, and nothing is freed twice.  No node is lost, and none that   *)
(* is linked has been freed.                                                *)
MemorySafe ==
  /\ pc = "find" => e \in Allocated \cup {head} /\ height[e] > lvl
  /\ DelLoop => e # Nil /\ DelNode \in Allocated \cup {head}
  /\ pc = "free" => e \in Allocated \cup {Nil}
  /\ Whole => Linked = Allocated \cup {head}

(* The text a caller would see.  While an insertion fills new nodes, what   *)
(* it has put there is not yet part of it and the cut end still is.         *)
AbsText ==
  CASE pc = "free" -> << >>
    [] pc = "pieces" ->
         LET done == Len(req.str) - Len(rest)
             p    == MinOf(req.pos, Len(Text) + Len(tail) - done)
         IN  SubSeq(Text, 1, p) \o tail \o SubSeq(Text, p + done + 1, Len(Text))
    [] OTHER -> Text

(* The request, where it is: an erase never takes more than there is, and a *)
(* string that is not UTF-8 changes nothing (the result of rope_insert is   *)
(* not looked at).                                                          *)
AbsReq ==
  CASE pc = "free" -> NoRequest
    [] pc # "free" /\ ~Valid(req.str) -> [NoRequest EXCEPT !.op = "keep"]
    [] OTHER ->
         [req EXCEPT !.len = IF req.pos < Len(Text)
                               THEN MinOf(@, Len(Text) - req.pos) ELSE 0]

(* A LibRope is an abstract text that moves positions beyond the end to the *)
(* end.  What it is given to insert is the C string.                        *)
Abs == INSTANCE TextBuffer WITH
         text <- AbsText,
         req  <- AbsReq,
         AllocMayFail <- FALSE,
         ClampsPosition <- TRUE

Implements == Abs!Spec

(* Every call ends: a step of it goes on to a later stage of the call, or   *)
(* stays in the same loop with less left to do,                             *)
Stage == CASE pc = "entry" -> 3 [] pc = "find" -> 2 [] pc = "found" -> 1
           [] OTHER -> 0

LeftToDo ==
  CASE pc = "find"   -> lvl + Cardinality(Behind[e])
    [] pc = "pieces" -> Len(rest) + Len(tail)
    [] pc = "del"    -> req.len
    [] pc = "free"   -> Cardinality(Allocated)
    [] OTHER         -> 0

CallsProgress ==
  [][pc # "idle" => \/ pc' = "idle"
                    \/ Stage' < Stage
                    \/ Stage' = Stage /\ LeftToDo' < LeftToDo]_vars

(* and until it has ended there is such a step, one that changes something: *)
(* no loop goes round doing nothing.                                        *)
NeverStuck == pc # "idle" => ENABLED <<Step>>_vars
===============================================================================
