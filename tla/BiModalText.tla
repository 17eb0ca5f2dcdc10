------------------------------ MODULE BiModalText ------------------------------
(***************************************************************************)
(* The skip list of text nodes (src/BiModalSkipList.hpp): nodes in a heap, *)
(* linked at several levels; span[n][i] is the number of characters from   *)
(* the end of n to the end of next[n][i] (to the end of the text where     *)
(* next[n][i] is null).  The loops of find_node, erase, optimize and clear *)
(* are stepped through one iteration at a time, with the locals of the     *)
(* call (x, acc, lvl, update) as variables that are reset when it returns. *)
(*                                                                         *)
(* Sizes, spans and offsets are lengths of text in memory, so no sum of    *)
(* them wraps; a difference below zero would, and TypeOK rules it out.     *)
(* Only the length given to erase is unbounded: it alone is added modulo   *)
(* SizeMod.                                                                *)
(*                                                                         *)
(* A node's storage is its mode and the characters it holds; NodePair      *)
(* shows that the byte buffers of Nodes.hpp keep exactly that.             *)
(***************************************************************************)
EXTENDS Integers, Sequences, FiniteSets

CONSTANTS
  Node,         (* Bound: the nodes that can be allocated at one time.      *)
  head,         (* The sentinel.                                            *)
  Nil,          (* The null pointer.                                        *)
  Char,         (* The characters of a text.                                *)
  Inputs,       (* The strings a caller inserts.                            *)
  EraseLens,    (* The lengths a caller erases.                             *)
  MaxLevel,     (* MAX_LEVEL.                                               *)
  NodeMax,      (* NODE_MAX_SIZE: a longer node is split.                   *)
  SizeMod,      (* size_t counts modulo SizeMod (2^64).                     *)
  MaxText,      (* Bound: no insertion makes the text longer than this.     *)
  AllocMayFail  (* May an allocation throw std::bad_alloc?                  *)

ASSUME BiModalAssumption ==
  /\ head # Nil /\ head \notin Node /\ Nil \notin Node
  /\ Inputs \subseteq Seq(Char)
  /\ MaxLevel \in Nat \ {0}
  /\ NodeMax \in Nat \ {0}
  /\ MaxText \in Nat
  /\ SizeMod \in Nat /\ MaxText < SizeMod
  /\ EraseLens \subseteq 0 .. SizeMod - 1
  /\ AllocMayFail \in BOOLEAN

VARIABLES
  level,      (* How many levels a node has; 0 when it is not allocated.    *)
  next,       (* next[n][i]: its successor at level i.                      *)
  span,       (* span[n][i]: the characters that link jumps over.           *)
  mode,       (* Whether its data is a GapNode or a CompactNode.            *)
  data,       (* The characters it holds.                                   *)
  total_size, (* The size the text reports.                                 *)
  pc,         (* Where the call is: between calls it is "idle".             *)
  req,        (* Its arguments; req.len is what erase has left to do.       *)
  outcome,    (* How the last call ended.                                   *)
  x,          (* The node find_node (or the walk of optimize, clear) is on. *)
  acc,        (* accumulated: the characters before x->next (skip: before x)*)
  lvl,        (* The level find_node searches.                              *)
  update      (* update[i]: the node whose level-i link spans the position. *)

heap   == <<level, next, span, mode, data, total_size>>
locals == <<x, acc, lvl, update>>
vars   == <<heap, pc, req, outcome, locals>>

-----------------------------------------------------------------------------
Levels  == 0 .. MaxLevel - 1
Cell    == Node \cup {head}
Pointer == Node \cup {Nil}

MinOf(i, j) == IF i < j THEN i ELSE j

NoRequest == [op |-> "none", pos |-> 0, str |-> << >>, len |-> 0]

Request == [op  : {"insert", "erase", "keep", "clear"},
            pos : Nat, str : Seq(Char), len : Nat]

Allocated == {n \in Node : level[n] > 0}
Free      == Node \ Allocated

Size(n) == Len(data[n])

(* to_string() and scan(): the characters of the nodes behind c, which are  *)
(* followed on level 0.                                                     *)
TextBehind[c \in Cell] ==
  IF next[c][0] = Nil THEN << >>
                      ELSE data[next[c][0]] \o TextBehind[next[c][0]]

Text == TextBehind[head]

(* std::string::insert and std::string::erase.                              *)
StringInsert(t, p, s) == SubSeq(t, 1, p) \o s \o SubSeq(t, p + 1, Len(t))
StringErase(t, p, n) == SubSeq(t, 1, p) \o SubSeq(t, p + n + 1, Len(t))

-----------------------------------------------------------------------------
NoUpdate == [i \in Levels |-> head]

Init ==
  /\ level = [c \in Cell |-> IF c = head THEN MaxLevel ELSE 0]
  /\ next = [c \in Cell |-> [i \in Levels |-> Nil]]
  /\ span = [c \in Cell |-> [i \in Levels |-> 0]]
  /\ mode = [n \in Node |-> "gap"]
  /\ data = [n \in Node |-> << >>]
  /\ total_size = 0
  /\ pc = "idle"
  /\ req = NoRequest
  /\ outcome = "ok"
  /\ x = Nil /\ acc = 0 /\ lvl = 0 /\ update = NoUpdate

(***************************************************************************)
(* Calls.  One caller, one call at a time.                                 *)
(***************************************************************************)
Call(r) ==
  /\ pc = "idle"
  /\ pc' = "entry"
  /\ req' = r
  /\ outcome' = "ok"
  /\ UNCHANGED <<heap, locals>>

(* Bounds: the text fits MaxText, and a node is left for the insertion.     *)
CallInsert ==
  \E s \in Inputs, p \in 0 .. total_size + 1 :
    /\ Len(Text) + Len(s) <= MaxText
    /\ Free # {}
    /\ Call([op |-> "insert", pos |-> p, str |-> s, len |-> 0])

CallErase ==
  \E n \in EraseLens, p \in 0 .. total_size :
    Call([op |-> "erase", pos |-> p, str |-> << >>, len |-> n])

CallOptimize == Call([op |-> "keep", pos |-> 0, str |-> << >>, len |-> 0])

CallClear == Call([op |-> "clear", pos |-> 0, str |-> << >>, len |-> 0])

Return(how) ==
  /\ pc' = "idle"
  /\ req' = NoRequest
  /\ outcome' = how
  /\ x' = Nil /\ acc' = 0 /\ lvl' = 0 /\ update' = NoUpdate

-----------------------------------------------------------------------------
(***************************************************************************)
(* find_node.  Each level is followed while the next node ends before pos; *)
(* then the target moves on while it ends at pos and another node follows. *)
(***************************************************************************)
FindStart ==
  /\ pc' = "find"
  /\ x' = head
  /\ acc' = 0
  /\ lvl' = MaxLevel - 1
  /\ update' = NoUpdate

NextEndsBefore == /\ next[x][lvl] # Nil
                  /\ acc + span[x][lvl] < req.pos

FindAdvance ==
  /\ pc = "find"
  /\ NextEndsBefore
  /\ acc' = acc + span[x][lvl]
  /\ x' = next[x][lvl]
  /\ UNCHANGED <<heap, pc, req, outcome, lvl, update>>

(* Slip: the loop over the levels does not stop at level 0.                 *)
FindDescendTooFar ==
  /\ pc = "find"
  /\ ~NextEndsBefore
  /\ update' = [update EXCEPT ![lvl] = x]
  /\ lvl' = lvl - 1
  /\ UNCHANGED <<heap, pc, req, outcome, x, acc>>

FindDescend ==
  /\ pc = "find"
  /\ ~NextEndsBefore
  /\ update' = [update EXCEPT ![lvl] = x]
  /\ IF lvl > 0
       THEN lvl' = lvl - 1 /\ UNCHANGED <<pc, x>>
       ELSE pc' = "found" /\ x' = next[x][0] /\ UNCHANGED lvl
  /\ UNCHANGED <<heap, req, outcome, acc>>

(* node_offset: the position inside the target x.                           *)
Offset == req.pos - acc

(* Slip: a target that ends at the position is kept.                        *)
SkipsTargetLate == /\ x # Nil
                   /\ Offset > Size(x)
                   /\ next[x][0] # Nil

(* Slip: the last node is skipped as well.                                  *)
SkipsTargetAtEnd == x # Nil /\ Offset >= Size(x)

SkipsTarget == /\ x # Nil
               /\ Offset >= Size(x)
               /\ next[x][0] # Nil

(* Slip: the skipped node is recorded at levels it does not have.           *)
FindSkipAllLevels ==
  /\ pc = "found"
  /\ SkipsTarget
  /\ acc' = acc + Size(x)
  /\ update' = [i \in Levels |-> x]
  /\ x' = next[x][0]
  /\ UNCHANGED <<heap, pc, req, outcome, lvl>>

(* Slip: the skipped node is not recorded.                                  *)
FindSkipUnrecorded ==
  /\ pc = "found"
  /\ SkipsTarget
  /\ acc' = acc + Size(x)
  /\ x' = next[x][0]
  /\ UNCHANGED <<heap, pc, req, outcome, lvl, update>>

FindSkip ==
  /\ pc = "found"
  /\ SkipsTarget
  /\ acc' = acc + Size(x)
  /\ update' = [i \in Levels |-> IF i < level[x] THEN x ELSE update[i]]
  /\ x' = next[x][0]
  /\ UNCHANGED <<heap, pc, req, outcome, lvl>>

TargetPacked == x # Nil /\ mode[x] = "compact"

(* find_node has returned and x is its target.                              *)
Found(op) == pc = "found" /\ req.op = op /\ ~SkipsTarget

-----------------------------------------------------------------------------
(***************************************************************************)
(* insert.                                                                 *)
(***************************************************************************)
InsertRejected ==
  /\ pc = "entry" /\ req.op = "insert"
  /\ req.pos > total_size
  /\ Return("out_of_range")
  /\ UNCHANGED heap

InsertSearch ==
  /\ pc = "entry" /\ req.op = "insert"
  /\ req.pos <= total_size
  /\ FindStart
  /\ UNCHANGED <<heap, req, outcome>>

(* The first node: linked at its levels, and no split however long it is.   *)
InsertFirst ==
  /\ Found("insert")
  /\ x = Nil /\ total_size = 0
  /\ \E n \in Free, k \in 1 .. MaxLevel :
       /\ level' = [level EXCEPT ![n] = k]
       /\ data' = [data EXCEPT ![n] = req.str]
       /\ next' = [next EXCEPT ![head] =
                     [i \in Levels |-> IF i < k THEN n ELSE Nil]]
  /\ span' = [span EXCEPT ![head] = [i \in Levels |-> Len(req.str)]]
  /\ total_size' = total_size + Len(req.str)
  /\ Return("ok")
  /\ UNCHANGED mode

SpansGrown(k) ==
  [c \in Cell |-> [i \in Levels |->
     IF c = update[i] THEN span[c][i] + k ELSE span[c][i]]]

(* The target reopened as a gap node and written to; the links that span    *)
(* the position made longer.                                                *)
Edited == StringInsert(data[x], Offset, req.str)

(* Slip: the size is looked at before the insertion.                        *)
TooLongBefore == Size(x) > NodeMax

TooLong == Len(Edited) > NodeMax

InsertFits ==
  /\ Found("insert")
  /\ x # Nil
  /\ ~TooLong
  /\ mode' = [mode EXCEPT ![x] = "gap"]
  /\ data' = [data EXCEPT ![x] = Edited]
  /\ span' = SpansGrown(Len(req.str))
  /\ total_size' = total_size + Len(req.str)
  /\ Return("ok")
  /\ UNCHANGED <<level, next>>

(***************************************************************************)
(* split_node: v takes the second half of u, on new_level levels.  Only    *)
(* the levels whose update link leads to u are touched.                    *)
(***************************************************************************)
(* Slip: the new level is not clamped to the level of u.                    *)
SplitLevelUnclamped(u, k) == k

SplitLevel(u, k) == MinOf(k, level[u])

SplitNext(u, v, new_level) ==
  [c \in Cell |-> [i \in Levels |->
     IF next[update[i]][i] = u /\ i < new_level
       THEN CASE c = u -> v
              [] c = v -> next[u][i]
              [] OTHER -> next[c][i]
       ELSE next[c][i]]]

(* Slip: above the level of v, the span of u does not take in v.            *)
SplitSpanForgetsUpper(sp, u, v, new_level, v_size) ==
  [c \in Cell |-> [i \in Levels |->
     IF next[update[i]][i] = u
       THEN CASE c = update[i]          -> sp[c][i] - v_size
              [] c = u /\ i < new_level -> v_size
              [] c = v /\ i < new_level -> sp[u][i]
              [] OTHER                  -> sp[c][i]
       ELSE sp[c][i]]]

SplitSpan(sp, u, v, new_level, v_size) ==
  [c \in Cell |-> [i \in Levels |->
     IF next[update[i]][i] = u
       THEN CASE c = update[i]            -> sp[c][i] - v_size
              [] c = u /\ i < new_level   -> v_size
              [] c = u /\ ~ i < new_level -> sp[u][i] + v_size
              [] c = v /\ i < new_level   -> sp[u][i]
              [] OTHER                    -> sp[c][i]
       ELSE sp[c][i]]]

InsertSplits ==
  /\ Found("insert")
  /\ x # Nil
  /\ TooLong
  /\ LET split_point == Len(Edited) \div 2
         v_size      == Len(Edited) - split_point
     IN  \E v \in Free, k \in 1 .. MaxLevel :
           LET new_level == SplitLevel(x, k)
           IN  /\ level' = [level EXCEPT ![v] = new_level]
               /\ mode' = [mode EXCEPT ![x] = "gap"]
               /\ data' = [data EXCEPT
                             ![x] = SubSeq(Edited, 1, split_point),
                             ![v] = SubSeq(Edited, split_point + 1,
                                           Len(Edited))]
               /\ next' = SplitNext(x, v, new_level)
               /\ span' = SplitSpan(SpansGrown(Len(req.str)), x, v,
                                    new_level, v_size)
  /\ total_size' = total_size + Len(req.str)
  /\ Return("ok")

(* The pool refuses the first node, or expand throws for a packed target.   *)
InsertAllocFails ==
  /\ AllocMayFail
  /\ Found("insert")
  /\ x = Nil \/ TargetPacked
  /\ Return("bad_alloc")
  /\ UNCHANGED heap

(* The pool has given the first node, and its constructor throws in         *)
(* create_node, or GapNode::insert on it: nothing links it or gives it back.*)
InsertFirstLost ==
  /\ AllocMayFail
  /\ Found("insert")
  /\ x = Nil /\ total_size = 0
  /\ \E n \in Free, k \in 1 .. MaxLevel : level' = [level EXCEPT ![n] = k]
  /\ Return("bad_alloc")
  /\ UNCHANGED <<next, span, mode, data, total_size>>

(* Slip: the size is brought up to date before the insertion.               *)
InsertGrowFailsCounted ==
  /\ AllocMayFail
  /\ Found("insert")
  /\ x # Nil
  /\ req.str # << >>
  /\ mode' = [mode EXCEPT ![x] = "gap"]
  /\ total_size' = total_size + Len(req.str)
  /\ Return("bad_alloc")
  /\ UNCHANGED <<level, next, span, data>>

(* GapNode::insert throws on the target: it has been reopened.              *)
InsertGrowFails ==
  /\ AllocMayFail
  /\ Found("insert")
  /\ x # Nil
  /\ req.str # << >>
  /\ mode' = [mode EXCEPT ![x] = "gap"]
  /\ Return("bad_alloc")
  /\ UNCHANGED <<level, next, span, data, total_size>>


(* create_node of split_node: the pool refuses the block, or it has given   *)
(* it and the constructor throws, and the block is never given back.        *)
SplitNodeFails ==
  \/ UNCHANGED level
  \/ \E v \in Free, k \in 1 .. MaxLevel :
       level' = [level EXCEPT ![v] = SplitLevel(x, k)]

(* split_node throws: the target is edited, total_size is not.  When it is  *)
(* a buffer of split_right that is refused, v is destroyed again.           *)
InsertSplitFails ==
  /\ AllocMayFail
  /\ Found("insert")
  /\ x # Nil
  /\ TooLong
  /\ mode' = [mode EXCEPT ![x] = "gap"]
  /\ data' = [data EXCEPT ![x] = Edited]
  /\ span' = SpansGrown(Len(req.str))
  /\ SplitNodeFails
  /\ Return("bad_alloc")
  /\ UNCHANGED <<next, total_size>>

-----------------------------------------------------------------------------
(***************************************************************************)
(* erase.                                                                  *)
(***************************************************************************)
EraseIgnored ==
  /\ pc = "entry" /\ req.op = "erase"
  /\ req.pos >= total_size
  /\ Return("ok")
  /\ UNCHANGED heap

(* The sum of the test wraps when pos + len passes SizeMod.                 *)
EraseClamp ==
  /\ pc = "entry" /\ req.op = "erase"
  /\ req.pos < total_size
  /\ req' = [req EXCEPT !.len = IF (req.pos + @) % SizeMod > total_size
                                  THEN total_size - req.pos ELSE @]
  /\ pc' = "loop"
  /\ UNCHANGED <<heap, outcome, locals>>

EraseSearch ==
  /\ pc = "loop"
  /\ req.len > 0
  /\ FindStart
  /\ UNCHANGED <<heap, req, outcome>>

EraseDone ==
  /\ pc = "loop"
  /\ req.len = 0
  /\ Return("ok")
  /\ UNCHANGED heap

(* Slip: the offset is not taken off what the node has to give.             *)
DelLenNoOffset == MinOf(req.len, Size(x))

DelLen == MinOf(req.len, Size(x) - Offset)

(* Slip: links that lead to the end of the text keep their span.            *)
SpansShrunkNoTail(k) ==
  [c \in Cell |-> [i \in Levels |->
     IF c = update[i] /\ next[c][i] # Nil THEN span[c][i] - k
                                          ELSE span[c][i]]]

SpansShrunk(k) ==
  [c \in Cell |-> [i \in Levels |->
     IF c = update[i] THEN span[c][i] - k ELSE span[c][i]]]

(* Slip: all that is left to erase is counted off at once.                  *)
EraseAgainCountsAll ==
  /\ pc' = "loop"
  /\ req' = [req EXCEPT !.len = @ - DelLen]
  /\ total_size' = total_size - req.len
  /\ x' = Nil /\ acc' = 0 /\ lvl' = 0 /\ update' = NoUpdate
  /\ UNCHANGED outcome

(* The loop goes round: the locals of find_node are left behind.            *)
EraseAgain ==
  /\ pc' = "loop"
  /\ req' = [req EXCEPT !.len = @ - DelLen]
  /\ total_size' = total_size - DelLen
  /\ x' = Nil /\ acc' = 0 /\ lvl' = 0 /\ update' = NoUpdate
  /\ UNCHANGED outcome

(* Slip: only a length beyond the target removes it.                        *)
EmptiesBeyond == req.len > Size(x)

Empties == Size(x) = DelLen

EraseShrinks ==
  /\ Found("erase")
  /\ x # Nil
  /\ ~Empties
  /\ mode' = [mode EXCEPT ![x] = "gap"]
  /\ data' = [data EXCEPT ![x] = StringErase(@, Offset, DelLen)]
  /\ span' = SpansShrunk(DelLen)
  /\ EraseAgain
  /\ UNCHANGED <<level, next>>

(* Slip: the target stays linked at level 0.                                *)
RemovedLinkUpper(c, i) ==
  c = update[i] /\ next[c][i] = x /\ i \in 1 .. level[x] - 1

(* remove_node, once the target is empty: each link to it takes over its    *)
(* own link, then it is destroyed.                                          *)
RemovedLink(c, i) == c = update[i] /\ next[c][i] = x /\ i < level[x]

EraseRemoves ==
  /\ Found("erase")
  /\ x # Nil
  /\ Empties
  /\ LET sp == SpansShrunk(DelLen)
     IN  span' = [c \in Cell |-> [i \in Levels |->
                    CASE c = x             -> 0
                      [] RemovedLink(c, i) -> sp[c][i] + sp[x][i]
                      [] OTHER             -> sp[c][i]]]
  /\ next' = [c \in Cell |-> [i \in Levels |->
                CASE c = x             -> Nil
                  [] RemovedLink(c, i) -> next[x][i]
                  [] OTHER             -> next[c][i]]]
  /\ level' = [level EXCEPT ![x] = 0]
  /\ mode' = [mode EXCEPT ![x] = "gap"]
  /\ data' = [data EXCEPT ![x] = << >>]
  /\ EraseAgain

(* expand throws: nothing of this iteration has happened.                   *)
EraseFails ==
  /\ AllocMayFail
  /\ Found("erase")
  /\ TargetPacked
  /\ Return("bad_alloc")
  /\ UNCHANGED heap

-----------------------------------------------------------------------------
(***************************************************************************)
(* optimize and clear walk the bottom level.                               *)
(***************************************************************************)
WalkStart(op, label) ==
  /\ pc = "entry" /\ req.op = op
  /\ pc' = label
  /\ x' = next[head][0]
  /\ UNCHANGED <<heap, req, outcome, acc, lvl, update>>

OptimizeStart == WalkStart("keep", "optimize")

OptimizeNode ==
  /\ pc = "optimize"
  /\ x # Nil
  /\ mode' = [mode EXCEPT ![x] = "compact"]
  /\ x' = next[x][0]
  /\ UNCHANGED <<level, next, span, data, total_size,
                 pc, req, outcome, acc, lvl, update>>

OptimizeFails ==
  /\ AllocMayFail
  /\ pc = "optimize"
  /\ x # Nil /\ mode[x] = "gap"
  /\ Return("bad_alloc")
  /\ UNCHANGED heap

OptimizeDone ==
  /\ pc = "optimize"
  /\ x = Nil
  /\ Return("ok")
  /\ UNCHANGED heap

ClearStart == WalkStart("clear", "clear")

(* The successor is read before the node is destroyed.                      *)
ClearNode ==
  /\ pc = "clear"
  /\ x # Nil
  /\ x' = next[x][0]
  /\ level' = [level EXCEPT ![x] = 0]
  /\ mode' = [mode EXCEPT ![x] = "gap"]
  /\ data' = [data EXCEPT ![x] = << >>]
  /\ next' = [next EXCEPT ![x] = [i \in Levels |-> Nil]]
  /\ span' = [span EXCEPT ![x] = [i \in Levels |-> 0]]
  /\ UNCHANGED <<total_size, pc, req, outcome, acc, lvl, update>>

(* Slip: the walk ends at the last node instead of behind it.               *)
ClearDoneEarly ==
  /\ pc = "clear"
  /\ x = Nil \/ IF x = Nil THEN FALSE ELSE next[x][0] = Nil
  /\ next' = [next EXCEPT ![head] = [i \in Levels |-> Nil]]
  /\ span' = [span EXCEPT ![head] = [i \in Levels |-> 0]]
  /\ total_size' = 0
  /\ Return("ok")
  /\ UNCHANGED <<level, mode, data>>

ClearDone ==
  /\ pc = "clear"
  /\ x = Nil
  /\ next' = [next EXCEPT ![head] = [i \in Levels |-> Nil]]
  /\ span' = [span EXCEPT ![head] = [i \in Levels |-> 0]]
  /\ total_size' = 0
  /\ Return("ok")
  /\ UNCHANGED <<level, mode, data>>

-----------------------------------------------------------------------------
Find == FindAdvance \/ FindDescend \/ FindSkip

Insert == \/ InsertRejected
          \/ InsertSearch
          \/ InsertFirst
          \/ InsertFits
          \/ InsertSplits
          \/ InsertAllocFails
          \/ InsertFirstLost
          \/ InsertGrowFails
          \/ InsertSplitFails

Erase == \/ EraseIgnored
         \/ EraseClamp
         \/ EraseSearch
         \/ EraseDone
         \/ EraseShrinks
         \/ EraseRemoves
         \/ EraseFails

Optimize == OptimizeStart \/ OptimizeNode \/ OptimizeFails \/ OptimizeDone

Clear == ClearStart \/ ClearNode \/ ClearDone

(* A step of the call being served.                                         *)
Step == Find \/ Insert \/ Erase \/ Optimize \/ Clear

Next == \/ CallInsert
        \/ CallErase
        \/ CallOptimize
        \/ CallClear
        \/ Step

Spec == Init /\ [][Next]_vars

(* The one thread that runs a call keeps running it.                        *)
FairSpec == Spec /\ WF_vars(Step)

-----------------------------------------------------------------------------
(* Type invariant: pointers are null or nodes, no span, size or offset has  *)
(* gone below zero (where a size_t would wrap to a huge jump), the text is  *)
(* made of characters, and the locals are what the loops expect.            *)
TypeOK ==
  /\ level \in [Cell -> 0 .. MaxLevel]
  /\ level[head] = MaxLevel
  /\ next \in [Cell -> [Levels -> Pointer]]
  /\ span \in [Cell -> [Levels -> Nat]]
  /\ mode \in [Node -> {"gap", "compact"}]
  /\ data \in [Node -> Seq(Char)]
  /\ total_size \in Nat
  /\ pc \in {"idle", "entry", "find", "found", "loop", "optimize", "clear"}
  /\ req \in Request \cup {NoRequest}
  /\ outcome \in {"ok", "out_of_range", "bad_alloc"}
  /\ x \in Cell \cup {Nil}
  /\ acc \in Nat
  /\ lvl \in Levels
  /\ update \in [Levels -> Cell]
  /\ pc = "idle" <=> req = NoRequest
  /\ pc = "find" => x \in Cell
  /\ pc \in {"found", "optimize", "clear"} => x \in Pointer

(* No node outgrows both NODE_MAX_SIZE and the longest string inserted,     *)
(* though an insertion splits at most once and the first one never does.    *)
NodeSizeBounded ==
  \A n \in Node : \/ Size(n) <= NodeMax
                  \/ \E s \in Inputs : Size(n) <= Len(s)
===============================================================================
