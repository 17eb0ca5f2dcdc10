-------------------------------- MODULE NodePair --------------------------------
(***************************************************************************)
(* A node u of a BiModalText and the sibling v that split_right() cuts off *)
(* it, edited byte by byte through the operations of Nodes.hpp in the ways *)
(* BiModalText drives them: a packed node is reopened before it is edited, *)
(* optimize() packs a node, an erase that empties a node drops it.  A call *)
(* records its arguments in req; the body then runs to its end, or an      *)
(* allocation fails on the way.                                            *)
(*                                                                         *)
(* Whatever happens, u and v hold one text, and it is edited as a          *)
(* std::string would be: Abs!Spec.                                         *)
(***************************************************************************)
EXTENDS Nodes

CONSTANTS
  Inputs,       (* The strings a caller inserts.                            *)
  MaxText,      (* Bound: no insertion makes the text longer than this.     *)
  AllocMayFail  (* May an allocation throw std::bad_alloc?                  *)

ASSUME NodePairAssumption == /\ Inputs \subseteq Seq(Char)
                             /\ MaxText \in Nat
                             /\ AllocMayFail \in BOOLEAN

VARIABLES
  u,    (* The node.                                                        *)
  v,    (* The sibling to its right, or NoNode.                             *)
  req   (* The call being served, or NoCall.                                *)

vars == <<u, v, req>>

NoNode == [kind |-> "none"]

NoCall == [op |-> "none", node |-> "u", pos |-> 0, str |-> << >>, len |-> 0]

Call == [op   : {"insert", "erase", "split", "optimize"},
         node : {"u", "v"},
         pos  : Nat,
         str  : Seq(Char),
         len  : Nat]

TextOf(n) == IF n = NoNode THEN << >> ELSE Content(n)

MinOf(a, b) == IF a < b THEN a ELSE b

Text == TextOf(u) \o TextOf(v)

(* The node a call names.                                                   *)
Target == IF req.node = "u" THEN u ELSE v

-----------------------------------------------------------------------------
Init == /\ u = NewGap(DefaultGap)
        /\ v = NoNode
        /\ req = NoCall

Exists(k) == k = "u" \/ v # NoNode

Named(k) == IF k = "u" THEN u ELSE v

(* GapNode::insert is given a position that find_node checked.              *)
CallInsert ==
  /\ req = NoCall
  /\ \E k \in {"u", "v"}, s \in Inputs :
       /\ Exists(k)
       /\ Len(Text) + Len(s) <= MaxText
       /\ \E p \in 0 .. Size(Named(k)) :
            req' = [op |-> "insert", node |-> k, pos |-> p,
                    str |-> s, len |-> 0]
  /\ UNCHANGED <<u, v>>

(* BiModalText::erase never asks for more than the node has from the        *)
(* position on; GapNode::erase cuts a length by itself, so longer ones are  *)
(* let in here too.                                                         *)
CallErase ==
  /\ req = NoCall
  /\ \E k \in {"u", "v"} :
       /\ Exists(k)
       /\ \E p \in 0 .. Size(Named(k)), n \in 0 .. MaxText :
            /\ Size(Named(k)) > p
            /\ req' = [op |-> "erase", node |-> k, pos |-> p,
                       str |-> << >>, len |-> n]
  /\ UNCHANGED <<u, v>>

(* split_node() splits a gap node; len is the suffix_len it asks for.       *)
CallSplit ==
  /\ req = NoCall
  /\ u.kind = "gap"
  /\ v = NoNode
  /\ \E n \in 1 .. Size(u) - 1 :
       req' = [op |-> "split", node |-> "u", pos |-> 0,
               str |-> << >>, len |-> n]
  /\ UNCHANGED <<u, v>>

CallOptimize ==
  /\ req = NoCall
  /\ \E k \in {"u", "v"} :
       /\ Exists(k)
       /\ req' = [op |-> "optimize", node |-> k, pos |-> 0,
                  str |-> << >>, len |-> 0]
  /\ UNCHANGED <<u, v>>

-----------------------------------------------------------------------------
Replace(n) == IF req.node = "u" THEN u' = n /\ v' = v
                                ELSE u' = u /\ v' = n

Return == req' = NoCall

(* The node as a gap node, reopened when optimize() had packed it.          *)
Opened(n, for_deletion) ==
  IF n.kind = "compact" THEN Expand(n, for_deletion) ELSE n

DoInsert ==
  /\ req.op = "insert"
  /\ Replace(GapInsert(Opened(Target, FALSE), req.pos, req.str))
  /\ Return

(* A node left empty is unlinked and destroyed: v goes, or v takes the      *)
(* place of u, or the fresh node of the next insertion does.                *)
DoErase ==
  /\ req.op = "erase"
  /\ LET n == GapErase(Opened(Target, TRUE), req.pos, req.len)
     IN  IF Size(n) > 0
           THEN Replace(n)
           ELSE /\ u' = IF req.node = "v" THEN u
                        ELSE IF v = NoNode THEN NewGap(DefaultGap) ELSE v
                /\ v' = NoNode
  /\ Return

(* Slip: the length of the prefix is asked for instead of the suffix.       *)
DoSplitPrefix ==
  /\ req.op = "split"
  /\ u' = SplitLeft(u, Size(u) - req.len)
  /\ v' = SplitRight(u, Size(u) - req.len)
  /\ Return

DoSplit ==
  /\ req.op = "split"
  /\ u' = SplitLeft(u, req.len)
  /\ v' = SplitRight(u, req.len)
  /\ Return

DoOptimize ==
  /\ req.op = "optimize"
  /\ IF Target.kind = "gap" THEN Replace(Compact(Target))
                            ELSE UNCHANGED <<u, v>>
  /\ Return

(* expand(), for either edit, or compact() throws before anything changed.  *)
ConversionFails ==
  /\ AllocMayFail
  /\ \/ req.op \in {"insert", "erase"} /\ Target.kind = "compact"
     \/ req.op = "optimize" /\ Target.kind = "gap"
  /\ UNCHANGED <<u, v>>
  /\ Return

(* expand_buffer throws: the node is open and its gap already moved.        *)
InsertFails ==
  /\ AllocMayFail
  /\ req.op = "insert"
  /\ LET n == Opened(Target, FALSE)
     IN  /\ GapLen(n) < Len(req.str)
         /\ Replace(MoveGap(n, req.pos))
  /\ Return

(* A buffer of split_right throws: only the gap of u has moved.             *)
SplitFails ==
  /\ AllocMayFail
  /\ req.op = "split"
  /\ u' = MoveGap(u, Size(u) - req.len)
  /\ v' = v
  /\ Return

Next == \/ CallInsert
        \/ CallErase
        \/ CallSplit
        \/ CallOptimize
        \/ DoInsert
        \/ DoErase
        \/ DoSplit
        \/ DoOptimize
        \/ ConversionFails
        \/ InsertFails
        \/ SplitFails

Spec == Init /\ [][Next]_vars

-----------------------------------------------------------------------------
(***************************************************************************)
(* Properties.                                                             *)
(***************************************************************************)

(* Type invariant: each node is a gap node whose gap lies inside its buffer *)
(* or a packed node, and a call names a node that exists and a place in it. *)
TypeOK ==
  /\ u \in NodeData
  /\ v \in NodeData \cup {NoNode}
  /\ req \in Call \cup {NoCall}
  /\ req # NoCall => Exists(req.node)
  /\ req.op = "insert" => req.pos <= Size(Target)
  /\ req.op = "erase"  => req.pos < Size(Target)
  /\ req.op = "split"  => u.kind = "gap" /\ v = NoNode /\ req.len < Size(u)

(* The two ways of reading a node agree: at() and the iterator, which go    *)
(* through physical_index, see the text that scan(), to_string() and        *)
(* compact() copy block by block.                                           *)
ReadsAgree ==
  /\ Content(u) = ToString(u)
  /\ v # NoNode => Content(v) = ToString(v)

(* What the two nodes hold.                                                 *)
Texts == <<TextOf(u), TextOf(v)>>

(* What they hold once the target holds t; an empty node is dropped.        *)
Holding(t) == IF req.node = "v" THEN <<TextOf(u), t>>
              ELSE IF req.op = "erase" /\ t = << >> THEN <<TextOf(v), << >>>>
              ELSE <<t, TextOf(v)>>

(* The call as a caller of the text sees it: its position counts from the   *)
(* start of the text, its length ends with the node.                        *)
AbsReq == [op  |-> IF req.op \in {"split", "optimize"} THEN "keep" ELSE req.op,
           pos |-> IF req.node = "u" THEN req.pos ELSE Size(u) + req.pos,
           str |-> req.str,
           len |-> IF req.op = "erase"
                     THEN MinOf(req.len, Size(Target) - req.pos)
                     ELSE 0]

(* The pair implements the abstract text: insert and erase act at their     *)
(* position as on a std::string (an erase inside its node), split and       *)
(* optimize keep the text, a failed allocation leaves it as it was.         *)
Abs == INSTANCE TextBuffer WITH text           <- Text,
                                req            <- AbsReq,
                                ClampsPosition <- FALSE

Implements == Abs!Spec

(* Does the call allocate?  An erase or an insertion that fits does not.    *)
Allocates ==
  \/ req.op = "split"
  \/ req.op \in {"insert", "erase"} /\ Target.kind = "compact"
  \/ req.op = "insert" /\ GapLen(Target) < Len(req.str)

EditsExactly ==
  LET t == TextOf(Target)
  IN  CASE req.op = "insert" ->
             Texts' = Holding(Abs!StringInsert(t, req.pos, req.str))
        [] req.op = "erase" ->
             Texts' = Holding(Abs!StringErase(t, req.pos, req.len))
        [] req.op = "split" ->
             Texts' = <<SubSeq(t, 1, Len(t) - req.len),
                        SubSeq(t, Len(t) - req.len + 1, Len(t))>>
        [] OTHER -> Texts' = Texts

(* insert() and erase() change exactly the characters they are asked to,    *)
(* and in the node they are called on only; a split gives v the last len    *)
(* characters of u; a packing changes neither node, nor does a call that    *)
(* has to allocate and fails.  So no stale byte of a gap comes back as      *)
(* text, and no character changes sides, which Implements does not see.     *)
(* BiModalText takes this for granted of the nodes of its list.             *)
EachNodeExact ==
  [][\/ EditsExactly
     \/ AllocMayFail /\ Allocates /\ Texts' = Texts]_vars
===============================================================================
