--------------------------------- MODULE Nodes ---------------------------------
(***************************************************************************)
(* The storage of one list node (src/Nodes.hpp): a gap buffer while the    *)
(* node is being edited, a packed array once optimize() has run.           *)
(*                                                                         *)
(* Sizes are unbounded here: the one caller (BiModalText) passes positions *)
(* and lengths that lie inside the node, so no sum can wrap.               *)
(***************************************************************************)
EXTENDS GapBuffers

CONSTANTS
  DefaultGap, (* DEFAULT_GAP_SIZE: room left around the data of a node.     *)
  DeletePad   (* Room left when a packed node is reopened for an erase (8). *)

ASSUME NodesAssumption == /\ DefaultGap \in Nat \ {0}
                          /\ DeletePad \in Nat

(* NodeData = std::variant<GapNode, CompactNode>.                           *)
NodeData == GapNodes \cup CompactNodes

(* A gap node with data at its front and the rest of the capacity as gap.   *)
Packed(data, capacity) ==
  Gap(Copy(Vector(capacity), 0, data), Len(data), capacity)

(* GapNode(capacity): never smaller than DEFAULT_GAP_SIZE.                  *)
NewGap(capacity) == Packed(<< >>, MaxOf(capacity, DefaultGap))

-----------------------------------------------------------------------------
(***************************************************************************)
(* The operations.                                                         *)
(***************************************************************************)
(* expand_buffer: the front stays at the front, the back moves to the end   *)
(* of the new buffer.                                                       *)
ExpandBuffer(n, needed) ==
  LET used_back == Len(n.buf) - n.gap_end
      used      == n.gap_start + used_back
      new_cap   == MaxOf(2 * Len(n.buf), used + needed + DefaultGap)
  IN  Gap(Copy(Copy(Vector(new_cap), 0, FrontSpan(n)),
               new_cap - used_back, BackSpan(n)),
          n.gap_start, new_cap - used_back)

WithRoom(n, needed) ==
  IF GapLen(n) < needed THEN ExpandBuffer(n, needed) ELSE n

GapInsert(n, pos, s) == FillGap(WithRoom(MoveGap(n, pos), Len(s)), s)

(* Slip: a length that is too long is not cut.                              *)
GapEraseUncut(n, pos, len) == Swallow(MoveGap(n, pos), len)

(* The gap swallows the characters behind it; a len that is too long is cut.*)
GapErase(n, pos, len) ==
  LET cut == IF pos + len > Size(n) THEN Size(n) - pos ELSE len
  IN  Swallow(MoveGap(n, pos), cut)

(* split_right(suffix_len): what stays in the node, and the node returned.  *)
SplitLeft(n, suffix_len) ==
  LET m == MoveGap(n, Size(n) - suffix_len)
  IN  Packed(FrontSpan(m), m.gap_start + DefaultGap)

SplitRight(n, suffix_len) ==
  LET m == MoveGap(n, Size(n) - suffix_len)
  IN  Packed(BackSpan(m), suffix_len + DefaultGap)

(* expand(): the constructor may round the capacity up.                     *)
Expand(c, for_deletion) ==
  LET pad == IF for_deletion THEN DeletePad ELSE DefaultGap
  IN  Packed(c.buf, MaxOf(Len(c.buf) + pad, DefaultGap))

Compact(g) == [kind |-> "compact", buf |-> FrontSpan(g) \o BackSpan(g)]
===============================================================================
