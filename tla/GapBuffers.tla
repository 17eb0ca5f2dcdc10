------------------------------ MODULE GapBuffers ------------------------------
(***************************************************************************)
(* A buffer with a gap in it: what GapNode (src/Nodes.hpp) and             *)
(* SimpleGapBuffer (src/Baselines.hpp) have in common, and the packed      *)
(* array next to it.  A buffer is the sequence of its bytes; positions,    *)
(* gap_start and gap_end count from 0 as in the code, so the byte buf[i]   *)
(* of the code is buf[i + 1].  Bytes inside the gap keep whatever they     *)
(* last held, as in the code.                                              *)
(***************************************************************************)
EXTENDS Integers, Sequences

CONSTANTS
  Char,  (* The characters of a text.                                       *)
  Zero   (* The byte a fresh std::vector<char> is filled with.              *)

Byte == Char \cup {Zero}

MaxOf(a, b) == IF a < b THEN b ELSE a

-----------------------------------------------------------------------------
(***************************************************************************)
(* std::vector<char>, std::copy and std::memmove.                          *)
(***************************************************************************)
Vector(n) == [i \in 1 .. n |-> Zero]

(* The bytes at the C positions first .. last - 1.                          *)
Slice(buf, first, last) == SubSeq(buf, first + 1, last)

(* dst with the bytes of src written from the C position at onwards; src is *)
(* read before dst is written, as memmove does when the two overlap.        *)
Copy(dst, at, src) ==
  [i \in 1 .. Len(dst) |->
     IF at < i /\ i <= at + Len(src) THEN src[i - at] ELSE dst[i]]

-----------------------------------------------------------------------------
GapNodes == {n \in [kind : {"gap"}, buf : Seq(Byte),
                    gap_start : Nat, gap_end : Nat] :
               n.gap_start <= n.gap_end /\ n.gap_end <= Len(n.buf)}

CompactNodes == [kind : {"compact"}, buf : Seq(Byte)]

Gap(buf, gap_start, gap_end) == [kind      |-> "gap",
                                 buf       |-> buf,
                                 gap_start |-> gap_start,
                                 gap_end   |-> gap_end]

GapLen(n) == n.gap_end - n.gap_start

Size(n) == IF n.kind = "gap" THEN Len(n.buf) - GapLen(n) ELSE Len(n.buf)

(* Slip: the index at the gap is not moved behind it.                       *)
PhysicalIndexAtGap(n, i) == IF i <= n.gap_start THEN i ELSE i + GapLen(n)

PhysicalIndex(n, i) == IF i < n.gap_start THEN i ELSE i + GapLen(n)

At(n, i) == IF n.kind = "gap" THEN n.buf[PhysicalIndex(n, i) + 1]
                              ELSE n.buf[i + 1]

FrontSpan(n) == Slice(n.buf, 0, n.gap_start)
BackSpan(n)  == Slice(n.buf, n.gap_end, Len(n.buf))

(* What to_string(), scan() and compact() collect: block by block.          *)
ToString(n) == IF n.kind = "gap" THEN FrontSpan(n) \o BackSpan(n) ELSE n.buf

(* What at() answers, character by character.                               *)
Content(n) == [i \in 1 .. Size(n) |-> At(n, i - 1)]

-----------------------------------------------------------------------------
(***************************************************************************)
(* The operations.                                                         *)
(***************************************************************************)
MoveRight(n, dist) ==
  Gap(Copy(n.buf, n.gap_start, Slice(n.buf, n.gap_end, n.gap_end + dist)),
      n.gap_start + dist, n.gap_end + dist)

(* Slip: the bytes are moved behind the old gap instead of into its end.    *)
MoveLeftTooFar(n, dist) ==
  Gap(Copy(n.buf, n.gap_end, Slice(n.buf, n.gap_start - dist, n.gap_start)),
      n.gap_start - dist, n.gap_end - dist)

MoveLeft(n, dist) ==
  Gap(Copy(n.buf, n.gap_end - dist,
           Slice(n.buf, n.gap_start - dist, n.gap_start)),
      n.gap_start - dist, n.gap_end - dist)

MoveGap(n, target) ==
  IF target = n.gap_start
    THEN n
    ELSE IF target > n.gap_start THEN MoveRight(n, target - n.gap_start)
                                 ELSE MoveLeft(n, n.gap_start - target)

(* std::copy into the gap, which shrinks from the left.                     *)
FillGap(n, s) ==
  Gap(Copy(n.buf, n.gap_start, s), n.gap_start + Len(s), n.gap_end)

Swallow(n, k) == Gap(n.buf, n.gap_start, n.gap_end + k)
===============================================================================
