----------------------------- MODULE BiModalReads -----------------------------
(***************************************************************************)
(* How a BiModalText is read: at() and the iterator, next to Text, which   *)
(* is what to_string() and scan() produce.                                 *)
(***************************************************************************)
EXTENDS BiModalStructure

-----------------------------------------------------------------------------
(***************************************************************************)
(* at(pos).  Unlike find_node it goes on to a node that starts at pos.  The *)
(* search stands behind the node, at before, and looks at its level lvl.   *)
(***************************************************************************)
Searches == [pos : Nat, node : Cell, lvl : Levels, before : Nat]

NextIsBefore(s) == /\ next[s.node][s.lvl] # Nil
                   /\ s.before + span[s.node][s.lvl] <= s.pos

Search(pos, node, lvl_at, before) ==
  [pos |-> pos, node |-> node, lvl |-> lvl_at, before |-> before]

AtSearch[s \in Searches] ==
  IF NextIsBefore(s)
    THEN AtSearch[Search(s.pos, next[s.node][s.lvl], s.lvl,
                         s.before + span[s.node][s.lvl])]
    ELSE IF s.lvl > 0
           THEN AtSearch[Search(s.pos, s.node, s.lvl - 1, s.before)]
           ELSE [node |-> next[s.node][0], offset |-> s.pos - s.before]

(* Its skip loop, over nodes that end at or before pos.                     *)
AtSkip[found \in [node : Pointer, offset : Int]] ==
  IF found.node # Nil /\ found.offset >= Size(found.node)
    THEN AtSkip[[node   |-> next[found.node][0],
                 offset |-> found.offset - Size(found.node)]]
    ELSE found

AtTarget(pos) ==
  AtSkip[AtSearch[Search(pos, head, MaxLevel - 1, 0)]]

(* The character at pos, or the runtime_error at() throws on corruption.    *)
At(pos) == LET found == AtTarget(pos)
           IN  IF found.node = Nil
                 THEN "runtime_error"
                 ELSE data[found.node][found.offset + 1]

-----------------------------------------------------------------------------
(***************************************************************************)
(* The iterator: a node, an offset in it, and the length cached when the   *)
(* node was reached.                                                       *)
(***************************************************************************)
Iterator(n, off) == [node   |-> n,
                     offset |-> off,
                     cached_len |-> IF n = Nil THEN 0 ELSE Size(n)]

Begin == Iterator(next[head][0], 0)

(* operator* reads behind the end of an empty node.                         *)
Deref(it) == IF it.offset < Size(it.node) THEN data[it.node][it.offset + 1]
                                          ELSE "out_of_bounds"

(* Slip: the iterator leaves a node one character late.                     *)
AdvanceLate(it) == IF it.offset + 1 > it.cached_len
                     THEN Iterator(next[it.node][0], 0)
                     ELSE [it EXCEPT !.offset = @ + 1]

Advance(it) == IF it.offset + 1 >= it.cached_len
                 THEN Iterator(next[it.node][0], 0)
                 ELSE [it EXCEPT !.offset = @ + 1]

(* A loop from an iterator to end(), which adds each character to those it  *)
(* has seen.                                                                *)
Iterations == [it   : [node : Pointer, offset : Nat, cached_len : Nat],
               seen : Seq(Char \cup {"out_of_bounds"})]

IterateFrom[s \in Iterations] ==
  IF s.it.node = Nil
    THEN s.seen
    ELSE IterateFrom[[it   |-> Advance(s.it),
                      seen |-> Append(s.seen, Deref(s.it))]]

Iterated == IterateFrom[[it |-> Begin, seen |-> << >>]]

-----------------------------------------------------------------------------
(* Between calls, at(), the iterator and to_string() read the same text     *)
(* (check 3 of debug_verify_spans, InvariantChecker of the fuzzer).  The    *)
(* iterator is left out while an empty node is linked.                      *)
ReadsAgree ==
  pc = "idle" =>
    LET t == Text
    IN  /\ \A p \in 0 .. Len(t) - 1 : At(p) = t[p + 1]
        /\ (\A n \in Linked : Size(n) > 0) => Iterated = t

(* Every call returns: the loops of find_node, erase, optimize and clear    *)
(* all end.                                                                 *)
CallsReturn == []<>(pc = "idle")
===============================================================================
