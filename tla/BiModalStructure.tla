--------------------------- MODULE BiModalStructure ---------------------------
(***************************************************************************)
(* What the structure of a BiModalText promises between and during the     *)
(* operations, the checks of debug_verify_spans included, and that it is   *)
(* an abstract text.  The lists are followed by recursive functions.       *)
(***************************************************************************)
EXTENDS BiModalText

(* The nodes that level 0 leads to from c.                                  *)
Behind[c \in Cell] ==
  IF next[c][0] = Nil THEN {} ELSE {next[c][0]} \cup Behind[next[c][0]]

Linked == Behind[head]

(* rebuild_spans (never called): from the end of c to the end of its        *)
(* successor at level i, or to the end of the text, measured again.         *)
Distance(c, i) ==
  Len(TextBehind[c]) -
    (IF next[c][i] = Nil THEN 0 ELSE Len(TextBehind[next[c][i]]))

-----------------------------------------------------------------------------
(***************************************************************************)
(* Properties.                                                             *)
(***************************************************************************)

(* The walk of clear() leaves freed nodes behind it; everywhere else the    *)
(* lists can be followed.                                                   *)
Whole == pc # "clear"

(* Each span of each linked node is the distance to the end of its          *)
(* successor, or to the end of the text: checks 2 and 4 of                  *)
(* debug_verify_spans, and what rebuild_spans would write, through any      *)
(* sequence of edits, splits and removals on several levels.                *)
SpanExact ==
  Whole => \A c \in Linked \cup {head} :
             \A i \in 0 .. level[c] - 1 : span[c][i] = Distance(c, i)

(* The size reported is the number of characters stored: check 1 of         *)
(* debug_verify_spans.                                                      *)
TotalSizeExact == Whole => total_size = Len(Text)

(* Even when allocations fail the size reported is never ahead of the text, *)
(* so at() finds a character at every position it accepts, and erase stops. *)
TotalSizeNeverAhead == Whole => total_size <= Len(Text)

(* The list of each level is the list below it without the lower nodes: a   *)
(* link leads to the first node behind it that has its level, so a node is  *)
(* linked at exactly its levels, in the order of the text, and only once.   *)
LevelsNested ==
  Whole => \A c \in Linked \cup {head} :
             /\ c \notin Behind[c]
             /\ \A i \in 0 .. level[c] - 1 :
                  LET m     == next[c][i]
                      later == {n \in Behind[c] : level[n] > i}
                  IN  IF m = Nil THEN later = {}
                                 ELSE /\ m \in later
                                      /\ later \ {m} \subseteq Behind[m]

(* No allocated node is lost (so clear() frees them all) and no freed node  *)
(* is linked.                                                               *)
NoLeak == Whole => Linked = Allocated

(* The nodes and links that find_node and its callers touch exist: a search *)
(* at level lvl stands on a node that has that level, and so does every     *)
(* update[i] that an edit, a split or a removal will write through.         *)
MemorySafe ==
  /\ pc = "find" => x \in Allocated \cup {head} /\ level[x] > lvl
  /\ pc = "found" => /\ x \in Allocated \cup {Nil}
                     /\ \A i \in Levels : level[update[i]] > i
  /\ pc \in {"optimize", "clear"} => x \in Allocated \cup {Nil}

(* When find_node returns, the target holds the position (or is the last    *)
(* node and ends at it), and update[i] is the last node before the target   *)
(* that has level i: its link is the one that spans the edit.               *)
FindExact ==
  (pc = "found" /\ ~SkipsTarget /\ x # Nil) =>
    /\ x \in Linked
    /\ acc = Len(Text) - Len(TextBehind[x]) - Size(x)
    /\ 0 <= Offset /\ Offset <= Size(x)
    /\ \A i \in Levels :
         /\ update[i] \in Linked \cup {head} /\ level[update[i]] > i
         /\ x \in Behind[update[i]]
         /\ \A n \in Behind[update[i]] : level[n] > i => x \notin Behind[n]

(* An insertion or an erase never meets the null target that makes insert   *)
(* throw "Unexpected null target on non-empty list".                        *)
TargetExists ==
  (pc = "found" /\ x = Nil) => req.op = "insert" /\ total_size = 0

(* An empty node is only ever the sole node of an empty text: erase unlinks *)
(* what it empties and a split leaves something on both sides.              *)
NoEmptyNode == Whole => \/ \A n \in Linked : Size(n) > 0
                        \/ total_size = 0 /\ \E n \in Node : Linked = {n}

(* optimize() leaves no gap node behind when it returns, and moves nothing. *)
OptimizePacks ==
  [][pc = "optimize" => /\ UNCHANGED <<level, next, span, data, total_size>>
                        /\ pc' = "idle" /\ outcome' = "ok" =>
                             \A n \in Linked : mode[n] = "compact"]_vars

(* An edit disturbs an iterator only in the node it is on: every other      *)
(* node stays linked with its characters, storage and levels, and is        *)
(* followed by the same node unless that was the one edited.                *)
OthersUndisturbed ==
  [][Whole /\ Whole' =>
       LET others == Linked \ {x}
       IN  /\ others \subseteq Linked'
           /\ \A n \in others :
                /\ UNCHANGED <<data[n], mode[n], level[n]>>
                /\ next'[n][0] = next[n][0] \/ next[n][0] = x]_vars

(* The nodes that are still going to be freed: those that are linked, or    *)
(* what the walk of clear() has before it.                                  *)
Reached == IF Whole THEN Linked ELSE IF x = Nil THEN {} ELSE {x} \cup Behind[x]

(* The blocks nothing leads to any more.                                    *)
Lost == Allocated \ Reached

(* The only block a step ever loses is the one that create_node takes in a  *)
(* first insertion or a split that fails: no node that was linked, however  *)
(* often calls fail, and clear() frees every node it walks over.            *)
LosesOnlyNewBlocks ==
  [][\/ Lost' = Lost
     \/ /\ pc = "found" /\ req.op = "insert" /\ outcome' = "bad_alloc"
        /\ x = Nil \/ TooLong
        /\ \E n \in Free : Lost' = Lost \cup {n}]_vars

(* clear() takes effect when it begins, and an erase has left to do what    *)
(* there is behind its position.                                            *)
AbsText == IF Whole THEN Text ELSE << >>

AbsReq == CASE ~Whole -> NoRequest
            [] Whole /\ req.op # "erase" -> req
            [] OTHER -> [req EXCEPT !.len =
                  IF req.pos < Len(Text) THEN MinOf(@, Len(Text) - req.pos) ELSE 0]

(* A BiModalText is an abstract text: a call that returns has done to it    *)
(* what std::string would have done.                                        *)
Abs == INSTANCE TextBuffer WITH
         text <- AbsText, req <- AbsReq, ClampsPosition <- FALSE

Implements == Abs!Spec
===============================================================================
