------------------------------ MODULE BiModalDocs ------------------------------
(***************************************************************************)
(* What the documents, comments and tests of the repository say of         *)
(* BiModalText and the code does otherwise.  Each property is refuted by a *)
(* run of its own.                                                         *)
(***************************************************************************)
EXTENDS BiModalReads

(* Nodes.hpp:13 calls NODE_MAX_SIZE the maximum size of a node, and         *)
(* BiModalSkiplist.md:128 has an insertion that exceeds it split the node.  *)
(* (The first insertion never splits, and one split may not be enough.)     *)
NodeWithinMax == Whole => \A n \in Linked : Size(n) <= NodeMax

(* fuzzer.cpp:264-273: between calls, a walk from begin() to end() counts   *)
(* size() characters.  (After insert(0, "") on an empty text it counts one.)*)
IteratorCountsSize == pc = "idle" => Len(Iterated) = total_size

(* report_draft.md:114: an exception in split_node leaves the structure     *)
(* consistent.  (total_size is only brought up to date after the split.)    *)
ConsistentAfterFailure ==
  (pc = "idle" /\ outcome = "bad_alloc") => total_size = Len(Text)

(* README.txt:91: erase does what std::string::erase does, which returns    *)
(* for every length; line 330 is meant to cut a length that is too long.    *)
(* (When pos + len wraps, nothing is cut and the loop makes no progress.)   *)
EraseReturns == (req.op = "erase") ~> (pc = "idle")
===============================================================================
