------------------------------ MODULE TextBuffer ------------------------------
(***************************************************************************)
(* The abstract text: what every text structure of this repository         *)
(* promises to its caller, whatever it keeps inside.  It is the            *)
(* std::string that src/fuzzer.cpp edits next to a BiModalText and         *)
(* compares with it.  A caller issues one request at a time (the code is   *)
(* single-threaded); the request is served in one step, except an erase,   *)
(* which may be served in several steps that each take characters away at  *)
(* the requested position.                                                 *)
(***************************************************************************)
EXTENDS Integers, Sequences

CONSTANTS
  Char,           (* The characters a text is made of.                      *)
  AllocMayFail,   (* May an allocation throw std::bad_alloc?                *)
  ClampsPosition  (* Is an insert beyond the end moved to the end (the      *)
                  (* baselines), or rejected (BiModalText)?                 *)

VARIABLES
  text,           (* The characters held, in order.                         *)
  req             (* The request being served, or NoRequest.                *)

vars == <<text, req>>

(***************************************************************************)
(* std::string::insert and std::string::erase, positions counted from 0.   *)
(***************************************************************************)
StringInsert(t, p, s) == SubSeq(t, 1, p) \o s \o SubSeq(t, p + 1, Len(t))
StringErase(t, p, n) == SubSeq(t, 1, p) \o SubSeq(t, p + n + 1, Len(t))

(***************************************************************************)
(* Requests.  "keep" stands for every operation that may reorganise the    *)
(* storage and must not change the text (optimize, a split).               *)
(***************************************************************************)
NoRequest == [op |-> "none", pos |-> 0, str |-> <<>>, len |-> 0]

Request == [op  : {"insert", "erase", "keep", "clear"},
            pos : Nat,
            str : Seq(Char),
            len : Nat]

Init == /\ text = <<>>
        /\ req = NoRequest

Invoke == /\ req = NoRequest
          /\ req' \in Request
          /\ UNCHANGED text

Insert == /\ req.op = "insert"
          /\ req.pos <= Len(text)
          /\ text' = StringInsert(text, req.pos, req.str)
          /\ req' = NoRequest

InsertBeyondEnd ==
          /\ req.op = "insert"
          /\ req.pos > Len(text)
          /\ text' = IF ClampsPosition THEN text \o req.str ELSE text
          /\ req' = NoRequest

Erase == /\ req.op = "erase"
         /\ req.pos <= Len(text)
         /\ text' = StringErase(text, req.pos, req.len)
         /\ req' = NoRequest

EraseBeyondEnd ==
         /\ req.op = "erase"
         /\ req.pos > Len(text)
         /\ req' = NoRequest
         /\ UNCHANGED text

(* Part of a long erase: k characters now, the rest (if any) later.        *)
EraseSome == /\ req.op = "erase"
             /\ req.pos <= Len(text)
             /\ \E k \in 1 .. Len(text) :
                  /\ k <= req.len
                  /\ text' = StringErase(text, req.pos, k)
                  /\ req' = [req EXCEPT !.len = @ - k]

Keep == /\ req.op = "keep"
        /\ req' = NoRequest
        /\ UNCHANGED text

Clear == /\ req.op = "clear"
         /\ text' = <<>>
         /\ req' = NoRequest

(* A failed allocation ends the operation and leaves the text as it was.   *)
Fail == /\ AllocMayFail
        /\ req # NoRequest
        /\ req' = NoRequest
        /\ UNCHANGED text

Next == \/ Invoke
        \/ Insert
        \/ InsertBeyondEnd
        \/ Erase
        \/ EraseBeyondEnd
        \/ EraseSome
        \/ Keep
        \/ Clear
        \/ Fail

Spec == Init /\ [][Next]_vars
===============================================================================
