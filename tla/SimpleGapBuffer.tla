---------------------------- MODULE SimpleGapBuffer ----------------------------
(***************************************************************************)
(* The baseline gap buffer of src/Baselines.hpp: one buffer for the whole  *)
(* text, no maximum size, no slack left when it grows.  Moving the gap and *)
(* reading are those of GapNode, taken from GapBuffers.                    *)
(*                                                                         *)
(* A bad_alloc ends the program here (benchmark.cpp catches nothing), so   *)
(* no call fails.  pos + len is taken to be below the range of size_t: the *)
(* sum in erase would wrap otherwise and the gap leave the buffer.         *)
(***************************************************************************)
EXTENDS GapBuffers

CONSTANTS
  InitialSize,  (* The capacity it is constructed with.                     *)
  CharGrowth,   (* What insert(pos, char) asks expand() for (1024).         *)
  Inputs,       (* The strings a caller inserts.                            *)
  EraseLens,    (* The lengths a caller erases.                             *)
  MaxText       (* Bound: no insertion makes the text longer than this.     *)

ASSUME GapBufferAssumption == /\ InitialSize \in Nat
                              /\ CharGrowth \in Nat \ {0}
                              /\ Inputs \subseteq Seq(Char)
                              /\ EraseLens \subseteq Nat
                              /\ MaxText \in Nat

VARIABLES
  g,    (* buf, gap_start and gap_end.                                      *)
  req   (* The call being served, or NoCall.                                *)

vars == <<g, req>>

NoCall == [op |-> "none", pos |-> 0, str |-> << >>, len |-> 0]

Call == [op  : {"insert", "insert_char", "erase"},
         pos : Nat, str : Seq(Char), len : Nat]

Text == Content(g)

-----------------------------------------------------------------------------
Init == /\ g = Gap(Vector(InitialSize), 0, InitialSize)
        /\ req = NoCall

CallInsert ==
  /\ req = NoCall
  /\ \E s \in Inputs, p \in 0 .. Size(g) + 1 :
       /\ Size(g) + Len(s) <= MaxText
       /\ req' = [op |-> "insert", pos |-> p, str |-> s, len |-> 0]
  /\ UNCHANGED g

CallInsertChar ==
  /\ req = NoCall
  /\ \E c \in Char, p \in 0 .. Size(g) + 1 :
       /\ Size(g) < MaxText
       /\ req' = [op |-> "insert_char", pos |-> p, str |-> <<c>>, len |-> 0]
  /\ UNCHANGED g

CallErase ==
  /\ req = NoCall
  /\ \E n \in EraseLens, p \in 0 .. Size(g) + 1 :
       req' = [op |-> "erase", pos |-> p, str |-> << >>, len |-> n]
  /\ UNCHANGED g

-----------------------------------------------------------------------------
Return == req' = NoCall

(* A position beyond the end is the end.                                    *)
Placed == IF req.pos > Size(g) THEN Size(g) ELSE req.pos

Opened == MoveGap(g, Placed)

(* Slip: the back is copied behind the old gap, not to the end.             *)
GrowAtOldGap(n, needed) ==
  LET back_len == Len(n.buf) - n.gap_end
      new_cap  == MaxOf(2 * Len(n.buf), Len(n.buf) + needed)
  IN  Gap(Copy(Copy(Vector(new_cap), 0, FrontSpan(n)), n.gap_end, BackSpan(n)),
          n.gap_start, new_cap - back_len)

(* expand(): the front stays, the back moves to the end.                    *)
Grow(n, needed) ==
  LET back_len == Len(n.buf) - n.gap_end
      new_cap  == MaxOf(2 * Len(n.buf), Len(n.buf) + needed)
  IN  Gap(Copy(Copy(Vector(new_cap), 0, FrontSpan(n)),
               new_cap - back_len, BackSpan(n)),
          n.gap_start, new_cap - back_len)

DoInsert ==
  /\ req.op = "insert"
  /\ LET m == Opened
         r == IF GapLen(m) < Len(req.str) THEN Grow(m, Len(req.str)) ELSE m
     IN  g' = FillGap(r, req.str)
  /\ Return

(* Slip: a full gap is noticed one character late.                          *)
DoInsertCharLate ==
  /\ req.op = "insert_char"
  /\ g' = FillGap(Opened, req.str)
  /\ Return

DoInsertChar ==
  /\ req.op = "insert_char"
  /\ LET m == Opened
         r == IF m.gap_start = m.gap_end THEN Grow(m, CharGrowth) ELSE m
     IN  g' = FillGap(r, req.str)
  /\ Return

EraseIgnored ==
  /\ req.op = "erase"
  /\ req.pos >= Size(g) \/ req.len = 0
  /\ UNCHANGED g
  /\ Return

DoErase ==
  /\ req.op = "erase"
  /\ req.pos < Size(g) /\ req.len > 0
  /\ LET cut == IF req.pos + req.len > Size(g) THEN Size(g) - req.pos
                                               ELSE req.len
     IN  g' = Swallow(MoveGap(g, req.pos), cut)
  /\ Return

Next == \/ CallInsert
        \/ CallInsertChar
        \/ CallErase
        \/ DoInsert
        \/ DoInsertChar
        \/ EraseIgnored
        \/ DoErase

Spec == Init /\ [][Next]_vars

-----------------------------------------------------------------------------
(* Type invariant: the gap lies inside the buffer, also when it is full,    *)
(* empty or without any capacity.                                           *)
TypeOK == /\ g \in GapNodes
          /\ req \in Call \cup {NoCall}

(* The buffer is an abstract text that takes a position beyond the end as   *)
(* the end: the promise that lets it stand in for a BiModalText.            *)
AbsReq == [req EXCEPT !.op = IF @ = "insert_char" THEN "insert" ELSE @]

Abs == INSTANCE TextBuffer WITH
         text <- Text, req <- AbsReq,
         ClampsPosition <- TRUE, AllocMayFail <- FALSE

Implements == Abs!Spec
===============================================================================
