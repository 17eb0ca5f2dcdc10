------------------------------- MODULE PieceTable -------------------------------
(***************************************************************************)
(* The baseline piece table of src/Baselines.hpp (NaivePieceTable): every  *)
(* inserted string is appended to add_buffer, and the text is a list of    *)
(* pieces of it.  original_buffer is never written, so every piece has     *)
(* source ADD and the source is left out.                                  *)
(*                                                                         *)
(* The loop of erase that consumes pieces is stepped through one piece at  *)
(* a time, with its locals it (a position in the list) and len (req.len).  *)
(* A bad_alloc ends the program here (benchmark.cpp catches nothing), so   *)
(* no call fails; pos + len is below the range of size_t.                  *)
(***************************************************************************)
EXTENDS Integers, SequencesExt

CONSTANTS
  Char,       (* The characters of a text.                                  *)
  Inputs,     (* The strings a caller inserts.                              *)
  EraseLens,  (* The lengths a caller erases.                               *)
  MaxAdded    (* Bound: no insertion makes add_buffer longer than this.     *)

ASSUME PieceTableAssumption == /\ Inputs \subseteq Seq(Char)
                               /\ EraseLens \subseteq Nat
                               /\ MaxAdded \in Nat

VARIABLES
  add_buffer,    (* Everything ever inserted.                               *)
  pieces,        (* The list of pieces.                                     *)
  total_length,  (* The size the table reports.                             *)
  req,           (* The call being served; req.len is what is left to erase.*)
  it             (* erase: the piece its loop is on; 0 outside the loop.    *)

vars == <<add_buffer, pieces, total_length, req, it>>

NoCall == [op |-> "none", pos |-> 0, str |-> << >>, len |-> 0]

Call == [op : {"insert", "erase"}, pos : Nat, str : Seq(Char), len : Nat]

Piece == [start : Nat, length : Nat \ {0}]

-----------------------------------------------------------------------------
Characters(p) == SubSeq(add_buffer, p.start + 1, p.start + p.length)

(* scan(): piece after piece.                                               *)
Text == FlattenSeq([k \in 1 .. Len(pieces) |-> Characters(pieces[k])])

(* current_pos when the loops reach piece k: the characters before it.      *)
Before[k \in 1 .. Len(pieces) + 1] ==
  IF k = 1 THEN 0 ELSE Before[k - 1] + pieces[k - 1].length

(* current_pos behind it.                                                   *)
End(k) == Before[k] + pieces[k].length

(* The first of these pieces, or the end of the list.                       *)
FirstPiece(those) == IF those = {} THEN Len(pieces) + 1 ELSE Min(those)

(* Slip: the start of the piece is forgotten.                               *)
AtUnstarted(index) ==
  LET k == FirstPiece({j \in DOMAIN pieces : End(j) > index})
  IN  add_buffer[(index - Before[k]) + 1]

(* at(index), below size(): the piece that holds the character.             *)
At(index) ==
  LET k == FirstPiece({j \in DOMAIN pieces : End(j) > index})
  IN  add_buffer[pieces[k].start + (index - Before[k]) + 1]

(* The parts of a piece before and from offset on.                          *)
Left(p, offset) == [start |-> p.start, length |-> offset]

(* Slip: the start of the right part is not moved.                          *)
RightUnmoved(p, offset) == [start |-> p.start, length |-> p.length - offset]

Right(p, offset) == [start |-> p.start + offset, length |-> p.length - offset]

-----------------------------------------------------------------------------
Init == /\ add_buffer = << >>
        /\ pieces = << >>
        /\ total_length = 0
        /\ req = NoCall
        /\ it = 0

CallInsert ==
  /\ req = NoCall
  /\ \E s \in Inputs, p \in 0 .. total_length + 1 :
       /\ Len(add_buffer) + Len(s) <= MaxAdded
       /\ req' = [op |-> "insert", pos |-> p, str |-> s, len |-> 0]
  /\ UNCHANGED <<add_buffer, pieces, total_length, it>>

CallErase ==
  /\ req = NoCall
  /\ \E n \in EraseLens, p \in 0 .. total_length + 1 :
       req' = [op |-> "erase", pos |-> p, str |-> << >>, len |-> n]
  /\ UNCHANGED <<add_buffer, pieces, total_length, it>>

-----------------------------------------------------------------------------
InsertEmpty ==
  /\ req.op = "insert"
  /\ req.str = << >>
  /\ req' = NoCall
  /\ UNCHANGED <<add_buffer, pieces, total_length, it>>

Inserting == req.op = "insert" /\ req.str # << >>

NewPiece == [start |-> Len(add_buffer), length |-> Len(req.str)]

(* The piece the position is in or ends at, and the offset in it.           *)
Target == FirstPiece({k \in DOMAIN pieces : End(k) >= req.pos})

Offset == req.pos - Before[Target]

(* The list with the pieces of new in place of the piece k.                 *)
Put(k, new) == SubSeq(pieces, 1, k - 1) \o new
                 \o SubSeq(pieces, k + 1, Len(pieces))

InsertedAs(list) ==
  /\ pieces' = list
  /\ add_buffer' = add_buffer \o req.str
  /\ total_length' = total_length + Len(req.str)
  /\ req' = NoCall
  /\ UNCHANGED it

(* The first piece, or a position beyond the end.                           *)
InsertAppends ==
  /\ Inserting
  /\ Target > Len(pieces)
  /\ InsertedAs(Append(pieces, NewPiece))

InsertInside ==
  /\ Inserting
  /\ Target <= Len(pieces)
  /\ Offset > 0 /\ Offset < pieces[Target].length
  /\ InsertedAs(Put(Target, <<Left(pieces[Target], Offset), NewPiece,
                              Right(pieces[Target], Offset)>>))

InsertInFront ==
  /\ Inserting
  /\ Target <= Len(pieces)
  /\ Offset = 0
  /\ InsertedAs(Put(Target, <<NewPiece, pieces[Target]>>))

InsertBehind ==
  /\ Inserting
  /\ Target <= Len(pieces)
  /\ Offset > 0 /\ Offset >= pieces[Target].length
  /\ InsertedAs(Put(Target, <<pieces[Target], NewPiece>>))

-----------------------------------------------------------------------------
EraseIgnored ==
  /\ req.op = "erase" /\ it = 0
  /\ req.pos >= total_length \/ req.len = 0
  /\ req' = NoCall
  /\ UNCHANGED <<add_buffer, pieces, total_length, it>>

(* The first piece that ends behind pos; what it has before pos is kept.    *)
EraseStart ==
  /\ req.op = "erase" /\ it = 0
  /\ req.pos < total_length /\ req.len > 0
  /\ LET k == FirstPiece({j \in DOMAIN pieces : End(j) > req.pos})
         offset == req.pos - Before[k]
     IN  IF offset > 0
           THEN /\ pieces' = Put(k, <<Left(pieces[k], offset),
                                      Right(pieces[k], offset)>>)
                /\ it' = k + 1
           ELSE UNCHANGED pieces /\ it' = k
  /\ req' = [req EXCEPT !.len = IF req.pos + @ > total_length
                                  THEN total_length - req.pos ELSE @]
  /\ UNCHANGED <<add_buffer, total_length>>

Consuming == it > 0 /\ req.len > 0 /\ it <= Len(pieces)

(* Slip: a piece of exactly the length left is not consumed whole.          *)
ConsumedWholeLess == pieces[it].length < req.len

ConsumedWhole == pieces[it].length <= req.len

EraseWhole ==
  /\ Consuming
  /\ ConsumedWhole
  /\ pieces' = Put(it, << >>)
  /\ total_length' = total_length - pieces[it].length
  /\ req' = [req EXCEPT !.len = @ - pieces[it].length]
  /\ UNCHANGED <<add_buffer, it>>

(* Slip: the end of the piece is taken away instead of its beginning.       *)
ErasePartFromEnd ==
  /\ Consuming
  /\ ~ConsumedWhole
  /\ pieces' = Put(it, <<Left(pieces[it], pieces[it].length - req.len)>>)
  /\ total_length' = total_length - req.len
  /\ req' = [req EXCEPT !.len = 0]
  /\ UNCHANGED <<add_buffer, it>>

ErasePart ==
  /\ Consuming
  /\ ~ConsumedWhole
  /\ pieces' = Put(it, <<Right(pieces[it], req.len)>>)
  /\ total_length' = total_length - req.len
  /\ req' = [req EXCEPT !.len = 0]
  /\ UNCHANGED <<add_buffer, it>>

EraseDone ==
  /\ it > 0 /\ ~Consuming
  /\ it' = 0
  /\ req' = NoCall
  /\ UNCHANGED <<add_buffer, pieces, total_length>>

Next == \/ CallInsert
        \/ CallErase
        \/ InsertEmpty
        \/ InsertAppends
        \/ InsertInside
        \/ InsertInFront
        \/ InsertBehind
        \/ EraseIgnored
        \/ EraseStart
        \/ EraseWhole
        \/ ErasePart
        \/ EraseDone

Spec == Init /\ [][Next]_vars

-----------------------------------------------------------------------------
(* Type invariant: no piece is ever empty, and the erase loop stands on a   *)
(* piece or at the end of the list.                                         *)
TypeOK == /\ add_buffer \in Seq(Char)
          /\ pieces \in Seq(Piece)
          /\ total_length \in Nat
          /\ req \in Call \cup {NoCall}
          /\ it \in 0 .. Len(pieces) + 1

(* Every piece lies in add_buffer and no byte of it belongs to two pieces,  *)
(* however often pieces are split, so no character can appear twice.        *)
PiecesApart ==
  LET Bytes(p) == p.start + 1 .. p.start + p.length
  IN  \A k \in 1 .. Len(pieces) :
        /\ Bytes(pieces[k]) \subseteq 1 .. Len(add_buffer)
        /\ \A j \in 1 .. k - 1 : Bytes(pieces[j]) \cap Bytes(pieces[k]) = {}

(* The size reported is the length of the text, and at() and scan() see the *)
(* same characters, also in the middle of a long erase.                     *)
ReadsAgree == /\ total_length = Len(Text)
              /\ \A i \in 0 .. total_length - 1 : At(i) = Text[i + 1]

(* The call an observer sees: a length to erase is cut at the end.          *)
AbsReq == [req EXCEPT !.len = IF req.pos + @ > Len(Text)
                                THEN IF req.pos < Len(Text)
                                       THEN Len(Text) - req.pos ELSE 0
                                ELSE @]

(* The table is an abstract text that takes a position beyond the end as    *)
(* the end: the promise that lets it stand in for a BiModalText.            *)
Abs == INSTANCE TextBuffer WITH
         text <- Text, req <- AbsReq,
         ClampsPosition <- TRUE, AllocMayFail <- FALSE

Implements == Abs!Spec
===============================================================================
