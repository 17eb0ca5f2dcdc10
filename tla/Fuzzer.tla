--------------------------------- MODULE Fuzzer ---------------------------------
(***************************************************************************)
(* The fuzzer and the random regression tests of src/fuzzer.cpp: a random  *)
(* operation is done to a BiModalText and then to a std::string, and the   *)
(* two are compared.  Every random choice is nondeterministic here, so a   *)
(* behaviour is a run of the fuzzer under some seed; the checks, which the *)
(* code makes every so many operations, may be made between any two.       *)
(***************************************************************************)
EXTENDS BiModalReads

VARIABLES
  reference,  (* The std::string.                                           *)
  mirror,     (* The operation done to the text and not yet to reference.   *)
  verdict     (* "ok" until a check fails or the text throws.               *)

fuzzVars == <<vars, reference, mirror, verdict>>

FuzzInit == /\ Init
            /\ reference = << >>
            /\ mirror = NoRequest
            /\ verdict = "ok"

(* Between two operations.                                                  *)
Quiet == pc = "idle" /\ mirror = NoRequest /\ verdict = "ok"

-----------------------------------------------------------------------------
(***************************************************************************)
(* The operations.                                                         *)
(***************************************************************************)
Do(r) == /\ Quiet
         /\ Call(r)
         /\ mirror' = r
         /\ UNCHANGED <<reference, verdict>>

DoInsert ==
  \E pos \in 0 .. Len(reference), s \in Inputs :
    /\ s # << >>
    /\ Len(Text) + Len(s) <= MaxText
    /\ Free # {}
    /\ Do([op |-> "insert", pos |-> pos, str |-> s, len |-> 0])

(* A length of at least one that ends inside the reference.                 *)
DoErase ==
  \E pos \in 0 .. Len(reference) - 1, n \in EraseLens :
    /\ 0 < n /\ n <= Len(reference) - pos
    /\ Do([op |-> "erase", pos |-> pos, str |-> << >>, len |-> n])

DoOptimize == Do([op |-> "keep", pos |-> 0, str |-> << >>, len |-> 0])

(* The fuzzer never draws this one: the sanity tests at its start do it.     *)
DoClear == Do([op |-> "clear", pos |-> 0, str |-> << >>, len |-> 0])

(* The text serves the call.                                                *)
Serve == Step /\ UNCHANGED <<reference, mirror, verdict>>

Mirrored ==
  CASE mirror.op = "insert" -> StringInsert(reference, mirror.pos, mirror.str)
    [] mirror.op = "erase"  -> StringErase(reference, mirror.pos, mirror.len)
    [] mirror.op = "clear"  -> << >>
    [] OTHER                -> reference

(* The call has returned: the same is done to the reference.                *)
Mirror ==
  /\ pc = "idle" /\ mirror # NoRequest
  /\ outcome = "ok"
  /\ reference' = Mirrored
  /\ mirror' = NoRequest
  /\ UNCHANGED <<vars, verdict>>

(* The call has thrown: run() catches it and reports a bug.                 *)
CallThrew ==
  /\ pc = "idle" /\ mirror # NoRequest
  /\ outcome # "ok"
  /\ verdict' = "caught"
  /\ UNCHANGED <<vars, reference, mirror>>

-----------------------------------------------------------------------------
(***************************************************************************)
(* The checks.                                                             *)
(***************************************************************************)
(* at(pos) with its test of the range.                                      *)
ReadAt(pos) == IF pos < total_size THEN At(pos) ELSE "out_of_range"

ReadsAsReference(pos) == ReadAt(pos) = reference[pos + 1]

VerifyState == Text = reference /\ total_size = Len(reference)

(* Size, random access and iterator consistency.                            *)
CheckAll ==
  /\ total_size = Len(Iterated)
  /\ \A idx \in 0 .. Len(Iterated) - 1 :
       total_size > 0 => Iterated[idx + 1] = ReadAt(idx)
  /\ Text = Iterated

(* check_equal of the regression tests, at the positions it reads.          *)
CheckEqual(sample) ==
  /\ Len(reference) = total_size
  /\ Text = reference
  /\ Iterated = reference
  /\ \A pos \in sample \cup {0, Len(reference) - 1} :
       reference # << >> => ReadsAsReference(pos)

Check(passes) ==
  /\ Quiet
  /\ verdict' = IF passes THEN "ok" ELSE "caught"
  /\ UNCHANGED <<vars, reference, mirror>>

DoRead == \E pos \in 0 .. Len(reference) - 1 : Check(ReadsAsReference(pos))

Verify == Check(VerifyState)

CheckInvariants == Check(CheckAll)

Compare == \E pos \in 0 .. Len(reference) - 1 : Check(CheckEqual({pos}))

FuzzNext == \/ DoInsert
            \/ DoErase
            \/ DoOptimize
            \/ DoClear
            \/ Serve
            \/ Mirror
            \/ CallThrew
            \/ DoRead
            \/ Verify
            \/ CheckInvariants
            \/ Compare

FuzzSpec == FuzzInit /\ [][FuzzNext]_fuzzVars

(* Whatever the seed, the fuzzer reports a bug only when an allocation has  *)
(* failed under it: no sequence of the operations it draws makes a text     *)
(* throw or differ from the std::string in any of the checks, iteration     *)
(* and random access included.                                              *)
OnlyFailuresCaught == verdict = "caught" => outcome = "bad_alloc"
===============================================================================
