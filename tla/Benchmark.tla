-------------------------------- MODULE Benchmark -------------------------------
(***************************************************************************)
(* The benchmark driver (src/benchmark.cpp): fixed scenarios, each done to *)
(* several text structures, Repeats times to each, on a fresh structure    *)
(* every time.  The structures appear as abstract texts: that the ones of  *)
(* this repository are is what their own modules show.  What is measured   *)
(* is time and is left out; kept is what is done to each text, since the   *)
(* times are printed next to each other as those of the same work.         *)
(***************************************************************************)
EXTENDS Integers, FiniteSets, SequencesExt

CONSTANTS
  Size,       (* Size[s]: the characters a scenario prefills (N).           *)
  Times,      (* Times[s]: its edits.                                       *)
  Block,      (* The text scenario F pastes.                                *)
  Chunk,      (* The chunk some of the prefills of BiModalText go by (1000).*)
  Repeats,    (* SCENARIO_REPEATS.                                          *)
  Period,     (* Bound: after so many numbers a generator repeats itself.   *)
  Available   (* The structures this build has.                             *)

Scenarios  == {"typing", "heavy", "mixed", "random", "paster"}
Structures == {"vector", "string", "gap", "piecetable", "gnurope", "librope",
               "bimodal"}

ASSUME BenchmarkAssumption ==
  /\ Size \in [Scenarios -> Nat \ {0}] /\ Times \in [Scenarios -> Nat]
  /\ Block \in Seq({"A"})
  /\ Chunk \in Nat \ {0} /\ \A s \in Scenarios : Chunk <= Size[s]
  /\ Repeats \in Nat \ {0} /\ Period \in Nat \ {0}
  /\ Available \subseteq Structures

VARIABLES
  scenario_filter, (* The command line: a scenario letter or "all",         *)
  struct_filter,   (* a structure or "all".                                 *)
  draws,           (* The numbers a generator of the fixed seed gives.      *)
  job,             (* The row being measured, an index of Plan.             *)
  attempt,         (* How many attempts of it are over.                     *)
  pc,              (* Where the attempt is.                                 *)
  text,            (* The text of its structure,                            *)
  mid,             (* the midpoint taken after the prefill,                 *)
  i,               (* and the edits done.                                   *)
  gen,             (* The numbers taken from the attempt's generator.       *)
  ended            (* <<row, text>> for each attempt that is over.          *)

setup == <<scenario_filter, struct_filter, draws>>
vars  == <<setup, job, attempt, pc, text, mid, i, gen, ended>>

-----------------------------------------------------------------------------
(***************************************************************************)
(* The rows, in the order main measures them.                              *)
(***************************************************************************)
Rows(scenario, structures) ==
  [k \in DOMAIN structures |-> [scenario |-> scenario, struct |-> structures[k]]]

Editors == <<"gap", "piecetable", "gnurope", "librope", "bimodal">>

Plan == Rows("typing", <<"vector", "string">> \o Editors)
          \o Rows("heavy", Editors)
          \o Rows("mixed", <<"string">> \o Editors)
          \o Rows("random", Editors)
          \o Rows("paster", Editors)

(* Slip: the rows are measured for scenario A only.                         *)
LettersInsert(scenario) == CASE scenario = "typing" -> {"a"}
                             [] scenario = "heavy"  -> {"c"}
                             [] scenario = "mixed"  -> {"d"}
                             [] scenario = "random" -> {"e"}
                             [] scenario = "paster" -> {"f"}

(* Scenarios A and B share the rows of "typing"; no scenario has letter g.  *)
Letters(scenario) == CASE scenario = "typing" -> {"a", "b"}
                       [] scenario = "heavy"  -> {"c"}
                       [] scenario = "mixed"  -> {"d"}
                       [] scenario = "random" -> {"e"}
                       [] scenario = "paster" -> {"f"}

Row    == Plan[job]
Fills  == Size[Row.scenario]
Enabled == /\ scenario_filter \in Letters(Row.scenario) \cup {"all"}
           /\ struct_filter \in {Row.struct, "all"}
           /\ Row.struct \in Available

Init ==
  /\ scenario_filter \in {"all", "a", "b", "c", "d", "e", "f", "g"}
  /\ struct_filter \in Structures \cup {"all", "other"}
  /\ draws \in [0 .. Period - 1 -> 0 .. Size["random"]]
  /\ job = 1 /\ attempt = 0 /\ pc = "row"
  /\ text = << >> /\ mid = 0 /\ i = 0 /\ gen = 0
  /\ ended = {}

-----------------------------------------------------------------------------
RowSkipped ==
  /\ pc = "row" /\ job <= Len(Plan)
  /\ ~Enabled
  /\ job' = job + 1
  /\ UNCHANGED <<setup, attempt, pc, text, mid, i, gen, ended>>

(* Slip: the attempts share a generator.                                    *)
AttemptStartsShared ==
  /\ pc = "row" /\ job <= Len(Plan)
  /\ Enabled
  /\ pc' = "prefill"
  /\ text' = << >> /\ mid' = 0 /\ i' = 0
  /\ UNCHANGED <<setup, job, attempt, gen, ended>>

(* A fresh structure, and a generator in the state of its seed.             *)
AttemptStarts ==
  /\ pc = "row" /\ job <= Len(Plan)
  /\ Enabled
  /\ pc' = "prefill"
  /\ text' = << >> /\ mid' = 0 /\ i' = 0 /\ gen' = 0
  /\ UNCHANGED <<setup, job, attempt, ended>>

(* BiModalText is filled chunk by chunk in scenarios A, D and E.            *)
Chunked == Row.struct = "bimodal" /\ Row.scenario \in {"typing", "mixed", "random"}

Xs(n) == [k \in 1 .. n |-> "x"]

PrefillWhole ==
  /\ pc = "prefill"
  /\ ~Chunked /\ text = << >>
  /\ text' = Xs(Fills)
  /\ UNCHANGED <<setup, job, attempt, pc, mid, i, gen, ended>>

(* N / 1000 chunks: what is left of N is not filled.                        *)
Prefill == IF Chunked THEN Chunk * (Fills \div Chunk) ELSE Fills

PrefillChunk ==
  /\ pc = "prefill"
  /\ Chunked /\ Len(text) < Prefill
  /\ text' = text \o Xs(Chunk)
  /\ UNCHANGED <<setup, job, attempt, pc, mid, i, gen, ended>>

(* move_gap and optimize leave the text as it is.                           *)
Prefilled ==
  /\ pc = "prefill"
  /\ Len(text) = Prefill
  /\ pc' = "edit"
  /\ mid' = Len(text) \div 2
  /\ UNCHANGED <<setup, job, attempt, text, i, gen, ended>>

-----------------------------------------------------------------------------
(***************************************************************************)
(* Where the next edit goes: a random position, the middle of the text as  *)
(* it is now, the old middle, or behind the text typed there so far.       *)
(***************************************************************************)
Random == Row.scenario \in {"mixed", "random"}

(* Slip: the distribution includes the size.                                *)
RandomPosToSize == draws[gen % Period] % (Len(text) + 1)

(* dist(0, size - 1), and a draw modulo the size.                           *)
RandomPos == draws[gen % Period] % Len(text)

Follows == \/ /\ Row.struct = "piecetable"
              /\ Row.scenario # "paster"
           \/ /\ Row.struct \in {"string", "bimodal"}
              /\ Row.scenario = "typing"

Pos == CASE Random                          -> RandomPos
         [] ~Random /\ Row.struct = "gap"   -> Len(text) \div 2
         [] ~Random /\ Follows              -> mid + i
         [] OTHER                           -> mid

(* Scenario D reads the character first, except from librope.               *)
Reads == Row.scenario = "mixed" /\ Row.struct # "librope"

Typed == IF Row.scenario = "paster" THEN Block ELSE <<"A">>

Edit ==
  /\ pc = "edit"
  /\ i < Times[Row.scenario]
  /\ text' = SubSeq(text, 1, Pos) \o Typed \o SubSeq(text, Pos + 1, Len(text))
  /\ i' = i + 1
  /\ gen' = IF Random THEN gen + 1 ELSE gen
  /\ UNCHANGED <<setup, job, attempt, pc, mid, ended>>

Again == attempt + 1 < Repeats

(* The structure is destroyed when the attempt is over.                     *)
AttemptEnds ==
  /\ pc = "edit"
  /\ i = Times[Row.scenario]
  /\ ended' = ended \cup {<<Row, text>>}
  /\ pc' = "row"
  /\ IF Again THEN attempt' = attempt + 1 /\ UNCHANGED job
              ELSE attempt' = 0 /\ job' = job + 1
  /\ text' = << >> /\ mid' = 0 /\ i' = 0
  /\ UNCHANGED <<setup, gen>>

Work == \/ RowSkipped \/ AttemptStarts
        \/ PrefillWhole \/ PrefillChunk \/ Prefilled
        \/ Edit \/ AttemptEnds

(* main has returned.                                                       *)
Done == pc = "row" /\ job > Len(Plan)

Next == Work \/ (Done /\ UNCHANGED vars)

Spec == Init /\ [][Next]_vars /\ WF_vars(Work)

-----------------------------------------------------------------------------
(***************************************************************************)
(* Properties.                                                             *)
(***************************************************************************)

(* No edit is beyond the end and no read at it: BiModalText and std::string *)
(* would throw, which nothing catches, and the others would silently do     *)
(* other work than the row says.                                            *)
EditsInRange ==
  (pc = "edit" /\ i < Times[Row.scenario]) =>
    /\ Pos <= Len(text)
    /\ Reads => Pos < Len(text)

Filled(t) == Cardinality({k \in DOMAIN t : t[k] = "x"})

(* Whatever policy it follows its edits by, and in every attempt, each      *)
(* structure of a scenario ends with the same text as the others that were  *)
(* prefilled with as much: the times compared are times for the same work.  *)
SameWork ==
  \A r1, r2 \in ended :
    (r1[1].scenario = r2[1].scenario /\ Filled(r1[2]) = Filled(r2[2]))
      => r1[2] = r2[2]

(* The rows the command line asks for, going by README.txt:82-105.          *)
Asked == {r \in ToSet(Plan) :
            /\ r.struct \in Available \cap
                 (IF struct_filter = "all" THEN Structures ELSE {struct_filter})
            /\ CASE scenario_filter = "all"        -> TRUE
                 [] scenario_filter \in {"a", "b"} -> r.scenario = "typing"
                 [] scenario_filter = "c"          -> r.scenario = "heavy"
                 [] scenario_filter = "d"          -> r.scenario = "mixed"
                 [] scenario_filter = "e"          -> r.scenario = "random"
                 [] scenario_filter = "f"          -> r.scenario = "paster"
                 [] OTHER                          -> FALSE}

(* Each row asked for, and no other, is measured, and the program ends.     *)
Finishes == <>(/\ Done
               /\ {r[1] : r \in ended} = Asked)
===============================================================================
