------------------------------- MODULE MCBenchmark ------------------------------
(***************************************************************************)
(* Values for TLC.  The chunk divides the sizes of two of the scenarios    *)
(* with a chunked prefill, not that of the third.                          *)
(***************************************************************************)
EXTENDS Benchmark

TheSize == [s \in Scenarios |-> CASE s = "typing" -> 5
                                  [] s = "heavy"  -> 3
                                  [] s = "mixed"  -> 2
                                  [] s = "random" -> 2
                                  [] s = "paster" -> 3]
TheTimes == [s \in Scenarios |-> 3]
TheBlock == <<"A", "A">>
All == Structures
===============================================================================
