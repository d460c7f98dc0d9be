---------------------------- MODULE ConformanceMC ----------------------------
(***************************************************************************)
(* Conformance for TLC: the options worth telling apart.                   *)
(***************************************************************************)
EXTENDS Conformance

Called(concurrency, raceRepeats) ==
    [concurrency |-> concurrency, raceRepeats |-> raceRepeats]

MCOptions == {Called(2, 2), Called(3, 1), Called(1, 1),
              Called(NotANumber, 1), Called(2, NotANumber)}

=============================================================================
