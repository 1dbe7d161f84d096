-------------------------- MODULE MCSpectrumWindow --------------------------
(* Instances of SpectrumWindow for TLC.                                     *)
EXTENDS SpectrumWindow

(* A passband in the middle, one off to the side, one at the edge of the   *)
(* spectrum, and one whose guards leave no noise bin.                      *)
MCBands ==
    {[offset |-> 0, width |-> 2, rate |-> 6],
     [offset |-> -1, width |-> 2, rate |-> 6],
     [offset |-> 2, width |-> 2, rate |-> 6],
     [offset |-> 0, width |-> 4, rate |-> 6]}
=============================================================================
