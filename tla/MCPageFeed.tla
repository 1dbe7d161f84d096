----------------------------- MODULE MCPageFeed -----------------------------
(* Instances of PageFeed for TLC.                                           *)
EXTENDS PageFeed

Setup(start, moves) ==
    [start |-> start, budget |-> [m \in Moves |-> IF m \in DOMAIN moves THEN moves[m] ELSE 0]]

(* A page that boots while its operator types; one whose socket fails      *)
(* while others edit and rows pour in; one that saves.                     *)
PageSetups == {
    Setup("boot", [measure |-> 2, type |-> 1, drop |-> 1, restart |-> 1, row |-> 1]),
    Setup("open", [measure |-> 2, other |-> 2, row |-> 2, type |-> 1, drop |-> 1]),
    Setup("open", [measure |-> 1, other |-> 1, drop |-> 2, restart |-> 1]),
    Setup("open", [type |-> 2, save |-> 2, refuse |-> 1, measure |-> 1, drop |-> 1,
                   restart |-> 1]) }

(* Typing goes on while the save is under way, and someone else edits.     *)
FormSetups == {Setup("open", [type |-> 1, more |-> 1, save |-> 1, other |-> 1])}
=============================================================================
