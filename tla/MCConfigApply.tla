--------------------------- MODULE MCConfigApply ---------------------------
(* Instances of ConfigApply for TLC.                                        *)
EXTENDS ConfigApply, TLC

Budget(moves) == [m \in Moves |-> IF m \in DOMAIN moves THEN moves[m] ELSE 0]

(* Two PUTs and the sync task at once, with one failure of each kind; a    *)
(* PUT that takes the block away while the sync task applies or records,   *)
(* and next to one that keeps it; a client that leaves, and the PUT after  *)
(* it, with a restart.                                                     *)
ApplySetups == {
    Budget([put |-> 2, push |-> 1, fault |-> 1]),
    Budget([put |-> 1, push |-> 1, ack |-> 1, fault |-> 1, restart |-> 1]),
    Budget([put |-> 2, ack |-> 1, device |-> 1]),
    Budget([unlink |-> 1, push |-> 1, ack |-> 1, fault |-> 1]),
    Budget([put |-> 1, unlink |-> 1]),
    Budget([put |-> 2, leave |-> 1, restart |-> 1]) }

CONSTANTS c1, c2, a1, a2
One == {[content |-> c1, bind |-> a1, block |-> TRUE, ver |-> 1]}

DisconnectSetups == {Budget([put |-> 1, leave |-> 1])}

Perms == Permutations(Thread) \cup Permutations(Client)
=============================================================================
