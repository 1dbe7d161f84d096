---------------------------- MODULE MCSelfUpdate ----------------------------
(* Instances of SelfUpdate for TLC.                                         *)
EXTENDS SelfUpdate, TLC

CONSTANTS b1, b2, b3  \* the builds: b3 may be set to reject the node's config

Budget(moves) == [m \in Moves |-> IF m \in DOMAIN moves THEN moves[m] ELSE 0]
Setup(start, enabled, auto_, moves) ==
    [start |-> start, settings |-> [enabled |-> enabled, auto |-> auto_],
     budget |-> Budget(moves)]

(* An unattended node through failures of every kind; one whose operator   *)
(* clicks and changes settings, on a build of its own (b2) or not; a       *)
(* rollback.                                                               *)
ChannelSetups == {
    Setup(b1, TRUE, TRUE, [publish |-> 2, fault |-> 2, refusal |-> 1, kill |-> 1, cut |-> 1]),
    Setup(b1, TRUE, TRUE, [publish |-> 3, refusal |-> 2, cut |-> 1, rollback |-> 1]),
    Setup(b2, TRUE, TRUE, [publish |-> 2, click |-> 2, set |-> 1, refusal |-> 1, fault |-> 1]),
    Setup(b1, FALSE, FALSE, [publish |-> 1, click |-> 2, set |-> 1, fault |-> 1,
                             rollback |-> 1]) }
=============================================================================
