-------------------------- MODULE MCUploadPipeline --------------------------
(* Instances of UploadPipeline for TLC.                                     *)
EXTENDS UploadPipeline, TLC

Setup(uploads, moves) ==
    [uploads |-> uploads,
     budget |-> [m \in Moves |-> IF m \in DOMAIN moves THEN moves[m] ELSE 0]]

(* An outage long enough to overflow the queue; config changes and a       *)
(* failing device; a restart; uploads off at first.                        *)
PipelineSetups == {
    Setup(TRUE, [window |-> 4, fault |-> 2, reject |-> 1]),
    Setup(TRUE, [window |-> 3, change |-> 2, fault |-> 1, device |-> 1]),
    Setup(TRUE, [window |-> 3, fault |-> 1, lag |-> 1, restart |-> 1]),
    Setup(FALSE, [window |-> 3, change |-> 1, reject |-> 1, restart |-> 1]) }
=============================================================================
