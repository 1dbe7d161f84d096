---------------------------- MODULE ConfigStore ----------------------------
(***************************************************************************)
(* The contract of the config writers (server.rs) as the sync task sees    *)
(* it: the running config and its file change together, in one step, and   *)
(* a recorded version alone may fail to reach the file.                    *)
(***************************************************************************)
EXTENDS Naturals

CONSTANTS Content, Bind

VARIABLES
    running,  \* the config in effect
    saved     \* the config in the file

(* An edit or a push.  Only an edit that takes the microwaveprop block     *)
(* away takes the version back, to nothing.                                *)
Change ==
    /\ running' \in [content : Content, bind : Bind, block : BOOLEAN, ver : Nat]
    /\ IF running'.block THEN running'.ver >= running.ver ELSE running'.ver = 0
    /\ saved' = running'

(* A later version for the same config.                                    *)
Record ==
    /\ running.block
    /\ running'.ver \in Nat /\ running'.ver > running.ver
    /\ running' = [running EXCEPT !.ver = running'.ver]
    /\ UNCHANGED saved

(* The file catches up with a recorded version.                            *)
Save ==
    /\ saved' = running
    /\ UNCHANGED running

Reload ==
    /\ running' = saved
    /\ UNCHANGED saved

Next == Change \/ Record \/ Save \/ Reload
=============================================================================
