---------------------------- MODULE MCConfigSync ----------------------------
(* Instances of ConfigSync for TLC: three contents, and setups that name    *)
(* how often each move may happen.                                          *)
EXTENDS ConfigSync, TLC, FiniteSets

Only(moves) == [m \in Moves |-> IF m \in DOMAIN moves THEN moves[m] ELSE 0]
Setup(start, moves) == [start |-> start, budget |-> Only(moves)]

(* Edits on both sides, drops and a reconnect; then an unlinked node, a     *)
(* failed write and a restart among them.                                  *)
SafetySetups == {
    Setup("linked", [local |-> 2, web |-> 1, connect |-> 2, drop |-> 1]),
    Setup("synced", [local |-> 1, unlink |-> 1, web |-> 1, connect |-> 2, restart |-> 1]),
    Setup("synced", [local |-> 1, web |-> 2, connect |-> 2, drop |-> 1, write |-> 1,
                     restart |-> 1]) }

(* A website that edits while sockets drop and the node restarts; a node    *)
(* that edits over a socket that is lost and comes back, as the report or   *)
(* its answer may be under way; and both, with and without a socket.        *)
AgreementSetups == {
    Setup("linked", [web |-> 2, connect |-> 2, drop |-> 2, restart |-> 1]),
    Setup("new", [web |-> 1, connect |-> 2, drop |-> 1, restart |-> 1]),
    Setup("synced", [local |-> 2, connect |-> 2, drop |-> 1]),
    Setup("synced", [local |-> 1, web |-> 1, connect |-> 2, drop |-> 1, restart |-> 1]),
    Setup("synced", [local |-> 2, web |-> 1, drop |-> 1]) }

(* The shortest way to what the code does not keep.                        *)
CrossingSetups == {Setup("synced", [local |-> 1, web |-> 1, connect |-> 1])}

Perms == Permutations(Config)
=============================================================================
