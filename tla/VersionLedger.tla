--------------------------- MODULE VersionLedger ---------------------------
(***************************************************************************)
(* The abstract contract of the config version (sync.rs invariant 1,       *)
(* api.md "Versions"): the website appends to a ledger of configs; the     *)
(* node holds an index into it, in memory and on disk, and never makes one *)
(* up.                                                                     *)
(***************************************************************************)
EXTENDS Naturals, Sequences

CONSTANT Config

VARIABLES
    ledger,   \* the configs minted, by version
    running,  \* the version the node runs, 0 for none
    saved     \* the version in its file

ledgerVars == <<ledger, running, saved>>

Init ==
    /\ ledger \in {<<>>} \cup {<<c>> : c \in Config}
    /\ running \in 0..Len(ledger)
    /\ saved = running

Mint ==
    /\ \E c \in Config : ledger' = Append(ledger, c)
    /\ UNCHANGED <<running, saved>>

(* The node is handed a later version; the file may miss it.               *)
Record ==
    /\ running' \in (running + 1)..Len(ledger)
    /\ saved' \in {saved, running'}
    /\ UNCHANGED ledger

Save ==
    /\ saved' = running
    /\ UNCHANGED <<ledger, running>>

Forget ==
    /\ running' = 0
    /\ saved' = 0
    /\ UNCHANGED ledger

Reload ==
    /\ running' = saved
    /\ UNCHANGED <<ledger, saved>>

Next == Mint \/ Record \/ Save \/ Forget \/ Reload

Spec == Init /\ [][Next]_ledgerVars
=============================================================================
