----------------------------- MODULE MCPresence -----------------------------
(* Small instances of Presence for TLC: one account, sockets of one or two *)
(* processes.                                                              *)
EXTENDS Presence, TLC

CONSTANTS alice, n1

OneUser == [s \in Sockets |-> alice]
OneNode == [s \in Sockets |-> n1]

Interchangeable == Permutations(Procs)

\* Heartbeats keep TTLs from running out.
Refreshed == Init /\ [][Next /\ \A k \in Keys : ~Lapse(k)]_vars
=============================================================================
