------------------------- MODULE MCMailboxDelivery -------------------------
(* Small instances of MailboxDelivery for TLC.                             *)
EXTENDS MailboxDelivery, TLC

CONSTANTS m1, m2, alice, bob, d1, n1, n2, w1, w2

\* every message is for bob, and every device is his
ToBob == [m \in Messages |-> bob]
OwnedByBob == [d \in Devices |-> bob]

\* the first message is for alice, who has no device
ToAliceAndBob == [m \in Messages |-> IF m = m1 THEN alice ELSE bob]

Interchangeable == Permutations(Workers) \cup Permutations(Nodes)
=============================================================================
