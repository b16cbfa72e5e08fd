---------------------------- MODULE MCSignalKeys ----------------------------
(* Small instances of SignalKeys for TLC.                                  *)
EXTENDS SignalKeys, TLC

CONSTANTS s1, carol, dave

\* the first message is carol's, the others are dave's
TwoPeers == [s \in Sends |-> IF s = s1 THEN carol ELSE dave]

OnePeer == [s \in Sends |-> carol]

Interchangeable == Permutations(Pages) \cup Permutations(Reads)

\* with TwoPeers, dave's messages are too
AndMessages == Interchangeable \cup Permutations(Sends \ {s1})

\* Where every invariant but the type is excused, so it is in all that follows.
AllExcused == "fetches" \in met /\ (faults > 0 \/ met # {"fetches"})

Begun == Cardinality({s \in Sends : send[s].at # "new"})

\* One message meets all that the other bounds allow, two meet two generations (and a
\* third if no runs overlapped or were cut off), three the keys of one run.
Explored ==
    /\ ~AllExcused
    /\ LET calm == faults = 0 /\ met \subseteq {"fetches"}
       IN  \/ Begun <= 1
           \/ Begun = 2 /\ faults = 0 /\ (calm \/ made <= 2)
           \/ Begun = 3 /\ calm /\ made <= 1
=============================================================================
