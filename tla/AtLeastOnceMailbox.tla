------------------------ MODULE AtLeastOnceMailbox -------------------------
(***************************************************************************)
(* What the mailbox promises, without processes, sockets, timers or        *)
(* tables: the server has custody of a message from the moment it accepts  *)
(* it, and gives custody up only once the recipient has the message.       *)
(***************************************************************************)
CONSTANT Messages

VARIABLES custody,    \* what the server does with each message
          delivered   \* the messages the recipient has

vars == <<custody, delivered>>

Custody == {"none", "held", "dead", "released"}

TypeOK == custody \in [Messages -> Custody] /\ delivered \subseteq Messages

Init == /\ custody = [m \in Messages |-> "none"]
        /\ delivered = {}

Move(m, from, to) == /\ custody[m] \in from
                     /\ custody' = [custody EXCEPT ![m] = to]
                     /\ UNCHANGED delivered

\* A message is accepted, perhaps again after it was released.
Accept(m) == Move(m, {"none", "released"}, "held")

\* Delivery is possible even after a dead letter: a copy may be in flight.
Deliver(m) == /\ custody[m] # "none"
              /\ delivered' = delivered \cup {m}
              /\ UNCHANGED custody

Release(m) == m \in delivered /\ Move(m, {"held", "dead"}, "released")

DeadLetter(m) == Move(m, {"held"}, "dead")

\* A dispatch that began before the dead letter takes the message up again.
Revive(m) == Move(m, {"dead"}, "held")

Next == \E m \in Messages : \/ Accept(m) \/ Deliver(m) \/ Release(m)
                            \/ DeadLetter(m) \/ Revive(m)

Spec == Init /\ [][Next]_vars
=============================================================================
