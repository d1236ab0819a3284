------------------------- MODULE LifecycleDelivery -------------------------
(***************************************************************************)
(* What the outbox promises the marketplace (docs/marketplace-integration. *)
(* md:34-35): an event that is owed is delivered at least once, and is     *)
(* acknowledged only after the marketplace received it.                    *)
(***************************************************************************)

CONSTANT Events

VARIABLES owed, received, acked

TypeOK ==
  /\ owed \subseteq Events
  /\ received \subseteq owed
  /\ acked \subseteq received

Init == owed = {} /\ received = {} /\ acked = {}

Owe(e) == owed' = owed \cup {e} /\ UNCHANGED <<received, acked>>

\* Again and again until acknowledged, and once more by a sender that is late.
Deliver(e) == e \in owed /\ received' = received \cup {e} /\ UNCHANGED <<owed, acked>>

Acknowledge(e) == e \in received /\ acked' = acked \cup {e} /\ UNCHANGED <<owed, received>>

Next == \E e \in Events : Owe(e) \/ Deliver(e) \/ Acknowledge(e)

Spec == Init /\ [][Next]_<<owed, received, acked>>

\* An event that is owed is acknowledged in the end.
EveryEventAcknowledged == \A e \in Events : e \in owed ~> e \in acked

=============================================================================
