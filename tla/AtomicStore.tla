---------------------------- MODULE AtomicStore ----------------------------
(***************************************************************************)
(* What the rest of the adapter relies on the durable store for: an update *)
(* is applied as a whole, one that was acknowledged stays, and only a      *)
(* power loss takes back updates, those that nobody was told of.  Gateway  *)
(* and CreateReconciler take every transaction of the store for one step.  *)
(***************************************************************************)
CONSTANT Updates  \* the updates that transactions of the store make

VARIABLES
  value, \* the updates that a reader of the state sees
  acked  \* the updates whose transaction has returned

vars == <<value, acked>>

Init == value = {} /\ acked = {}

Apply(u) ==
  /\ value' = value \cup {u}
  /\ UNCHANGED acked

Acknowledge(u) ==
  /\ u \in value
  /\ acked' = acked \cup {u}
  /\ UNCHANGED value

PowerLoss ==
  /\ value' \in {v \in SUBSET value : acked \subseteq v}
  /\ UNCHANGED acked

Next == PowerLoss \/ \E u \in Updates : Apply(u) \/ Acknowledge(u)

Spec == Init /\ [][Next]_vars
=============================================================================
