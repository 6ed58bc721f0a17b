---------------------------- MODULE EventCustody ----------------------------
(***************************************************************************)
(* What the delivery path promises its callers, without queue, request or  *)
(* process: an event that was committed is queued, or the account it       *)
(* belongs to has received it, or a durable local copy of it is kept (as a *)
(* dead letter, in the quarantine archive, in a spool file set aside), or  *)
(* it was lost with a damaged spool file.                                  *)
(* Delivery is at least once: an event may be received and still queued,   *)
(* and a queued event may be received again.                               *)
(*                                                                         *)
(* Delivery.tla implements this specification (Delivery!Custody).          *)
(***************************************************************************)
CONSTANTS
  Event,      \* the events the runtime can emit
  Account,    \* the installations that can hold the credential
  Owner       \* Owner[e] is the installation event e was stamped with

VARIABLES
  queued,     \* events waiting in the spool
  received,   \* pairs <<i, e>>: the server took event e from installation i
  kept,       \* events with a durable local copy outside the queue
  lost        \* events that a damaged queue has lost

vars == <<queued, received, kept, lost>>

(* The events their own account has received.                              *)
ReceivedEvents == {e \in Event : <<Owner[e], e>> \in received}

Init ==
  /\ queued = {}
  /\ received = {}
  /\ kept = {}
  /\ lost = {}

(* Events enter the queue in batches; an event may be emitted again.       *)
Commit ==
  /\ queued \subseteq queued' /\ queued' \subseteq Event
  /\ UNCHANGED <<received, kept, lost>>

(* The server takes events of the account that signed the request. A       *)
(* request in flight may carry events that are queued no longer, but then  *)
(* a copy of them is kept.                                                 *)
Receive ==
  /\ received \subseteq received'
  /\ \A p \in received' \ received :
       \E i \in Account, e \in queued \cup kept : Owner[e] = i /\ p = <<i, e>>
  /\ UNCHANGED <<queued, kept, lost>>

(* Events leave the queue only when received or kept, the copy being made  *)
(* no later than the removal.                                              *)
Dispose ==
  /\ kept \subseteq kept' /\ kept' \subseteq queued \cup kept
  /\ queued' \subseteq queued
  /\ queued \subseteq queued' \cup kept' \cup ReceivedEvents
  /\ UNCHANGED <<received, lost>>

(* A damaged queue is kept or lost as a whole, dead letters included.      *)
Damage ==
  /\ queued' = {}
  /\ kept' \cup lost' = queued \cup kept \cup lost
  /\ kept' \subseteq queued \cup kept /\ lost \subseteq lost'
  /\ UNCHANGED received

Next == Commit \/ Receive \/ Dispose \/ Damage

Spec == Init /\ [][Next]_vars
=============================================================================
