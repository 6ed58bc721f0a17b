----------------------------- MODULE MCDelivery -----------------------------
(***************************************************************************)
(* The instances of Delivery for TLC.  Event 1 belongs to the first        *)
(* binding and fits no request.  2 and 3 belong to the second, which finds *)
(* 1 in the queue, has 2 ahead of 3, its only health snapshot, and leaves  *)
(* both to a third.                                                        *)
(***************************************************************************)
EXTENDS Delivery

MCEvent == 1..3
MCOwner == <<1, 2, 2>>
MCHealth == {3}
MCSize == <<2, 1, 1>>

(* For run oversized: every event fits a request of its own.               *)
AllFit == <<1, 1, 1>>
=============================================================================
