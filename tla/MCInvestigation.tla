-------------------------- MODULE MCInvestigation --------------------------
(***************************************************************************)
(* Small instances of Investigation for TLC.                               *)
(***************************************************************************)
EXTENDS Investigation

Eligible == [i \in Issues |-> "eligible"]
Delivered == [order |-> "delivered", target |-> NONE, timeline |-> "within",
              proof |-> "handed", policy |-> Eligible, alerts |-> NONE]
Shipped == [Delivered EXCEPT !.order = "shipped", !.timeline = "overdue", !.proof = NONE]

\* One of two packages was delivered and left where the customer may look; the
\* only package is late and its carrier says so.
MCWorlds ==
    {[Delivered EXCEPT !.proof = "reception", !.target = "delivered"],
     [Shipped EXCEPT !.alerts = "active"]}

(* The package was delivered and handed over. *)
DeliveredWorlds == {Delivered}
=============================================================================
