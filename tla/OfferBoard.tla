----------------------------- MODULE OfferBoard -----------------------------
(***************************************************************************)
(* What the pipeline promises of a deal, seen from HubSpot: line items are *)
(* only added; an offer is an approved quote over line items that exist,   *)
(* and neither changes nor goes away once approved; the deal shows an      *)
(* offer in one step, id and status together, and a link only with the     *)
(* offer it leads to.  ProcessDeal implements this module.                 *)
(***************************************************************************)
EXTENDS Naturals

VARIABLES
  lineItems,   \* ids of the line items on the deal
  offers,      \* approved quotes: records with an id and a set of line items
  shown,       \* the deal's quote_id, 0 at first
  link,        \* the offer the deal's quote_link leads to, 0 at first
  status       \* the deal's availability_status

vars == <<lineItems, offers, shown, link, status>>

Init ==
  /\ lineItems = {} /\ offers = {}
  /\ shown = 0 /\ link = 0 /\ status = "unset"

AddLineItem ==
  /\ \E i \in lineItems' \ lineItems : lineItems' = lineItems \cup {i}
  /\ UNCHANGED <<offers, shown, link, status>>

Approve ==
  /\ \E o \in offers' \ offers :
       /\ offers' = offers \cup {o}
       /\ \A other \in offers : other.id # o.id
       /\ o.items # {} /\ o.items \subseteq lineItems
  /\ UNCHANGED <<lineItems, shown, link, status>>

Publish ==
  /\ \E o \in offers : shown' = o.id /\ link' \in {link, o.id}
  /\ status' = "available"
  /\ UNCHANGED <<lineItems, offers>>

MarkUnavailable ==
  /\ status' = "no_availability"
  /\ UNCHANGED <<lineItems, offers, shown, link>>

Next == AddLineItem \/ Approve \/ Publish \/ MarkUnavailable

Spec == Init /\ [][Next]_vars
=============================================================================
