------------------------- MODULE MCGetCkpPoliciesOld -------------------------
(***************************************************************************)
(* A server for the oldest exporter: two layers in two pages (the second   *)
(* empty); the first layer's rulebase of three rules one per page, so its  *)
(* pages 1 and 2 are queued together and may complete in either order;    *)
(* the second's of one rule; hosts and groups in one page each.  Items     *)
(* are uids; the page sizes are the hard-coded 50, 100 and 30 scaled down. *)
(***************************************************************************)
EXTENDS GetCkpPoliciesOld

CONSTANTS layersq, rb1, rb2, hosts, groups

MCRulebaseQ == 1 :> rb1 @@ 2 :> rb2
MCObjectQs == <<hosts, groups>>

MCListing ==
  layersq :> <<1, 2>> @@ rb1 :> <<11, 12, 14>> @@ rb2 :> <<13>>
  @@ hosts :> <<6, 5>> @@ groups :> <<7, 8>>

MCNbObjects ==
  layersq :> 2 @@ rb1 :> 1 @@ [q \in {rb2, hosts, groups} |-> 3]
=============================================================================
