------------------------ MODULE MCGetCkpPoliciesJtacl ------------------------
(***************************************************************************)
(* The server of MCGetCkpPolicies without login and logout: two layers,   *)
(* listed out of uid order, in two pages (the second empty); a rulebase    *)
(* of two rules in two pages, whose objects-dictionaries bring object 9    *)
(* short then long; a rulebase of one rule; hosts and groups.              *)
(***************************************************************************)
EXTENDS GetCkpPoliciesJtacl

CONSTANTS layersq, rb1, rb2, hosts, groups

Obj(u, s, t) == [uid |-> u, size |-> s, tag |-> t]

MCRulebaseQ == 1 :> rb1 @@ 2 :> rb2
MCObjectQs == <<hosts, groups>>

MCListing ==
  layersq :> <<2, 1>> @@ rb1 :> <<11, 12>> @@ rb2 :> <<13>>
  @@ hosts :> <<Obj(6, 1, "a"), Obj(5, 1, "a")>>
  @@ groups :> <<Obj(7, 1, "a"), Obj(8, 1, "a")>>

MCRuleDict == 11 :> <<Obj(9, 1, "a")>> @@ 12 :> <<Obj(9, 2, "a")>> @@ 13 :> <<>>

MCNbObjects ==
  layersq :> 2 @@ rb1 :> 1 @@ [q \in {rb2, hosts, groups} |-> 3]
=============================================================================
