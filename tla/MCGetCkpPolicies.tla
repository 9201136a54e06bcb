--------------------------- MODULE MCGetCkpPolicies ---------------------------
(***************************************************************************)
(* A management server with two access layers, listed out of uid order,   *)
(* a rulebase of two rules and one of a single rule, two hosts and two     *)
(* groups.  Object 9 comes in a short and then a longer version from the   *)
(* two rules; object 5 comes as a host and, differently but as long, as a  *)
(* group member, each the second item of its listing.                      *)
(***************************************************************************)
EXTENDS GetCkpPolicies

CONSTANTS login, logout, layersq, rb1, rb2, hosts, groups

Obj(u, s, t) == [uid |-> u, size |-> s, tag |-> t]

MCRulebaseQ == 1 :> rb1 @@ 2 :> rb2
MCObjectQs == <<hosts, groups>>
MCGroupQs == {groups}

MCListing ==
  login :> <<>> @@ logout :> <<>> @@ layersq :> <<2, 1>>
  @@ rb1 :> <<11, 12>> @@ rb2 :> <<13>>
  @@ hosts :> <<Obj(6, 1, "a"), Obj(5, 1, "a")>>
  @@ groups :> << <<Obj(7, 1, "a"), <<>> >>,
                  <<Obj(8, 1, "a"), <<Obj(5, 1, "b")>> >> >>

MCRuleDict == 11 :> <<Obj(9, 1, "a")>> @@ 12 :> <<Obj(9, 2, "a")>> @@ 13 :> <<>>

MCQueries == {login, logout, layersq, rb1, rb2, hosts, groups}

(* Two pages of layers, the second empty (round() of 2/2 + 0.5), two of   *)
(* the first rulebase; everything else fits in one page.                  *)
MCNbObjects == layersq :> 2 @@ rb1 :> 1 @@ [q \in MCQueries |-> 3]

(* Every listing in one page: the runs, their returns and raises, without *)
(* pagination.                                                             *)
MCNbObjectsFlat == [q \in MCQueries |-> 3]

(* Hosts and groups in two pages each, so that which of their second      *)
(* pages _done lists first depends on which first page completed first.   *)
MCNbObjectsTie == hosts :> 1 @@ groups :> 1 @@ [q \in MCQueries |-> 3]
=============================================================================
