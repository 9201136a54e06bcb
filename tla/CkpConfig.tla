------------------------------ MODULE CkpConfig ------------------------------
(***************************************************************************)
(* The result aggregator of get-ckp-policies.py (tools/checkpoint): class  *)
(* CkpConfig and get_jobs_result, which folds the parsed output of every   *)
(* finished job into one objects dictionary and one list of access layers. *)
(*                                                                         *)
(* main() folds the jobs of two scheduler runs: first the pages of         *)
(* "access-layers", then the pages of every other query, among them one    *)
(* "access-rulebase" query per layer found.  Each step folds one job of    *)
(* _done, chosen among the outputs the server may give.  An object is      *)
(* abstracted to its uid and the length of its JSON encoding, the only     *)
(* parts add_object_dict looks at.                                         *)
(***************************************************************************)
EXTENDS Naturals, Sequences, SequencesExt, FiniteSets

CONSTANTS
  Uids,       \* uids of objects (numbers, so that sort() can order them)
  LayerUids,  \* uids of access layers
  Rules,      \* access rules
  Sizes,      \* lengths of the JSON encoding of an object
  MaxList,    \* most entries a page lists
  MaxPages    \* most jobs get_jobs_result folds in a run of the model

ASSUME /\ Uids \subseteq Nat /\ LayerUids \subseteq Nat /\ Sizes \subseteq Nat
       /\ MaxList \in Nat /\ MaxPages \in Nat

Object == [uid : Uids, size : Sizes]

VARIABLES
  objects_dict,   \* CkpConfig.objects_dict: list of objects
  access_layers,  \* CkpConfig.access_layers: list of [uid, rulebase]
  phase,          \* which _done main() folds: "layers", "data", "sorted"
  pages,          \* jobs folded so far
  seen            \* every object some folded job reported (history)

vars == <<objects_dict, access_layers, phase, pages, seen>>

(* find_uid: the position of the first entry of list with that uid, or 0. *)
FindUid(list, uid) == SelectInSeq(list, LAMBDA o : o.uid = uid)

(* Seeded fault: the first version of an object wins, as in the older     *)
(* get-ckp-policies/get-ckp-policies.py of jtacl.                         *)
AddObjectDictFirstWins(dict, o) ==
  IF FindUid(dict, o.uid) = 0 THEN Append(dict, o) ELSE dict

(***************************************************************************)
(* add_object_dict: a new uid is appended; a known uid is replaced, moved  *)
(* to the end, by an encoding strictly longer than the one kept.           *)
(***************************************************************************)
AddObjectDict(dict, o) ==
  LET i == FindUid(dict, o.uid)
  IN  IF i = 0 THEN Append(dict, o)
      ELSE IF o.size > dict[i].size THEN Append(RemoveAt(dict, i), o)
      ELSE dict

(* add_object_dict for each object of the sequence objs, in order. *)
AddObjects(dict, objs) == FoldLeft(AddObjectDict, dict, objs)

(* Seeded fault: layer['rulebase'] = [] forgotten for a new layer. *)
AddAccessLayerNoRulebase(layers, uid) ==
  IF FindUid(layers, uid) = 0 THEN Append(layers, [uid |-> uid]) ELSE layers

(* add_access_layer: an unseen layer is appended with an empty rulebase. *)
AddAccessLayer(layers, uid) ==
  IF FindUid(layers, uid) = 0
  THEN Append(layers, [uid |-> uid, rulebase |-> <<>>])
  ELSE layers

(* add_rulebase, rules half: the page's rules extend its layer's rulebase. *)
AddRulebase(layers, uid, rules) ==
  LET i == FindUid(layers, uid)
  IN  [layers EXCEPT ![i].rulebase = @ \o rules]

(* The outputs a page may carry: up to MaxList entries. *)
ObjectPages == SeqOf(Object, MaxList)
GroupPages == SeqOf(Object \X SeqOf(Object, 1), 1)

Init ==
  /\ objects_dict = <<>>
  /\ access_layers = <<>>
  /\ phase = "layers"
  /\ pages = 0
  /\ seen = {}

-----------------------------------------------------------------------------
(* get_jobs_result, one job of _done at a time. *)

(* An "access-layers" page: add_access_layer for each layer it lists. *)
FoldLayersPage ==
  /\ phase = "layers" /\ pages < MaxPages
  /\ \E ls \in SeqOf(LayerUids, MaxList) :
       access_layers' = FoldLeft(AddAccessLayer, access_layers, ls)
  /\ pages' = pages + 1
  /\ UNCHANGED <<objects_dict, phase, seen>>

(* main() queues the second run from the layers found and runs it. *)
StartData ==
  /\ phase = "layers"
  /\ phase' = "data"
  /\ UNCHANGED <<objects_dict, access_layers, pages, seen>>

(* An "access-rulebase" page of a known layer: add_rulebase appends its   *)
(* rules to the layer and folds its objects-dictionary.                   *)
FoldRulebasePage ==
  /\ phase = "data" /\ pages < MaxPages
  /\ \E l \in {access_layers[i].uid : i \in DOMAIN access_layers},
        rules \in SeqOf(Rules, 1), objs \in ObjectPages :
       /\ access_layers' = AddRulebase(access_layers, l, rules)
       /\ objects_dict' = AddObjects(objects_dict, objs)
       /\ seen' = seen \cup ToSet(objs)
  /\ pages' = pages + 1
  /\ UNCHANGED phase

(* A "groups" page: each group, then each of its members, is folded.      *)
FoldGroupsPage ==
  /\ phase = "data" /\ pages < MaxPages
  /\ \E gs \in GroupPages :
       LET AddGroup(dict, g) == AddObjects(AddObjectDict(dict, g[1]), g[2])
       IN  /\ objects_dict' = FoldLeft(AddGroup, objects_dict, gs)
           /\ seen' = seen \cup {g[1] : g \in ToSet(gs)}
                           \cup UNION {ToSet(g[2]) : g \in ToSet(gs)}
  /\ pages' = pages + 1
  /\ UNCHANGED <<access_layers, phase>>

(* A page of any other query: each of its objects is folded. *)
FoldObjectsPage ==
  /\ phase = "data" /\ pages < MaxPages
  /\ \E objs \in ObjectPages :
       /\ objects_dict' = AddObjects(objects_dict, objs)
       /\ seen' = seen \cup ToSet(objs)
  /\ pages' = pages + 1
  /\ UNCHANGED <<access_layers, phase>>

(* CkpConfig.sort: layers and objects ordered by uid before the export. *)
Sort ==
  /\ phase = "data"
  /\ access_layers' = SortSeq(access_layers, LAMBDA a, b : a.uid < b.uid)
  /\ objects_dict' = SortSeq(objects_dict, LAMBDA a, b : a.uid < b.uid)
  /\ phase' = "sorted"
  /\ UNCHANGED <<pages, seen>>

(* The JSON document is printed and the program ends. *)
Exported ==
  /\ phase = "sorted"
  /\ UNCHANGED vars

Next ==
  \/ FoldLayersPage \/ StartData \/ FoldRulebasePage \/ FoldGroupsPage
  \/ FoldObjectsPage \/ Sort \/ Exported

Spec == Init /\ [][Next]_vars

-----------------------------------------------------------------------------
TypeOK ==
  /\ objects_dict \in Seq(Object)
  /\ access_layers \in Seq([uid : LayerUids, rulebase : Seq(Rules)])
  /\ phase \in {"layers", "data", "sorted"}
  /\ pages \in 0 .. MaxPages
  /\ seen \subseteq Object

(* The objects a version of uid u was seen as. *)
SeenAs(u) == {o \in seen : o.uid = u}

(***************************************************************************)
(* Whatever order the jobs of _done reported them in, the dictionary holds *)
(* exactly one entry per uid any page, rulebase dictionary or group member *)
(* reported, nothing else, and that entry is a longest version seen.       *)
(***************************************************************************)
KeepsMostComplete ==
  /\ \A i, j \in DOMAIN objects_dict :
       objects_dict[i].uid = objects_dict[j].uid => i = j
  /\ ToSet(objects_dict) \subseteq seen
  /\ \A u \in {o.uid : o \in seen} :
       \E i \in DOMAIN objects_dict :
         /\ objects_dict[i].uid = u
         /\ \A o \in SeenAs(u) : o.size <= objects_dict[i].size
=============================================================================
