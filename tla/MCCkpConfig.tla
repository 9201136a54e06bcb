---------------------------- MODULE MCCkpConfig ----------------------------
(***************************************************************************)
(* CkpConfig for TLC: two object uids each seen in a short and a long      *)
(* version, two layers, and up to four folded jobs of two entries, so     *)
(* that a uid is reported by several pages and by group members.           *)
(***************************************************************************)
EXTENDS CkpConfig

CONSTANTS r1, r2

MCRules == {r1, r2}
=============================================================================
