------------------------------- MODULE MCJobs -------------------------------
(***************************************************************************)
(* Jobs instantiated for TLC: two queries whose page sizes differ, so that *)
(* one query needs several pages and the other one or two, and their       *)
(* pages complete and are numbered in interleaved orders.                  *)
(***************************************************************************)
EXTENDS Jobs

CONSTANTS q1, q2

(* A query paged one object at a time and one paged three at a time. *)
MCSeeds == <<q1, q2>>
MCNbObjects == q1 :> 1 @@ q2 :> 3

(* 0 .. 4 objects: no object, one page, a full page, a partial last page. *)
MCTotals == 0 .. 4

(* Both queries are paged MgmtCliJob queries. *)
MCPaged == {q1, q2}
=============================================================================
