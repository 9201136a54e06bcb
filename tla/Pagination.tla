----------------------------- MODULE Pagination -----------------------------
(***************************************************************************)
(* The arithmetic of job_done_callback (get-ckp-policies.py): how many     *)
(* iterations a query needs once its first page reports the total number   *)
(* of objects, and the offset each iteration fetches.                      *)
(***************************************************************************)
EXTENDS Naturals

(***************************************************************************)
(* Python 3 round() of the non-negative rational n / d: to the nearest     *)
(* integer, a tie going to the even neighbour ("banker's rounding").  The  *)
(* float quotient the code rounds is exact for the small operands used.    *)
(***************************************************************************)
PyRound(n, d) ==
  LET q == n \div d
      r == n % d
  IN  IF 2 * r < d \/ (2 * r = d /\ q % 2 = 0) THEN q ELSE q + 1

(* Seeded fault: round(total / nbobjects), the "+ 0.5" dropped. *)
IterationCountNoHalf(total, nbobjects) == PyRound(total, nbobjects)

(***************************************************************************)
(* count = round((total / nbobjects) + 0.5), written over integers as      *)
(* round((2 * total + nbobjects) / (2 * nbobjects)).                       *)
(***************************************************************************)
IterationCount(total, nbobjects) ==
  PyRound(2 * total + nbobjects, 2 * nbobjects)

(* offset = nbobjects * iteration, the first object a page fetches. *)
Offset(nbobjects, iteration) == nbobjects * iteration

=============================================================================
