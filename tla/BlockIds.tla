------------------------------ MODULE BlockIds ------------------------------
(***************************************************************************)
(* Block ids: the counter a GVSP device numbers its frames with, and the   *)
(* receiver's signed distance between two of them (block_id_distance of    *)
(* src/gige/stream/runner.rs).  max is 2^16 - 1, or 2^64 - 1 for extended  *)
(* ids; the result is then cut to 64 bits, which no property here reaches. *)
(***************************************************************************)
EXTENDS Integers

\* The device's counter runs over 1..max and skips 0.  (external)
NextBlock(max, id) == IF id = max THEN 1 ELSE id + 1

\* How far id is ahead of last on the ring 1..max; with an id of 0, which
\* the counter never produces, on 0..max.
AheadOf(max, id, last) ==
  LET modulus == max + (IF id = 0 \/ last = 0 THEN 1 ELSE 0)
  IN  (id + modulus - last) % modulus

block_id_distance(max, id, last) ==
  LET modulus == max + (IF id = 0 \/ last = 0 THEN 1 ELSE 0)
      ahead == AheadOf(max, id, last)
  IN  IF ahead <= modulus \div 2 THEN ahead ELSE ahead - modulus
=============================================================================
