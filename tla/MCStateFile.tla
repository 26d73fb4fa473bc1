---------------------------- MODULE MCStateFile ----------------------------
(***************************************************************************)
(* Three threads are enough for two saves in flight and a third change     *)
(* between them; the retries differ in nothing but their number.           *)
(***************************************************************************)
EXTENDS StateFile

CONSTANTS w1, w2, w3

MCWriters == {w1, w2, w3}
=============================================================================
