------------------------- MODULE MCBatchCoordinator -------------------------
EXTENDS BatchCoordinator

(* The batch of each item: a batch of two beside a batch of one, and two   *)
(* batches of one.                                                         *)
TwoAndOne == <<1, 1, 2>>
OneEach == <<1, 2>>
=============================================================================
