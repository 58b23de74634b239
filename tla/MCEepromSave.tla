---------------------------- MODULE MCEepromSave ----------------------------
(***************************************************************************)
(* Copies of two blocks; two of the three saves share their first block,   *)
(* and that of the default save is all zeros.                              *)
(***************************************************************************)
EXTENDS EepromSave

MCImage == [d \in Saves |->
  CASE d = "default" -> <<"zero", "sum0">>
    [] d = "s1" -> <<"x", "sum1">>
    [] OTHER -> <<"x", "sum2">>]
MCContent == {"zero", "torn", "x", "sum0", "sum1", "sum2"}
=============================================================================
