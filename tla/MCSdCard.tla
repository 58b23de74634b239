------------------------------ MODULE MCSdCard ------------------------------
(***************************************************************************)
(* An instance of SdCard for TLC: a window of one sector, and file data of *)
(* three, which is a full chunk of two and the rest.                       *)
(***************************************************************************)
EXTENDS SdCard, TLC

MCTransfers == {<<"a", "b", "a">>, <<"b", "a", "b">>, 2 :> "a", 2 :> "b"}
=============================================================================
