--------------------- MODULE MCSerialBatchEventUploader ---------------------
(* Finite instances of SerialBatchEventUploader for TLC. *)
EXTENDS SerialBatchEventUploader, TLC

CONSTANTS c1, c2, c3

\* A call with one event, one with two, and a third.
SizesSmall == c1 :> 1 @@ c2 :> 2 @@ c3 :> 2
SizesOne == c1 :> 1
=============================================================================
