-------------------------------- MODULE MCVLLM --------------------------------
(***************************************************************************)
(* An instance of VLLMWorker for TLC: two overlapping calls are enough for *)
(* a success to cross a failure, and a batch of two for a sibling to       *)
(* outlive the stream that raised.                                         *)
(***************************************************************************)
EXTENDS VLLMWorker
=============================================================================
