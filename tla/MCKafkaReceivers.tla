------------------------- MODULE MCKafkaReceivers -------------------------
(* Instance of KafkaReceivers for TLC. *)
EXTENDS KafkaReceivers, TLC

CONSTANTS m1, m2, a, b, l

TwoUsers == m1 :> 1 @@ m2 :> 2
=============================================================================
