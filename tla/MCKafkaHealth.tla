--------------------------- MODULE MCKafkaHealth ----------------------------
(* A small instance of KafkaHealth. *)
EXTENDS KafkaHealth
=============================================================================
