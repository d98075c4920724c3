-------------------------- MODULE MCMqttTopicScan --------------------------
(* Two scans of one connection, the second while the first is being undone. *)
EXTENDS MqttTopicScan, TLC

Symmetry == Permutations(Scans)
=============================================================================
