--------------------------- MODULE MCMqttService ---------------------------
(* The connection life cycle on two connections whose links come up twice. *)
EXTENDS MqttService, TLC

Symmetry == Permutations(Conns)
=============================================================================
