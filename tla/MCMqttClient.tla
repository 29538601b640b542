---------------------------- MODULE MCMqttClient ----------------------------
(* MqttClient with a few messages, losses and requests. *)
EXTENDS MqttClient
=============================================================================
