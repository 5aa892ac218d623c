----------------------------- MODULE MCIotBridge -----------------------------
(* IotBridge with four messages, two of them valid ones. *)
EXTENDS IotBridge

Kinds == <<"valid", "invalid", "valid", "unparsable">>
=============================================================================
