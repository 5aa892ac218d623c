---------------------------- MODULE MCLocalStack ----------------------------
(* LocalStack with the first and the last of the four services. *)
EXTENDS LocalStack

CONSTANTS registry, risk

OptionSets == {{"iot_bridge"}, {"publisher"}}

ServiceList == <<registry, risk>>
=============================================================================
