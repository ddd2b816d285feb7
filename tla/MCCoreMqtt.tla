----------------------------- MODULE MCCoreMqtt -----------------------------
(* CoreMqtt for TLC. *)
EXTENDS CoreMqtt, TLC

Provisioned == [access_token |-> "accepted", mqtt_url |-> TRUE,
                refresh_token |-> TRUE, wifi |-> TRUE]
FactoryNew == [access_token |-> "none", mqtt_url |-> FALSE,
               refresh_token |-> FALSE, wifi |-> FALSE]

\* One device with every setting, one with none, and one short of each.
AnySettings ==
  {Provisioned, FactoryNew,
   [Provisioned EXCEPT !.access_token = "none"],
   [Provisioned EXCEPT !.mqtt_url = FALSE],
   [Provisioned EXCEPT !.refresh_token = FALSE],
   [Provisioned EXCEPT !.wifi = FALSE]}

\* The token of a provisioned device still expires (TokenExpires).
ProvisionedSettings == {Provisioned}

HandleSymmetry == Permutations(Clients)
=============================================================================
