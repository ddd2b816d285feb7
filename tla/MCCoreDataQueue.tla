--------------------------- MODULE MCCoreDataQueue ---------------------------
(* Instances of CoreDataQueue for TLC: which producers exist and what they say. *)
EXTENDS CoreDataQueue, TLC

CONSTANTS Open, Short, Ip    \* two error texts and an address, not numbers

Key(m, d, p) == [method |-> m, device |-> d, param |-> p]
Methods == <<"device-data", "sensor-data", "sensor-error">>

\* core_thresholds.h: wifi by 5, leak on change, power and the rest by 5 percent.
Rules == [p \in {"", "wifi", "leak", "power", "IPv4"} |->
            [behavior  |-> CASE p = "wifi" -> "AbsoluteDelta"
                             [] p = "leak" -> "OnChange"
                             [] OTHER -> "RelativePercent",
             threshold |-> 5]]
SomeNumbers == -10..110

\* Producers of the controller itself, a parameter per method but for the error
\* of wifi, which its numbers clear.
OwnKeys == <<Key("device-data", "", "IPv4"), Key("sensor-data", "", "wifi"),
             Key("sensor-error", "", "wifi")>>
OwnSamples ==
  [k \in ToSet(OwnKeys) |-> CASE k.method = "device-data" -> {Ip}
                              [] k.method = "sensor-error" -> {Open, Short}
                              [] OTHER -> {-3, 0, 3, 6}]

\* A nameless sample, a parameter on which change alone decides, and a relative
\* one without a method ("|..." sorts behind every method name).
OtherKeys == <<Key("sensor-data", "", ""), Key("sensor-data", "", "leak"),
               Key("", "", "power")>>
OtherSamples ==
  [k \in ToSet(OtherKeys) |-> CASE k.param = "power" -> {100, 104, 106}
                                [] k.param = "leak" -> {0, 1}
                                [] OTHER -> {0}]

\* Devices of either kind, not both at once: their keys share no cache entry.
BothKeys == OwnKeys \o OtherKeys
BothSamples == OwnSamples @@ OtherSamples
OneKindOfDevice ==
  \E keys \in {ToSet(OwnKeys), ToSet(OtherKeys)} :
    \A k \in Keys : reading[k] # None => k \in keys
OneDeviceSpec ==
  Init /\ [][Next /\ OneKindOfDevice']_vars /\ Fairness

\* These producers are ones the theorems about deduplication speak of.
ASSUME OwnProducersAssumption == Keys = ToSet(BothKeys) => OwnParameters

\* A producer that scopes its metric and its errors to a sub-device.
ScopedKeys == <<Key("sensor-data", "d1", "wifi"), Key("sensor-error", "d1", "wifi")>>
ScopedSamples ==
  [k \in ToSet(ScopedKeys) |-> IF k.method = "sensor-error" THEN {Open, Short} ELSE {0, 3, 6}]

\* A relative rule whose metric rests at zero.
ZeroKeys == <<Key("sensor-data", "", "power")>>
ZeroSamples == [k \in ToSet(ZeroKeys) |-> {0, 100}]
=============================================================================
