---------------------------- MODULE CoreDataQueue ----------------------------
(***************************************************************************)
(* The telemetry queue of core_data_queue.cpp: producers upsert samples    *)
(* under the queue mutex, the drain task swaps the whole map out under it  *)
(* and then decides, without it, which methods are worth a message.        *)
(*                                                                         *)
(* A key is the method/device/parameter triple of build_item_key, KeyOrder *)
(* lists the keys the producers use in the order of the std::map.  Names   *)
(* are members of small sets; numbers are scaled to integers.              *)
(***************************************************************************)
EXTENDS Integers, SequencesExt

CONSTANTS
  KeyOrder,      \* sequence of the keys [method, device, param] in map order
  MethodOrder,   \* sequence of the methods in map order
  DefaultMethod, \* "sensor-data", stands in for an empty method
  ErrorMethod,   \* "sensor-error"
  RawParam,      \* "IPv4"
  Empty,         \* the empty string: no method, no device, no parameter
  Samples,       \* the values a producer may report for each key
  Numbers,       \* the values that is_numeric_string accepts
  Rule,          \* find_threshold_rule: [behavior, threshold] of a parameter
  None           \* nothing reported, cached or announced yet

Keys == ToSet(KeyOrder)
Values == UNION {Samples[k] : k \in Keys}
ValueKeys == {k.device : k \in Keys} \cup {Empty}
Params == {k.param : k \in Keys}

ASSUME NumbersAssumption == Numbers \subseteq Int /\ None \notin Values
ASSUME RuleAssumption ==
  \A p \in Params : /\ Rule[p].behavior \in {"AbsoluteDelta", "RelativePercent", "OnChange"}
                    /\ Rule[p].threshold \in Nat
                    /\ Rule[p].behavior # "OnChange" => Rule[p].threshold > 0

VARIABLES
  mqtt_connected, time_valid,    \* the two gates of the drain
  g_data_queue,                  \* pending value of each key, None when absent
  local_queue, pc,               \* the drained map and the task's location
  g_last_sent_values,            \* caches, indexed by device and parameter
  g_last_sent_string_values,
  reading,                       \* history: what producers last reported
  announced                      \* history: what the last message said of a key

caches == <<g_last_sent_values, g_last_sent_string_values>>
vars == <<mqtt_connected, time_valid, g_data_queue, local_queue, pc,
          caches, reading, announced>>

Nothing == [k \in Keys |-> None]
CacheKeys == ValueKeys \X Params

TypeOK ==
  /\ mqtt_connected \in BOOLEAN /\ time_valid \in BOOLEAN
  /\ pc \in {"wait", "drain"}
  /\ \A f \in {g_data_queue, local_queue, reading, announced} :
       /\ DOMAIN f = Keys
       /\ \A k \in Keys : f[k] \in Samples[k] \cup {None}
  /\ g_last_sent_values \in [CacheKeys -> (Values \cap Numbers) \cup {None}]
  /\ g_last_sent_string_values \in [CacheKeys -> (Values \ Numbers) \cup {None}]

Init ==
  /\ mqtt_connected = FALSE /\ time_valid \in BOOLEAN
  /\ g_data_queue = Nothing /\ local_queue = Nothing /\ pc = "wait"
  /\ g_last_sent_values = [x \in CacheKeys |-> None]
  /\ g_last_sent_string_values = [x \in CacheKeys |-> None]
  /\ reading = Nothing /\ announced = Nothing

-----------------------------------------------------------------------------
(* Names and rules *)

Method(k) == IF k.method = Empty THEN DefaultMethod ELSE k.method

\* build_value_key looks a sample up under its device ...
ValueKey(k) == <<k.device, k.param>>
\* ... but the emission loop knows only the name (lines 216 and 238).
StoreKey(k) == <<Empty, k.param>>

Distance(a, b) == IF a < b THEN b - a ELSE a - b

\* The quotient abs_diff / last_value is negative for a negative last value.
PercentReached(last, new, threshold) ==
  last > 0 /\ Distance(last, new) * 100 >= threshold * last

should_send_numeric(p, last, new) ==
  CASE Rule[p].behavior = "AbsoluteDelta" -> Distance(last, new) >= Rule[p].threshold
    [] Rule[p].behavior = "OnChange" -> new # last
    [] OTHER -> PercentReached(last, new, Rule[p].threshold)

-----------------------------------------------------------------------------
(* data_queue_upsert, by any producer task *)

\* Mutant: a sample that is already pending is kept (emplace for operator[]).
UpsertKeepsOld(k, v) ==
  /\ g_data_queue' = [g_data_queue EXCEPT ![k] = IF @ = None THEN v ELSE @]
  /\ reading' = [reading EXCEPT ![k] = v]
  /\ UNCHANGED <<mqtt_connected, time_valid, local_queue, pc, caches, announced>>

Upsert(k, v) ==
  /\ g_data_queue' = [g_data_queue EXCEPT ![k] = v]
  /\ reading' = [reading EXCEPT ![k] = v]
  /\ UNCHANGED <<mqtt_connected, time_valid, local_queue, pc, caches, announced>>

-----------------------------------------------------------------------------
(* process_data_queue_once *)

\* The gates, then the swap under the mutex.
\* Mutant: the map is copied and cleared later, outside the mutex.
SwapWithoutClear ==
  /\ pc = "wait" /\ mqtt_connected /\ time_valid
  /\ g_data_queue # Nothing
  /\ local_queue' = g_data_queue
  /\ pc' = "drain"
  /\ UNCHANGED <<mqtt_connected, time_valid, g_data_queue, caches, reading, announced>>

Swap ==
  /\ pc = "wait" /\ mqtt_connected /\ time_valid
  /\ g_data_queue # Nothing
  /\ local_queue' = g_data_queue
  /\ g_data_queue' = Nothing
  /\ pc' = "drain"
  /\ UNCHANGED <<mqtt_connected, time_valid, caches, reading, announced>>

Drained == {k \in Keys : local_queue[k] # None /\ k.param # Empty}
IsNumeric(k) == Method(k) # ErrorMethod /\ k.param # RawParam /\ local_queue[k] \in Numbers

\* A std::map is walked in the order of its keys.
Precedes(order, a, b) == \E i, j \in DOMAIN order : i < j /\ order[i] = a /\ order[j] = b

\* The string cache as the evaluation loop sees it when it comes to key k:
\* every numeric sample before k erased its own entry (line 179).
Erased(ks) == {ValueKey(k) : k \in {j \in ks : IsNumeric(j)}}
ErasedBefore(k) == Erased({j \in Drained : Precedes(KeyOrder, j, k)})

\* Does this sample alone make its method worth a message (159-193)?
Significant(k) ==
  LET v == local_queue[k]
      vk == ValueKey(k)
      last == g_last_sent_values[vk]
  IN IF Method(k) = ErrorMethod
       THEN vk \in ErasedBefore(k) \/ g_last_sent_string_values[vk] # v
       ELSE IsNumeric(k) /\ last # None => should_send_numeric(k.param, last, v)

MethodsToSend == {Method(k) : k \in {j \in Drained : Significant(j)}}

\* A message carries every sample of its method, except errors already known.
Carried(k) == Method(k) = ErrorMethod => Significant(k)
Emitted == {k \in Drained : Method(k) \in MethodsToSend /\ Carried(k)}

\* Samples are emitted method by method: of those that share an entry of a cache,
\* the last one stays in it.
SentBefore(j, k) ==
  \/ Precedes(MethodOrder, Method(j), Method(k))
  \/ Method(j) = Method(k) /\ Precedes(KeyOrder, j, k)
LastSent(ks) == CHOOSE k \in ks : \A j \in ks \ {k} : SentBefore(j, k)
Stored(cache, ks) ==
  [x \in CacheKeys |->
     LET here == {k \in ks : StoreKey(k) = x}
     IN IF here = {} THEN cache[x] ELSE local_queue[LastSent(here)]]

\* Mutant: the cache follows every drained number, sent or not.
DrainedNumbers == {k \in Drained : IsNumeric(k)}
EmittedNumbers == {k \in Emitted : IsNumeric(k)}
\* Mutant: error texts are sent but not remembered.
NoErrors == {}
EmittedErrors == {k \in Emitted : Method(k) = ErrorMethod}

\* The rest of the call: both loops, and mqtt_enqueue_message per method.
Drain ==
  /\ pc = "drain"
  /\ g_last_sent_values' = Stored(g_last_sent_values, EmittedNumbers)
  /\ g_last_sent_string_values' =
       Stored([x \in CacheKeys |-> IF x \in Erased(Drained) THEN None
                                   ELSE g_last_sent_string_values[x]],
              EmittedErrors)
  /\ LET gone == Erased(Drained)
     IN announced' = [k \in Keys |->
          IF k \in Emitted THEN local_queue[k]
          ELSE IF Method(k) = ErrorMethod /\ ValueKey(k) \in gone THEN None
          ELSE announced[k]]
  /\ local_queue' = Nothing
  /\ pc' = "wait"
  /\ UNCHANGED <<mqtt_connected, time_valid, g_data_queue, reading>>

-----------------------------------------------------------------------------
(* The gates move on their own. *)

TimeBecomesValid ==
  /\ ~time_valid /\ time_valid' = TRUE
  /\ UNCHANGED <<mqtt_connected, g_data_queue, local_queue, pc,
                 caches, reading, announced>>

LinkChanges ==
  /\ mqtt_connected' = ~mqtt_connected
  /\ UNCHANGED <<time_valid, g_data_queue, local_queue, pc,
                 caches, reading, announced>>

Next ==
  \/ \E k \in Keys : \E v \in Samples[k] : Upsert(k, v)
  \/ Swap \/ Drain \/ TimeBecomesValid \/ LinkChanges

Spec == Init /\ [][Next]_vars

\* The task is scheduled, Swap and Drain being all it does: its place moves on
\* when the gates are open and something waits, and when it is inside a drain.
Starts == pc = "wait" /\ mqtt_connected /\ time_valid /\ g_data_queue # Nothing /\ pc' = "drain"
Finishes == pc = "drain" /\ pc' = "wait"
Fairness == WF_pc(Starts) /\ WF_pc(Finishes)
FairSpec == Spec /\ Fairness

-----------------------------------------------------------------------------
(* Properties *)

\* "Always preserves the newest sample": while the drain works on an older map,
\* what is pending, or else what is being drained, is the newest report.
NewestKept ==
  \A k \in Keys :
    IF g_data_queue[k] # None THEN g_data_queue[k] = reading[k]
    ELSE local_queue[k] \in {None, reading[k]}

\* What a reader of core_thresholds.h expects of a value that is not sent again.
WithinRule(p, said, v) ==
  LET size == IF said < 0 THEN 0 - said ELSE said
  IN CASE Rule[p].behavior = "AbsoluteDelta" -> Distance(said, v) < Rule[p].threshold
       [] Rule[p].behavior = "OnChange" -> said = v
       [] OTHER -> said = v \/ Distance(said, v) * 100 < Rule[p].threshold * size

Agrees(k, v) ==
  \/ announced[k] = v
  \/ Method(k) = ErrorMethod /\ announced[k] = None
  \/ {announced[k], v} \subseteq Numbers /\ WithinRule(k.param, announced[k], v)

\* Once a sample has been drained, the last message about its key tells the
\* newest value up to the threshold of its rule, however the samples, drains and
\* disconnections before it interleaved.
Accurate ==
  \A k \in Keys :
    (pc = "wait" /\ k.param # Empty /\ reading[k] # None /\ g_data_queue[k] = None)
      => Agrees(k, reading[k])

\* Worth a message by itself: never announced, a text, or beyond its threshold;
\* an error text only when it changed or a number came since.
News(k) ==
  \/ announced[k] = None
  \/ Method(k) # ErrorMethod /\ local_queue[k] \notin Numbers
  \/ Method(k) = ErrorMethod /\ ValueKey(k) \in Erased(Drained)
  \/ ~Agrees(k, local_queue[k])

\* Deduplication: a method is only sent when one of its samples is news.
Quiet ==
  [][pc = "drain" /\ pc' = "wait" =>
       \A m \in MethodsToSend : \E k \in Drained : Method(k) = m /\ News(k)]_vars

\* The producers the deduplication works for, as it stands: no sub-device, one metric
\* and one error text under a name, numbers or texts for good, and no relative metric
\* that rests at zero or below (queue_scoped and queue_zero show it fail for others).
OwnParameters ==
  /\ \A k \in Keys : k.param # Empty => k.device = Empty
  /\ \A j, k \in Keys :
       j # k /\ j.param = k.param /\ k.param # Empty
         => ~(Method(j) = ErrorMethod <=> Method(k) = ErrorMethod)
  /\ \A k \in Keys : \/ Samples[k] \cap Numbers = {}
                     \/ Samples[k] \subseteq Numbers /\ Method(k) # ErrorMethod /\ k.param # RawParam
  /\ \A k \in Keys : k.param # Empty /\ Rule[k.param].behavior = "RelativePercent"
                       => \A v \in Samples[k] \cap Numbers : v > 0

\* Nothing stays pending for good while the device is online with a valid clock.
Drains ==
  <>[](mqtt_connected /\ time_valid) => []<>(g_data_queue = Nothing)
=============================================================================
