------------------------- MODULE CoreDataQueue_proofs -------------------------
(***************************************************************************)
(* Coalescing never costs a newest sample, for any producers, methods and  *)
(* rules; and, for producers whose samples the caches tell apart, what is  *)
(* not sent again is known up to its threshold, and what is sent is news.  *)
(***************************************************************************)
EXTENDS CoreDataQueue, TLAPS

\* The swap takes everything, and what it took is drained before the next one.
QueueInv ==
  /\ g_data_queue = [k \in Keys |-> g_data_queue[k]]
  /\ reading = [k \in Keys |-> reading[k]]
  /\ pc = "wait" => local_queue = Nothing
  /\ NewestKept

LEMMA QueueInit == Init => QueueInv
BY DEF Init, QueueInv, NewestKept, Nothing

LEMMA QueueStep ==
  ASSUME QueueInv, [Next]_vars
  PROVE  QueueInv'
<1> USE DEF QueueInv, NewestKept
<1>1. ASSUME NEW k \in Keys, NEW v \in Samples[k], Upsert(k, v) PROVE QueueInv'
  <2>1. v # None
    BY NumbersAssumption DEF Values
  <2>2. g_data_queue'[k] = v /\ reading'[k] = v
    BY <1>1 DEF Upsert
  <2>3. \A j \in Keys : j # k => g_data_queue'[j] = g_data_queue[j] /\ reading'[j] = reading[j]
    BY <1>1 DEF Upsert
  <2>4. UNCHANGED <<pc, local_queue>>
    BY <1>1 DEF Upsert
  <2>5. NewestKept'
    BY <2>1, <2>2, <2>3, <2>4
  <2> QED  BY <1>1, <2>4, <2>5 DEF Upsert
<1>2. CASE Swap
  <2>1. /\ local_queue' = g_data_queue /\ g_data_queue' = Nothing
        /\ local_queue = Nothing /\ reading' = reading /\ pc' = "drain"
    BY <1>2 DEF Swap
  <2>2. \A k \in Keys : g_data_queue[k] \in {None, reading[k]}
    BY <2>1 DEF Nothing
  <2> QED  BY <2>1, <2>2 DEF Nothing
<1>3. CASE Drain
  <2>1. UNCHANGED <<g_data_queue, reading>> /\ local_queue' = Nothing
    BY <1>3 DEF Drain
  <2> QED  BY <2>1 DEF Nothing
<1>4. CASE TimeBecomesValid \/ LinkChanges \/ UNCHANGED vars
  BY <1>4 DEF TimeBecomesValid, LinkChanges, vars
<1> QED  BY <1>1, <1>2, <1>3, <1>4 DEF Next

\* However producers, swaps and drains interleave, the newest report of a key is
\* pending, or being drained, or has been drained.
THEOREM NewestAlwaysKept == Spec => []NewestKept
<1>1. QueueInv => NewestKept  BY DEF QueueInv
<1> QED  BY <1>1, QueueInit, QueueStep, PTL DEF Spec

-----------------------------------------------------------------------------
(* Deduplication *)

Metric(k) == Method(k) # ErrorMethod /\ k.param \notin {RawParam, Empty} /\ Samples[k] \subseteq Numbers
Fault(k) == Method(k) = ErrorMethod /\ k.param # Empty

\* The caches hold what the last message said of each metric and of each error, and
\* whatever is neither pending nor being drained is known to the cloud.
ReportsTyped ==
  /\ announced = [k \in Keys |-> announced[k]]
  /\ \A k \in Keys : /\ reading[k] \in Samples[k] \cup {None}
                     /\ g_data_queue[k] \in Samples[k] \cup {None}
                     /\ local_queue[k] \in Samples[k] \cup {None}
                     /\ announced[k] \in Samples[k] \cup {None}
CachesFollow ==
  \A k \in Keys :
    /\ Metric(k) => g_last_sent_values[ValueKey(k)] = announced[k]
    /\ Fault(k) => g_last_sent_string_values[ValueKey(k)] = announced[k]
Settled ==
  \A k \in Keys :
    k.param # Empty /\ reading[k] # None /\ g_data_queue[k] = None /\ local_queue[k] = None
      => Agrees(k, reading[k])
CloudInv == QueueInv /\ ReportsTyped /\ CachesFollow /\ Settled

LEMMA KeyFacts ==
  ASSUME NEW k \in Keys
  PROVE  /\ ValueKey(k) \in CacheKeys /\ k.param \in Params
         /\ None \notin Samples[k] /\ Samples[k] \subseteq Values
<1>1. k.device \in ValueKeys /\ k.param \in Params
  BY DEF ValueKeys, Params
<1>2. None \notin Samples[k] /\ Samples[k] \subseteq Values
  BY NumbersAssumption DEF Values
<1> QED  BY <1>1, <1>2 DEF ValueKey, CacheKeys

LEMMA CloudStarts == Init => CloudInv
<1> SUFFICES ASSUME Init PROVE CloudInv
  OBVIOUS
<1>1. \A k \in Keys : ValueKey(k) \in CacheKeys
  BY KeyFacts
<1> QED
  BY <1>1, QueueInit DEF Init, CloudInv, ReportsTyped, CachesFollow, Settled, Nothing

\* A number that is not sent again is within its rule; one that is sent is not.
LEMMA RuleDecides ==
  ASSUME NEW p \in Params, NEW last \in Numbers, NEW new \in Numbers,
         Rule[p].behavior = "RelativePercent" => last > 0
  PROVE  /\ ~should_send_numeric(p, last, new) => WithinRule(p, last, new)
         /\ should_send_numeric(p, last, new) => ~WithinRule(p, last, new) /\ last # new
<1> DEFINE threshold == Rule[p].threshold
<1>1. /\ last \in Int /\ new \in Int /\ threshold \in Nat
      /\ Rule[p].behavior \in {"AbsoluteDelta", "RelativePercent", "OnChange"}
      /\ Rule[p].behavior # "OnChange" => threshold > 0
  <2>1. last \in Int /\ new \in Int
    BY NumbersAssumption
  <2>2. /\ Rule[p].threshold \in Nat
        /\ Rule[p].behavior \in {"AbsoluteDelta", "RelativePercent", "OnChange"}
        /\ Rule[p].behavior # "OnChange" => Rule[p].threshold > 0
    BY RuleAssumption, Zenon
  <2> QED  BY <2>1, <2>2
<1>2. Distance(last, new) \in Nat /\ (last = new => Distance(last, new) = 0)
  BY <1>1 DEF Distance
<1>3. CASE Rule[p].behavior = "AbsoluteDelta"
  <2>1. should_send_numeric(p, last, new) <=> Distance(last, new) >= threshold
    BY <1>3 DEF should_send_numeric
  <2>2. WithinRule(p, last, new) <=> Distance(last, new) < threshold
    BY <1>3 DEF WithinRule
  <2> QED  BY <1>1, <1>2, <1>3, <2>1, <2>2
<1>4. CASE Rule[p].behavior = "OnChange"
  <2>1. should_send_numeric(p, last, new) <=> new # last
    BY <1>4 DEF should_send_numeric
  <2>2. WithinRule(p, last, new) <=> last = new
    BY <1>4 DEF WithinRule
  <2> QED  BY <2>1, <2>2
<1>5. CASE Rule[p].behavior = "RelativePercent"
  <2>1. last > 0
    BY <1>5
  <2> HIDE DEF threshold
  <2>2. should_send_numeric(p, last, new) <=> Distance(last, new) * 100 >= threshold * last
    BY <1>5, <2>1 DEF should_send_numeric, PercentReached, threshold
  <2>3. WithinRule(p, last, new) <=> last = new \/ Distance(last, new) * 100 < threshold * last
    <3>1. (IF last < 0 THEN 0 - last ELSE last) = last
      BY <1>1, <2>1
    <3> QED  BY <1>5, <3>1 DEF WithinRule, threshold
  <2>4. threshold * last \in Int /\ threshold * last > 0
    <3>1. \A a, b \in Int : a > 0 /\ b > 0 => a * b \in Int /\ a * b > 0
      BY SMT
    <3> QED  BY <1>1, <1>5, <2>1, <3>1 DEF threshold
  <2> DEFINE bound == threshold * last
  <2> HIDE DEF bound
  <2> QED  BY <1>2, <2>2, <2>3, <2>4 DEF bound
<1> QED  BY <1>1, <1>3, <1>4, <1>5

\* What is drained, and how its value was typed when it was reported.
LEMMA DrainedFacts ==
  ASSUME OwnParameters, ReportsTyped, NEW k \in Drained
  PROVE  /\ k \in Keys /\ local_queue[k] \in Samples[k] /\ local_queue[k] # None /\ k.param # Empty
         /\ IsNumeric(k) <=> Metric(k)
         /\ Metric(k) => local_queue[k] \in Numbers
         /\ ~Metric(k) => local_queue[k] \notin Numbers
<1>1. k \in Keys /\ local_queue[k] \in Samples[k] /\ local_queue[k] # None /\ k.param # Empty
  BY DEF Drained, ReportsTyped
<1>2. \/ Samples[k] \cap Numbers = {}
      \/ Samples[k] \subseteq Numbers /\ Method(k) # ErrorMethod /\ k.param # RawParam
  BY <1>1 DEF OwnParameters
<1> QED  BY <1>1, <1>2 DEF IsNumeric, Metric

\* An entry of a cache belongs to one metric or to one error.
LEMMA OneEntryEach ==
  ASSUME OwnParameters, NEW j \in Keys, NEW k \in Keys, StoreKey(j) = ValueKey(k), k.param # Empty,
         Method(j) = ErrorMethod <=> Method(k) = ErrorMethod
  PROVE  j = k
<1>1. j.param = k.param
  BY DEF StoreKey, ValueKey
<1> QED  BY <1>1 DEF OwnParameters

LEMMA EntryOf ==
  ASSUME OwnParameters, NEW k \in Keys, k.param # Empty, NEW cache, NEW ks \in SUBSET Keys,
         \A j \in ks : Method(j) = ErrorMethod <=> Method(k) = ErrorMethod
  PROVE  Stored(cache, ks)[ValueKey(k)] = IF k \in ks THEN local_queue[k] ELSE cache[ValueKey(k)]
<1> DEFINE here == {j \in ks : StoreKey(j) = ValueKey(k)}
<1>1. here = IF k \in ks THEN {k} ELSE {}
  <2>1. StoreKey(k) = ValueKey(k)
    BY DEF OwnParameters, StoreKey, ValueKey
  <2>2. \A j \in here : j = k
    BY OneEntryEach
  <2> QED  BY <2>1, <2>2
<1>2. LastSent({k}) = k
  BY DEF LastSent
<1>3. ValueKey(k) \in CacheKeys
  BY KeyFacts
<1>4. Stored(cache, ks)[ValueKey(k)] = IF here = {} THEN cache[ValueKey(k)] ELSE local_queue[LastSent(here)]
  BY <1>3 DEF Stored
<1> HIDE DEF here
<1> QED  BY <1>1, <1>2, <1>4

\* A drain leaves both caches with what its messages said, and nothing unknown.
LEMMA DrainKeeps ==
  ASSUME OwnParameters, CloudInv, Drain, QueueInv'
  PROVE  CloudInv'
<1>0. ReportsTyped /\ CachesFollow /\ Settled /\ NewestKept /\ \A k \in Drained : k \in Keys
  BY DEF CloudInv, QueueInv, Drained
<1>1. /\ g_last_sent_values' = Stored(g_last_sent_values, EmittedNumbers)
      /\ announced' = [k \in Keys |->
           IF k \in Emitted THEN local_queue[k]
           ELSE IF Method(k) = ErrorMethod /\ ValueKey(k) \in Erased(Drained) THEN None
           ELSE announced[k]]
      /\ local_queue' = Nothing /\ UNCHANGED <<g_data_queue, reading>>
  BY DEF Drain
<1> DEFINE texts == [x \in CacheKeys |-> IF x \in Erased(Drained) THEN None
                                          ELSE g_last_sent_string_values[x]]
<1>2. g_last_sent_string_values' = Stored(texts, EmittedErrors)
  BY DEF Drain
<1>3. \A k \in Keys : local_queue'[k] = None
  BY <1>1 DEF Nothing
<1>4. \A k \in Emitted : k \in Drained
  BY DEF Emitted
<1>5. ReportsTyped'
  BY <1>0, <1>1, <1>3 DEF ReportsTyped
<1>6. ASSUME NEW k \in Keys, Metric(k)
      PROVE  g_last_sent_values'[ValueKey(k)] = announced'[k]
  <2>1. k.param # Empty /\ Method(k) # ErrorMethod
    BY <1>6 DEF Metric
  <2>2. EmittedNumbers \in SUBSET Keys /\ \A j \in EmittedNumbers : Method(j) # ErrorMethod
    BY <1>0, <1>4 DEF EmittedNumbers, IsNumeric
  <2>3. k \in EmittedNumbers <=> k \in Emitted
    BY <1>0, <1>4, <1>6, DrainedFacts DEF EmittedNumbers
  <2>4. g_last_sent_values'[ValueKey(k)]
          = IF k \in EmittedNumbers THEN local_queue[k] ELSE g_last_sent_values[ValueKey(k)]
    BY <1>1, <2>1, <2>2, EntryOf
  <2> QED  BY <1>0, <1>1, <1>6, <2>1, <2>3, <2>4 DEF CachesFollow
<1>7. ASSUME NEW k \in Keys, Fault(k)
      PROVE  g_last_sent_string_values'[ValueKey(k)] = announced'[k]
  <2>1. k.param # Empty /\ Method(k) = ErrorMethod /\ ValueKey(k) \in CacheKeys
    BY <1>7, KeyFacts DEF Fault
  <2>2. EmittedErrors \in SUBSET Keys /\ \A j \in EmittedErrors : Method(j) = ErrorMethod
    BY <1>0, <1>4 DEF EmittedErrors
  <2>3. k \in EmittedErrors <=> k \in Emitted
    BY <2>1 DEF EmittedErrors
  <2> HIDE DEF texts
  <2>4. g_last_sent_string_values'[ValueKey(k)]
          = IF k \in EmittedErrors THEN local_queue[k] ELSE texts[ValueKey(k)]
    BY <1>2, <2>1, <2>2, EntryOf
  <2>5. texts[ValueKey(k)] = IF ValueKey(k) \in Erased(Drained) THEN None
                             ELSE g_last_sent_string_values[ValueKey(k)]
    BY <2>1 DEF texts
  <2> QED  BY <1>0, <1>1, <1>7, <2>1, <2>3, <2>4, <2>5 DEF CachesFollow
<1>8. ASSUME NEW k \in Keys, k.param # Empty, reading[k] # None, g_data_queue[k] = None
      PROVE  Agrees(k, reading[k])'
  <2>1. CASE local_queue[k] = None
    <3>1. k \notin Emitted
      BY <1>4, <2>1 DEF Drained
    <3>2. Agrees(k, reading[k])
      BY <1>0, <1>8, <2>1 DEF Settled
    <3>3. announced'[k] = announced[k] \/ (Method(k) = ErrorMethod /\ announced'[k] = None)
      BY <1>1, <3>1
    <3> QED  BY <1>1, <3>2, <3>3 DEF Agrees
  <2>2. CASE local_queue[k] # None
    <3> DEFINE v == local_queue[k]
               last == g_last_sent_values[ValueKey(k)]
    <3>1. v = reading[k] /\ reading'[k] = v
      BY <1>0, <1>1, <1>8, <2>2 DEF NewestKept
    <3>2. k \in Drained
      BY <1>8, <2>2 DEF Drained
    <3>3. CASE k \in Emitted
      BY <1>1, <3>1, <3>3 DEF Agrees
    <3>4. CASE k \notin Emitted /\ Method(k) = ErrorMethod
      <4>1. ~Significant(k)
        BY <3>2, <3>4 DEF Emitted, Carried, MethodsToSend
      <4>2. g_last_sent_string_values[ValueKey(k)] = v
        BY <3>4, <4>1 DEF Significant
      <4>3. announced[k] = v
        BY <1>0, <1>8, <3>4, <4>2 DEF CachesFollow, Fault
      <4>4. announced'[k] = v \/ announced'[k] = None
        BY <1>1, <3>4, <4>3
      <4> QED  BY <3>1, <3>4, <4>4 DEF Agrees
    <3>5. CASE k \notin Emitted /\ Method(k) # ErrorMethod
      <4>1. ~Significant(k)
        BY <3>2, <3>5 DEF Emitted, Carried, MethodsToSend
      <4>2. IsNumeric(k) /\ last # None /\ ~should_send_numeric(k.param, last, v)
        BY <3>5, <4>1 DEF Significant
      <4>3. Metric(k) /\ v \in Numbers /\ k.param \in Params
        BY <1>0, <3>2, <4>2, DrainedFacts, KeyFacts
      <4>4. last = announced[k] /\ announced'[k] = last
        BY <1>0, <1>1, <3>5, <4>3 DEF CachesFollow
      <4>5. last \in Samples[k] /\ last \in Numbers
        BY <1>0, <4>2, <4>3, <4>4 DEF ReportsTyped, Metric
      <4>6. Rule[k.param].behavior = "RelativePercent" => last > 0
        BY <1>8, <4>5 DEF OwnParameters
      <4>7. WithinRule(k.param, last, v)
        BY <4>2, <4>3, <4>5, <4>6, RuleDecides
      <4> QED  BY <3>1, <4>3, <4>4, <4>5, <4>7 DEF Agrees
    <3> QED  BY <3>3, <3>4, <3>5
  <2> QED  BY <2>1, <2>2
<1>9. CachesFollow' /\ Settled'
  BY <1>1, <1>6, <1>7, <1>8 DEF CachesFollow, Settled, Metric, Fault
<1> QED  BY <1>5, <1>9 DEF CloudInv

\* Producers, gates and swaps leave the caches alone and take nothing out of sight.
LEMMA CloudKept ==
  ASSUME OwnParameters, CloudInv, [Next]_vars
  PROVE  CloudInv'
<1>1. QueueInv'
  BY QueueStep DEF CloudInv
<1> USE DEF CloudInv
<1>2. ASSUME NEW k \in Keys, NEW v \in Samples[k], Upsert(k, v) PROVE CloudInv'
  <2>1. v # None
    BY KeyFacts
  <2>2. /\ g_data_queue' = [g_data_queue EXCEPT ![k] = v]
        /\ reading' = [reading EXCEPT ![k] = v]
        /\ UNCHANGED <<local_queue, g_last_sent_values, g_last_sent_string_values, announced>>
    BY <1>2 DEF Upsert, caches
  <2>3. /\ g_data_queue'[k] = v /\ reading'[k] = v
        /\ \A j \in Keys : j # k => g_data_queue'[j] = g_data_queue[j] /\ reading'[j] = reading[j]
    BY <2>2 DEF QueueInv
  <2>4. ReportsTyped'
    BY <2>2, <2>3 DEF ReportsTyped
  <2>5. CachesFollow'
    BY <2>2 DEF CachesFollow, Metric, Fault
  <2>6. Settled'
    BY <2>1, <2>2, <2>3 DEF Settled, Agrees
  <2> QED  BY <1>1, <2>4, <2>5, <2>6
<1>3. CASE Swap
  <2>1. /\ local_queue = Nothing /\ local_queue' = g_data_queue /\ g_data_queue' = Nothing
        /\ UNCHANGED <<g_last_sent_values, g_last_sent_string_values, reading, announced>>
    BY <1>3 DEF Swap, QueueInv, caches
  <2>2. \A k \in Keys : /\ local_queue[k] = None /\ g_data_queue'[k] = None
                        /\ local_queue'[k] = g_data_queue[k]
    BY <2>1 DEF Nothing
  <2>3. ReportsTyped'
    BY <2>1, <2>2 DEF ReportsTyped
  <2>4. CachesFollow'
    BY <2>1 DEF CachesFollow, Metric, Fault
  <2>5. Settled'
    BY <2>1, <2>2 DEF Settled, Agrees
  <2> QED  BY <1>1, <2>3, <2>4, <2>5
<1>4. CASE Drain
  BY <1>1, <1>4, DrainKeeps
<1>5. CASE TimeBecomesValid \/ LinkChanges \/ UNCHANGED vars
  <2>1. UNCHANGED <<g_data_queue, local_queue, g_last_sent_values, g_last_sent_string_values,
                    reading, announced>>
    BY <1>5 DEF TimeBecomesValid, LinkChanges, vars, caches
  <2>2. ReportsTyped' /\ CachesFollow' /\ Settled'
    BY <2>1 DEF ReportsTyped, CachesFollow, Settled, Metric, Fault, Agrees
  <2> QED  BY <1>1, <2>2
<1> QED  BY <1>2, <1>3, <1>4, <1>5 DEF Next

\* However samples, drains and disconnections interleave, a value that is not sent
\* again is one the cloud knows up to the threshold of its rule.
THEOREM AlwaysAccurate == OwnParameters /\ Spec => []Accurate
<1>1. CloudInv => Accurate
  <2> SUFFICES ASSUME CloudInv, pc = "wait", NEW k \in Keys, k.param # Empty,
                      reading[k] # None, g_data_queue[k] = None
               PROVE  Agrees(k, reading[k])
    BY DEF Accurate
  <2>1. local_queue[k] = None
    BY DEF CloudInv, QueueInv, Nothing
  <2> QED  BY <2>1 DEF CloudInv, Settled
<1>2. OwnParameters => [](OwnParameters)
  OBVIOUS
<1> QED  BY <1>1, <1>2, CloudStarts, CloudKept, PTL DEF Spec

\* What makes a method worth a message is news to the cloud.
LEMMA SignificantIsNews ==
  ASSUME OwnParameters, CloudInv, NEW k \in Drained, Significant(k)
  PROVE  News(k)
<1> DEFINE v == local_queue[k]
           last == g_last_sent_values[ValueKey(k)]
<1>1. k \in Keys /\ k.param # Empty
  BY DEF Drained
<1>2. ReportsTyped /\ CachesFollow
  BY DEF CloudInv
<1>3. CASE Method(k) = ErrorMethod
  <2>1. CASE ValueKey(k) \in ErasedBefore(k)
    BY <1>3, <2>1 DEF News, ErasedBefore, Erased
  <2>2. CASE g_last_sent_string_values[ValueKey(k)] # v
    <3>1. announced[k] # v
      BY <1>1, <1>2, <1>3, <2>2 DEF CachesFollow, Fault
    <3>2. announced[k] # None => v \notin Numbers
      BY <1>2, <1>3, DrainedFacts DEF Metric
    <3> QED  BY <3>1, <3>2 DEF News, Agrees
  <2> QED  BY <1>3, <2>1, <2>2 DEF Significant
<1>4. CASE Method(k) # ErrorMethod /\ ~Metric(k)
  BY <1>2, <1>4, DrainedFacts DEF News
<1>5. CASE Metric(k)
  <2>1. v \in Numbers /\ IsNumeric(k) /\ Method(k) # ErrorMethod /\ k.param \in Params
    BY <1>1, <1>2, <1>5, DrainedFacts, KeyFacts DEF Metric
  <2>2. last = announced[k]
    BY <1>1, <1>2, <1>5 DEF CachesFollow
  <2>3. CASE last = None
    BY <2>2, <2>3 DEF News
  <2>4. CASE last # None
    <3>1. should_send_numeric(k.param, last, v)
      BY <2>1, <2>4 DEF Significant
    <3>2. last \in Samples[k] /\ last \in Numbers
      BY <1>1, <1>2, <1>5, <2>2, <2>4 DEF ReportsTyped, Metric
    <3>3. Rule[k.param].behavior = "RelativePercent" => last > 0
      BY <1>1, <3>2 DEF OwnParameters
    <3>4. ~WithinRule(k.param, last, v) /\ last # v
      BY <2>1, <3>1, <3>2, <3>3, RuleDecides
    <3> QED  BY <2>1, <2>2, <3>4 DEF News, Agrees
  <2> QED  BY <2>3, <2>4
<1> QED  BY <1>3, <1>4, <1>5 DEF Metric

\* Deduplication sends no message without a sample in it that is news.
THEOREM AlwaysQuiet == OwnParameters /\ Spec => Quiet
<1>1. ASSUME OwnParameters, CloudInv
      PROVE  pc = "drain" /\ pc' = "wait" =>
               \A m \in MethodsToSend : \E k \in Drained : Method(k) = m /\ News(k)
  <2> SUFFICES ASSUME NEW m \in MethodsToSend
               PROVE  \E k \in Drained : Method(k) = m /\ News(k)
    OBVIOUS
  <2>1. PICK k \in Drained : Significant(k) /\ Method(k) = m
    BY DEF MethodsToSend
  <2> QED  BY <1>1, <2>1, SignificantIsNews
<1>2. OwnParameters => []OwnParameters
  OBVIOUS
<1> QED  BY <1>1, <1>2, CloudStarts, CloudKept, PTL DEF Spec, Quiet
===============================================================================
