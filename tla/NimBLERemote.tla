---------------------------- MODULE NimBLERemote ----------------------------
(***************************************************************************)
(* What a client knows of its peer's attributes (NimBLEClient.cpp,         *)
(* NimBLERemoteService.cpp, NimBLERemoteCharacteristic.cpp): a tree of     *)
(* vectors that grows as attributes are asked for, one discovery of the    *)
(* host at a time, and the reading and writing of a value                  *)
(* (NimBLERemoteValueAttribute.cpp) with its retries.  Services,           *)
(* characteristics and descriptors are looked up alike.                    *)
(*                                                                         *)
(* A UUID is a value and a size; the peer compares both, the client        *)
(* compares the values.  The host (external) ends every procedure, with    *)
(* an error when the connection ends.  Assumed: one task makes the calls,  *)
(* it was not notified before a wait begins (see NimBLEClient), and only a *)
(* long write is refused as one.                                           *)
(***************************************************************************)
EXTENDS Naturals, Sequences, SequencesExt

CONSTANTS Database,      \* the peer's attributes in order: [id, parent, uuid, kind]
          Root,          \* the parent of the services
          Absent         \* nullptr

Attributes == {Database[i] : i \in DOMAIN Database}
Parents == {Root} \cup {a.id : a \in Attributes}

\* Services, their characteristics and the descriptors of those, each under a handle of
\* its own; an attribute of the protocol has a UUID of 16 or of 128 bits, and one that is
\* not of the base type has no short form.
ASSUME DatabaseAssumption ==
  /\ Database \in Seq(Attributes)
  /\ \A a \in Attributes :
       /\ a.uuid = [value |-> a.uuid.value, size |-> a.uuid.size]
       /\ a.uuid.size \in {16, 128} /\ (a.uuid.value = "own" => a.uuid.size = 128)
       /\ \/ a.kind = "service" /\ a.parent = Root
          \/ a.kind = "characteristic" /\ \E s \in Attributes : s.id = a.parent /\ s.kind = "service"
          \/ a.kind = "descriptor" /\ \E c \in Attributes : c.id = a.parent /\ c.kind = "characteristic"
  /\ \A i, j \in DOMAIN Database : Database[i].id = Database[j].id => i = j
  /\ Root \notin {a.id : a \in Attributes} /\ Absent \notin Parents
AnyUuid == [value |-> "any", size |-> 0]

VARIABLES
  vectors,      \* the attributes known of each parent
  peer_up,      \* the connection
  lookup,       \* the call that looks attributes up, and its step
  discovery,    \* the host's procedure: the places it has still to report
  value_call,   \* readValue or writeValue: its step, length, retryCount
  seen_up       \* the connection stayed, and the peer answered, since the lookup began

remote == <<vectors, peer_up, lookup, discovery, value_call, seen_up>>

NoLookup == [step |-> "idle", parent |-> Root, uuid |-> AnyUuid, before |-> 0, todo |-> <<>>]
NoDiscovery == [of |-> Absent, left |-> {}, result |-> "none"]
NoValueCall == [step |-> "idle", length |-> "short", retryCount |-> 1]

RemoteInit ==
  /\ vectors = [p \in Parents |-> <<>>] /\ peer_up = FALSE
  /\ lookup = NoLookup /\ discovery = NoDiscovery /\ value_call = NoValueCall
  /\ seen_up = FALSE

CallIdle == lookup.step = "idle" /\ value_call.step = "idle"

-----------------------------------------------------------------------------
(* The tree *)

Children(parents) == {a.id : a \in {b \in Attributes : b.parent \in parents}}
Below(p) ==
  LET children == Children({p})
      grandchildren == Children(children)
  IN {p} \cup children \cup grandchildren

\* deleteServices, deleteCharacteristics, deleteDescriptors, with everything below.
Deleted(p) == [q \in Parents |-> IF q \in Below(p) THEN <<>> ELSE vectors[q]]

\* The discovery of one UUID reports every service or characteristic that has it, but
\* only the first descriptor, whose callback ends it.
FirstOf(places) == {i \in places : \A j \in places : i <= j}
Answers(p, uuid) ==
  LET all == {i \in DOMAIN Database : Database[i].parent = p /\ uuid \in {AnyUuid, Database[i].uuid}}
  IN IF uuid # AnyUuid /\ (\E i \in all : Database[i].kind = "descriptor") THEN FirstOf(all) ELSE all

\* The host takes the procedure, or none while there is no connection.
Discovers(p, uuid) ==
  discovery' = IF peer_up THEN [of |-> p, left |-> Answers(p, uuid), result |-> "none"]
                          ELSE [NoDiscovery EXCEPT !.result = "error"]

\* uuid128.to128 and uuid16.to16; a UUID that is not of the base type has no short form.
Other(uuid) ==
  CASE uuid.size = 16 -> {[uuid EXCEPT !.size = 128]}
    [] uuid.size = 128 /\ uuid.value # "own" -> {[uuid EXCEPT !.size = 16]}
    [] OTHER -> {}

-----------------------------------------------------------------------------
(* getService, getCharacteristic, getDescriptor *)

Known(p, uuid) == \E i \in DOMAIN vectors[p] : vectors[p][i].uuid.value = uuid.value

\* One that is known is returned without asking the peer.
get(p, uuid) ==
  /\ CallIdle /\ ~Known(p, uuid)
  /\ lookup' = [step |-> "first", parent |-> p, uuid |-> uuid,
                before |-> Len(vectors[p]), todo |-> <<>>]
  /\ Discovers(p, uuid) /\ seen_up' = peer_up
  /\ UNCHANGED <<vectors, peer_up, value_call>>

Ended(result) == discovery.result = result

Grown == Len(vectors[lookup.parent]) > lookup.before

\* Mutant: the UUID is looked for in one size only.
TriesNeither ==
  /\ lookup.step = "first" /\ Ended("done") /\ ~Grown
  /\ lookup' = NoLookup /\ discovery' = NoDiscovery
  /\ UNCHANGED <<vectors, peer_up, value_call, seen_up>>

\* Not found, but answered: once more with the UUID in its other size.
TriesOther ==
  /\ lookup.step = "first" /\ Ended("done") /\ ~Grown
  /\ IF Other(lookup.uuid) = {}
       THEN lookup' = NoLookup /\ discovery' = NoDiscovery
       ELSE /\ lookup' = [lookup EXCEPT !.step = "second"]
            /\ \E uuid \in Other(lookup.uuid) : Discovers(lookup.parent, uuid)
  /\ UNCHANGED <<vectors, peer_up, value_call>>
  /\ seen_up' = (seen_up /\ peer_up)

\* The last of the vector if it has grown; nothing after an error.
getReturns ==
  /\ lookup.step \in {"first", "second"} /\ discovery.result # "none"
  /\ lookup.step = "first" => Ended("error") \/ Grown
  /\ lookup' = NoLookup /\ discovery' = NoDiscovery
  /\ UNCHANGED <<vectors, peer_up, value_call, seen_up>>

-----------------------------------------------------------------------------
(* getServices(true), getCharacteristics(true), getDescriptors(true); discoverAttributes *)

\* todo: the parents whose children are asked for after these.
getAll(p, everything) ==
  /\ CallIdle /\ (everything => p = Root)
  /\ vectors' = Deleted(p)
  /\ lookup' = [NoLookup EXCEPT !.step = IF everything THEN "walk" ELSE "all", !.parent = p]
  /\ Discovers(p, AnyUuid) /\ seen_up' = peer_up
  /\ UNCHANGED <<peer_up, value_call>>

\* Each service's characteristics, and the descriptors of each, depth first; the first
\* error ends it.
Walks ==
  /\ lookup.step = "walk" /\ Ended("done")
  /\ LET known == vectors[lookup.parent]
         next == IF \E i \in DOMAIN known : known[i].kind = "descriptor" THEN lookup.todo
                 ELSE [i \in DOMAIN known |-> known[i].id] \o lookup.todo
     IN IF next = <<>>
          THEN lookup' = NoLookup /\ discovery' = NoDiscovery
          ELSE /\ lookup' = [lookup EXCEPT !.parent = Head(next), !.todo = Tail(next)]
               /\ Discovers(Head(next), AnyUuid)
  /\ UNCHANGED <<vectors, peer_up, value_call, seen_up>>

AllReturn ==
  /\ discovery.result # "none"
  /\ lookup.step = "all" \/ (lookup.step = "walk" /\ Ended("error"))
  /\ lookup' = NoLookup /\ discovery' = NoDiscovery
  /\ UNCHANGED <<vectors, peer_up, value_call, seen_up>>

\* connect(..., deleteAttributes); without it a new connection uses the old tree.
connects(deleteAttributes) ==
  /\ CallIdle /\ ~peer_up /\ peer_up' = TRUE
  /\ vectors' = IF deleteAttributes THEN Deleted(Root) ELSE vectors
  /\ UNCHANGED <<lookup, discovery, value_call, seen_up>>

-----------------------------------------------------------------------------
(* writeValue with a response, and readValue, of a known attribute *)

writeValue(length) ==
  /\ CallIdle
  /\ value_call' = [step |-> IF peer_up THEN "write" ELSE "idle", length |-> length,
                    retryCount |-> 1]
  /\ UNCHANGED <<vectors, peer_up, lookup, discovery, seen_up>>

readValue ==
  /\ CallIdle
  /\ value_call' = [NoValueCall EXCEPT !.step = IF peer_up THEN "read" ELSE "idle"]
  /\ UNCHANGED <<vectors, peer_up, lookup, discovery, seen_up>>

ValueReturns == value_call' = NoValueCall

\* A long write that the peer does not take is cut to one packet, and the call succeeds.
WriteTruncated ==
  /\ value_call.step = "write" /\ value_call.length = "long"
  /\ value_call' = [value_call EXCEPT !.length = "short"]
  /\ UNCHANGED <<vectors, peer_up, lookup, discovery, seen_up>>

\* The peer asks for pairing: the call tries once more if secureConnection succeeds.
ValueUnauthorized ==
  /\ value_call.step \in {"read", "write"}
  /\ \/ value_call.retryCount > 0 /\ value_call' = [value_call EXCEPT !.retryCount = @ - 1]
     \/ ValueReturns
  /\ UNCHANGED <<vectors, peer_up, lookup, discovery, seen_up>>

\* Answered, refused, or cut off; an attribute that is not long has its read returned
\* before the second answer is there.
ValueAnswered ==
  /\ value_call.step \in {"read", "write"} /\ ValueReturns
  /\ UNCHANGED <<vectors, peer_up, lookup, discovery, seen_up>>

-----------------------------------------------------------------------------
(* The host's task *)

\* serviceDiscoveredCB, characteristicDiscCB, descriptorDiscCB with an attribute.
ReportsFound ==
  /\ peer_up
  /\ \E i \in FirstOf(discovery.left) :
       /\ vectors' = [vectors EXCEPT ![discovery.of] = Append(@, Database[i])]
       /\ discovery' = [discovery EXCEPT !.left = @ \ {i}]
  /\ UNCHANGED <<peer_up, lookup, value_call, seen_up>>

Going == discovery.of # Absent /\ discovery.result = "none"

\* BLE_HS_EDONE.
Completes ==
  /\ Going /\ discovery.left = {}
  /\ discovery' = [discovery EXCEPT !.result = "done"]
  /\ UNCHANGED <<vectors, peer_up, lookup, value_call, seen_up>>

\* The peer answers with an error.
Fails ==
  /\ Going /\ peer_up
  /\ discovery' = [discovery EXCEPT !.left = {}, !.result = "error"]
  /\ seen_up' = FALSE
  /\ UNCHANGED <<vectors, peer_up, lookup, value_call>>

\* Every procedure of a connection ends before the client is told that it has ended;
\* a peer that does not answer is the same.
Breaks ==
  /\ peer_up /\ peer_up' = FALSE /\ seen_up' = FALSE
  /\ discovery' = IF Going THEN [discovery EXCEPT !.left = {}, !.result = "error"]
                  ELSE discovery
  /\ IF value_call.step = "idle" THEN UNCHANGED value_call ELSE ValueReturns
  /\ UNCHANGED <<vectors, lookup>>

RemoteNext ==
  \/ \E a \in Attributes : \E uuid \in {a.uuid} \cup Other(a.uuid) : get(a.parent, uuid)
  \/ TriesOther \/ getReturns
  \/ \E p \in {Root} \cup {a.id : a \in {b \in Attributes : b.kind # "descriptor"}},
        e \in BOOLEAN : getAll(p, e)
  \/ Walks \/ AllReturn
  \/ \E d \in BOOLEAN : connects(d)
  \/ \E l \in {"short", "long"} : writeValue(l)
  \/ readValue \/ WriteTruncated \/ ValueUnauthorized \/ ValueAnswered
  \/ ReportsFound \/ Completes \/ Fails \/ Breaks

RemoteSpec == RemoteInit /\ [][RemoteNext]_remote

-----------------------------------------------------------------------------
(* Properties *)

\* No attribute is in its vector twice, whatever was looked up alone, all together,
\* or cut off by a disconnect and asked for again on the next connection.
KnownOnce == \A p \in Parents : IsInjective(vectors[p])

\* And a lookup that the peer answered to its end knows an attribute of that UUID if the
\* peer has one, whichever size of the UUID each of them uses.
FoundIfThere ==
  /\ []KnownOnce
  /\ [][lookup.step \in {"first", "second"} /\ lookup'.step = "idle" /\ seen_up =>
          \A a \in Attributes :
            a.parent = lookup.parent /\ a.uuid.value = lookup.uuid.value
              => Known(lookup.parent, lookup.uuid)]_remote
=============================================================================
