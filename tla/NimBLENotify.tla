---------------------------- MODULE NimBLENotify ----------------------------
(***************************************************************************)
(* Notifications and indications from end to end: the server's sendValue   *)
(* (NimBLECharacteristic.cpp) over its connected peers, and, at each peer, *)
(* a client of the same library that subscribes                            *)
(* (NimBLERemoteCharacteristic.cpp, setNotify) and hears                   *)
(* (NimBLEClient.cpp, NOTIFY_RX).  The link keeps the order in both        *)
(* directions; both hosts are external.  The values sent are numbered.     *)
(*                                                                         *)
(* Assumed: the host refuses a value only for a peer that is not connected *)
(* (the loop of sendValue keeps the last peer's return code only, so a     *)
(* refusal for another peer would go unnoticed).                           *)
(***************************************************************************)
EXTENDS Naturals, Sequences, FiniteSets, SequencesExt

CONSTANTS Subscribers,     \* the peers
          MaxSends,        \* bound: calls of notify and indicate
          MaxSubscribes    \* bound: calls of setNotify, of all clients

ASSUME SubscribersAssumption == IsFiniteSet(Subscribers)

VARIABLES
  connected_peers,       \* the peers connected
  cccd,         \* server's host: "none", "notify" or "indicate" of each peer
  out,          \* to each peer: notifications, indications and answers
  back,         \* from each peer: writes of the descriptor and confirmations
  m_notifyCallback, \* each client: its callback, of the last kind asked for, or "none"
  waiting,      \* each client: setNotify waits for the answer
  subscribes,   \* calls of setNotify, of all clients
  sending,      \* sendValue: the value, its kind, and the peers still to serve
  sends,        \* how many values were sent
  heard,        \* each client: the values given to its callback since setNotify
  due,          \* the values its subscription entitles each client to
  unreported    \* attempts to send to each peer without their call of onStatus

notifications == <<connected_peers, cccd, out, back, m_notifyCallback, waiting, subscribes,
                   sending, sends, heard, due, unreported>>

SendKinds == {"notify", "indicate"}
NotSending == [value |-> 0, kind |-> "notify", todo |-> <<>>]

NotifyInit ==
  /\ connected_peers = {}
  /\ cccd = [p \in Subscribers |-> "none"]
  /\ out = [p \in Subscribers |-> <<>>] /\ back = [p \in Subscribers |-> <<>>]
  /\ m_notifyCallback = [p \in Subscribers |-> "none"]
  /\ waiting = [p \in Subscribers |-> FALSE]
  /\ subscribes = 0
  /\ sending = NotSending /\ sends = 0
  /\ heard = [p \in Subscribers |-> <<>>] /\ due = [p \in Subscribers |-> {}]
  /\ unreported = [p \in Subscribers |-> 0]

client_state == <<m_notifyCallback, waiting, subscribes>>
server_state == <<sending, sends, unreported>>

\* The subscription is in effect: the server has handled the client's last wish.
InEffect(p) ==
  /\ p \in connected_peers
  /\ cccd[p] # "none" /\ m_notifyCallback[p] = cccd[p]
  /\ \A i \in DOMAIN back[p] : back[p][i].kind # "write"

-----------------------------------------------------------------------------
(* The server *)

\* ble_gattc_notify_custom and ble_gattc_indicate_custom for the peers given: a
\* NOTIFY_TX event follows at once, and a second one ends an indication.  The
\* server reports a status unless it is that of an indication not yet confirmed.
Unconfirmed(kind, p) == kind = "indicate" /\ p \in connected_peers

Transmit(peers, value, kinds) ==
  /\ out' = [p \in Subscribers |->
               IF p \in peers \cap connected_peers THEN Append(out[p], [kind |-> kinds[p], value |-> value])
               ELSE out[p]]
  /\ unreported' = [p \in Subscribers |->
                      IF p \in peers /\ Unconfirmed(kinds[p], p) THEN unreported[p] + 1
                      ELSE unreported[p]]

Due(peers) ==
  due' = [p \in Subscribers |->
            IF p \in peers /\ InEffect(p) THEN due[p] \cup {sends + 1} ELSE due[p]]

CallsSend ==
  /\ sending = NotSending /\ sends < MaxSends /\ sends' = sends + 1
  /\ UNCHANGED <<connected_peers, cccd, back, heard, client_state>>

\* notify, indicate with a connection handle: one peer, connected or not.
SendToOne ==
  \E p \in Subscribers, kind \in SendKinds :
    /\ CallsSend /\ Transmit({p}, sends + 1, [q \in Subscribers |-> kind]) /\ Due({p})
    /\ UNCHANGED sending

\* No mbuf can be had: the call returns false.
SendFails ==
  /\ CallsSend /\ UNCHANGED <<sending, out, due, unreported>>

\* Without a value: the host sends the characteristic's own to the subscribed.
SendToSubscribed ==
  LET subscribed == {p \in connected_peers : cccd[p] # "none"}
  IN CallsSend /\ Transmit(subscribed, sends + 1, cccd)
       /\ Due(subscribed) /\ UNCHANGED sending

\* With a value and without a handle: to a copy of the peers now connected.
SendToAll ==
  \E kind \in SendKinds, order \in SetToSeqs(connected_peers) :
    /\ CallsSend /\ connected_peers # {}
    /\ sending' = [value |-> sends + 1, kind |-> kind, todo |-> order]
    /\ Due(connected_peers)
    /\ UNCHANGED <<out, unreported>>

InLoop ==
  /\ sending.todo # <<>> /\ UNCHANGED <<connected_peers, cccd, back, sends, heard, client_state>>

\* Mutant: the loop ends at the first peer it cannot send to.
StopsAtFailure ==
  /\ InLoop /\ Transmit({Head(sending.todo)}, sending.value, [q \in Subscribers |-> sending.kind])
  /\ sending' = IF Len(sending.todo) = 1 \/ Head(sending.todo) \notin connected_peers THEN NotSending
                ELSE [sending EXCEPT !.todo = Tail(@)]
  /\ UNCHANGED due

SendNext ==
  /\ InLoop /\ Transmit({Head(sending.todo)}, sending.value, [q \in Subscribers |-> sending.kind])
  /\ sending' = IF Len(sending.todo) = 1 THEN NotSending
                ELSE [sending EXCEPT !.todo = Tail(@)]
  /\ UNCHANGED due

\* No mbuf for the next peer: sendValue gives up and returns false.
SendGivesUp ==
  /\ InLoop /\ sending' = NotSending
  /\ due' = [p \in Subscribers |-> IF p \in ToSet(sending.todo) THEN due[p] \ {sending.value}
                                   ELSE due[p]]
  /\ UNCHANGED <<out, unreported>>

\* SUBSCRIBE: the host has stored the descriptor, the server tells its callbacks.
Subscribed(p) ==
  /\ back[p] # <<>> /\ Head(back[p]).kind = "write"
  /\ cccd' = [cccd EXCEPT ![p] = Head(back[p]).value]
  /\ out' = IF Head(back[p]).response THEN [out EXCEPT ![p] = Append(@, [kind |-> "answer", value |-> 0])]
            ELSE out
  /\ back' = [back EXCEPT ![p] = Tail(@)]
  /\ UNCHANGED <<connected_peers, heard, due, client_state, server_state>>

\* NOTIFY_TX when the peer has confirmed an indication.
Confirmed(p) ==
  /\ back[p] # <<>> /\ Head(back[p]).kind = "confirm"
  /\ back' = [back EXCEPT ![p] = Tail(@)] /\ unreported' = [unreported EXCEPT ![p] = @ - 1]
  /\ UNCHANGED <<connected_peers, cccd, out, heard, due, client_state, sending, sends>>

HowMany(queue, kind) == Cardinality({i \in DOMAIN queue : queue[i].kind = kind})
Indications(p) == HowMany(out[p], "indicate") + HowMany(back[p], "confirm")

-----------------------------------------------------------------------------
(* A client *)

\* setNotify: the callback is set first, then the descriptor is written, with or
\* without waiting for the answer; a descriptor that is not found ends the call.
setNotify(p) ==
  \E kind \in {"none"} \cup SendKinds, found, response \in BOOLEAN :
    /\ p \in connected_peers /\ ~waiting[p] /\ subscribes < MaxSubscribes
    /\ subscribes' = subscribes + 1
    /\ m_notifyCallback' = [m_notifyCallback EXCEPT ![p] = kind]
    /\ due' = [due EXCEPT ![p] = {}] /\ heard' = [heard EXCEPT ![p] = <<>>]
    /\ \/ ~found /\ UNCHANGED <<back, waiting>>
       \/ /\ found /\ waiting' = [waiting EXCEPT ![p] = response]
          /\ back' = [back EXCEPT ![p] =
                        Append(@, [kind |-> "write", value |-> kind, response |-> response])]
    /\ UNCHANGED <<connected_peers, cccd, out, server_state>>

\* The answer to the write, given to the call that waits.
WriteAnswered(p) ==
  /\ out[p] # <<>> /\ Head(out[p]).kind = "answer"
  /\ out' = [out EXCEPT ![p] = Tail(@)] /\ waiting' = [waiting EXCEPT ![p] = FALSE]
  /\ UNCHANGED <<connected_peers, cccd, back, m_notifyCallback, subscribes, heard, due, server_state>>

\* NOTIFY_RX: the callback, if there is one; the host confirms an indication.
Received(p) ==
  /\ out[p] # <<>> /\ Head(out[p]).kind \in SendKinds
  /\ out' = [out EXCEPT ![p] = Tail(@)]
  /\ heard' = IF m_notifyCallback[p] = "none" THEN heard
              ELSE [heard EXCEPT ![p] = Append(@, Head(out[p]).value)]
  /\ back' = IF Head(out[p]).kind = "notify" THEN back
             ELSE [back EXCEPT ![p] = Append(@, [kind |-> "confirm", value |-> "none",
                                                 response |-> FALSE])]
  /\ UNCHANGED <<connected_peers, cccd, due, client_state, server_state>>

-----------------------------------------------------------------------------
(* The link *)

\* connect: the attributes, with their callbacks, are deleted first or kept.
Links(p) ==
  \E keeps \in BOOLEAN :
    /\ p \notin connected_peers /\ connected_peers' = connected_peers \cup {p}
    /\ m_notifyCallback' = IF keeps THEN m_notifyCallback
                           ELSE [m_notifyCallback EXCEPT ![p] = "none"]
    /\ UNCHANGED <<cccd, out, back, waiting, subscribes, heard, due, server_state>>

\* A peer that is not bonded loses its subscription with the connection, a call
\* of setNotify fails, and each indication not confirmed ends with an error.
Unlinks(p) ==
  /\ p \in connected_peers /\ connected_peers' = connected_peers \ {p}
  /\ cccd' = [cccd EXCEPT ![p] = "none"]
  /\ unreported' = [unreported EXCEPT ![p] = @ - Indications(p)]
  /\ out' = [out EXCEPT ![p] = <<>>] /\ back' = [back EXCEPT ![p] = <<>>]
  /\ waiting' = [waiting EXCEPT ![p] = FALSE]
  /\ due' = [due EXCEPT ![p] = {}] /\ heard' = [heard EXCEPT ![p] = <<>>]
  /\ UNCHANGED <<m_notifyCallback, subscribes, sending, sends>>

NotifyNext ==
  \/ SendToOne \/ SendFails \/ SendToSubscribed \/ SendToAll \/ SendNext \/ SendGivesUp
  \/ \E p \in Subscribers :
       \/ Subscribed(p) \/ Confirmed(p) \/ setNotify(p) \/ WriteAnswered(p)
       \/ Received(p) \/ Links(p) \/ Unlinks(p)

NotifySpec == NotifyInit /\ [][NotifyNext]_notifications

-----------------------------------------------------------------------------
StillToSend(p) == IF p \in ToSet(sending.todo) THEN {sending.value} ELSE {}
SentIn(queue) == {queue[i].value : i \in {j \in DOMAIN queue : queue[j].kind \in SendKinds}}
InTheAir(p) == SentIn(out[p])

\* A value sent while a peer's subscription is in effect reaches the peer's
\* callback, in the order of sending, whatever the other peers do (sendValue,
\* setNotify, NOTIFY_RX), and each attempt is reported to onStatus once.
NoneMissed ==
  \A p \in Subscribers :
    /\ due[p] \subseteq ToSet(heard[p]) \cup InTheAir(p) \cup StillToSend(p)
    /\ \A i, j \in DOMAIN heard[p] : i < j => heard[p][i] < heard[p][j]
    /\ unreported[p] = Indications(p)
=============================================================================
