------------------------------ MODULE LossyFifo ------------------------------
(***************************************************************************)
(* What the transport queue promises: messages, numbered as they are sent, *)
(* may be lost, but those that arrive do so once and in the order sent.    *)
(***************************************************************************)
EXTENDS Integers

VARIABLES
  sent,        \* number of the last message sent
  transit,     \* messages sent and neither delivered nor lost
  delivered    \* number of the last message delivered

fifoVars == <<sent, transit, delivered>>

Init == sent = 0 /\ transit = {} /\ delivered = 0

\* A message enters; making room for it may cost others.
Send ==
  /\ sent' = sent + 1
  /\ \E lost \in SUBSET transit : transit' = (transit \ lost) \cup {sent'}
  /\ UNCHANGED delivered

Deliver ==
  \E m \in transit :
    /\ \A n \in transit : m <= n
    /\ transit' = transit \ {m}
    /\ delivered' = m
    /\ UNCHANGED sent

Lose ==
  /\ \E lost \in SUBSET transit : transit' = transit \ lost
  /\ UNCHANGED <<sent, delivered>>

Spec == Init /\ [][Send \/ Deliver \/ Lose]_fifoVars
=============================================================================
