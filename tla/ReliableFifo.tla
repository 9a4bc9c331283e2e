--------------------------- MODULE ReliableFifo ---------------------------
(***************************************************************************)
(* What a channel promises its two users: a FIFO queue in each direction.  *)
(***************************************************************************)
EXTENDS Integers, Sequences

CONSTANTS Party, Peer, Msg

VARIABLES sent, got

Init ==
    /\ sent = [p \in Party |-> <<>>]
    /\ got = [p \in Party |-> <<>>]

Send(p) ==
    /\ \E m \in Msg : sent' = [sent EXCEPT ![p] = Append(@, m)]
    /\ UNCHANGED got

\* The oldest message of the peer that p has not received
Recv(p) ==
    /\ Len(got[p]) < Len(sent[Peer[p]])
    /\ got' = [got EXCEPT ![p] = Append(@, sent[Peer[p]][Len(got[p]) + 1])]
    /\ UNCHANGED sent

Next == \E p \in Party : Send(p) \/ Recv(p)

Spec == Init /\ [][Next]_<<sent, got>>
=============================================================================
