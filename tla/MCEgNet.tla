------------------------------ MODULE MCEgNet --------------------------------
(***************************************************************************)
(* What the server sends to the client, as eg_net.c writes it out: the     *)
(* answer CONNECT_ACK_STR and the heartbeat HBM_REC, which has no data.    *)
(***************************************************************************)
EXTENDS EgNet

ConnectAck == [cmd |-> 1, data |-> <<0, 0>>]
Heartbeat == [cmd |-> 5, data |-> << >>]

ServerMessages == {ConnectAck, Heartbeat}

\* Bound: once the server has sent a frame nobody calls eg_tcp_send, and once somebody
\* has sent, or read sockfd, the server sends nothing.
Apart == frames # << >> => asked = {} /\ \A p \in Senders : pc[p] = "idle" /\ fd[p] = 0

\* The bound restricts steps for which no fairness is assumed.
ApartSpec == Init /\ [][Next /\ Apart']_vars /\ Fairness
=============================================================================
