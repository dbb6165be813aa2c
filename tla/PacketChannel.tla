--------------------------- MODULE PacketChannel ----------------------------
(***************************************************************************)
(* What the two ends of a connection expect of TCP::send_packet and        *)
(* TCP::recv_packet: packets arrive whole, once and in the order they were *)
(* sent, or not at all.  A channel is one direction of a connection.       *)
(* Packets.tla implements it.                                              *)
(***************************************************************************)
EXTENDS Naturals, Sequences

CONSTANTS Channels, Messages

VARIABLES
    sent,           \* channel -> the packets whose sending began
    got             \* channel -> the packets that were received

vars == <<sent, got>>

Init ==
    /\ sent = [ch \in Channels |-> << >>]
    /\ got = [ch \in Channels |-> << >>]

Send(ch) ==
    /\ UNCHANGED got
    /\ \E m \in Messages : sent' = [sent EXCEPT ![ch] = Append(@, m)]

Deliver(ch) ==
    /\ Len(got[ch]) < Len(sent[ch])
    /\ UNCHANGED sent
    /\ got' = [got EXCEPT ![ch] = Append(@, sent[ch][Len(@) + 1])]

Next == \E ch \in Channels : Send(ch) \/ Deliver(ch)

Spec == Init /\ [][Next]_vars
=============================================================================
