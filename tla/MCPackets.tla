------------------------------ MODULE MCPackets ------------------------------
(* Values for the constants of Packets.tla that a configuration cannot write. *)
EXTENDS Packets

CONSTANTS ann, bob, cat

MCScript ==
    (ann :> <<"chat", "request">>) @@ (bob :> <<"update">>)
        @@ (cat :> <<"unread">>)

MCRoomList == <<cat, bob, ann>>
=============================================================================
