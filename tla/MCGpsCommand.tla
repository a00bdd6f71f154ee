---------------------------- MODULE MCGpsCommand ----------------------------
(* Instances of GpsCommand for TLC. *)
EXTENDS GpsCommand

MCMessages == {ReplyTo(c) : c \in Cmds \ Wipes}
MCReboots == {RebootFor(c) : c \in Wipes}
MCRequests == MCMessages \cup MCReboots \cup {LocationOf(c) : c \in Cmds \ Wipes} \cup {Wish}
=============================================================================
