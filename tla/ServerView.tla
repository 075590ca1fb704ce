----------------------------- MODULE ServerView -----------------------------
(***************************************************************************)
(* What the client promises to the server: the sequence of packets that    *)
(* reach it over all connections, and nothing of how they got there.       *)
(***************************************************************************)
EXTENDS Integers, Sequences

CONSTANT Sockets, Messages

VARIABLES
    added,  \* number of packets the application has handed to the client
    wire    \* packets that reached the server, with the connection of each

From(w, c) == {i \in DOMAIN w : w[i].sock = c}
Kind(w, c, k) == {i \in From(w, c) : w[i].msg.kind = k}

\* A packet e may follow the packets w.  Connections do not overlap.  On each of
\* them the auth session comes first, then the ping, which follows the server's
\* consent, and only then the application's packets.  Over all connections
\* these come in the order they were added, none of them twice.
MayFollow(w, e, limit) ==
    LET c == e.sock IN
    /\ \A i \in DOMAIN w : w[i].sock <= c
    /\ \/ e.msg.kind = "auth" /\ From(w, c) = {}
       \/ /\ e.msg.kind = "ping"
          /\ Kind(w, c, "auth") # {} /\ From(w, c) = Kind(w, c, "auth")
       \/ /\ e.msg.kind = "app" /\ e.msg.n \in 1 .. limit
          /\ Kind(w, c, "ping") # {}
          /\ \A i \in DOMAIN w : w[i].msg.kind = "app" => w[i].msg.n < e.msg.n

Init == added = 0 /\ wire = << >>

Add == added' = added + 1 /\ UNCHANGED wire

Deliver ==
    \E e \in [sock : Sockets, msg : Messages] :
        MayFollow(wire, e, added) /\ wire' = Append(wire, e) /\ UNCHANGED added

Next == Add \/ Deliver

Spec == Init /\ [][Next]_<<added, wire>>
=============================================================================
