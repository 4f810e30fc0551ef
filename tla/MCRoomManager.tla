--------------------------- MODULE MCRoomManager ---------------------------
(***************************************************************************)
(* Instances of RoomManager for TLC.  The bounds are the numbers of        *)
(* workers, client structures and rooms, and what the peers may do.        *)
(***************************************************************************)
EXTENDS RoomManager

CONSTANTS w1, w2, w3, c1, c2, c3, none

OneWorker == {w1}
TwoWorkers == {w1, w2}
ThreeWorkers == {w1, w2, w3}
TwoClients == {c1, c2}
ThreeClients == {c1, c2, c3}

\* Two clients on one worker, so that one worker also serves them in turn.
Shared3 == [c \in ThreeClients |-> IF c = c1 THEN w1 ELSE w2]
\* One worker for all.
Alone2 == [c \in TwoClients |-> w1]
\* A worker of its own for each client.
Apart2 == [c \in TwoClients |-> IF c = c1 THEN w1 ELSE w2]
Apart3 == [c \in ThreeClients |-> CASE c = c1 -> w1 [] c = c2 -> w2 [] OTHER -> w3]

QuietPeers == {}
SlowPeers == {"slow"}
AllPeers == {"slow", "gone"}

=============================================================================
