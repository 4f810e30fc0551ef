--------------------------- MODULE MessageStream ----------------------------
(***************************************************************************)
(* What a connection promises a client: its messages are routed once each, *)
(* in the order they were sent, none is dropped while the connection is    *)
(* open, and it stays open until the client leaves. The one exception is   *)
(* stated with it: a message whose terminator was not seen is routed as    *)
(* one with the message after it.                                          *)
(***************************************************************************)
EXTENDS Naturals, Sequences

CONSTANT Messages      \* a message: [n |-> its number, command |-> its code]

VARIABLES
    open,              \* the connection is served
    leaving,           \* the client has closed its side
    pending,           \* messages sent and not yet routed
    joined             \* numbers of those whose terminator is not seen as one

vars == <<open, leaving, pending, joined>>

Init == ~ open /\ ~ leaving /\ pending = <<>> /\ joined = {}

Open == ~ open /\ open' /\ ~ leaving' /\ pending' = <<>> /\ joined' = {}

Send(m) ==
    /\ open /\ ~ leaving
    /\ pending' = Append(pending, m)
    /\ joined' \in {joined, joined \cup {m.n}}
    /\ UNCHANGED <<open, leaving>>

\* The terminator of a message on its way is torn.
Join(m) ==
    /\ open
    /\ joined' = joined \cup {m.n}
    /\ UNCHANGED <<open, leaving, pending>>

\* The next k messages are routed as one: only the last has its terminator.
Route(k) ==
    /\ open
    /\ \A i \in 1 .. k : pending[i].n \in joined <=> i < k
    /\ pending' = SubSeq(pending, k + 1, Len(pending))
    /\ UNCHANGED <<open, leaving, joined>>

Leave == open /\ leaving' /\ UNCHANGED <<open, pending, joined>>

Close ==
    /\ open
    /\ leaving \/ (pending # <<>> /\ Head(pending).command = "EXIT")
    /\ ~ open' /\ pending' = <<>>
    /\ UNCHANGED <<leaving, joined>>

Next ==
    \/ Open \/ Leave \/ Close
    \/ \E m \in Messages : Send(m) \/ Join(m)
    \/ \E k \in 1 .. Len(pending) : Route(k)

Spec == Init /\ [][Next]_vars

=============================================================================
