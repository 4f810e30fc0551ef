-------------------------- MODULE ChatClientProofs --------------------------
(***************************************************************************)
(* Proofs about ChatClient, for any commands the user may type, any faults *)
(* and any bounds on what is on its way.                                   *)
(***************************************************************************)
EXTENDS ChatClient, SequenceTheorems, TLAPS

\* The socket is closed, and a thread sets out to close it, only after the
\* user has asked for it or the server has closed.
Over == asked_exit \/ peer # "open"

CloseInv ==
    /\ line.command = "EXIT" => asked_exit
    /\ input_pc \in {"exit_running", "exit_close"} => asked_exit
    /\ receive_pc \in {"exit_running", "exit_close"} => peer # "open"
    /\ receive_pc \in {"exit_close", "done"} => ~ is_running
    /\ ~ is_running => Over
    /\ ~ fd_open => Over
    /\ DiesOnlyAtTheEnd

LEMMA CloseInit == Init => CloseInv
  BY DEF Init, CloseInv, Over, DiesOnlyAtTheEnd, NoLine

LEMMA CloseStep == CloseInv /\ [Next]_vars => CloseInv'
<1> SUFFICES ASSUME CloseInv, [Next]_vars PROVE CloseInv'
  OBVIOUS
<1> USE DEF CloseInv, Over, DiesOnlyAtTheEnd
<1>1. CASE SubmitUsername
  BY <1>1 DEF SubmitUsername, SendFails, Send, Dies, flags, network, history
<1>2. ASSUME NEW l \in Lines, Type(l) PROVE CloseInv'
  BY <1>2 DEF Type, flags, network
<1>3. CASE TypeNothing
  BY <1>3 DEF TypeNothing, flags, network, history
<1>4. CASE InputCheck
  BY <1>4 DEF InputCheck, flags, network, history
<1>5. CASE Validate
  BY <1>5 DEF Validate, AfterLine, NoLine, flags, network, history
<1>6. CASE SendLine
  BY <1>6 DEF SendLine, SendFails, Send, Dies, AfterLine, NoLine, flags, network, history
<1>7. CASE ReceiveCheck
  BY <1>7 DEF ReceiveCheck, flags, network, history
<1>8. CASE EnterRecv
  BY <1>8 DEF EnterRecv, Dies, flags, network, history
<1>9. ASSUME NEW k \in 1 .. Len(replies), Receive(k) PROVE CloseInv'
  BY <1>9 DEF Receive
<1>10. CASE ReceiveEnd
  BY <1>10 DEF ReceiveEnd, Dies, flags, network, history
<1>11. CASE ExitClient
  BY <1>11 DEF ExitClient, ExitRunning, ExitClose, flags, network, history
<1>12. CASE MainReturns
  BY <1>12 DEF MainReturns, flags, network, history
<1>13. CASE Serve
  BY <1>13 DEF Serve, flags, history
<1>14. CASE Merge
  BY <1>14 DEF Merge, flags, history
<1>15. CASE RoomSpeaks
  BY <1>15 DEF RoomSpeaks, flags, history
<1>16. CASE ServerStops
  BY <1>16 DEF ServerStops, flags, history
<1>17. ASSUME NEW i \in DOMAIN lines, Tear(i) PROVE CloseInv'
  BY <1>17 DEF Tear, flags
<1>18. CASE UNCHANGED vars
  BY <1>18 DEF vars, flags, network, history
<1> QED
  BY <1>1, <1>2, <1>3, <1>4, <1>5, <1>6, <1>7, <1>8, <1>9, <1>10, <1>11, <1>12, <1>13, <1>14,
     <1>15, <1>16, <1>17, <1>18
     DEF Next, User, InputThread, ReceiveThread, Server

\* exit_client, lines 509-513: whatever the interleaving of the two threads,
\* neither closes the socket under the other before the session is over.
THEOREM DiesCorrect == Spec => []DiesOnlyAtTheEnd
<1>1. CloseInv => DiesOnlyAtTheEnd
  BY DEF CloseInv
<1> QED
  BY <1>1, CloseInit, CloseStep, PTL DEF Spec

-----------------------------------------------------------------------------
\* The EXIT of the line /exit is the last one on its way, and the input thread
\* is past its loop.
ExitIsLast ==
    \A i \in DOMAIN lines :
        lines[i].command = "EXIT" => i = Len(lines) /\ input_pc \in EndPcs

OrderInv ==
    /\ line \in Lines
    /\ lines \in Seq(Lines)
    /\ ExitIsLast

LEMMA OrderInit == Init => OrderInv
  BY DEF Init, OrderInv, ExitIsLast, Lines, NoLine

\* A line is sent by a thread that is not past its loop, and the EXIT of the
\* line /exit by one that leaves it.
LEMMA SendOrder ==
    ASSUME OrderInv, NEW l \in Lines, Send(l), input_pc \notin EndPcs,
           l.command = "EXIT" => input_pc' \in EndPcs
    PROVE  lines' \in Seq(Lines) /\ ExitIsLast'
<1>1. CASE peer = "open"
  <2>1. lines' = Append(lines, l)
    BY <1>1 DEF Send
  <2>2. lines' \in Seq(Lines) /\ Len(lines') = Len(lines) + 1
    BY <2>1 DEF OrderInv
  <2>3. ASSUME NEW i \in DOMAIN lines', lines'[i].command = "EXIT"
        PROVE  i = Len(lines') /\ input_pc' \in EndPcs
    <3>1. CASE i \in 1 .. Len(lines)
      BY <2>1, <2>3, <3>1 DEF OrderInv, ExitIsLast
    <3>2. CASE i = Len(lines) + 1
      BY <2>1, <2>2, <2>3, <3>2 DEF OrderInv
    <3> QED
      BY <2>2, <2>3, <3>1, <3>2 DEF OrderInv
  <2> QED
    BY <2>2, <2>3 DEF ExitIsLast
<1>2. CASE peer # "open"
  <2>1. lines' = lines
    BY <1>2 DEF Send
  <2> QED
    BY <2>1 DEF OrderInv, ExitIsLast
<1> QED
  BY <1>1, <1>2

LEMMA ServeOrder == OrderInv /\ Serve => OrderInv'
<1> SUFFICES ASSUME OrderInv, Serve PROVE OrderInv'
  OBVIOUS
<1>1. /\ lines # <<>> /\ lines' = Tail(lines)
      /\ line' = line /\ input_pc' = input_pc
  BY DEF Serve
<1>2. lines' \in Seq(Lines) /\ Len(lines') = Len(lines) - 1
  BY <1>1 DEF OrderInv
<1>3. ASSUME NEW i \in DOMAIN lines' PROVE lines'[i] = lines[i + 1] /\ i + 1 \in DOMAIN lines
  BY <1>1, <1>2, <1>3 DEF OrderInv
<1>4. ExitIsLast'
  BY <1>1, <1>2, <1>3 DEF OrderInv, ExitIsLast
<1> QED
  BY <1>1, <1>2, <1>4 DEF OrderInv

LEMMA MergeOrder == OrderInv /\ Merge => OrderInv'
<1> SUFFICES ASSUME OrderInv, Merge PROVE OrderInv'
  OBVIOUS
<1> DEFINE t == Tail(lines)
<1>1. PICK c \in {"INVALID"} \cup {d \in {Head(lines).command} : Head(lines).end = "torn"} :
        lines' = [t EXCEPT ![1] = [command |-> c, end |-> lines[2].end]]
  BY DEF Merge
<1>2. Len(lines) > 1 /\ line' = line /\ input_pc' = input_pc
  BY DEF Merge
<1>3. /\ t \in Seq(Lines) /\ Len(t) = Len(lines) - 1
      /\ \A i \in 1 .. Len(t) : t[i] = lines[i + 1]
  BY <1>2 DEF OrderInv
<1>4. c \in Commands \cup Exits \cup {"INVALID"} /\ c # "EXIT"
  <2>1. lines[1] \in Lines /\ Head(lines) = lines[1] /\ lines[1].command # "EXIT"
    BY <1>2 DEF OrderInv, ExitIsLast
  <2> QED
    BY <2>1 DEF Lines
<1> DEFINE m == [command |-> c, end |-> lines[2].end]
<1>5. m \in Lines /\ m.command # "EXIT"
  <2>1. lines[2] \in Lines
    BY <1>2 DEF OrderInv
  <2> QED
    BY <1>4, <2>1 DEF Lines
<1> HIDE DEF t, m
<1>6. lines' = [t EXCEPT ![1] = m] /\ lines' \in Seq(Lines) /\ Len(lines') = Len(t)
  <2>1. lines' = [t EXCEPT ![1] = m]
    BY <1>1 DEF m
  <2>2. 1 \in 1 .. Len(t)
    BY <1>2, <1>3 DEF OrderInv
  <2> QED
    BY <2>1, <2>2, <1>3, <1>5, ExceptSeq
<1>7. ASSUME NEW i \in DOMAIN lines', lines'[i].command = "EXIT"
      PROVE  i = Len(lines') /\ input_pc' \in EndPcs
  <2>1. i \in 1 .. Len(t) /\ t[i].command = "EXIT"
    BY <1>3, <1>5, <1>6, <1>7
  <2>2. lines[i + 1].command = "EXIT" /\ i + 1 \in DOMAIN lines
    BY <2>1, <1>2, <1>3 DEF OrderInv
  <2> QED
    BY <2>1, <2>2, <1>2, <1>3, <1>6 DEF OrderInv, ExitIsLast
<1> QED
  BY <1>2, <1>6, <1>7 DEF OrderInv, ExitIsLast

LEMMA OrderStep == OrderInv /\ [Next]_vars => OrderInv'
<1> SUFFICES ASSUME OrderInv, [Next]_vars PROVE OrderInv'
  OBVIOUS
<1> USE DEF OrderInv, ExitIsLast
<1>1. CASE SubmitUsername
  <2> DEFINE u == [command |-> "USERNAME_SUBMIT", end |-> "whole"]
  <2>1. CASE SendFails
    BY <1>1, <2>1 DEF SubmitUsername, Dies, network, EndPcs
  <2>2. CASE ~ SendFails
    <3>1. u \in Lines /\ Send(u) /\ input_pc \notin EndPcs /\ line' = line
      BY <1>1, <2>2 DEF SubmitUsername, Lines, Commands, Exits, EndPcs
    <3> QED
      BY <3>1, SendOrder
  <2> QED
    BY <2>1, <2>2
<1>2. ASSUME NEW l \in Lines, Type(l) PROVE OrderInv'
  BY <1>2 DEF Type, network, EndPcs
<1>3. CASE TypeNothing
  BY <1>3 DEF TypeNothing, network, EndPcs
<1>4. CASE InputCheck
  BY <1>4 DEF InputCheck, network, EndPcs
<1>5. CASE Validate
  BY <1>5 DEF Validate, AfterLine, NoLine, Lines, network, EndPcs
<1>6. CASE SendLine
  <2>1. CASE SendFails
    BY <1>6, <2>1 DEF SendLine, Dies, network, EndPcs
  <2>2. CASE ~ SendFails
    <3>1. /\ Send(line) /\ input_pc \notin EndPcs /\ line' \in Lines
          /\ line.command = "EXIT" => input_pc' \in EndPcs
      BY <1>6, <2>2 DEF SendLine, AfterLine, NoLine, Lines, EndPcs
    <3> QED
      BY <3>1, SendOrder
  <2> QED
    BY <2>1, <2>2
<1>7. CASE ReceiveCheck
  BY <1>7 DEF ReceiveCheck, network
<1>8. CASE EnterRecv
  BY <1>8 DEF EnterRecv, Dies, network, EndPcs
<1>9. ASSUME NEW k \in 1 .. Len(replies), Receive(k) PROVE OrderInv'
  BY <1>9 DEF Receive
<1>10. CASE ReceiveEnd
  BY <1>10 DEF ReceiveEnd, Dies, network, EndPcs
<1>11. CASE ExitClient
  BY <1>11 DEF ExitClient, ExitRunning, ExitClose, network, EndPcs
<1>12. CASE MainReturns
  BY <1>12 DEF MainReturns, network, EndPcs
<1>13. CASE Server
  BY <1>13, ServeOrder, MergeOrder DEF Server
<1>14. CASE RoomSpeaks
  BY <1>14 DEF RoomSpeaks
<1>15. CASE ServerStops
  <2>1. lines' = <<>> /\ line' = line
    BY <1>15 DEF ServerStops
  <2> QED
    BY <2>1
<1>16. ASSUME NEW i \in DOMAIN lines, Tear(i) PROVE OrderInv'
  <2>1. /\ lines' = [lines EXCEPT ![i].end = "torn"]
        /\ line' = line /\ input_pc' = input_pc
    BY <1>16 DEF Tear
  <2>2. \A j \in DOMAIN lines : lines[j] \in Lines
    OBVIOUS
  <2>3. lines' \in Seq(Lines) /\ Len(lines') = Len(lines)
    BY <2>1, <2>2 DEF Lines
  <2>4. \A j \in DOMAIN lines : lines'[j].command = lines[j].command
    BY <2>1, <2>2 DEF Lines
  <2> QED
    BY <2>1, <2>3, <2>4
<1>17. CASE UNCHANGED vars
  BY <1>17 DEF vars, network
<1> QED
  BY <1>1, <1>2, <1>3, <1>4, <1>5, <1>6, <1>7, <1>8, <1>9, <1>10, <1>11, <1>12, <1>13, <1>14,
     <1>15, <1>16, <1>17
     DEF Next, User, InputThread, ReceiveThread

\* handle_user_input, lines 391-395, with the lines that end the loop and those
\* that do not (/exit with a blank behind it among them), the other thread's
\* exit_client and a server that closes at any moment: nothing follows the EXIT
\* of the line /exit. Of the EXIT of /exit with a blank this does not hold.
THEOREM ExitOrderCorrect == Spec => []NothingAfterExit
<1>1. OrderInv => NothingAfterExit
  BY DEF OrderInv, ExitIsLast, NothingAfterExit
<1> QED
  BY <1>1, OrderInit, OrderStep, PTL DEF Spec

-----------------------------------------------------------------------------
\* What a client whose replies were each read on its own will believe when it
\* has read all of rs.
Believes(rs, in_room, place) ==
    IF \E i \in DOMAIN rs : rs[i] \in PlaceReplies
    THEN \A i \in DOMAIN rs :
            /\ rs[i] \in PlaceReplies
            /\ \A j \in DOMAIN rs : j > i => rs[j] \notin PlaceReplies
            => (Place(in_room, rs[i]) <=> place = "in_chat_room")
    ELSE in_room <=> place = "in_chat_room"

Received == Replies \cup {"REST"}

StepInv ==
    /\ replies \in Seq(Received)
    /\ state \in ClientStates
    /\ peer = "open" /\ ~ swallowed => Believes(replies, is_in_room, state)

\* A reply behind the others decides, or changes nothing.
LEMMA ReplyBehind ==
    ASSUME NEW rs \in Seq(Received), NEW r \in Received, NEW in_room, NEW place, NEW next,
           Believes(rs, in_room, place),
           IF r \in PlaceReplies
           THEN r # "ROOM_LEAVE_OK" <=> next = "in_chat_room"
           ELSE place = "in_chat_room" <=> next = "in_chat_room"
    PROVE  Append(rs, r) \in Seq(Received) /\ Believes(Append(rs, r), in_room, next)
<1> DEFINE t == Append(rs, r)
<1>1. /\ t \in Seq(Received) /\ Len(rs) \in Nat
      /\ DOMAIN rs = 1 .. Len(rs) /\ DOMAIN t = 1 .. Len(rs) + 1
      /\ t[Len(rs) + 1] = r /\ \A i \in 1 .. Len(rs) : t[i] = rs[i]
  BY LenProperties
<1> HIDE DEF t
<1>2. CASE r \in PlaceReplies
  <2>1. \E i \in DOMAIN t : t[i] \in PlaceReplies
    BY <1>1, <1>2
  <2>2. ASSUME NEW i \in DOMAIN t, \A j \in DOMAIN t : j > i => t[j] \notin PlaceReplies
        PROVE  i = Len(rs) + 1
    BY <1>1, <1>2, <2>2
  <2>3. Place(in_room, r) <=> next = "in_chat_room"
    BY <1>2 DEF Place
  <2> QED
    BY <1>1, <2>1, <2>2, <2>3 DEF Believes, t
<1>3. CASE r \notin PlaceReplies
  <2>1. place = "in_chat_room" <=> next = "in_chat_room"
    BY <1>3
  <2>2. (\E i \in DOMAIN t : t[i] \in PlaceReplies)
          <=> (\E i \in DOMAIN rs : rs[i] \in PlaceReplies)
    BY <1>1, <1>3
  <2>3. ASSUME NEW i \in DOMAIN t, t[i] \in PlaceReplies,
               \A j \in DOMAIN t : j > i => t[j] \notin PlaceReplies
        PROVE  /\ i \in DOMAIN rs /\ t[i] = rs[i]
               /\ \A j \in DOMAIN rs : j > i => rs[j] \notin PlaceReplies
    BY <1>1, <1>3, <2>3
  <2> QED
    BY <1>1, <2>1, <2>2, <2>3 DEF Believes, t
<1> QED
  BY <1>2, <1>3

\* A recv that returns one reply about the place at most, and that first, takes
\* its effect.
LEMMA ReplyRead ==
    ASSUME StepInv, NEW k \in 1 .. Len(replies), Receive(k)
    PROVE  StepInv'
<1>1. /\ replies \in Seq(Received) /\ Len(replies) \in Nat
      /\ DOMAIN replies = 1 .. Len(replies) /\ Head(replies) = replies[1]
  BY LenProperties DEF StepInv
<1> DEFINE rest == SubSeq(replies, k + 1, Len(replies))
           cut == <<"REST">> \o rest
<1>2. /\ rest \in Seq(Received) /\ Len(rest) = Len(replies) - k
      /\ DOMAIN rest = 1 .. Len(replies) - k
      /\ \A i \in 1 .. Len(replies) - k : rest[i] = replies[k + i]
  <2>1. \A i \in k + 1 .. Len(replies) : replies[i] \in Received
    BY <1>1, ElementOfSeq
  <2>2. /\ rest \in Seq(Received)
        /\ Len(rest) = IF k + 1 <= Len(replies) THEN Len(replies) - (k + 1) + 1 ELSE 0
        /\ \A i \in 1 .. Len(replies) - (k + 1) + 1 : rest[i] = replies[(k + 1) + i - 1]
    BY <1>1, <2>1, SubSeqProperties
  <2> HIDE DEF rest
  <2>3. Len(rest) = Len(replies) - k
    <3>0. Len(replies) \in Nat /\ k \in Nat /\ k <= Len(replies)
      BY <1>1
    <3>1. CASE k + 1 <= Len(replies)
      BY <2>2, <3>0, <3>1
    <3>2. CASE ~ (k + 1 <= Len(replies))
      BY <2>2, <3>0, <3>2
    <3> QED
      BY <3>1, <3>2
  <2>4. \A i \in 1 .. Len(replies) - k : (k + 1) + i - 1 = k + i
    BY <1>1
  <2>5. Len(replies) - (k + 1) + 1 = Len(replies) - k
    BY <1>1
  <2> QED
    BY <2>2, <2>3, <2>4, <2>5, LenProperties
<1> HIDE DEF rest
<1>3. /\ cut \in Seq(Received) /\ DOMAIN cut = 1 .. Len(replies) - k + 1
      /\ cut[1] = "REST"
      /\ \A i \in 2 .. Len(replies) - k + 1 : cut[i] = replies[k + i - 1]
  <2> DEFINE one == <<"REST">>
  <2>1. one \in Seq(Received) /\ Len(one) = 1 /\ one[1] = "REST"
    BY DEF Received
  <2> HIDE DEF one
  <2>2. /\ one \o rest \in Seq(Received)
        /\ Len(one \o rest) = 1 + Len(rest)
        /\ \A i \in 1 .. 1 + Len(rest) :
              (one \o rest)[i] = IF i <= 1 THEN one[i] ELSE rest[i - 1]
    <3>1. /\ one \o rest \in Seq(Received)
          /\ Len(one \o rest) = Len(one) + Len(rest)
          /\ \A i \in 1 .. Len(one) + Len(rest) :
                (one \o rest)[i] = IF i <= Len(one) THEN one[i] ELSE rest[i - Len(one)]
      BY <1>2, <2>1, ConcatProperties
    <3> HIDE DEF rest
    <3> QED
      BY <2>1, <3>1
  <2>3. cut = one \o rest
    BY DEF one
  <2> HIDE DEF cut
  <2>4. DOMAIN cut = 1 .. Len(replies) - k + 1
    BY <1>1, <1>2, <2>2, <2>3, LenProperties
  <2>5. cut[1] = "REST"
    BY <1>1, <1>2, <2>1, <2>2, <2>3
  <2>6. ASSUME NEW i \in 2 .. Len(replies) - k + 1 PROVE cut[i] = replies[k + i - 1]
    <3>1. i \in 1 .. 1 + Len(rest) /\ ~ (i <= 1) /\ i - 1 \in 1 .. Len(replies) - k
      BY <1>1, <1>2, <2>6
    <3>2. cut[i] = rest[i - 1] /\ rest[i - 1] = replies[k + (i - 1)]
      BY <1>2, <2>2, <2>3, <3>1
    <3>3. k + (i - 1) = k + i - 1
      BY <1>1, <2>6
    <3> QED
      BY <3>2, <3>3
  <2> QED
    BY <2>2, <2>3, <2>4, <2>5, <2>6
<1> HIDE DEF cut
<1>4. /\ replies' \in {rest, cut} /\ state' = state /\ peer' = peer
      /\ is_in_room' = Place(is_in_room, replies[1])
      /\ ~ swallowed' => ~ swallowed /\ \A i \in 2 .. k : replies[i] \notin PlaceReplies
  BY <1>1 DEF Receive, rest, cut
<1>5. ASSUME peer = "open", ~ swallowed'
      PROVE  Believes(replies', is_in_room', state)
  <2>0. /\ Believes(replies, is_in_room, state)
        /\ \A i \in 2 .. k : replies[i] \notin PlaceReplies
    BY <1>4, <1>5 DEF StepInv
  <2>1. "REST" \notin PlaceReplies
    BY DEF PlaceReplies
  \* The replies that stay are those behind the first k.
  <2>2. \E d \in {0, 1} :
          /\ DOMAIN replies' = 1 .. Len(replies) - k + d
          /\ d = 1 => replies'[1] = "REST"
          /\ \A i \in 1 + d .. Len(replies) - k + d : replies'[i] = replies[k + i - d]
    BY <1>1, <1>2, <1>3, <1>4
  <2>3. PICK d \in {0, 1} :
          /\ DOMAIN replies' = 1 .. Len(replies) - k + d
          /\ d = 1 => replies'[1] = "REST"
          /\ \A i \in 1 + d .. Len(replies) - k + d : replies'[i] = replies[k + i - d]
    BY <2>2
  <2>4. CASE \E i \in k + 1 .. Len(replies) : replies[i] \in PlaceReplies
    <3>1. PICK i \in k + 1 .. Len(replies) : replies[i] \in PlaceReplies
      BY <2>4
    <3>2. i - k + d \in DOMAIN replies' /\ replies'[i - k + d] \in PlaceReplies
      <4>1. i - k + d \in 1 + d .. Len(replies) - k + d /\ k + (i - k + d) - d = i
        BY <1>1, <3>1
      <4>2. i - k + d \in DOMAIN replies'
        BY <1>1, <2>3, <4>1
      <4> QED
        BY <2>3, <3>1, <4>1, <4>2
    <3>3. ASSUME NEW j \in DOMAIN replies', replies'[j] \in PlaceReplies,
                 \A l \in DOMAIN replies' : l > j => replies'[l] \notin PlaceReplies
          PROVE  Place(is_in_room', replies'[j]) <=> state = "in_chat_room"
      <4>1. j \in 1 + d .. Len(replies) - k + d
        BY <1>1, <2>1, <2>3, <3>3
      <4>2. replies'[j] = replies[k + j - d] /\ k + j - d \in k + 1 .. Len(replies)
        <5>1. replies'[j] = replies[k + j - d]
          BY <2>3, <4>1
        <5>2. k + j - d \in k + 1 .. Len(replies)
          BY <1>1, <4>1
        <5> QED
          BY <5>1, <5>2
      <4>3. ASSUME NEW m \in DOMAIN replies, m > k + j - d
            PROVE  replies[m] \notin PlaceReplies
        <5>1. /\ m - k + d \in 1 + d .. Len(replies) - k + d /\ k + (m - k + d) - d = m
              /\ m - k + d > j
          BY <1>1, <4>1, <4>3
        <5>2. m - k + d \in DOMAIN replies' /\ replies'[m - k + d] = replies[m]
          BY <1>1, <2>3, <5>1
        <5> QED
          BY <3>3, <5>1, <5>2
      <4>4. Place(is_in_room, replies[k + j - d]) <=> state = "in_chat_room"
        BY <1>1, <2>0, <3>3, <4>2, <4>3 DEF Believes
      <4> QED
        BY <3>3, <4>2, <4>4 DEF Place
    <3> QED
      BY <3>2, <3>3 DEF Believes
  <2>5. CASE \A i \in k + 1 .. Len(replies) : replies[i] \notin PlaceReplies
    <3>1. \A i \in 2 .. Len(replies) : replies[i] \notin PlaceReplies
      BY <1>1, <2>0, <2>5
    <3>2. is_in_room' <=> state = "in_chat_room"
      <4>1. 1 \in DOMAIN replies
        BY <1>1
      <4>2. CASE replies[1] \in PlaceReplies
        BY <1>1, <1>4, <2>0, <3>1, <4>1, <4>2 DEF Believes
      <4>3. CASE replies[1] \notin PlaceReplies
        <5>1. \A i \in DOMAIN replies : replies[i] \notin PlaceReplies
          BY <1>1, <3>1, <4>3
        <5> QED
          BY <1>4, <2>0, <4>3, <5>1 DEF Believes, Place
      <4> QED
        BY <4>2, <4>3
    <3>3. ASSUME NEW j \in DOMAIN replies' PROVE replies'[j] \notin PlaceReplies
      <4>1. CASE j \in 1 + d .. Len(replies) - k + d
        <5>1. k + j - d \in k + 1 .. Len(replies)
          BY <1>1, <4>1
        <5> QED
          BY <2>3, <2>5, <4>1, <5>1
      <4>2. CASE j = 1 /\ d = 1
        BY <2>1, <2>3, <4>2
      <4> QED
        BY <1>1, <2>3, <3>3, <4>1, <4>2
    <3> QED
      BY <3>2, <3>3 DEF Believes
  <2> QED
    BY <2>4, <2>5
<1> QED
  BY <1>2, <1>3, <1>4, <1>5 DEF StepInv

\* Every answer is one reply or none, and only a reply about the place tells
\* the client that it has entered or left a room.
LEMMA AnswerSays ==
    ASSUME NEW st \in ClientStates, NEW command, command # "EXIT",
           NEW a \in Answers(st, command)
    PROVE  /\ a.state \in ClientStates
           /\ \/ a.replies = <<>> /\ a.state = st
              \/ \E r \in Received :
                    /\ a.replies = <<r>>
                    /\ IF r \in PlaceReplies
                       THEN r # "ROOM_LEAVE_OK" <=> a.state = "in_chat_room"
                       ELSE st = "in_chat_room" <=> a.state = "in_chat_room"
<1> USE DEF Answer, ClientStates, Received, Replies, PlaceReplies
<1>1. CASE command \notin ValidCommands(st)
  <2>1. a = Answer(st, <<"ERR">>)
    BY <1>1 DEF Answers
  <2>2. a.state = st /\ a.replies = <<"ERR">>
    BY <2>1
  <2> QED
    BY <2>2
<1>2. CASE command \in ValidCommands(st) /\ st = "awaiting_username"
  BY <1>2 DEF Answers, ValidCommands
<1>3. CASE command \in ValidCommands(st) /\ st = "in_chat_lobby"
  BY <1>3 DEF Answers, ValidCommands
<1>4. CASE command \in ValidCommands(st) /\ st = "in_chat_room"
  BY <1>4 DEF Answers, ValidCommands, LeaveReplies
<1> QED
  BY <1>1, <1>2, <1>3, <1>4

LEMMA ServeTells == StepInv /\ Serve => StepInv'
<1> SUFFICES ASSUME StepInv, Serve PROVE StepInv'
  OBVIOUS
<1> DEFINE command == Head(lines).command
<1>0. is_in_room' = is_in_room /\ swallowed' = swallowed /\ peer = "open"
  BY DEF Serve, flags, history
<1>1. CASE command \in Exits
  BY <1>0, <1>1 DEF Serve, StepInv
<1>2. CASE command \notin Exits
  <2>1. PICK a \in Answers(state, command) : state' = a.state /\ replies' = replies \o a.replies
    BY <1>2 DEF Serve
  <2>2. peer' = peer
    BY <1>2 DEF Serve
  <2>3. replies \in Seq(Received) /\ state \in ClientStates
        /\ (~ swallowed => Believes(replies, is_in_room, state))
    BY <1>0 DEF StepInv
  <2>4. a.state \in ClientStates
    BY <1>2, <2>3, AnswerSays DEF Exits
  <2>5. CASE a.replies = <<>> /\ a.state = state
    <3>1. replies' = replies
      BY <2>1, <2>3, <2>5, ConcatEmptySeq
    <3> QED
      BY <1>0, <2>1, <2>2, <2>3, <2>5, <3>1 DEF StepInv
  <2>6. ASSUME NEW r \in Received, a.replies = <<r>>,
               IF r \in PlaceReplies
               THEN r # "ROOM_LEAVE_OK" <=> a.state = "in_chat_room"
               ELSE state = "in_chat_room" <=> a.state = "in_chat_room"
        PROVE  StepInv'
    <3>1. replies' = Append(replies, r)
      BY <2>1, <2>3, <2>6, AppendIsConcat
    <3>2. /\ replies' \in Seq(Received)
          /\ ~ swallowed => Believes(replies', is_in_room, a.state)
      BY <2>3, <2>6, <3>1, ReplyBehind
    <3> QED
      BY <1>0, <2>1, <2>2, <2>4, <3>2 DEF StepInv
  <2> QED
    BY <1>2, <2>3, <2>5, <2>6, AnswerSays DEF Exits
<1> QED
  BY <1>1, <1>2

LEMMA StepStep == StepInv /\ [Next]_vars => StepInv'
<1> SUFFICES ASSUME StepInv, [Next]_vars PROVE StepInv'
  OBVIOUS
<1>1. ASSUME UNCHANGED <<replies, state, is_in_room, swallowed>>,
             peer' = "open" => peer = "open"
      PROVE  StepInv'
  BY <1>1 DEF StepInv
<1>2. CASE SubmitUsername \/ SendLine
  BY <1>1, <1>2 DEF SubmitUsername, SendLine, Send, Dies, flags, network, history
<1>3. CASE TypeNothing \/ InputCheck \/ Validate \/ ReceiveCheck \/ EnterRecv \/ ReceiveEnd
  BY <1>1, <1>3 DEF TypeNothing, InputCheck, Validate, ReceiveCheck, EnterRecv, ReceiveEnd,
     Dies, flags, network, history
<1>4. CASE ExitClient \/ MainReturns \/ UNCHANGED vars
  BY <1>1, <1>4 DEF ExitClient, ExitRunning, ExitClose, MainReturns, vars, flags, network,
     history
<1>5. ASSUME NEW l \in Lines, Type(l) PROVE StepInv'
  BY <1>1, <1>5 DEF Type, flags, network
<1>6. ASSUME NEW i \in DOMAIN lines, Tear(i) PROVE StepInv'
  BY <1>1, <1>6 DEF Tear, flags
<1>7. CASE Merge
  BY <1>1, <1>7 DEF Merge, flags, history
<1>8. CASE ServerStops
  BY <1>1, <1>8 DEF ServerStops, flags, history
<1>9. CASE RoomSpeaks
  <2>1. /\ replies' = Append(replies, "ROOM_MSG")
        /\ UNCHANGED <<state, is_in_room, swallowed, peer>>
    BY <1>9 DEF RoomSpeaks, flags, history
  <2>2. "ROOM_MSG" \in Received \ PlaceReplies
    BY DEF Received, Replies, PlaceReplies
  <2> QED
    BY <2>1, <2>2, ReplyBehind DEF StepInv
<1> QED
  BY <1>2, <1>3, <1>4, <1>5, <1>6, <1>7, <1>8, <1>9, ServeTells, ReplyRead
     DEF Next, User, InputThread, ReceiveThread, Server

LEMMA StepInit == Init => StepInv
<1> SUFFICES ASSUME Init PROVE StepInv
  OBVIOUS
<1>1. replies \in {<<>>, <<"REST">>} /\ state = "awaiting_username" /\ is_in_room = FALSE
  BY DEF Init
<1>2. replies \in Seq(Received) /\ \A i \in DOMAIN replies : replies[i] \notin PlaceReplies
  <2>1. CASE replies = <<>>
    BY <2>1, EmptySeq
  <2>2. CASE replies = <<"REST">>
    <3>1. replies \in Seq(Received)
      BY <2>2 DEF Received
    <3>2. DOMAIN replies = {1} /\ replies[1] = "REST"
      BY <2>2
    <3> QED
      BY <3>1, <3>2 DEF PlaceReplies
  <2> QED
    BY <1>1, <2>1, <2>2
<1> QED
  BY <1>1, <1>2 DEF StepInv, Believes, ClientStates

\* parse_server_msg, with what the server's handlers send: as long as no reply
\* about the place is read behind another, the client is never wrong for longer
\* than it takes to read what is on its way.
THEOREM InStepCorrect == Spec => []InStep
<1>1. StepInv => InStep
  BY DEF StepInv, Believes, InStep, LastAboutPlace
<1> QED
  BY <1>1, StepInit, StepStep, PTL DEF Spec

-----------------------------------------------------------------------------
\* What is left of TypeOK: the places the two threads and main can be in, the
\* flags, and the bounds on what is on its way.
PlaceInv ==
    /\ input_pc \in {"username", "check", "typing", "validate", "send"} \cup EndPcs
    /\ receive_pc \in {"check", "recv", "in_recv"} \cup EndPcs
    /\ is_running \in BOOLEAN /\ is_in_room \in BOOLEAN /\ fd_open \in BOOLEAN
    /\ peer \in {"open", "closed", "closed_and_reset", "reset"}
    /\ asked_exit \in BOOLEAN /\ unterminated \in BOOLEAN /\ swallowed \in BOOLEAN

BoundInv == Len(lines) <= MaxLines /\ Len(replies) <= MaxReplies

\* OrderInv and StepInv say what is in the lines and in the replies.
TypeInv == PlaceInv /\ BoundInv /\ OrderInv /\ StepInv

LEMMA PlaceStep == PlaceInv /\ [Next]_vars => PlaceInv'
<1> SUFFICES ASSUME PlaceInv, [Next]_vars PROVE PlaceInv'
  OBVIOUS
<1> USE DEF PlaceInv, EndPcs
<1>1. CASE SubmitUsername \/ SendLine
  <2>1. CASE SendFails
    BY <1>1, <2>1 DEF SubmitUsername, SendLine, Dies, flags, network, history
  <2>2. CASE ~ SendFails
    <3>1. peer' \in {"open", "closed", "closed_and_reset", "reset"}
      BY <1>1, <2>2 DEF SubmitUsername, SendLine, Send
    <3>2. unterminated' \in BOOLEAN
      BY <1>1, <2>2 DEF SubmitUsername, SendLine, history
    <3> QED
      BY <1>1, <2>2, <3>1, <3>2 DEF SubmitUsername, SendLine, AfterLine, flags, history
  <2> QED
    BY <2>1, <2>2
<1>2. CASE TypeNothing \/ InputCheck \/ Validate
  BY <1>2 DEF TypeNothing, InputCheck, Validate, AfterLine, flags, network, history
<1>3. CASE ReceiveCheck \/ EnterRecv \/ ReceiveEnd
  BY <1>3 DEF ReceiveCheck, EnterRecv, ReceiveEnd, Dies, flags, network, history
<1>4. ASSUME NEW k \in 1 .. Len(replies), Receive(k) PROVE PlaceInv'
  <2>1. is_in_room' \in BOOLEAN /\ swallowed' \in BOOLEAN
    BY <1>4 DEF Receive, Place
  <2> QED
    BY <1>4, <2>1 DEF Receive
<1>5. CASE ExitClient \/ MainReturns
  BY <1>5 DEF ExitClient, ExitRunning, ExitClose, MainReturns, flags, network, history
<1>6. ASSUME NEW l \in Lines, Type(l) PROVE PlaceInv'
  BY <1>6 DEF Type, flags, network
<1>7. ASSUME NEW i \in DOMAIN lines, Tear(i) PROVE PlaceInv'
  BY <1>7 DEF Tear, flags
<1>8. CASE Serve
  BY <1>8 DEF Serve, flags, history
<1>9. CASE Merge
  BY <1>9 DEF Merge, flags, history
<1>10. CASE RoomSpeaks
  BY <1>10 DEF RoomSpeaks, flags, history
<1>11. CASE ServerStops
  BY <1>11 DEF ServerStops, flags, history
<1>12. CASE UNCHANGED vars
  BY <1>12 DEF vars, flags, network, history
<1> QED
  BY <1>1, <1>2, <1>3, <1>4, <1>5, <1>6, <1>7, <1>8, <1>9, <1>10, <1>11, <1>12
     DEF Next, User, InputThread, ReceiveThread, Server

\* What the client sends waits for room, and what the server takes makes some.
LEMMA LinesBounded ==
    ASSUME TypeInv, [Next]_vars
    PROVE  Len(lines') <= MaxLines
<1>1. lines \in Seq(Lines) /\ Len(lines) \in Nat /\ Len(lines) <= MaxLines /\ MaxLines \in Nat
  BY BoundsAssumption, LenProperties DEF TypeInv, BoundInv, OrderInv
<1>2. CASE UNCHANGED lines
  BY <1>1, <1>2
<1>3. ASSUME NEW l, Send(l) PROVE Len(lines') <= MaxLines
  BY <1>1, <1>3 DEF Send
<1>4. CASE SubmitUsername \/ SendLine
  BY <1>2, <1>3, <1>4 DEF SubmitUsername, SendLine, Dies, network
<1>5. CASE Serve
  <2>1. lines # <<>> /\ lines' = Tail(lines)
    BY <1>5 DEF Serve
  <2>2. Len(lines') = Len(lines) - 1
    BY <1>1, <2>1
  <2> QED
    BY <1>1, <2>2
<1>6. CASE Merge
  <2> DEFINE t == Tail(lines)
  <2>1. \E x : lines' = [t EXCEPT ![1] = x]
    BY <1>6 DEF Merge
  <2>2. t \in Seq(Lines) /\ Len(t) = Len(lines) - 1
    BY <1>1, <1>6 DEF Merge
  <2> HIDE DEF t
  <2>3. Len(lines') = Len(t)
    BY <2>1, <2>2
  <2> QED
    BY <1>1, <2>2, <2>3
<1>7. ASSUME NEW i \in DOMAIN lines, Tear(i) PROVE Len(lines') <= MaxLines
  <2>1. \E x : lines' = [lines EXCEPT ![i] = x]
    BY <1>7 DEF Tear
  <2>2. Len(lines') = Len(lines)
    BY <1>1, <2>1
  <2> QED
    BY <1>1, <2>2
<1>8. CASE ServerStops
  BY <1>1, <1>8 DEF ServerStops
<1>9. CASE TypeNothing \/ InputCheck \/ Validate \/ ReceiveCheck \/ EnterRecv \/ ReceiveEnd
  BY <1>2, <1>9 DEF TypeNothing, InputCheck, Validate, ReceiveCheck, EnterRecv, ReceiveEnd,
     Dies, network
<1>10. CASE ExitClient \/ MainReturns \/ RoomSpeaks \/ UNCHANGED vars
  BY <1>2, <1>10 DEF ExitClient, ExitRunning, ExitClose, MainReturns, RoomSpeaks, vars, network
<1>11. ASSUME NEW l \in Lines, Type(l) PROVE Len(lines') <= MaxLines
  BY <1>2, <1>11 DEF Type, network
<1>12. ASSUME NEW k \in 1 .. Len(replies), Receive(k) PROVE Len(lines') <= MaxLines
  BY <1>2, <1>12 DEF Receive
<1> QED
  BY <1>4, <1>5, <1>6, <1>7, <1>8, <1>9, <1>10, <1>11, <1>12
     DEF Next, User, InputThread, ReceiveThread, Server

\* The server answers a command with one reply at most, and a recv takes one
\* reply at least, of which it may leave a part.
LEMMA RepliesBounded ==
    ASSUME TypeInv, [Next]_vars
    PROVE  Len(replies') <= MaxReplies
<1>1. /\ replies \in Seq(Received) /\ Len(replies) \in Nat /\ Len(replies) <= MaxReplies
      /\ MaxReplies \in Nat /\ state \in ClientStates
  BY BoundsAssumption, LenProperties DEF TypeInv, BoundInv, StepInv
<1>2. CASE UNCHANGED replies
  BY <1>1, <1>2
<1>3. CASE Serve
  <2> DEFINE command == Head(lines).command
  <2>1. CASE command \in Exits
    BY <1>2, <1>3, <2>1 DEF Serve
  <2>2. CASE command \notin Exits
    <3>1. Len(replies) < MaxReplies
      BY <1>3, <2>2 DEF Serve
    <3>2. PICK a \in Answers(state, command) : replies' = replies \o a.replies
      BY <1>3, <2>2 DEF Serve
    <3>3. a.replies = <<>> \/ \E r \in Received : a.replies = <<r>>
      BY <1>1, <2>2, AnswerSays DEF Exits
    <3>4. CASE a.replies = <<>>
      BY <1>1, <3>2, <3>4, ConcatEmptySeq
    <3>5. ASSUME NEW r \in Received, a.replies = <<r>> PROVE Len(replies') <= MaxReplies
      <4>1. replies' = Append(replies, r)
        BY <1>1, <3>2, <3>5, AppendIsConcat
      <4> QED
        BY <1>1, <3>1, <4>1
    <3> QED
      BY <3>3, <3>4, <3>5
  <2> QED
    BY <2>1, <2>2
<1>4. ASSUME NEW k \in 1 .. Len(replies), Receive(k) PROVE Len(replies') <= MaxReplies
  <2> DEFINE rest == SubSeq(replies, k + 1, Len(replies))
             one == <<"REST">>
  <2>1. rest \in Seq(Received) /\ Len(rest) <= Len(replies) - 1 /\ Len(rest) \in Nat
    <3>1. \A i \in k + 1 .. Len(replies) : replies[i] \in Received
      BY <1>1, ElementOfSeq
    <3>2. /\ rest \in Seq(Received)
          /\ Len(rest) = IF k + 1 <= Len(replies) THEN Len(replies) - (k + 1) + 1 ELSE 0
      BY <1>1, <3>1, SubSeqProperties
    <3> HIDE DEF rest
    <3> QED
      BY <1>1, <1>4, <3>2
  <2>2. one \in Seq(Received) /\ Len(one) = 1
    BY DEF Received
  <2>3. replies' = rest \/ replies' = one \o rest
    BY <1>4 DEF Receive
  <2> HIDE DEF rest, one
  <2>4. Len(one \o rest) = Len(one) + Len(rest)
    BY <2>1, <2>2, ConcatProperties
  <2>5. Len(one \o rest) <= MaxReplies /\ Len(rest) <= MaxReplies
    BY <1>1, <2>1, <2>2, <2>4
  <2> QED
    BY <2>3, <2>5
<1>5. CASE RoomSpeaks
  <2>1. Len(replies) < MaxReplies - 1 /\ replies' = Append(replies, "ROOM_MSG")
    BY <1>5 DEF RoomSpeaks
  <2> QED
    BY <1>1, <2>1
<1>6. CASE SubmitUsername \/ SendLine \/ Merge \/ ServerStops
  BY <1>2, <1>6 DEF SubmitUsername, SendLine, Dies, network, Merge, ServerStops
<1>7. CASE TypeNothing \/ InputCheck \/ Validate \/ ReceiveCheck \/ EnterRecv \/ ReceiveEnd
  BY <1>2, <1>7 DEF TypeNothing, InputCheck, Validate, ReceiveCheck, EnterRecv, ReceiveEnd,
     Dies, network
<1>8. CASE ExitClient \/ MainReturns \/ UNCHANGED vars
  BY <1>2, <1>8 DEF ExitClient, ExitRunning, ExitClose, MainReturns, vars, network
<1>9. ASSUME NEW l \in Lines, Type(l) PROVE Len(replies') <= MaxReplies
  BY <1>2, <1>9 DEF Type, network
<1>10. ASSUME NEW i \in DOMAIN lines, Tear(i) PROVE Len(replies') <= MaxReplies
  BY <1>2, <1>10 DEF Tear
<1> QED
  BY <1>3, <1>4, <1>5, <1>6, <1>7, <1>8, <1>9, <1>10
     DEF Next, User, InputThread, ReceiveThread, Server

LEMMA TypeInit == Init => TypeInv
<1> SUFFICES ASSUME Init PROVE TypeInv
  OBVIOUS
<1>1. PlaceInv
  BY DEF Init, PlaceInv
<1>2. BoundInv
  <2>1. Len(lines) = 0 /\ Len(replies) <= 1
    <3>1. lines = <<>> /\ replies \in {<<>>, <<"REST">>}
      BY DEF Init
    <3>2. CASE replies = <<>>
      BY <3>1, <3>2
    <3>3. CASE replies = <<"REST">>
      <4>1. Len(replies) = 1
        BY <3>3
      <4> QED
        BY <3>1, <4>1
    <3> QED
      BY <3>1, <3>2, <3>3
  <2> QED
    BY <2>1, BoundsAssumption DEF BoundInv
<1> QED
  BY <1>1, <1>2, OrderInit, StepInit DEF TypeInv

LEMMA TypeStep == TypeInv /\ [Next]_vars => TypeInv'
<1> SUFFICES ASSUME TypeInv, [Next]_vars PROVE TypeInv'
  OBVIOUS
<1>1. BoundInv'
  BY LinesBounded, RepliesBounded DEF BoundInv
<1> QED
  BY <1>1, PlaceStep, OrderStep, StepStep DEF TypeInv

\* main.c: the threads and what they share stay within what is declared for
\* them, and no bound of the model is passed.
THEOREM TypeCorrect == Spec => []TypeOK
<1>1. TypeInv => TypeOK
  <2> SUFFICES ASSUME TypeInv PROVE TypeOK
    OBVIOUS
  <2>1. \A i \in DOMAIN lines : lines[i] \in Lines
    BY DEF TypeInv, OrderInv
  <2>2. \A i \in DOMAIN replies : replies[i] \in Replies \cup {"REST"}
    BY DEF TypeInv, StepInv, Received
  <2> QED
    BY <2>1, <2>2 DEF TypeInv, PlaceInv, BoundInv, OrderInv, StepInv, TypeOK
<1> QED
  BY <1>1, TypeInit, TypeStep, PTL DEF Spec

=============================================================================
