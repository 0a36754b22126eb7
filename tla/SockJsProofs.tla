---------------------------- MODULE SockJsProofs ----------------------------
(***************************************************************************)
(* What SockJs promises an orderly client, proved for any number of        *)
(* sessions, polls and sends and any capacity of the queues.               *)
(***************************************************************************)
EXTENDS SockJs, WellFoundedInduction, TLAPS

\* A poll that waits or removes holds a session; a send that holds one has
\* messages left.
Holding == {"wait", "remove"}
PollShapes ==
  \A p \in Polls : /\ poll[p].at = "idle" => poll[p] = Idle
                   /\ poll[p].at \in Holding => poll[p].session \in Sessions
SendShapes == \A r \in Sends : send[r].session # None => send[r].left # 0
Shapes == PollShapes /\ SendShapes

\* An orderly client's only poll is the only one that changes the map, so that
\* what it found there is there until it is answered.
Alone ==
  /\ \A p, q \in Polls : poll[p] # Idle /\ poll[q] # Idle => p = q
  /\ \A p \in Polls : /\ poll[p].at = "create" => entry = None
                      /\ poll[p].at \in Holding => poll[p].session = entry

\* What the client was told is what the map says.
Informed ==
  \A s \in Sessions : /\ (told[s] = "open") <=> (entry = s)
                      /\ task[s] = "none" => told[s] = "nothing"

SockInv == SockTypeOK /\ Shapes /\ (orderly => Alone /\ Informed)

-----------------------------------------------------------------------------
(* The queue a poll drains.                                                *)

\* A set of naturals that is not empty has a least element.
LEMMA LeastNatural ==
  ASSUME NEW T, T \subseteq Nat, T # {}
  PROVE  \E n \in T : \A m \in T : n <= m
<1> DEFINE R == OpToRel(<, Nat)
<1>1. IsWellFoundedOn(R, Nat)
  BY NatLessThanWellFounded, Zenon
<1> HIDE DEF R
<1>2. PICK n \in T : \A m \in T : ~ (<<m, n>> \in R)
  BY <1>1, WFMin
<1>3. \A m \in T : ~(m < n)
  BY <1>2 DEF R, OpToRel
<1> QED BY <1>2, <1>3

\* What try_recv coalesces is well defined: the frames before the first item of
\* another kind (sockjs.rs xhr).
LEMMA FramesAtHead ==
  ASSUME NEW q \in Seq(Out)
  PROVE  /\ HeadFrames(q) \in 0..Len(q)
         /\ \A i \in 1..HeadFrames(q) : q[i] = "frame"
         /\ HeadFrames(q) < Len(q) => q[HeadFrames(q) + 1] # "frame"
<1> DEFINE Ends == {n \in 0..Len(q) : n < Len(q) => q[n + 1] # "frame"}
           IsHead(n) == /\ \A i \in 1..n : q[i] = "frame"
                        /\ n < Len(q) => q[n + 1] # "frame"
<1>1. Len(q) \in Nat /\ Len(q) \in Ends /\ Ends \subseteq Nat
  OBVIOUS
<1>2. PICK n \in Ends : \A m \in Ends : n <= m
  BY <1>1, LeastNatural
<1>3. ASSUME NEW i \in 1..n PROVE q[i] = "frame"
  <2>1. i - 1 \in 0..Len(q) /\ i - 1 < Len(q) /\ ~(n <= i - 1)
    BY <1>1, <1>2
  <2>2. i - 1 \notin Ends
    BY <1>2, <2>1
  <2> QED BY <2>1, <2>2
<1>4. \E k \in 0..Len(q) : IsHead(k)
  BY <1>2, <1>3
<1> QED BY <1>4 DEF HeadFrames

\* A poll that takes frames leaves a suffix of the queue, and leaves it shorter
\* (sockjs.rs xhr).
LEMMA CoalescedShrinks ==
  ASSUME NEW q \in Seq(Out), q # <<>>, Head(q) = "frame"
  PROVE  /\ Coalesced(q) \in Seq(Out)
         /\ Len(Coalesced(q)) < Len(q)
<1> DEFINE n == HeadFrames(q)
<1>1. n \in 0..Len(q) /\ (n < Len(q) => q[n + 1] # "frame") /\ Len(q) \in Nat \ {0}
  BY FramesAtHead
<1>2. n # 0
  BY <1>1
<1> HIDE DEF n
<1>3. CASE n + 2 <= Len(q)
  BY <1>1, <1>2, <1>3 DEF Coalesced, n
<1>4. CASE n + 2 > Len(q)
  <2>1. SubSeq(q, n + 2, Len(q)) = <<>>
    BY <1>1, <1>4
  <2> QED BY <1>1, <2>1 DEF Coalesced, n
<1> QED BY <1>1, <1>3, <1>4

-----------------------------------------------------------------------------
(* One step for each operation.                                            *)

\* The entry, the polls and the queues have their types at first.
LEMMA SockInit == Init => SockInv
<1> SUFFICES ASSUME Init PROVE SockInv
  OBVIOUS
<1>1. /\ poll \in [Polls -> [at : {"idle", "create", "wait", "remove"},
                             session : Sessions \cup {None}]]
      /\ Shapes /\ \A p \in Polls : poll[p] = Idle /\ poll[p].at = "idle"
  BY DEF Init, Idle, Shapes, PollShapes, SendShapes, Holding
<1>2. send \in [Sends -> [session : Sessions \cup {None}, left : 0..MaxMessages]]
  BY SockJsAssumption DEF Init
<1>3. /\ outgoing \in [Sessions -> Seq(Out)] /\ \A s \in Sessions : Len(outgoing[s]) <= WriteQueue
      /\ incoming \in [Sessions -> 0..IncomingQueue]
      /\ task \in [Sessions -> {"none", "run", "reply", "close", "leave", "ended"}]
  BY SockJsAssumption DEF Init
<1>4. /\ registered \in [Sessions -> BOOLEAN] /\ slowClose \in [Sessions -> BOOLEAN]
      /\ told \in [Sessions -> {"nothing", "open", "closed"}]
      /\ entry = None /\ orderly \in BOOLEAN
  BY DEF Init
<1>5. Alone
  BY <1>1, <1>4 DEF Alone, Holding
<1>6. Informed
  BY <1>4 DEF Init, Informed, None, Sessions
<1> QED BY <1>1, <1>2, <1>3, <1>4, <1>5, <1>6 DEF SockInv, SockTypeOK

\* Losing the Arc empties queues and changes no type.
LEMMA KeptType ==
  ASSUME NEW queues \in [Sessions -> Seq(Out)], \A s \in Sessions : Len(queues[s]) <= WriteQueue
  PROVE  /\ Kept(queues) \in [Sessions -> Seq(Out)]
         /\ \A s \in Sessions : Len(Kept(queues)[s]) <= WriteQueue
<1>1. \A s \in Sessions : Kept(queues)[s] = queues[s] \/ Kept(queues)[s] = <<>>
  BY DEF Kept
<1>2. 0 <= WriteQueue /\ Len(<<>>) = 0
  BY SockJsAssumption
<1> QED BY <1>1, <1>2 DEF Kept

Queues(q) == q \in [Sessions -> Seq(Out)] /\ \A s \in Sessions : Len(q[s]) <= WriteQueue
PollSet == [Polls -> [at : {"idle", "create", "wait", "remove"}, session : Sessions \cup {None}]]
SendSet == [Sends -> [session : Sessions \cup {None}, left : 0..MaxMessages]]
TaskSet == [Sessions -> {"none", "run", "reply", "close", "leave", "ended"}]
ToldSet == [Sessions -> {"nothing", "open", "closed"}]

\* The type invariant in the terms of the steps below.
LEMMA TypeParts ==
  SockTypeOK <=>
    /\ orderly \in BOOLEAN /\ entry \in Sessions \cup {None}
    /\ poll \in PollSet /\ send \in SendSet /\ task \in TaskSet
    /\ Queues(outgoing) /\ incoming \in [Sessions -> 0..IncomingQueue]
    /\ registered \in [Sessions -> BOOLEAN] /\ slowClose \in [Sessions -> BOOLEAN]
    /\ told \in ToldSet
  BY DEF SockTypeOK, PollSet, SendSet, TaskSet, ToldSet, Queues
\* Every operation keeps the types, and leaves a poll idle or with a session
\* that exists (sockjs.rs xhr, xhr_send, run_session).
LEMMA TypeStep == SockTypeOK /\ Shapes /\ [Next]_vars => SockTypeOK' /\ Shapes'
<1> SUFFICES ASSUME SockTypeOK, Shapes, [Next]_vars PROVE SockTypeOK' /\ Shapes'
  OBVIOUS
<1> USE DEF requests, tasks
<1>t. /\ orderly \in BOOLEAN /\ entry \in Sessions \cup {None}
      /\ poll \in PollSet /\ send \in SendSet /\ task \in TaskSet
      /\ Queues(outgoing) /\ incoming \in [Sessions -> 0..IncomingQueue]
      /\ registered \in [Sessions -> BOOLEAN] /\ slowClose \in [Sessions -> BOOLEAN]
      /\ told \in ToldSet
  BY TypeParts
<1> DEFINE Typed == /\ orderly' \in BOOLEAN /\ entry' \in Sessions \cup {None}
                    /\ poll' \in PollSet /\ send' \in SendSet /\ task' \in TaskSet
                    /\ Queues(outgoing') /\ incoming' \in [Sessions -> 0..IncomingQueue]
                    /\ registered' \in [Sessions -> BOOLEAN]
                    /\ slowClose' \in [Sessions -> BOOLEAN]
                    /\ told' \in ToldSet
<1>p. Typed /\ PollShapes' /\ SendShapes' => SockTypeOK' /\ Shapes'
  BY DEF Shapes, SockTypeOK, PollSet, SendSet, TaskSet, ToldSet, Queues
<1>s. (poll' = poll => PollShapes') /\ (send' = send => SendShapes')
  BY DEF Shapes, PollShapes, SendShapes
<1>r. \A q \in Sessions : Room(q) => Queues([outgoing EXCEPT ![q] = Append(@, "frame")])
                                  /\ Queues([outgoing EXCEPT ![q] = Append(@, "close")])
  <2> TAKE q \in Sessions
  <2> HAVE Room(q)
  <2>1. /\ outgoing[q] \in Seq(Out) /\ Len(outgoing[q]) \in Nat /\ Len(outgoing[q]) < WriteQueue
    BY <1>t DEF Room, Queues
  <2>2. \A item \in Out : /\ Append(outgoing[q], item) \in Seq(Out)
                          /\ Len(Append(outgoing[q], item)) <= WriteQueue
    BY <2>1, SockJsAssumption
  <2>3. \A item \in Out : Queues([outgoing EXCEPT ![q] = Append(@, item)])
    BY <2>2, <1>t DEF Queues
  <2> QED BY <2>3 DEF Out
<1>k. Queues(Kept(outgoing))
  BY <1>t, KeptType DEF Queues
<1>a. ASSUME NEW p \in Polls, poll' = [poll EXCEPT ![p] = Idle]
      PROVE  poll' \in PollSet /\ PollShapes'
  <2>1. poll' \in PollSet
    BY <1>a, <1>t DEF PollSet, Idle
  <2>2. PollShapes'
    BY <1>a, <1>t DEF Shapes, PollShapes, PollSet, Idle, Holding
  <2> QED BY <2>1, <2>2
<1>b. ASSUME NEW s \in Sessions, NEW news \in {"open", "closed"}, Tell(s, news)
      PROVE  told' \in ToldSet
  BY <1>b, <1>t DEF Tell, ToldSet
<1>h. \A p \in Polls : poll[p].at \in Holding => poll[p].session \in Sessions
  BY DEF Shapes, PollShapes
<1>d. ASSUME NEW r \in Sends, SendDone(r) PROVE send' \in SendSet /\ SendShapes'
  BY <1>d, <1>t, SockJsAssumption DEF SendDone, SendSet, Shapes, SendShapes
<1>e. \A r \in Sends : send[r].session \in Sessions \cup {None} /\ send[r].left \in 0..MaxMessages
  BY <1>t DEF SendSet
<1>1. CASE UNCHANGED vars
  BY <1>1, <1>t, <1>s, <1>p DEF vars
<1>2. ASSUME NEW p \in Polls, StartPoll(p) PROVE SockTypeOK' /\ Shapes'
  <2> DEFINE new == [at |-> IF entry = None THEN "create" ELSE "wait", session |-> entry]
  <2>1. poll' = [poll EXCEPT ![p] = new]
    BY <1>2 DEF StartPoll
  <2>2. new \in [at : {"idle", "create", "wait", "remove"}, session : Sessions \cup {None}]
    BY <1>t
  <2>3. new.at # "idle" /\ (new.at \in Holding => new.session \in Sessions)
    BY <1>t DEF Holding
  <2> HIDE DEF new
  <2>4. poll' \in PollSet
    BY <2>1, <2>2, <1>t DEF PollSet
  <2>5. PollShapes'
    BY <2>1, <2>3, <1>t DEF Shapes, PollShapes, PollSet
  <2> QED BY <1>2, <1>s, <1>t, <1>p, <2>4, <2>5 DEF StartPoll
<1>3. ASSUME NEW p \in Polls, Create(p) PROVE SockTypeOK' /\ Shapes'
  <2>1. PICK s \in Sessions :
          entry' = s /\ task' = [task EXCEPT ![s] = "run"] /\ Tell(s, "open")
    BY <1>3 DEF Create
  <2>2. task' \in TaskSet
    BY <2>1, <1>t DEF TaskSet
  <2> QED BY <1>3, <1>a, <1>b, <1>k, <1>s, <1>t, <1>p, <2>1, <2>2 DEF Create
<1>4. ASSUME NEW p \in Polls, NoMoreSessions(p) \/ AbandonPoll(p) PROVE SockTypeOK' /\ Shapes'
  BY <1>4, <1>a, <1>k, <1>s, <1>t, <1>p DEF NoMoreSessions, AbandonPoll, Release
<1>5. ASSUME NEW p \in Polls, ReceiveFrames(p) PROVE SockTypeOK' /\ Shapes'
  <2> DEFINE s == poll[p].session
             q == [outgoing EXCEPT ![s] = Coalesced(@)]
  <2>1. s \in Sessions /\ outgoing[s] # <<>> /\ Head(outgoing[s]) = "frame"
    BY <1>5, <1>h DEF ReceiveFrames, Holding
  <2>2. outgoing[s] \in Seq(Out) /\ Len(outgoing[s]) <= WriteQueue
    BY <2>1, <1>t DEF Queues
  <2>3. Coalesced(outgoing[s]) \in Seq(Out) /\ Len(Coalesced(outgoing[s])) < Len(outgoing[s])
    BY <2>1, <2>2, CoalescedShrinks
  <2>4. Len(Coalesced(outgoing[s])) <= WriteQueue
    <3>1. Len(Coalesced(outgoing[s])) \in Nat /\ Len(outgoing[s]) \in Nat
      BY <2>2, <2>3
    <3> QED BY <3>1, <2>2, <2>3, SockJsAssumption
  <2>5. Queues(q)
    BY <2>1, <2>3, <2>4, <1>t DEF Queues
  <2>6. Queues(outgoing')
    <3> HIDE DEF q
    <3>1. outgoing' = Kept(q)
      BY <1>5 DEF ReceiveFrames, q
    <3> QED BY <3>1, <2>5, KeptType DEF Queues
  <2>7. poll' = [poll EXCEPT ![p] = Idle] /\ Tell(s, "open")
    BY <1>5 DEF ReceiveFrames, Respond
  <2>8. told' \in ToldSet
    BY <2>1, <2>7, <1>b
  <2> QED BY <1>5, <1>a, <1>s, <1>t, <1>p, <2>6, <2>7, <2>8 DEF ReceiveFrames
<1>6. ASSUME NEW p \in Polls, ReceiveClose(p) PROVE SockTypeOK' /\ Shapes'
  <2> DEFINE s == poll[p].session
             q == IF outgoing[s] = <<>> THEN outgoing[s] ELSE Tail(outgoing[s])
  <2>1. s \in Sessions /\ poll[p].at = "wait"
    BY <1>6, <1>h DEF ReceiveClose, Holding
  <2>2. q \in Seq(Out) /\ Len(q) <= WriteQueue
    <3>1. outgoing[s] \in Seq(Out) /\ Len(outgoing[s]) <= WriteQueue
      BY <2>1, <1>t DEF Queues
    <3> HIDE DEF s
    <3>2. CASE outgoing[s] = <<>>
      BY <3>1, <3>2
    <3>3. CASE outgoing[s] # <<>>
      <4>1. Tail(outgoing[s]) \in Seq(Out) /\ Len(Tail(outgoing[s])) = Len(outgoing[s]) - 1
        BY <3>1, <3>3
      <4>2. Len(outgoing[s]) \in Nat
        BY <3>1
      <4> QED BY <3>1, <3>3, <4>1, <4>2, SockJsAssumption
    <3> QED BY <3>2, <3>3
  <2>3. Queues(outgoing')
    <3>1. outgoing' = [outgoing EXCEPT ![s] = q]
      BY <1>6 DEF ReceiveClose
    <3> HIDE DEF q, s
    <3> QED BY <3>1, <2>1, <2>2, <1>t DEF Queues
  <2>4. poll' = [poll EXCEPT ![p].at = "remove"]
    BY <1>6 DEF ReceiveClose
  <2>5. poll' \in PollSet
    BY <2>4, <1>t DEF PollSet
  <2>6. PollShapes'
    BY <2>1, <2>4, <1>t DEF Shapes, PollShapes, PollSet, Holding
  <2> QED BY <1>6, <1>s, <1>t, <1>p, <2>3, <2>5, <2>6 DEF ReceiveClose
<1>7. ASSUME NEW p \in Polls, RemoveEntry(p) \/ Heartbeat(p) PROVE SockTypeOK' /\ Shapes'
  <2>1. poll[p].session \in Sessions
    BY <1>7, <1>h DEF RemoveEntry, Heartbeat, Holding
  <2>2. poll' = [poll EXCEPT ![p] = Idle] /\ told' \in ToldSet
    BY <1>7, <2>1, <1>b DEF RemoveEntry, Heartbeat, Respond
  <2> QED BY <1>7, <1>a, <1>k, <1>s, <1>t, <1>p, <2>2 DEF RemoveEntry, Heartbeat, Release
<1>8. ASSUME NEW r \in Sends, StartSend(r) PROVE SockTypeOK' /\ Shapes'
  <2>1. PICK n \in 1..MaxMessages : send' = [send EXCEPT ![r] = [session |-> entry, left |-> n]]
    BY <1>8 DEF StartSend
  <2>2. send' \in SendSet /\ SendShapes'
    BY <2>1, <1>t, SockJsAssumption DEF SendSet, Shapes, SendShapes
  <2> QED BY <1>8, <1>s, <1>t, <1>p, <2>2 DEF StartSend
<1>9. ASSUME NEW r \in Sends, SendMessage(r) PROVE SockTypeOK' /\ Shapes'
  <2> DEFINE s == send[r].session
  <2>1. s \in Sessions /\ incoming[s] \in 0..IncomingQueue /\ incoming[s] < IncomingQueue
    BY <1>9, <1>e, <1>t DEF SendMessage
  <2>2. incoming' \in [Sessions -> 0..IncomingQueue]
    <3>1. incoming[s] + 1 \in 0..IncomingQueue
      BY <2>1, SockJsAssumption
    <3>2. incoming' = [incoming EXCEPT ![s] = incoming[s] + 1]
      BY <1>9 DEF SendMessage
    <3> HIDE DEF s
    <3> QED BY <2>1, <3>1, <3>2, <1>t
  <2>3. send' \in SendSet /\ SendShapes'
    <3>1. CASE send[r].left = 1
      BY <1>9, <3>1, <1>d DEF SendMessage
    <3>2. CASE send[r].left # 1
      <4>1. send' = [send EXCEPT ![r].left = send[r].left - 1]
        BY <1>9, <3>2 DEF SendMessage
      <4>2. send[r].left - 1 \in 0..MaxMessages /\ send[r].left - 1 # 0
        <5>1. send[r].left # 0
          BY <1>9 DEF SendMessage, Shapes, SendShapes
        <5> QED BY <5>1, <3>2, <1>e, SockJsAssumption
      <4> HIDE DEF s
      <4>3. send' \in SendSet
        BY <4>1, <4>2, <1>t DEF SendSet
      <4>4. SendShapes'
        BY <4>1, <4>2, <1>t DEF SendSet, Shapes, SendShapes
      <4> QED BY <4>3, <4>4
    <3> QED BY <3>1, <3>2
  <2> QED BY <1>9, <1>k, <1>s, <1>t, <1>p, <2>2, <2>3 DEF SendMessage
<1>10. ASSUME NEW r \in Sends, SendFails(r) PROVE SockTypeOK' /\ Shapes'
  BY <1>10, <1>d, <1>k, <1>s, <1>t, <1>p DEF SendFails, Release
<1>11. ASSUME NEW s \in Sessions, TakeMessage(s) PROVE SockTypeOK' /\ Shapes'
  <2>1. incoming' \in [Sessions -> 0..IncomingQueue]
    <3>1. incoming[s] \in 0..IncomingQueue /\ incoming[s] > 0
      BY <1>11, <1>t DEF TakeMessage
    <3>2. incoming[s] - 1 \in 0..IncomingQueue
      BY <3>1, SockJsAssumption
    <3> QED BY <1>11, <3>2, <1>t DEF TakeMessage
  <2>2. task' \in TaskSet
    BY <1>11, <1>t DEF TakeMessage, TaskSet
  <2>3. registered' \in [Sessions -> BOOLEAN]
    BY <1>11, <1>t DEF TakeMessage
  <2> QED BY <1>11, <1>s, <1>t, <1>p, <2>1, <2>2, <2>3 DEF TakeMessage
<1>12. ASSUME NEW s \in Sessions, Orphaned(s) \/ ServerCloses(s) PROVE SockTypeOK' /\ Shapes'
  <2>1. task' \in TaskSet
    BY <1>12, <1>t DEF Orphaned, ServerCloses, TaskSet
  <2> QED BY <1>12, <1>s, <1>t, <1>p, <2>1 DEF Orphaned, ServerCloses
<1>13. ASSUME NEW s \in Sessions, EnqueueReplies(s) \/ EnqueueClose(s)
       PROVE  SockTypeOK' /\ Shapes'
  <2>1. task' \in TaskSet
    BY <1>13, <1>t DEF EnqueueReplies, EnqueueClose, TaskSet
  <2>2. Queues(outgoing')
    BY <1>13, <1>r, <1>t DEF EnqueueReplies, EnqueueClose
  <2> QED BY <1>13, <1>s, <1>t, <1>p, <2>1, <2>2 DEF EnqueueReplies, EnqueueClose
<1>14. ASSUME NEW s \in Sessions, OnDisconnect(s) PROVE SockTypeOK' /\ Shapes'
  <2>1. task' \in TaskSet
    BY <1>14, <1>t DEF OnDisconnect, TaskSet
  <2>2. /\ registered' \in [Sessions -> BOOLEAN]
        /\ incoming' \in [Sessions -> 0..IncomingQueue]
    BY <1>14, <1>t, SockJsAssumption DEF OnDisconnect
  <2> QED BY <1>14, <1>s, <1>t, <1>p, <2>1, <2>2 DEF OnDisconnect
<1>15. ASSUME NEW s \in Sessions, Push(s) \/ SendSlowClose(s) PROVE SockTypeOK' /\ Shapes'
  <2>1. Queues(outgoing')
    BY <1>15, <1>r, <1>t DEF Push, SendSlowClose
  <2>2. registered' \in [Sessions -> BOOLEAN] /\ slowClose' \in [Sessions -> BOOLEAN]
    BY <1>15, <1>t DEF Push, SendSlowClose
  <2> QED BY <1>15, <1>s, <1>t, <1>p, <2>1, <2>2 DEF Push, SendSlowClose
<1> QED
  BY <1>1, <1>2, <1>3, <1>4, <1>5, <1>6, <1>7, <1>8, <1>9, <1>10, <1>11, <1>12, <1>13, <1>14,
     <1>15
  DEF Next, Poll, Send, RunSession
\* With one poll at a time the map has the session the client was told about,
\* and a poll is answered about that one (sockjs.rs xhr, create_session).
LEMMA OrderlyStep == SockInv /\ orderly /\ [Next]_vars => Alone' /\ Informed'
<1> SUFFICES ASSUME SockInv, orderly, [Next]_vars PROVE Alone' /\ Informed'
  OBVIOUS
<1> USE DEF requests, tasks
<1>t. /\ entry \in Sessions \cup {None} /\ poll \in PollSet /\ task \in TaskSet /\ told \in ToldSet
      /\ PollShapes /\ Alone /\ Informed
  BY TypeParts DEF SockInv, Shapes
<1>n. None \notin Sessions
  BY DEF None, Sessions
<1>i. Idle.at = "idle" /\ \A p \in Polls : poll[p].at = "idle" <=> poll[p] = Idle
  BY <1>t DEF Idle, PollShapes
<1>a. ASSUME UNCHANGED <<poll, entry>> PROVE Alone'
  BY <1>a, <1>t DEF Alone
<1>b. ASSUME UNCHANGED <<told, entry>>, \A s \in Sessions : task'[s] = "none" => task[s] = "none"
      PROVE  Informed'
  BY <1>b, <1>t DEF Informed
<1>c. ASSUME NEW p \in Polls, poll[p].at # "idle", poll' = [poll EXCEPT ![p] = Idle] PROVE Alone'
  <2>1. \A q \in Polls : poll'[q] = Idle
    BY <1>c, <1>t, <1>i DEF Alone, PollSet
  <2> QED BY <2>1, <1>i DEF Alone, Holding
<1>h. \A p \in Polls : poll[p].at \in Holding =>
        poll[p].session \in Sessions /\ poll[p].session = entry /\ told[poll[p].session] = "open"
  BY <1>t DEF PollShapes, Alone, Informed
<1>1. CASE UNCHANGED vars
  BY <1>1, <1>a, <1>b DEF vars
<1>2. ASSUME NEW p \in Polls, StartPoll(p) PROVE Alone' /\ Informed'
  <2> DEFINE new == [at |-> IF entry = None THEN "create" ELSE "wait", session |-> entry]
  <2>1. /\ poll' = [poll EXCEPT ![p] = new] /\ entry' = entry
        /\ \A q \in Polls : poll[q] = Idle
    BY <1>2 DEF StartPoll
  <2>2. new.at = "create" => entry = None
    BY <1>n
  <2>3. new.session = entry
    OBVIOUS
  <2> HIDE DEF new
  <2>4. \A q \in Polls : poll'[q] = IF q = p THEN new ELSE Idle
    BY <2>1, <1>t DEF PollSet
  <2>5. Alone'
    BY <2>1, <2>2, <2>3, <2>4, <1>i DEF Alone, Holding
  <2>6. Informed'
    BY <1>2, <1>b DEF StartPoll
  <2> QED BY <2>5, <2>6
<1>3. ASSUME NEW p \in Polls, Create(p) PROVE Alone' /\ Informed'
  <2>1. PICK s \in Sessions :
          /\ task[s] = "none" /\ entry' = s /\ task' = [task EXCEPT ![s] = "run"]
          /\ told' = [told EXCEPT ![s] = "open"]
    BY <1>3 DEF Create, Tell
  <2>2. entry = None
    BY <1>3, <1>t DEF Create, Alone
  <2>3. Informed'
    BY <2>1, <2>2, <1>n, <1>t DEF Informed, TaskSet, ToldSet
  <2> QED BY <1>3, <2>3, <1>c DEF Create
<1>4. ASSUME NEW p \in Polls, NoMoreSessions(p) \/ AbandonPoll(p) PROVE Alone' /\ Informed'
  BY <1>4, <1>b, <1>c DEF NoMoreSessions, AbandonPoll, Release
<1>5. ASSUME NEW p \in Polls, ReceiveFrames(p) \/ Heartbeat(p) PROVE Alone' /\ Informed'
  <2>1. /\ poll[p].at = "wait" /\ poll' = [poll EXCEPT ![p] = Idle]
        /\ entry' = entry /\ task' = task
        /\ told' = [told EXCEPT ![poll[p].session] = "open"]
    BY <1>5 DEF ReceiveFrames, Heartbeat, Respond, Tell, Release
  <2>2. told' = told
    BY <2>1, <1>h, <1>t DEF Holding, ToldSet
  <2> QED BY <2>1, <2>2, <1>b, <1>c
<1>6. ASSUME NEW p \in Polls, ReceiveClose(p) PROVE Alone' /\ Informed'
  <2>1. /\ poll[p].at = "wait" /\ poll' = [poll EXCEPT ![p].at = "remove"] /\ entry' = entry
        /\ UNCHANGED <<told, task>>
    BY <1>6 DEF ReceiveClose
  <2>2. /\ poll'[p].at = "remove" /\ poll'[p].session = poll[p].session
        /\ \A q \in Polls : q # p => poll'[q] = poll[q]
    BY <2>1, <1>t DEF PollSet
  <2>3. poll[p].session = entry /\ \A q \in Polls : q # p => poll[q] = Idle
    BY <2>1, <1>h, <1>i, <1>t DEF Alone, Holding
  <2>4. Alone'
    BY <2>1, <2>2, <2>3, <1>i DEF Alone, Holding
  <2> QED BY <2>1, <2>4, <1>b
<1>7. ASSUME NEW p \in Polls, RemoveEntry(p) PROVE Alone' /\ Informed'
  <2> DEFINE s == poll[p].session
  <2>1. /\ poll[p].at = "remove" /\ poll' = [poll EXCEPT ![p] = Idle]
        /\ entry' = None /\ task' = task
        /\ told' = [told EXCEPT ![s] = "closed"]
    BY <1>7 DEF RemoveEntry, Respond, Tell, Release
  <2>2. s \in Sessions /\ s = entry /\ told[s] = "open"
    BY <2>1, <1>h DEF Holding
  <2>3. task[s] # "none"
    BY <2>2, <1>t DEF Informed
  <2> HIDE DEF s
  <2>4. Informed'
    BY <2>1, <2>2, <2>3, <1>n, <1>t DEF Informed, ToldSet
  <2> QED BY <2>1, <2>4, <1>c
<1>8. ASSUME NEW r \in Sends, StartSend(r) \/ SendMessage(r) \/ SendFails(r)
      PROVE  Alone' /\ Informed'
  BY <1>8, <1>a, <1>b DEF StartSend, SendMessage, SendFails, Release
<1>9. ASSUME NEW s \in Sessions,
             \/ TakeMessage(s) \/ Orphaned(s) \/ ServerCloses(s)
             \/ EnqueueReplies(s) \/ EnqueueClose(s) \/ OnDisconnect(s)
      PROVE  Alone' /\ Informed'
  <2>1. \/ task' = task
        \/ \E next \in {"run", "reply", "close", "leave", "ended"} :
             task' = [task EXCEPT ![s] = next]
    BY <1>9 DEF TakeMessage, Orphaned, ServerCloses, EnqueueReplies, EnqueueClose, OnDisconnect
  <2>2. \A q \in Sessions : task'[q] = "none" => task[q] = "none"
    BY <2>1, <1>t DEF TaskSet
  <2> QED BY <1>9, <2>2, <1>a, <1>b
          DEF TakeMessage, Orphaned, ServerCloses, EnqueueReplies, EnqueueClose, OnDisconnect
<1>10. ASSUME NEW s \in Sessions, Push(s) \/ SendSlowClose(s) PROVE Alone' /\ Informed'
  BY <1>10, <1>a, <1>b DEF Push, SendSlowClose
<1> QED
  BY <1>1, <1>2, <1>3, <1>4, <1>5, <1>6, <1>7, <1>8, <1>9, <1>10 DEF Next, Poll, Send, RunSession

-----------------------------------------------------------------------------
(* What follows for every client.                                          *)

\* No step makes an overlapping client orderly or an orderly one overlap.
LEMMA OrderlyStays == [Next]_vars => orderly' = orderly
<1> SUFFICES ASSUME [Next]_vars PROVE orderly' = orderly
  OBVIOUS
<1>1. CASE UNCHANGED vars
  BY <1>1 DEF vars
<1>2. CASE \E p \in Polls : StartPoll(p) \/ Poll(p) \/ AbandonPoll(p)
  BY <1>2 DEF StartPoll, Poll, AbandonPoll, Create, NoMoreSessions, Heartbeat, ReceiveFrames,
              ReceiveClose, RemoveEntry
<1>3. CASE \E r \in Sends : StartSend(r) \/ Send(r)
  BY <1>3 DEF StartSend, Send, SendMessage, SendFails
<1>4. CASE \E s \in Sessions : RunSession(s) \/ ServerCloses(s) \/ Push(s) \/ SendSlowClose(s)
  BY <1>4 DEF RunSession, ServerCloses, Push, SendSlowClose, TakeMessage, Orphaned, EnqueueReplies,
              EnqueueClose, OnDisconnect
<1> QED BY <1>1, <1>2, <1>3, <1>4 DEF Next

\* The inductive invariant of the transport.
THEOREM Invariance == Spec => []SockInv
<1>1. SockInv /\ [Next]_vars => SockInv'
  <2> SUFFICES ASSUME SockInv, [Next]_vars PROVE SockInv'
    OBVIOUS
  <2>1. SockTypeOK' /\ Shapes'
    BY TypeStep DEF SockInv
  <2>2. orderly' => Alone' /\ Informed'
    BY OrderlyStays, OrderlyStep
  <2> QED BY <2>1, <2>2 DEF SockInv
<1> QED BY <1>1, SockInit, PTL DEF Spec

\* Every state of the transport has its type, the queues within their capacity.
THEOREM TypeCorrect == Spec => []SockTypeOK
<1>1. SockInv => SockTypeOK
  BY DEF SockInv
<1> QED BY <1>1, Invariance, PTL

\* The comment on struct Session holds: nothing removes the session of a client
\* with one poll at a time but the poll that tells it so (sockjs.rs xhr).
THEOREM OpenTheorem == Spec => []OpenIsReachable
<1>1. SockInv => OpenIsReachable
  BY DEF SockInv, Informed, OpenIsReachable
<1> QED BY <1>1, Invariance, PTL

\* A session the client was told is closed stays closed for it, although its
\* queue may have frames left (sockjs.rs xhr, run_session).
THEOREM ClosedTheorem == Spec => ClosedStaysClosed
<1>1. SockInv /\ [Next]_vars =>
        [\A s \in Sessions : orderly /\ told[s] = "closed" => told'[s] = "closed"]_vars
  <2> SUFFICES ASSUME SockInv, Next, orderly, NEW s \in Sessions, told[s] = "closed"
               PROVE  told'[s] = "closed"
    BY DEF vars
  <2> USE DEF requests
  <2>t. told \in ToldSet /\ Informed /\ Alone /\ PollShapes
    BY TypeParts DEF SockInv, Shapes
  <2>h. \A p \in Polls : poll[p].at \in Holding =>
          poll[p].session \in Sessions /\ poll[p].session # s
    BY <2>t DEF PollShapes, Alone, Informed
  <2>1. ASSUME NEW p \in Polls, Create(p) PROVE told'[s] = "closed"
    <3>1. PICK new \in Sessions : task[new] = "none" /\ told' = [told EXCEPT ![new] = "open"]
      BY <2>1 DEF Create, Tell
    <3>2. new # s
      BY <3>1, <2>t DEF Informed
    <3> QED BY <3>1, <3>2, <2>t DEF ToldSet
  <2>2. ASSUME NEW p \in Polls, NEW news \in {"open", "closed"}, Respond(p, news),
               poll[p].at \in Holding
        PROVE  told'[s] = "closed"
    BY <2>2, <2>h, <2>t DEF Respond, Tell, ToldSet
  <2>3. CASE \E p \in Polls : StartPoll(p) \/ Poll(p) \/ AbandonPoll(p)
    BY <2>1, <2>2, <2>3 DEF StartPoll, Poll, AbandonPoll, NoMoreSessions, Heartbeat, ReceiveFrames,
                            ReceiveClose, RemoveEntry, Holding
  <2>4. CASE \E r \in Sends : StartSend(r) \/ Send(r)
    BY <2>4 DEF StartSend, Send, SendMessage, SendFails
  <2>5. CASE \E q \in Sessions : RunSession(q) \/ ServerCloses(q) \/ Push(q) \/ SendSlowClose(q)
    BY <2>5 DEF RunSession, ServerCloses, Push, SendSlowClose, TakeMessage, Orphaned,
                EnqueueReplies, EnqueueClose, OnDisconnect
  <2> QED BY <2>3, <2>4, <2>5 DEF Next
<1> QED BY <1>1, Invariance, PTL DEF Spec, ClosedStaysClosed
=============================================================================
