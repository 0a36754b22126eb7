----------------------------- MODULE HubProofs -----------------------------
(***************************************************************************)
(* The registry properties of Hub for every number of connections, users,  *)
(* channels and publishers and every queue capacity.                       *)
(***************************************************************************)
EXTENDS Hub, TLAPS

\* A queue operation keeps the queue a sequence within its capacity.
LEMMA QueueOps ==
  ASSUME NEW q \in Seq(Out), Len(q) <= QueueCap
  PROVE  /\ Len(q) < QueueCap => \A o \in Out :
              Append(q, o) \in Seq(Out) /\ Len(Append(q, o)) <= QueueCap
         /\ q # <<>> => Tail(q) \in Seq(Out) /\ Len(Tail(q)) <= QueueCap
         /\ <<>> \in Seq(Out) /\ Len(<<>>) <= QueueCap
BY HubAssumption

\* The outgoing queues as TypeOK has them.
Queues == queue \in [Conns -> Seq(Out)] /\ \A c \in Conns : Len(queue[c]) <= QueueCap

\* Setting one queue to a short enough sequence keeps the others.
LEMMA QueueStep ==
  ASSUME Queues, NEW c \in Conns, NEW q \in Seq(Out), Len(q) <= QueueCap,
         queue' = [queue EXCEPT ![c] = q]
  PROVE  Queues'
BY DEF Queues

\* An append that found room and a removal of the head are such steps.
LEMMA QueueSteps ==
  ASSUME Queues, NEW c \in Conns,
         \/ \E o \in Out : Room(c) /\ queue' = [queue EXCEPT ![c] = Append(@, o)]
         \/ queue[c] # <<>> /\ queue' = [queue EXCEPT ![c] = Tail(@)]
         \/ queue' = [queue EXCEPT ![c] = <<>>]
         \/ UNCHANGED queue
  PROVE  Queues'
<1>. queue[c] \in Seq(Out) /\ Len(queue[c]) <= QueueCap
  BY DEF Queues
<1>1. CASE \E o \in Out : Room(c) /\ queue' = [queue EXCEPT ![c] = Append(@, o)]
  <2>. PICK o \in Out : Room(c) /\ queue' = [queue EXCEPT ![c] = Append(@, o)]
    BY <1>1
  <2>1. Append(queue[c], o) \in Seq(Out) /\ Len(Append(queue[c], o)) <= QueueCap
    BY QueueOps DEF Room
  <2>. QED  BY <2>1, QueueStep
<1>2. CASE queue[c] # <<>> /\ queue' = [queue EXCEPT ![c] = Tail(@)]
  BY <1>2, QueueOps, QueueStep
<1>3. CASE queue' = [queue EXCEPT ![c] = <<>>]
  BY <1>3, QueueOps, QueueStep
<1>4. CASE UNCHANGED queue
  BY <1>4 DEF Queues
<1>. QED  BY <1>1, <1>2, <1>3, <1>4

\* Every variable keeps its type, and no outgoing queue outgrows WRITE_QUEUE.
THEOREM TypeCorrect == Spec => []TypeOK
<1>1. Init => TypeOK
  BY HubAssumption DEF Init, TypeOK, Idle, Removal, Actors, Phases, Out
<1>2. ASSUME TypeOK, [Next]_vars PROVE TypeOK'
  <2>. USE <1>2, HubAssumption DEF TypeOK
  <2>. Queues
    BY DEF Queues
  <2>1. ASSUME NEW c \in Conns, Registration(c) PROVE TypeOK'
    <3>1. CASE Admit(c)
      BY <3>1 DEF Admit, registry, Phases
    <3>2. CASE Refuse(c)
      <4>1. Queues'
        BY <3>2, QueueSteps DEF Refuse, Out
      <4>. QED  BY <3>2, <4>1 DEF Refuse, registry, Phases, Queues
    <3>3. CASE AddConn(c)
      BY <3>3 DEF AddConn, Phases
    <3>4. CASE AddUser(c)
      BY <3>4 DEF AddUser, Phases
    <3>. QED  BY <2>1, <3>1, <3>2, <3>3, <3>4 DEF Registration
  <2>2. ASSUME NEW c \in Conns, Teardown(c) PROVE TypeOK'
    <3>1. CASE ClosingRemove(c)
      BY <3>1 DEF ClosingRemove, Remove, Actors, Removal, Phases
    <3>2. ASSUME NEW ch \in Channels, ClosingLeave(c, ch) PROVE TypeOK'
      BY <3>2 DEF ClosingLeave, registry, Actors, subscribers
    <3>. QED  BY <2>2, <3>1, <3>2 DEF Teardown
  <2>3. ASSUME NEW c \in Conns, FinishUnsubscribe(c) PROVE TypeOK'
    BY <2>3 DEF FinishUnsubscribe, Phases
  <2>4. ASSUME NEW c \in Conns, ReaderSend(c) \/ ReaderEnd(c) PROVE TypeOK'
    <3>1. Queues'
      BY <2>4, QueueSteps DEF ReaderSend, ReaderEnd, Out
    <3>. QED  BY <2>4, <3>1 DEF ReaderSend, ReaderEnd, registry, Phases, Queues
  <2>5. ASSUME NEW c \in Conns, NEW ch \in Channels,
               Subscribe(c, ch) \/ StartUnsubscribe(c, ch) \/ ReaderPublish(c, ch)
        PROVE TypeOK'
    <3>1. subscribers(ch) \subseteq Conns /\ c \in Actors
      BY DEF subscribers, Actors
    <3>2. CASE Subscribe(c, ch)
      BY <3>2 DEF Subscribe
    <3>3. CASE StartUnsubscribe(c, ch)
      BY <3>1, <3>3 DEF StartUnsubscribe, registry, Phases
    <3>4. CASE ReaderPublish(c, ch)
      BY <3>1, <3>4 DEF ReaderPublish, registry
    <3>. QED  BY <2>5, <3>2, <3>3, <3>4
  <2>6. ASSUME NEW c \in Conns, Writer(c) \/ SocketError(c) PROVE TypeOK'
    <3>1. Queues'
      BY <2>6, QueueSteps
         DEF Writer, WriteFrame, WriteClose, WriterDrained, SocketError, WriterStops
    <3>. QED
      BY <2>6, <3>1
         DEF Writer, WriteFrame, WriteClose, WriterDrained, SocketError, WriterStops,
             registry, Queues
  <2>7. ASSUME NEW c \in Conns, SendSlowClose(c) PROVE TypeOK'
    <3>1. Queues'
      BY <2>7, QueueSteps DEF SendSlowClose, Out
    <3>. QED  BY <2>7, <3>1 DEF SendSlowClose, registry, Queues
  <2>8. ASSUME NEW p \in Publishers, NEW ch \in Channels, Publish(p, ch) PROVE TypeOK'
    BY <2>8 DEF Publish, registry, Actors, subscribers
  <2>9. ASSUME NEW a \in Actors, NEW c \in Conns, Deliver(a, c) PROVE TypeOK'
    <3>1. Queues'
      BY <2>9, QueueSteps DEF Deliver, Out
    <3>. QED  BY <2>9, <3>1 DEF Deliver, registry, Queues
  <2>10. ASSUME NEW a \in Actors, NEW c \in Conns, DropSlow(a, c) PROVE TypeOK'
    BY <2>10 DEF DropSlow, Remove, Removal
  <2>11. ASSUME NEW a \in Actors, Removing(a) PROVE TypeOK'
    <3>. a \in Actors /\ rm[a] \in Removal
      OBVIOUS
    <3>1. CASE RemoveUser(a)
      <4>. DEFINE r == [rm[a] EXCEPT !.indexed = FALSE]
      <4>1. r \in Removal
        BY DEF Removal
      <4>2. rm' = [rm EXCEPT ![a] = r]
        BY <3>1 DEF RemoveUser
      <4>3. rm' \in [Actors -> Removal]
        BY <4>1, <4>2
      <4>. QED  BY <3>1, <4>3 DEF RemoveUser
    <3>2. ASSUME NEW ch \in Channels, RemoveShard(a, ch) PROVE TypeOK'
      <4>. DEFINE r == [rm[a] EXCEPT !.shards = @ \ {ch}]
      <4>1. r \in Removal
        BY DEF Removal
      <4>2. rm' = [rm EXCEPT ![a] = r]
        BY <3>2 DEF RemoveShard
      <4>3. rm' \in [Actors -> Removal]
        BY <4>1, <4>2
      <4>. QED  BY <3>2, <4>3 DEF RemoveShard
    <3>3. CASE RemoveDone(a)
      <4>1. Idle \in Removal
        BY DEF Idle, Removal
      <4>2. rm[a].id \in Conns
        BY <3>3 DEF RemoveDone, Removal
      <4>3. rm' \in [Actors -> Removal] /\ UNCHANGED <<registry, mine, leaving, fan, queue, writer>>
        BY <3>3, <4>1 DEF RemoveDone
      <4>4. pc' \in [Conns -> Phases] /\ closers' \subseteq Conns /\ slow' \in [Conns -> Nat]
        <5>1. CASE a \in Conns /\ pc[a] = "removing"
          BY <3>3, <5>1 DEF RemoveDone, Phases
        <5>2. CASE ~(a \in Conns /\ pc[a] = "removing")
          <6>1. pc' = pc
            BY <3>3, <5>2 DEF RemoveDone
          <6>2. closers' = closers \/ closers' = closers \cup {rm[a].id}
            BY <3>3, <5>2 DEF RemoveDone
          <6>3. slow' = slow \/ slow' = [slow EXCEPT ![rm[a].id] = @ + 1]
            BY <3>3, <5>2 DEF RemoveDone
          <6>4. [slow EXCEPT ![rm[a].id] = @ + 1] \in [Conns -> Nat]
            BY <4>2
          <6>5. slow' \in [Conns -> Nat]
            BY <6>3, <6>4
          <6>6. closers' \subseteq Conns
            BY <4>2, <6>2
          <6>. QED  BY <6>1, <6>5, <6>6
        <5>. QED  BY <5>1, <5>2
      <4>. QED  BY <4>3, <4>4 DEF registry
    <3>. QED  BY <2>11, <3>1, <3>2, <3>3 DEF Removing
  <2>12. CASE UNCHANGED vars
    BY <2>12 DEF vars
  <2>13. QED
    BY <2>1, <2>2, <2>3, <2>4, <2>5, <2>6, <2>7, <2>8, <2>9, <2>10, <2>11, <2>12
       DEF Next, Reader, Broadcasting
<1>3. QED
  BY <1>1, <1>2, PTL DEF Spec

-----------------------------------------------------------------------------
(* The inductive invariant.                                                *)

\* A queued Close is only ever lost with the writer: the writer takes frames off
\* the head and stops at the Close.
LEMMA CloseStays ==
  ASSUME TypeOK, NEW c \in Conns,
         \/ \E o \in Out : queue' = [queue EXCEPT ![c] = Append(@, o)]
         \/ queue[c] # <<>> /\ Head(queue[c]) = "frame" /\ queue' = [queue EXCEPT ![c] = Tail(@)]
         \/ queue' = queue
         \/ queue' = [queue EXCEPT ![c] = <<>>] /\ writer' = [writer EXCEPT ![c] = FALSE],
         NEW d \in Conns, Queued(d, "close")
  PROVE  ~writer'[d] \/ Queued(d, "close")'
<1>1. PICK i \in 1..Len(queue[d]) : queue[d][i] = "close"
  BY DEF Queued
<1>2. queue[d] \in Seq(Out) /\ queue[c] \in Seq(Out) /\ queue \in [Conns -> Seq(Out)]
  BY DEF TypeOK
<1>3. CASE \E o \in Out : queue' = [queue EXCEPT ![c] = Append(@, o)]
  <2>. PICK o \in Out : queue' = [queue EXCEPT ![c] = Append(@, o)]
    BY <1>3
  <2>1. i \in 1..Len(queue'[d]) /\ queue'[d][i] = "close"
    BY <1>1, <1>2
  <2>. QED  BY <2>1 DEF Queued
<1>4. CASE queue[c] # <<>> /\ Head(queue[c]) = "frame" /\ queue' = [queue EXCEPT ![c] = Tail(@)]
  <2>1. CASE d = c
    <3>1. i - 1 \in 1..Len(queue'[d]) /\ queue'[d][i-1] = "close"
      BY <1>1, <1>2, <1>4, <2>1
    <3>. QED  BY <3>1 DEF Queued
  <2>2. CASE d # c
    BY <1>1, <1>2, <1>4, <2>2 DEF Queued
  <2>. QED  BY <2>1, <2>2
<1>5. CASE queue' = queue
  BY <1>1, <1>5 DEF Queued
<1>6. CASE queue' = [queue EXCEPT ![c] = <<>>] /\ writer' = [writer EXCEPT ![c] = FALSE]
  BY <1>1, <1>2, <1>6 DEF Queued, TypeOK
<1>. QED  BY <1>3, <1>4, <1>5, <1>6

\* An enqueued Close is queued.
LEMMA CloseAppended ==
  ASSUME TypeOK, NEW c \in Conns, queue' = [queue EXCEPT ![c] = Append(@, "close")]
  PROVE Queued(c, "close")'
<1>1. queue[c] \in Seq(Out) /\ queue \in [Conns -> Seq(Out)]
  BY DEF TypeOK
<1>2. queue'[c] = Append(queue[c], "close")
  BY <1>1
<1>3. Len(queue[c]) + 1 \in 1..Len(queue'[c]) /\ queue'[c][Len(queue[c]) + 1] = "close"
  BY <1>1, <1>2 DEF Out
<1>. QED  BY <1>3 DEF Queued


\* The first step of Hub::remove, by an actor that removes nothing yet.
LEMMA RemoveStarts ==
  ASSUME TypeOK, NEW a \in Actors, NEW c \in Conns, Remove(a, c)
  PROVE  /\ conns' = conns \ {c}
         /\ rm'[a].id = c
         /\ rm'[a].present => c \in conns
         /\ c \in conns => rm'[a].present /\ rm'[a].indexed
         /\ \A b \in Actors \ {a} : rm'[b] = rm[b]
BY DEF TypeOK, Remove, Removal

\* Taking the handle makes this removal the one that finds the connection, if
\* any does, and leaves the index to it.
LEMMA RemoveKeeps ==
  ASSUME TypeOK, OneRemoverFinds, UsersIndexAgrees,
         NEW a \in Actors, NEW c \in Conns, Remove(a, c), rm[a].id = NoConn,
         UNCHANGED <<users, slow>>, \A d \in Conns \ {c} : pc'[d] = pc[d]
  PROVE  OneRemoverFinds' /\ UsersIndexAgrees'
<1>. USE HubAssumption, RemoveStarts
<1>1. ASSUME NEW d \in Conns, d \in conns'
      PROVE  /\ slow'[d] = 0 /\ pc'[d] \in {"adding", "live", "leave", "closing"}
             /\ \A b \in Actors : rm'[b].id # d
  BY <1>1 DEF OneRemoverFinds
<1>2. ASSUME NEW d \in Conns, NEW e \in Actors, rm'[e].id = d, rm'[e].present
      PROVE  slow'[d] = 0 /\ \A b \in Actors : rm'[b].id = d /\ rm'[b].present => e = b
  <2>1. CASE e = a
    <3>1. d = c /\ c \in conns
      BY <1>2, <2>1
    <3>2. slow[c] = 0
      BY <3>1 DEF OneRemoverFinds
    <3>3. \A b \in Actors : rm[b].id # c
      BY <3>1 DEF OneRemoverFinds
    <3>. QED  BY <2>1, <3>1, <3>2, <3>3
  <2>2. CASE e # a
    <3>1. rm[e].id = d /\ rm[e].present
      BY <1>2, <2>2
    <3>2. slow[d] = 0 /\ d \notin conns
      BY <3>1 DEF OneRemoverFinds
    <3>3. \A b \in Actors : rm[b].id = d /\ rm[b].present => e = b
      BY <3>1 DEF OneRemoverFinds
    <3>. QED  BY <2>2, <3>2, <3>3
  <2>. QED  BY <2>1, <2>2
<1>3. OneRemoverFinds'
  BY <1>1, <1>2 DEF OneRemoverFinds
<1>4. ASSUME NEW d \in Conns, IndexPending(d) PROVE IndexPending(d)'
  <2>1. PICK b \in Actors : rm[b].id = d /\ rm[b].indexed
    BY <1>4 DEF IndexPending
  <2>2. b # a
    BY <2>1
  <2>. QED  BY <2>1, <2>2 DEF IndexPending
<1>5. c \in conns => IndexPending(c)'
  BY DEF IndexPending
<1>6. ASSUME NEW d \in Conns, NEW u \in Users, d \in users'[u]
      PROVE  u = UserOf[d] /\ (d \in conns' \/ IndexPending(d)')
  BY <1>4, <1>5, <1>6 DEF UsersIndexAgrees
<1>7. ASSUME NEW d \in Conns, d \in conns'
      PROVE  pc'[d] = "adding" \/ d \in users'[UserOf[d]]
  BY <1>7 DEF UsersIndexAgrees
<1>8. UsersIndexAgrees'
  BY <1>6, <1>7 DEF UsersIndexAgrees
<1>. QED  BY <1>3, <1>8

\* Every step of registration keeps the invariant.
LEMMA RegistrationSteps ==
  ASSUME TypeOK, IInv
  PROVE  /\ \A c \in Conns : Admit(c) => IInv'
         /\ \A c \in Conns : Refuse(c) => IInv'
         /\ \A c \in Conns : AddConn(c) => IInv'
         /\ \A c \in Conns : AddUser(c) => IInv'
<1>. USE HubAssumption DEF TypeOK, Removal, IInv
<1>1. ASSUME NEW c \in Conns, Admit(c) PROVE IInv'
  <2>1. ASSUME NEW d \in Conns, Queued(d, "close") PROVE ~writer'[d] \/ Queued(d, "close")'
    BY <1>1, <2>1 DEF Admit, registry, Queued
  <2>2. Unborn' /\ OneRemoverFinds' /\ OwnRemoval' /\ Routed' /\ UsersIndexAgrees' /\ SlowCloseOnce'
    BY <1>1 DEF Admit, registry, Unborn, OneRemoverFinds, OwnRemoval, Routed, UsersIndexAgrees,
           IndexPending, SlowCloseOnce
  <2>3. DroppedIsTold'
    BY <1>1, <2>1 DEF Admit, registry, Unborn, OneRemoverFinds, DroppedIsTold
  <2>. QED  BY <2>2, <2>3
<1>2. ASSUME NEW c \in Conns, Refuse(c) PROVE IInv'
  <2>1. ASSUME NEW d \in Conns, Queued(d, "close") PROVE ~writer'[d] \/ Queued(d, "close")'
    BY <1>2, <2>1, CloseStays DEF Refuse, registry, Out
  <2>2. Unborn' /\ OneRemoverFinds' /\ OwnRemoval' /\ Routed' /\ UsersIndexAgrees' /\ SlowCloseOnce'
    BY <1>2 DEF Refuse, registry, Unborn, OneRemoverFinds, OwnRemoval, Routed, UsersIndexAgrees,
           IndexPending, SlowCloseOnce
  <2>3. DroppedIsTold'
    BY <1>2, <2>1 DEF Refuse, registry, Unborn, OneRemoverFinds, DroppedIsTold
  <2>. QED  BY <2>2, <2>3
<1>3. ASSUME NEW c \in Conns, AddConn(c) PROVE IInv'
  <2>1. ASSUME NEW d \in Conns, Queued(d, "close") PROVE ~writer'[d] \/ Queued(d, "close")'
    BY <1>3, <2>1 DEF AddConn, Queued
  <2>2. Unborn' /\ OneRemoverFinds' /\ OwnRemoval' /\ Routed' /\ UsersIndexAgrees' /\ SlowCloseOnce'
    BY <1>3 DEF AddConn, Unborn, OneRemoverFinds, OwnRemoval, Routed, UsersIndexAgrees,
           IndexPending, SlowCloseOnce
  <2>3. DroppedIsTold'
    BY <1>3, <2>1 DEF AddConn, Unborn, OneRemoverFinds, DroppedIsTold
  <2>. QED  BY <2>2, <2>3
<1>4. ASSUME NEW c \in Conns, AddUser(c) PROVE IInv'
  <2>1. ASSUME NEW d \in Conns, Queued(d, "close") PROVE ~writer'[d] \/ Queued(d, "close")'
    BY <1>4, <2>1 DEF AddUser, Queued
  <2>2. Unborn' /\ OneRemoverFinds' /\ OwnRemoval' /\ Routed' /\ UsersIndexAgrees' /\ SlowCloseOnce'
    BY <1>4 DEF AddUser, Unborn, OneRemoverFinds, OwnRemoval, Routed, UsersIndexAgrees,
           IndexPending, SlowCloseOnce
  <2>3. DroppedIsTold'
    BY <1>4, <2>1 DEF AddUser, Unborn, OneRemoverFinds, DroppedIsTold
  <2>. QED  BY <2>2, <2>3
<1>. QED  BY <1>1, <1>2, <1>3, <1>4

\* Every step of the reader of a connection keeps the invariant.
LEMMA ReaderSteps ==
  ASSUME TypeOK, IInv
  PROVE  /\ \A c \in Conns : ReaderSend(c) => IInv'
         /\ \A c \in Conns : ReaderEnd(c) => IInv'
         /\ \A c \in Conns, ch \in Channels : Subscribe(c, ch) => IInv'
         /\ \A c \in Conns, ch \in Channels : StartUnsubscribe(c, ch) => IInv'
         /\ \A c \in Conns : FinishUnsubscribe(c) => IInv'
         /\ \A c \in Conns, ch \in Channels : ReaderPublish(c, ch) => IInv'
         /\ \A c \in Conns, ch \in Channels : ClosingLeave(c, ch) => IInv'
         /\ \A c \in Conns : ClosingRemove(c) => IInv'
<1>. USE HubAssumption DEF TypeOK, Removal, IInv
<1>1. ASSUME NEW c \in Conns, ReaderSend(c) PROVE IInv'
  <2>1. ASSUME NEW d \in Conns, Queued(d, "close") PROVE ~writer'[d] \/ Queued(d, "close")'
    BY <1>1, <2>1, CloseStays DEF ReaderSend, registry, Out
  <2>2. /\ UNCHANGED <<registry, mine, leaving, fan, rm, writer, closers, slow>>
        /\ pc' = pc \/ pc' = [pc EXCEPT ![c] = "closing"]
        /\ pc[c] = "live"
    BY <1>1 DEF ReaderSend
  <2>3. Unborn' /\ OwnRemoval'
    <3>1. Unborn'
      BY <2>2 DEF registry, Unborn
    <3>2. OwnRemoval'
      BY <2>2 DEF registry, OwnRemoval
    <3>. QED  BY <3>1, <3>2
  <2>4. Routed' /\ OneRemoverFinds'
    <3>1. CASE pc' = pc
      BY <2>2, <3>1 DEF registry, Routed, OneRemoverFinds
    <3>2. CASE pc' = [pc EXCEPT ![c] = "closing"]
      <4>1. OneRemoverFinds'
        BY <2>2, <3>2 DEF registry, OneRemoverFinds
      <4>2. Routed'
        BY <2>2, <3>2 DEF registry, Routed
      <4>. QED  BY <4>1, <4>2
    <3>. QED  BY <2>2, <3>1, <3>2
  <2>5. UsersIndexAgrees' /\ SlowCloseOnce'
    BY <2>2 DEF registry, UsersIndexAgrees, IndexPending, SlowCloseOnce
  <2>6. DroppedIsTold'
    BY <2>1, <2>2 DEF registry, DroppedIsTold
  <2>. QED  BY <2>3, <2>4, <2>5, <2>6
<1>2. ASSUME NEW c \in Conns, ReaderEnd(c) PROVE IInv'
  <2>1. ASSUME NEW d \in Conns, Queued(d, "close") PROVE ~writer'[d] \/ Queued(d, "close")'
    BY <1>2, <2>1, CloseStays DEF ReaderEnd, registry, Out
  <2>2. Unborn' /\ OneRemoverFinds' /\ OwnRemoval' /\ Routed' /\ UsersIndexAgrees' /\ SlowCloseOnce'
    BY <1>2 DEF ReaderEnd, registry, Unborn, OneRemoverFinds, OwnRemoval, Routed, UsersIndexAgrees,
           IndexPending, SlowCloseOnce
  <2>3. DroppedIsTold'
    BY <1>2, <2>1 DEF ReaderEnd, registry, Unborn, OneRemoverFinds, DroppedIsTold
  <2>. QED  BY <2>2, <2>3
<1>3. ASSUME NEW c \in Conns, NEW ch \in Channels, Subscribe(c, ch) PROVE IInv'
  <2>1. ASSUME NEW d \in Conns, Queued(d, "close") PROVE ~writer'[d] \/ Queued(d, "close")'
    BY <1>3, <2>1 DEF Subscribe, Queued
  <2>2. Unborn' /\ OneRemoverFinds' /\ OwnRemoval' /\ Routed' /\ UsersIndexAgrees' /\ SlowCloseOnce'
    BY <1>3 DEF Subscribe, Unborn, OneRemoverFinds, OwnRemoval, Routed, UsersIndexAgrees,
           IndexPending, SlowCloseOnce
  <2>3. DroppedIsTold'
    BY <1>3, <2>1 DEF Subscribe, Unborn, OneRemoverFinds, DroppedIsTold
  <2>. QED  BY <2>2, <2>3
<1>4. ASSUME NEW c \in Conns, NEW ch \in Channels, StartUnsubscribe(c, ch) PROVE IInv'
  <2>1. ASSUME NEW d \in Conns, Queued(d, "close") PROVE ~writer'[d] \/ Queued(d, "close")'
    BY <1>4, <2>1 DEF StartUnsubscribe, registry, subscribers, Queued
  <2>2. Unborn' /\ OneRemoverFinds' /\ OwnRemoval' /\ Routed' /\ UsersIndexAgrees' /\ SlowCloseOnce'
    BY <1>4 DEF StartUnsubscribe, registry, subscribers, Unborn, OneRemoverFinds, OwnRemoval, Routed, UsersIndexAgrees,
           IndexPending, SlowCloseOnce
  <2>3. DroppedIsTold'
    BY <1>4, <2>1 DEF StartUnsubscribe, registry, subscribers, Unborn, OneRemoverFinds, DroppedIsTold
  <2>. QED  BY <2>2, <2>3
<1>5. ASSUME NEW c \in Conns, FinishUnsubscribe(c) PROVE IInv'
  <2>1. ASSUME NEW d \in Conns, Queued(d, "close") PROVE ~writer'[d] \/ Queued(d, "close")'
    BY <1>5, <2>1 DEF FinishUnsubscribe, Queued
  <2>2. Unborn' /\ OneRemoverFinds' /\ OwnRemoval' /\ Routed' /\ UsersIndexAgrees' /\ SlowCloseOnce'
    BY <1>5 DEF FinishUnsubscribe, Unborn, OneRemoverFinds, OwnRemoval, Routed, UsersIndexAgrees,
           IndexPending, SlowCloseOnce
  <2>3. DroppedIsTold'
    BY <1>5, <2>1 DEF FinishUnsubscribe, Unborn, OneRemoverFinds, DroppedIsTold
  <2>. QED  BY <2>2, <2>3
<1>6. ASSUME NEW c \in Conns, NEW ch \in Channels, ReaderPublish(c, ch) PROVE IInv'
  <2>1. ASSUME NEW d \in Conns, Queued(d, "close") PROVE ~writer'[d] \/ Queued(d, "close")'
    BY <1>6, <2>1 DEF ReaderPublish, registry, subscribers, Queued
  <2>2. Unborn' /\ OneRemoverFinds' /\ OwnRemoval' /\ Routed' /\ UsersIndexAgrees' /\ SlowCloseOnce'
    BY <1>6 DEF ReaderPublish, registry, subscribers, Unborn, OneRemoverFinds, OwnRemoval, Routed, UsersIndexAgrees,
           IndexPending, SlowCloseOnce
  <2>3. DroppedIsTold'
    BY <1>6, <2>1 DEF ReaderPublish, registry, subscribers, Unborn, OneRemoverFinds, DroppedIsTold
  <2>. QED  BY <2>2, <2>3
<1>7. ASSUME NEW c \in Conns, NEW ch \in Channels, ClosingLeave(c, ch) PROVE IInv'
  <2>1. ASSUME NEW d \in Conns, Queued(d, "close") PROVE ~writer'[d] \/ Queued(d, "close")'
    BY <1>7, <2>1 DEF ClosingLeave, registry, subscribers, Queued
  <2>2. Unborn' /\ OneRemoverFinds' /\ OwnRemoval' /\ Routed' /\ UsersIndexAgrees' /\ SlowCloseOnce'
    BY <1>7 DEF ClosingLeave, registry, subscribers, Unborn, OneRemoverFinds, OwnRemoval, Routed, UsersIndexAgrees,
           IndexPending, SlowCloseOnce
  <2>3. DroppedIsTold'
    BY <1>7, <2>1 DEF ClosingLeave, registry, subscribers, Unborn, OneRemoverFinds, DroppedIsTold
  <2>. QED  BY <2>2, <2>3
<1>8. ASSUME NEW c \in Conns, ClosingRemove(c) PROVE IInv'
  <2>1. ASSUME NEW d \in Conns, Queued(d, "close") PROVE ~writer'[d] \/ Queued(d, "close")'
    BY <1>8, <2>1 DEF ClosingRemove, Remove, Free, Actors, Queued
  <2>2. Unborn' /\ OwnRemoval' /\ Routed' /\ SlowCloseOnce'
    BY <1>8 DEF ClosingRemove, Remove, Free, Actors, Unborn, OneRemoverFinds, OwnRemoval, Routed, UsersIndexAgrees,
           IndexPending, SlowCloseOnce
  <2>3. Remove(c, c) /\ c \in Actors /\ rm[c].id = NoConn /\ pc[c] = "closing"
    BY <1>8 DEF ClosingRemove, Free, Actors
  <2>4. UNCHANGED <<users, slow>> /\ pc' = [pc EXCEPT ![c] = "removing"]
    BY <1>8 DEF ClosingRemove
  <2>5. OneRemoverFinds' /\ UsersIndexAgrees'
    BY <2>3, <2>4, RemoveKeeps
  <2>6. DroppedIsTold'
    BY <1>8, <2>1 DEF ClosingRemove, Remove, Free, Actors, Unborn, OneRemoverFinds, DroppedIsTold
  <2>. QED  BY <2>2, <2>5, <2>6
<1>. QED  BY <1>1, <1>2, <1>3, <1>4, <1>5, <1>6, <1>7, <1>8

\* Every step of the fan-out and the writers keeps the invariant.
LEMMA FanoutSteps ==
  ASSUME TypeOK, IInv
  PROVE  /\ \A p \in Publishers, ch \in Channels : Publish(p, ch) => IInv'
         /\ \A a \in Actors, c \in Conns : Deliver(a, c) => IInv'
         /\ \A a \in Actors, c \in Conns : DropSlow(a, c) => IInv'
         /\ \A c \in Conns : SendSlowClose(c) => IInv'
         /\ \A c \in Conns : WriteFrame(c) => IInv'
         /\ \A c \in Conns : WriterStops(c) => IInv'
<1>. USE HubAssumption DEF TypeOK, Removal, IInv
<1>1. ASSUME NEW p \in Publishers, NEW ch \in Channels, Publish(p, ch) PROVE IInv'
  <2>1. ASSUME NEW d \in Conns, Queued(d, "close") PROVE ~writer'[d] \/ Queued(d, "close")'
    BY <1>1, <2>1 DEF Publish, registry, subscribers, Queued
  <2>2. Unborn' /\ OneRemoverFinds' /\ OwnRemoval' /\ Routed' /\ UsersIndexAgrees' /\ SlowCloseOnce'
    BY <1>1 DEF Publish, registry, subscribers, Unborn, OneRemoverFinds, OwnRemoval, Routed, UsersIndexAgrees,
           IndexPending, SlowCloseOnce
  <2>3. DroppedIsTold'
    BY <1>1, <2>1 DEF Publish, registry, subscribers, Unborn, OneRemoverFinds, DroppedIsTold
  <2>. QED  BY <2>2, <2>3
<1>2. ASSUME NEW a \in Actors, NEW c \in Conns, Deliver(a, c) PROVE IInv'
  <2>1. ASSUME NEW d \in Conns, Queued(d, "close") PROVE ~writer'[d] \/ Queued(d, "close")'
    BY <1>2, <2>1, CloseStays DEF Deliver, registry, Out
  <2>2. Unborn' /\ OneRemoverFinds' /\ OwnRemoval' /\ Routed' /\ UsersIndexAgrees' /\ SlowCloseOnce'
    BY <1>2 DEF Deliver, registry, Unborn, OneRemoverFinds, OwnRemoval, Routed, UsersIndexAgrees,
           IndexPending, SlowCloseOnce
  <2>3. DroppedIsTold'
    BY <1>2, <2>1 DEF Deliver, registry, Unborn, OneRemoverFinds, DroppedIsTold
  <2>. QED  BY <2>2, <2>3
<1>3. ASSUME NEW a \in Actors, NEW c \in Conns, DropSlow(a, c) PROVE IInv'
  <2>1. ASSUME NEW d \in Conns, Queued(d, "close") PROVE ~writer'[d] \/ Queued(d, "close")'
    BY <1>3, <2>1 DEF DropSlow, Remove, Queued
  <2>2. Unborn' /\ OwnRemoval' /\ Routed' /\ SlowCloseOnce'
    BY <1>3 DEF DropSlow, Remove, Unborn, OneRemoverFinds, OwnRemoval, Routed, UsersIndexAgrees,
           IndexPending, SlowCloseOnce
  <2>3. Remove(a, c) /\ rm[a].id = NoConn /\ c \in fan[a]
    BY <1>3 DEF DropSlow, Free, Actors
  <2>4. UNCHANGED <<users, slow>> /\ UNCHANGED pc
    BY <1>3 DEF DropSlow
  <2>5. OneRemoverFinds' /\ UsersIndexAgrees'
    BY <2>3, <2>4, RemoveKeeps
  <2>6. DroppedIsTold'
    BY <1>3, <2>1 DEF DropSlow, Remove, Unborn, OneRemoverFinds, DroppedIsTold
  <2>. QED  BY <2>2, <2>5, <2>6
<1>4. ASSUME NEW c \in Conns, SendSlowClose(c) PROVE IInv'
  <2>1. ASSUME NEW d \in Conns, Queued(d, "close") PROVE ~writer'[d] \/ Queued(d, "close")'
    BY <1>4, <2>1, CloseStays DEF SendSlowClose, registry, Out
  <2>2. Unborn' /\ OneRemoverFinds' /\ OwnRemoval' /\ Routed' /\ UsersIndexAgrees' /\ SlowCloseOnce'
    BY <1>4 DEF SendSlowClose, registry, Unborn, OneRemoverFinds, OwnRemoval, Routed, UsersIndexAgrees,
           IndexPending, SlowCloseOnce
  <2>3. ~writer'[c] \/ Queued(c, "close")'
    BY <1>4, CloseAppended DEF SendSlowClose
  <2>4. DroppedIsTold'
    BY <1>4, <2>1, <2>3 DEF SendSlowClose, registry, DroppedIsTold
  <2>. QED  BY <2>2, <2>4
<1>5. ASSUME NEW c \in Conns, WriteFrame(c) PROVE IInv'
  <2>1. ASSUME NEW d \in Conns, Queued(d, "close") PROVE ~writer'[d] \/ Queued(d, "close")'
    BY <1>5, <2>1, CloseStays DEF WriteFrame, registry, Out
  <2>2. Unborn' /\ OneRemoverFinds' /\ OwnRemoval' /\ Routed' /\ UsersIndexAgrees' /\ SlowCloseOnce'
    BY <1>5 DEF WriteFrame, registry, Unborn, OneRemoverFinds, OwnRemoval, Routed, UsersIndexAgrees,
           IndexPending, SlowCloseOnce
  <2>3. DroppedIsTold'
    BY <1>5, <2>1 DEF WriteFrame, registry, Unborn, OneRemoverFinds, DroppedIsTold
  <2>. QED  BY <2>2, <2>3
<1>6. ASSUME NEW c \in Conns, WriterStops(c) PROVE IInv'
  <2>1. ASSUME NEW d \in Conns, Queued(d, "close") PROVE ~writer'[d] \/ Queued(d, "close")'
    BY <1>6, <2>1, CloseStays DEF WriterStops, registry, Out
  <2>2. Unborn' /\ OneRemoverFinds' /\ OwnRemoval' /\ Routed' /\ UsersIndexAgrees' /\ SlowCloseOnce'
    BY <1>6 DEF WriterStops, registry, Unborn, OneRemoverFinds, OwnRemoval, Routed, UsersIndexAgrees,
           IndexPending, SlowCloseOnce
  <2>3. DroppedIsTold'
    BY <1>6, <2>1 DEF WriterStops, registry, Unborn, OneRemoverFinds, DroppedIsTold
  <2>. QED  BY <2>2, <2>3
<1>. QED  BY <1>1, <1>2, <1>3, <1>4, <1>5, <1>6

\* Every step of Hub::remove keeps the invariant.
LEMMA RemovalSteps ==
  ASSUME TypeOK, IInv
  PROVE  /\ \A a \in Actors : RemoveUser(a) => IInv'
         /\ \A a \in Actors, ch \in Channels : RemoveShard(a, ch) => IInv'
         /\ \A a \in Actors : RemoveDone(a) => IInv'
<1>. USE HubAssumption DEF TypeOK, Removal, IInv
<1>1. ASSUME NEW a \in Actors, RemoveUser(a) PROVE IInv'
  <2>1. ASSUME NEW d \in Conns, Queued(d, "close") PROVE ~writer'[d] \/ Queued(d, "close")'
    BY <1>1, <2>1 DEF RemoveUser, Queued
  <2>2. Unborn' /\ OneRemoverFinds' /\ OwnRemoval' /\ Routed' /\ UsersIndexAgrees' /\ SlowCloseOnce'
    BY <1>1 DEF RemoveUser, Unborn, OneRemoverFinds, OwnRemoval, Routed, UsersIndexAgrees,
           IndexPending, SlowCloseOnce
  <2>3. DroppedIsTold'
    BY <1>1, <2>1 DEF RemoveUser, Unborn, OneRemoverFinds, DroppedIsTold
  <2>. QED  BY <2>2, <2>3
<1>2. ASSUME NEW a \in Actors, NEW ch \in Channels, RemoveShard(a, ch) PROVE IInv'
  <2>1. ASSUME NEW d \in Conns, Queued(d, "close") PROVE ~writer'[d] \/ Queued(d, "close")'
    BY <1>2, <2>1 DEF RemoveShard, Queued
  <2>2. Unborn' /\ OneRemoverFinds' /\ OwnRemoval' /\ Routed' /\ UsersIndexAgrees' /\ SlowCloseOnce'
    BY <1>2 DEF RemoveShard, Unborn, OneRemoverFinds, OwnRemoval, Routed, UsersIndexAgrees,
           IndexPending, SlowCloseOnce
  <2>3. DroppedIsTold'
    BY <1>2, <2>1 DEF RemoveShard, Unborn, OneRemoverFinds, DroppedIsTold
  <2>. QED  BY <2>2, <2>3
<1>3. ASSUME NEW a \in Actors, RemoveDone(a) PROVE IInv'
  <2>1. ASSUME NEW d \in Conns, Queued(d, "close") PROVE ~writer'[d] \/ Queued(d, "close")'
    BY <1>3, <2>1 DEF RemoveDone, registry, Idle, Queued
  <2>2. Unborn' /\ OneRemoverFinds' /\ OwnRemoval' /\ UsersIndexAgrees' /\ SlowCloseOnce'
    BY <1>3 DEF RemoveDone, registry, Idle, Unborn, OneRemoverFinds, OwnRemoval,
           UsersIndexAgrees, IndexPending, SlowCloseOnce
  <2>3. /\ UNCHANGED <<conns, subs, mine, leaving>>
        /\ pc' = pc \/ (a \in Conns /\ pc[a] = "removing" /\ pc' = [pc EXCEPT ![a] = "gone"])
    BY <1>3 DEF RemoveDone, registry
  <2>4. Routed'
    BY <2>3 DEF Routed
  <2>5. ASSUME NEW d \in Conns, NEW b \in Actors, rm[b].id = d, rm[b].present,
               pc'[d] \in {"live", "leave"}
        PROVE  d \in closers' \/ \E e \in Actors : rm'[e].id = d /\ rm'[e].present
    <3>1. CASE b = a
      <4>1. ~(a \in Conns /\ pc[a] = "removing")
        BY <1>3, <2>5, <3>1 DEF RemoveDone, OwnRemoval
      <4>. QED  BY <1>3, <2>5, <3>1, <4>1 DEF RemoveDone
    <3>2. CASE b # a
      BY <1>3, <2>5, <3>2 DEF RemoveDone
    <3>. QED  BY <3>1, <3>2
  <2>6. closers \subseteq closers' /\ writer' = writer
    BY <1>3 DEF RemoveDone
  <2>7. DroppedIsTold'
    BY <2>1, <2>3, <2>5, <2>6 DEF DroppedIsTold
  <2>. QED  BY <2>2, <2>4, <2>7
<1>. QED  BY <1>1, <1>2, <1>3

-----------------------------------------------------------------------------

LEMMA Inductive == TypeOK /\ IInv /\ [Next]_vars => IInv'
<1>. SUFFICES ASSUME TypeOK, IInv, [Next]_vars PROVE IInv'
  OBVIOUS
<1>1. ASSUME NEW c \in Conns, Reader(c) PROVE IInv'
  BY <1>1, RegistrationSteps, ReaderSteps DEF Reader, Registration, Teardown
<1>2. ASSUME NEW c \in Conns, Writer(c) \/ SocketError(c) \/ SendSlowClose(c) PROVE IInv'
  BY <1>2, FanoutSteps DEF Writer, WriteClose, WriterDrained, SocketError
<1>3. ASSUME NEW p \in Publishers, NEW ch \in Channels, Publish(p, ch) PROVE IInv'
  BY <1>3, FanoutSteps
<1>4. ASSUME NEW a \in Actors, Broadcasting(a) \/ Removing(a) PROVE IInv'
  BY <1>4, FanoutSteps, RemovalSteps DEF Broadcasting, Removing
<1>5. CASE UNCHANGED vars
  BY <1>5 DEF vars, IInv, Unborn, OneRemoverFinds, OwnRemoval, Routed, UsersIndexAgrees,
              IndexPending, SlowCloseOnce, DroppedIsTold, Queued
<1>. QED  BY <1>1, <1>2, <1>3, <1>4, <1>5 DEF Next

\* The registry invariant holds in every reachable state of every instance.
THEOREM Invariance == Spec => []IInv
<1>1. Init => IInv
  BY HubAssumption DEF Init, IInv, Unborn, OneRemoverFinds, OwnRemoval, Routed,
     UsersIndexAgrees, IndexPending, SlowCloseOnce, DroppedIsTold, Idle, Actors
<1>. QED  BY <1>1, TypeCorrect, Inductive, PTL DEF Spec

\* The users index and the handle table agree up to the operation in flight
\* (hub.rs add, remove, user_clients).
THEOREM IndexTheorem == Spec => []UsersIndexAgrees
<1>1. IInv => UsersIndexAgrees
  BY DEF IInv
<1>. QED  BY <1>1, Invariance, PTL

\* No finished connection is named by the hub, but for an index entry another
\* remove is about to delete (hub.rs remove, client.rs on_disconnect).
THEOREM NoGhostTheorem == Spec => []NoGhost
<1>1. TypeOK /\ IInv => NoGhost
  BY DEF TypeOK, IInv, NoGhost, OneRemoverFinds, OwnRemoval, UsersIndexAgrees
<1>. QED  BY <1>1, Invariance, TypeCorrect, PTL

\* At most one slow-consumer Close is ever fired for a connection (node.rs
\* deliver_push).
THEOREM SlowCloseTheorem == Spec => []SlowCloseOnce
<1>1. IInv => SlowCloseOnce
  BY DEF IInv
<1>. QED  BY <1>1, Invariance, PTL

\* A connection the fan-out dropped has its Close on the way (node.rs
\* deliver_push).
THEOREM DroppedTheorem == Spec => []DroppedIsTold
<1>1. IInv => DroppedIsTold
  BY DEF IInv
<1>. QED  BY <1>1, Invariance, PTL

\* A registered live connection is routed to on every channel it believes it is
\* subscribed to (hub.rs subscribe, unsubscribe, remove).
THEOREM RoutedTheorem == Spec => []SubscribedIsRouted
<1>1. TypeOK /\ IInv => SubscribedIsRouted
  BY DEF TypeOK, IInv, Routed, SubscribedIsRouted
<1>. QED  BY <1>1, Invariance, TypeCorrect, PTL
=============================================================================
