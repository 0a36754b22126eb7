------------------------------- MODULE SockJs -------------------------------
(***************************************************************************)
(* The xhr-polling transport of centrifugo-server/src/sockjs.rs: one entry *)
(* of the session map, the sessions created under its id one after the     *)
(* other, the polls and sends that hold them, and the task of each session *)
(* (run_session; the loop's handlers are module Session and are reduced    *)
(* here to what they enqueue).  The fan-out reaches the session's queue as *)
(* in module Hub.                                                          *)
(*                                                                         *)
(* A session lives as long as something holds its Arc: the map, a poll or  *)
(* a send.  Its receiver and its incoming sender go with it, which is the  *)
(* only way its task learns that nobody will poll again.                   *)
(***************************************************************************)
EXTENDS Integers, Sequences, FiniteSets, SequencesExt

CONSTANTS
  MaxSessions,  \* bound: sessions created under the id
  MaxPolls,     \* bound: xhr requests in flight
  MaxSends,     \* bound: xhr_send requests in flight
  WriteQueue,   \* WRITE_QUEUE
  IncomingQueue,\* INCOMING_QUEUE
  MaxMessages   \* bound: messages of one xhr_send

ASSUME SockJsAssumption ==
  /\ MaxSessions \in Nat /\ MaxPolls \in Nat /\ MaxSends \in Nat
  /\ WriteQueue \in Nat \ {0} /\ IncomingQueue \in Nat \ {0}
  /\ MaxMessages \in Nat \ {0}

None == 0     \* no session
Sessions == 1..MaxSessions
Polls == 1..MaxPolls
Sends == 1..MaxSends

VARIABLES
  orderly,      \* the client has one poll at a time, as SockJS says it does
  entry,        \* the map's entry of the id
  poll,         \* each poll: where it is, and the session it holds
  send,         \* each send: the session it holds and the messages left
  task,         \* where the task of each session is
  outgoing,     \* the queue polls drain
  incoming,     \* the number of messages queued for the task
  registered,   \* whether the hub has the session's handle
  slowClose,    \* whether a detached task still has to enqueue DisconnectSlow
  told          \* what an orderly client was last told about a session; the
                \* responses to overlapping polls come in no order

vars == <<orderly, entry, poll, send, task, outgoing, incoming, registered,
          slowClose, told>>
requests == <<entry, poll, send, told>>
tasks == <<task, outgoing, incoming, registered, slowClose>>

Idle == [at |-> "idle", session |-> None]
Out == {"frame", "close"}

SockTypeOK ==
  /\ orderly \in BOOLEAN
  /\ entry \in Sessions \cup {None}
  /\ poll \in [Polls -> [at : {"idle", "create", "wait", "remove"},
                         session : Sessions \cup {None}]]
  /\ send \in [Sends -> [session : Sessions \cup {None}, left : 0..MaxMessages]]
  /\ task \in [Sessions -> {"none", "run", "reply", "close", "leave", "ended"}]
  /\ outgoing \in [Sessions -> Seq(Out)]
  /\ \A s \in Sessions : Len(outgoing[s]) <= WriteQueue
  /\ incoming \in [Sessions -> 0..IncomingQueue]
  /\ registered \in [Sessions -> BOOLEAN] /\ slowClose \in [Sessions -> BOOLEAN]
  /\ told \in [Sessions -> {"nothing", "open", "closed"}]

Init ==
  /\ orderly \in BOOLEAN
  /\ entry = None
  /\ poll = [p \in Polls |-> Idle]
  /\ send = [r \in Sends |-> [session |-> None, left |-> 0]]
  /\ task = [s \in Sessions |-> "none"]
  /\ outgoing = [s \in Sessions |-> <<>>]
  /\ incoming = [s \in Sessions |-> 0]
  /\ registered = [s \in Sessions |-> FALSE]
  /\ slowClose = [s \in Sessions |-> FALSE]
  /\ told = [s \in Sessions |-> "nothing"]

\* Whether something holds the Arc of s.
Held(s) ==
  \/ entry = s
  \/ \E p \in Polls : poll[p].at \in {"wait", "remove"} /\ poll[p].session = s
  \/ \E r \in Sends : send[r].session = s

\* With the Arc of a session goes its receiver, and what is queued.
Kept(queues) == [s \in Sessions |-> IF Held(s)' THEN queues[s] ELSE <<>>]

Release ==
  /\ outgoing' = Kept(outgoing)
  /\ UNCHANGED <<task, incoming, registered, slowClose>>

Room(s) == Len(outgoing[s]) < WriteQueue

\* Whether some sender of the outgoing queue is left.
SenderAlive(s) == task[s] # "ended" \/ slowClose[s]

-----------------------------------------------------------------------------
(* The receiving poll.                                                     *)

Tell(s, news) == told' = IF orderly THEN [told EXCEPT ![s] = news] ELSE told

\* xhr looks the session up; between the lookup and the creation another poll
\* may create one as well.
StartPoll(p) ==
  /\ poll[p] = Idle /\ \A q \in 1..(p - 1) : poll[q] # Idle
  /\ orderly => \A q \in Polls : poll[q] = Idle
  /\ poll' = [poll EXCEPT ![p] =
                [at |-> IF entry = None THEN "create" ELSE "wait", session |-> entry]]
  /\ UNCHANGED <<orderly, entry, send, told, tasks>>

\* create_session: the new session replaces whatever the map has by now.
Create(p) ==
  /\ poll[p].at = "create"
  /\ \E s \in Sessions :
       /\ task[s] = "none" /\ \A t \in Sessions : t < s => task[t] # "none"
       /\ entry' = s
       /\ task' = [task EXCEPT ![s] = "run"]
       /\ Tell(s, "open")
  /\ poll' = [poll EXCEPT ![p] = Idle]
  /\ UNCHANGED <<orderly, send, incoming, registered, slowClose>>
  /\ outgoing' = Kept(outgoing)

\* Bound: every session of the model has been created.
NoMoreSessions(p) ==
  /\ poll[p].at = "create"
  /\ \A s \in Sessions : task[s] # "none"
  /\ poll' = [poll EXCEPT ![p] = Idle]
  /\ UNCHANGED <<orderly, entry, send, told, tasks>>

\* A poll waits for the mutex of the receiver, then for an item.  What it does
\* with the mutex is one step, so that which poll holds it makes no difference.

\* The poll returns the response to the client and gives up what it holds.
Respond(p, news) ==
  LET s == poll[p].session IN
  /\ Tell(s, news)
  /\ poll' = [poll EXCEPT ![p] = Idle]

\* The frames at the head of a queue.
HeadFrames(q) == CHOOSE n \in 0..Len(q) :
  /\ \A i \in 1..n : q[i] = "frame"
  /\ n < Len(q) => q[n + 1] # "frame"

\* Frames are coalesced for as long as try_recv returns one; an item of another
\* kind has been received by then, and is dropped.
Coalesced(q) == SubSeq(q, HeadFrames(q) + 2, Len(q))

ReceiveFrames(p) ==
  LET s == poll[p].session IN
  /\ poll[p].at = "wait"
  /\ outgoing[s] # <<>> /\ Head(outgoing[s]) = "frame"
  /\ Respond(p, "open")
  /\ UNCHANGED <<orderly, entry, send>>
  /\ outgoing' = Kept([outgoing EXCEPT ![s] = Coalesced(@)])
  /\ UNCHANGED <<task, incoming, registered, slowClose>>

\* A Close, or None from a queue without senders: the receiver is released
\* before the map is locked.
ReceiveClose(p) ==
  LET s == poll[p].session IN
  /\ poll[p].at = "wait"
  /\ \/ outgoing[s] # <<>> /\ Head(outgoing[s]) = "close"
     \/ outgoing[s] = <<>> /\ ~SenderAlive(s)
  /\ outgoing' = [outgoing EXCEPT ![s] = IF @ = <<>> THEN @ ELSE Tail(@)]
  /\ poll' = [poll EXCEPT ![p].at = "remove"]
  /\ UNCHANGED <<orderly, entry, send, told, task, incoming, registered, slowClose>>

\* Slip: the entry of a closed session is left for the next poll to find.
RemoveNothing(p) ==
  /\ poll[p].at = "remove"
  /\ UNCHANGED entry
  /\ Respond(p, "closed")
  /\ UNCHANGED <<orderly, send>>
  /\ Release

\* The map is cleared by id, whichever session it has by now.
RemoveEntry(p) ==
  /\ poll[p].at = "remove"
  /\ entry' = None
  /\ Respond(p, "closed")
  /\ UNCHANGED <<orderly, send>>
  /\ Release

\* Slip: an idle session is dropped with its heartbeat.
HeartbeatReaps(p) ==
  LET s == poll[p].session IN
  /\ poll[p].at = "wait"
  /\ outgoing[s] = <<>> /\ SenderAlive(s)
  /\ entry' = None
  /\ Respond(p, "open")
  /\ UNCHANGED <<orderly, send>>
  /\ Release

Heartbeat(p) ==
  LET s == poll[p].session IN
  /\ poll[p].at = "wait"
  /\ outgoing[s] = <<>> /\ SenderAlive(s)
  /\ Respond(p, "open")
  /\ UNCHANGED <<orderly, entry, send>>
  /\ Release

\* The client hangs up while the poll waits; its future is dropped.
AbandonPoll(p) ==
  /\ poll[p].at = "wait"
  /\ poll' = [poll EXCEPT ![p] = Idle]
  /\ UNCHANGED <<orderly, entry, send, told>>
  /\ Release

-----------------------------------------------------------------------------
(* Sending commands.                                                       *)

StartSend(r) ==
  /\ send[r].session = None
  /\ entry # None
  /\ \E n \in 1..MaxMessages : send' = [send EXCEPT ![r] = [session |-> entry, left |-> n]]
  /\ UNCHANGED <<orderly, entry, poll, told, tasks>>

SendDone(r) == send' = [send EXCEPT ![r] = [session |-> None, left |-> 0]]

\* One message is enqueued; with the last one the request is answered.
SendMessage(r) ==
  LET s == send[r].session IN
  /\ s # None
  /\ task[s] # "ended" /\ incoming[s] < IncomingQueue
  /\ incoming' = [incoming EXCEPT ![s] = @ + 1]
  /\ IF send[r].left = 1 THEN SendDone(r)
     ELSE send' = [send EXCEPT ![r].left = @ - 1]
  /\ UNCHANGED <<orderly, entry, poll, told, task, registered, slowClose>>
  /\ outgoing' = Kept(outgoing)

\* The task is gone, or the client hangs up while the queue is full.
SendFails(r) ==
  LET s == send[r].session IN
  /\ s # None
  /\ task[s] = "ended" \/ incoming[s] = IncomingQueue
  /\ SendDone(r)
  /\ UNCHANGED <<orderly, entry, poll, told>>
  /\ Release

-----------------------------------------------------------------------------
(* run_session.                                                            *)

\* What a message makes the session enqueue; CONNECT registers it.
TakeMessage(s) ==
  /\ task[s] = "run" /\ incoming[s] > 0
  /\ incoming' = [incoming EXCEPT ![s] = @ - 1]
  /\ task' \in {[task EXCEPT ![s] = next] : next \in {"run", "reply", "close"}}
  /\ \/ UNCHANGED registered
     \/ task'[s] = "reply" /\ registered' = [registered EXCEPT ![s] = TRUE]
  /\ UNCHANGED <<orderly, requests, outgoing, slowClose>>

\* recv returns None once the incoming sender is gone and the queue is drained.
Orphaned(s) ==
  /\ task[s] = "run" /\ incoming[s] = 0 /\ ~Held(s)
  /\ task' = [task EXCEPT ![s] = "leave"]
  /\ UNCHANGED <<orderly, requests, outgoing, incoming, registered, slowClose>>

\* A Disconnect signal, or the expiry timer.
ServerCloses(s) ==
  /\ task[s] = "run" /\ registered[s]
  /\ task' = [task EXCEPT ![s] = "close"]
  /\ UNCHANGED <<orderly, requests, outgoing, incoming, registered, slowClose>>

\* Slip: the loop waits for room without noticing that the receiver is gone.
EnqueueRepliesBlind(s) ==
  /\ task[s] = "reply"
  /\ Room(s)
  /\ outgoing' = [outgoing EXCEPT ![s] = Append(@, "frame")]
  /\ task' \in {[task EXCEPT ![s] = next] : next \in {"run", "close"}}
  /\ UNCHANGED <<orderly, requests, incoming, registered, slowClose>>

\* The frame of replies, with a Close behind it or not; an error ends the loop.
EnqueueReplies(s) ==
  /\ task[s] = "reply"
  /\ \/ /\ Held(s) /\ Room(s)
        /\ outgoing' = [outgoing EXCEPT ![s] = Append(@, "frame")]
        /\ task' \in {[task EXCEPT ![s] = next] : next \in {"run", "close"}}
     \/ ~Held(s) /\ task' = [task EXCEPT ![s] = "leave"] /\ UNCHANGED outgoing
  /\ UNCHANGED <<orderly, requests, incoming, registered, slowClose>>

EnqueueClose(s) ==
  /\ task[s] = "close"
  /\ \/ /\ Held(s) /\ Room(s)
        /\ outgoing' = [outgoing EXCEPT ![s] = Append(@, "close")]
     \/ ~Held(s) /\ UNCHANGED outgoing
  /\ task' = [task EXCEPT ![s] = "leave"]
  /\ UNCHANGED <<orderly, requests, incoming, registered, slowClose>>

OnDisconnect(s) ==
  /\ task[s] = "leave"
  /\ task' = [task EXCEPT ![s] = "ended"]
  /\ registered' = [registered EXCEPT ![s] = FALSE]
  /\ incoming' = [incoming EXCEPT ![s] = 0]
  /\ UNCHANGED <<orderly, requests, outgoing, slowClose>>

-----------------------------------------------------------------------------
(* The fan-out: see module Hub for the steps of a removal.                 *)

Push(s) ==
  /\ registered[s]
  /\ IF Held(s) /\ Room(s)
     THEN /\ outgoing' = [outgoing EXCEPT ![s] = Append(@, "frame")]
          /\ UNCHANGED <<registered, slowClose>>
     ELSE /\ registered' = [registered EXCEPT ![s] = FALSE]
          /\ slowClose' = [slowClose EXCEPT ![s] = TRUE]
          /\ UNCHANGED outgoing
  /\ UNCHANGED <<orderly, requests, task, incoming>>

SendSlowClose(s) ==
  /\ slowClose[s]
  /\ \/ /\ Held(s) /\ Room(s)
        /\ outgoing' = [outgoing EXCEPT ![s] = Append(@, "close")]
     \/ ~Held(s) /\ UNCHANGED outgoing
  /\ slowClose' = [slowClose EXCEPT ![s] = FALSE]
  /\ UNCHANGED <<orderly, requests, task, incoming, registered>>

-----------------------------------------------------------------------------
Poll(p) ==
  \/ Create(p) \/ NoMoreSessions(p) \/ Heartbeat(p)
  \/ ReceiveFrames(p) \/ ReceiveClose(p) \/ RemoveEntry(p)

Send(r) == SendMessage(r) \/ SendFails(r)

RunSession(s) ==
  \/ TakeMessage(s) \/ Orphaned(s) \/ EnqueueReplies(s) \/ EnqueueClose(s)
  \/ OnDisconnect(s)

Next ==
  \/ \E p \in Polls : StartPoll(p) \/ Poll(p) \/ AbandonPoll(p)
  \/ \E r \in Sends : StartSend(r) \/ Send(r)
  \/ \E s \in Sessions : RunSession(s) \/ ServerCloses(s) \/ Push(s) \/ SendSlowClose(s)

Spec == Init /\ [][Next]_vars

\* The runtime runs a task that can run, a poll is answered after HEARTBEAT at
\* the latest, and a client hangs up on a send that is never answered.
FairSpec ==
  /\ Spec
  /\ \A p \in Polls : WF_vars(Poll(p))
  /\ \A r \in Sends : WF_vars(Send(r))
  /\ \A s \in Sessions : WF_vars(RunSession(s)) /\ WF_vars(SendSlowClose(s))

-----------------------------------------------------------------------------
(* Properties.                                                             *)

\* A client that has one poll at a time, as the comment on struct Session says
\* it does, and was told that its session is open and not that it is closed
\* finds the session in the map: nothing removes it by its id alone.
OpenIsReachable ==
  orderly => \A s \in Sessions : told[s] = "open" => entry = s

\* Such a client gets nothing from a session it was told is closed, although the
\* task and the fan-out may still have put frames behind the Close.
ClosedStaysClosed ==
  [][\A s \in Sessions : orderly /\ told[s] = "closed" => told'[s] = "closed"]_vars

\* The task of a session that is no longer in the map ends, whoever polls or
\* sends: one replaced by a poll that raced with its own, one whose poll took
\* the Close of the fan-out, one removed by a late poll of an older session.
OrphanEnds ==
  \A s \in Sessions : task[s] # "none" /\ entry # s ~> task[s] = "ended"

\* A Close that is taken from a session's queue is reported to the client, as
\* the README promises a slow subscriber DisconnectSlow; xhr drops one that
\* comes behind a frame.
CloseIsReported ==
  [][\A s \in Sessions :
       Held(s)' /\ "close" \in ToSet(outgoing[s]) /\ "close" \notin ToSet(outgoing'[s])
         => \E p \in Polls : poll'[p] = [at |-> "remove", session |-> s]]_vars
=============================================================================
