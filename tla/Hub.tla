-------------------------------- MODULE Hub --------------------------------
(***************************************************************************)
(* The hub of a node (centrifugo-core/src/hub.rs), the fan-out that walks  *)
(* it (deliver_push in node.rs) and the two tasks of every connection that *)
(* meet there: the reader, which owns the connection and registers,        *)
(* subscribes and finally removes it, and the writer, which drains the     *)
(* connection's bounded queue.                                             *)
(*                                                                         *)
(* One step is what the code does under one lock, or one queue operation.  *)
(* `conns', `users' and every shard of `subs' have a lock of their own and *)
(* add/remove take them one after the other, so another task may run       *)
(* between any two of those steps.  The two lookups (user_clients,         *)
(* subscribers) hold their two read locks together and are one step.       *)
(*                                                                         *)
(* Every channel stands for a shard of its own, visited by remove in any   *)
(* order: the code visits 16 shards in order and cleans the channels of    *)
(* one shard at once, which is one of the interleavings allowed here.      *)
(***************************************************************************)
EXTENDS Naturals, Sequences, FiniteSets

CONSTANTS
  Conns,        \* connection (client) ids; a v4 UUID is never used twice
  Users,        \* user ids, the empty (anonymous) one included
  UserOf,       \* the user each connection authenticates as
  Anonymous,    \* the empty user id, which no limit applies to
  Channels,
  JoinLeave,    \* the channels whose options publish join/leave
  Publishers,   \* tasks that publish and are not a connection (API, bus)
  QueueCap,     \* WRITE_QUEUE: slots of a connection's outgoing queue
  UserLimit,    \* client_user_connection_limit, 0 = none
  NoConn        \* "no connection"

ASSUME HubAssumption ==
  /\ UserOf \in [Conns -> Users]
  /\ Anonymous \in Users
  /\ JoinLeave \subseteq Channels
  /\ Publishers \cap Conns = {}
  /\ QueueCap \in Nat \ {0}
  /\ UserLimit \in Nat
  /\ NoConn \notin Conns

\* Everything that can be in the middle of a broadcast or of a removal.
Actors == Publishers \cup Conns

VARIABLES
  conns,    \* Hub.conns: ids with a handle
  users,    \* Hub.users: user -> ids
  subs,     \* Hub.shards: channel -> ids
  pc,       \* where each reader task is
  mine,     \* Client.subscriptions of each connection
  leaving,  \* the channels a reader is unsubscribing from right now
  fan,      \* the handles a broadcast has snapshotted and not yet served
  rm,       \* the Hub::remove each actor is in the middle of
  queue,    \* the outgoing queue of each connection
  writer,   \* whether the writer task still holds the receiver
  closers,  \* connections with a detached task awaiting a slot for Close 3008
  slow      \* how many such tasks were ever spawned, per connection

vars == <<conns, users, subs, pc, mine, leaving, fan, rm, queue, writer,
          closers, slow>>
registry == <<conns, users, subs>>

Out == {"frame", "close"}
Phases == {"new", "admitted", "adding", "live", "leave", "closing",
           "removing", "gone"}

Removal == [id: Conns \cup {NoConn}, present: BOOLEAN, indexed: BOOLEAN,
            shards: SUBSET Channels]
Idle == [id |-> NoConn, present |-> FALSE, indexed |-> FALSE, shards |-> {}]

TypeOK ==
  /\ conns \subseteq Conns
  /\ users \in [Users -> SUBSET Conns]
  /\ subs \in [Channels -> SUBSET Conns]
  /\ pc \in [Conns -> Phases]
  /\ mine \in [Conns -> SUBSET Channels]
  /\ leaving \in [Conns -> SUBSET Channels]
  /\ fan \in [Actors -> SUBSET Conns]
  /\ rm \in [Actors -> Removal]
  /\ queue \in [Conns -> Seq(Out)]
  /\ \A c \in Conns : Len(queue[c]) <= QueueCap
  /\ writer \in [Conns -> BOOLEAN]
  /\ closers \subseteq Conns
  /\ slow \in [Conns -> Nat]

Init ==
  /\ conns = {}
  /\ users = [u \in Users |-> {}]
  /\ subs = [ch \in Channels |-> {}]
  /\ pc = [c \in Conns |-> "new"]
  /\ mine = [c \in Conns |-> {}]
  /\ leaving = [c \in Conns |-> {}]
  /\ fan = [a \in Actors |-> {}]
  /\ rm = [a \in Actors |-> Idle]
  /\ queue = [c \in Conns |-> <<>>]
  /\ writer = [c \in Conns |-> TRUE]
  /\ closers = {}
  /\ slow = [c \in Conns |-> 0]

\* An actor is free when it is neither broadcasting nor removing.
Free(a) == fan[a] = {} /\ rm[a].id = NoConn

\* Slip: the queue is unbounded.
RoomUnbounded(c) == writer[c]

\* The receiver is alive and a send would find a slot.
Room(c) == writer[c] /\ Len(queue[c]) < QueueCap

user_clients(u) == users[u] \cap conns
subscribers(ch) == subs[ch] \cap conns

-----------------------------------------------------------------------------
(* Registration: on_connect checks the limit, then Hub::add takes conns and *)
(* users one after the other.                                               *)

OverLimit(c) ==
  /\ UserLimit > 0
  /\ UserOf[c] # Anonymous
  /\ Cardinality(user_clients(UserOf[c])) >= UserLimit

\* The check reads the hub; the registration that follows is a later step.
Admit(c) ==
  /\ pc[c] = "new"
  /\ ~OverLimit(c)
  /\ pc' = [pc EXCEPT ![c] = "admitted"]
  /\ UNCHANGED <<registry, mine, leaving, fan, rm, queue, writer, closers, slow>>

\* DisconnectConnectionLimit (3013): the transport enqueues the Close.
Refuse(c) ==
  /\ pc[c] = "new"
  /\ OverLimit(c)
  /\ pc' = [pc EXCEPT ![c] = "closing"]
  /\ \/ Room(c) /\ queue' = [queue EXCEPT ![c] = Append(@, "close")]
     \/ ~writer[c] /\ UNCHANGED queue
  /\ UNCHANGED <<registry, mine, leaving, fan, rm, writer, closers, slow>>

AddConn(c) ==
  /\ pc[c] = "admitted"
  /\ conns' = conns \cup {c}
  /\ pc' = [pc EXCEPT ![c] = "adding"]
  /\ UNCHANGED <<users, subs, mine, leaving, fan, rm, queue, writer, closers, slow>>

AddUser(c) ==
  /\ pc[c] = "adding"
  /\ users' = [users EXCEPT ![UserOf[c]] = @ \cup {c}]
  /\ pc' = [pc EXCEPT ![c] = "live"]
  /\ UNCHANGED <<conns, subs, mine, leaving, fan, rm, queue, writer, closers, slow>>

-----------------------------------------------------------------------------
(* The reader of a live connection.                                        *)

Subscribe(c, ch) ==
  /\ pc[c] = "live" /\ Free(c)
  /\ ch \notin mine[c]
  /\ subs' = [subs EXCEPT ![ch] = @ \cup {c}]
  /\ mine' = [mine EXCEPT ![c] = @ \cup {ch}]
  /\ UNCHANGED <<conns, users, pc, leaving, fan, rm, queue, writer, closers, slow>>

\* unsubscribe_channel forgets the subscription and publishes Leave before it
\* touches the hub: the leaving connection is still in the snapshot.
StartUnsubscribe(c, ch) ==
  /\ pc[c] = "live" /\ Free(c)
  /\ ch \in mine[c]
  /\ mine' = [mine EXCEPT ![c] = @ \ {ch}]
  /\ leaving' = [leaving EXCEPT ![c] = {ch}]
  /\ fan' = [fan EXCEPT ![c] = IF ch \in JoinLeave THEN subscribers(ch) ELSE {}]
  /\ pc' = [pc EXCEPT ![c] = "leave"]
  /\ UNCHANGED <<registry, rm, queue, writer, closers, slow>>

FinishUnsubscribe(c) ==
  /\ pc[c] = "leave" /\ Free(c)
  /\ subs' = [ch \in Channels |-> IF ch \in leaving[c] THEN subs[ch] \ {c}
                                                      ELSE subs[ch]]
  /\ leaving' = [leaving EXCEPT ![c] = {}]
  /\ pc' = [pc EXCEPT ![c] = "live"]
  /\ UNCHANGED <<conns, users, mine, fan, rm, queue, writer, closers, slow>>

\* A client publishes, or its deferred Join is flushed.
ReaderPublish(c, ch) ==
  /\ pc[c] = "live" /\ Free(c)
  /\ fan' = [fan EXCEPT ![c] = subscribers(ch)]
  /\ UNCHANGED <<registry, pc, mine, leaving, rm, queue, writer, closers, slow>>

\* tx.send(replies).await: waits for a slot; an error ends the read loop.
ReaderSend(c) ==
  /\ pc[c] = "live" /\ Free(c)
  /\ \/ /\ Room(c)
        /\ queue' = [queue EXCEPT ![c] = Append(@, "frame")]
        /\ UNCHANGED pc
     \/ /\ ~writer[c]
        /\ pc' = [pc EXCEPT ![c] = "closing"]
        /\ UNCHANGED queue
  /\ UNCHANGED <<registry, mine, leaving, fan, rm, writer, closers, slow>>

\* The read loop ends: the stream is over, or the reader first enqueues a Close
\* (waiting for a slot; the error of a finished writer is ignored).
ReaderEnd(c) ==
  /\ pc[c] \in {"new", "live"} /\ Free(c)
  /\ pc' = [pc EXCEPT ![c] = "closing"]
  /\ \/ UNCHANGED queue
     \/ Room(c) /\ queue' = [queue EXCEPT ![c] = Append(@, "close")]
  /\ UNCHANGED <<registry, mine, leaving, fan, rm, writer, closers, slow>>

\* on_disconnect: one Leave per subscription ...
ClosingLeave(c, ch) ==
  /\ pc[c] = "closing" /\ Free(c)
  /\ ch \in mine[c]
  /\ mine' = [mine EXCEPT ![c] = @ \ {ch}]
  /\ fan' = [fan EXCEPT ![c] = IF ch \in JoinLeave THEN subscribers(ch) ELSE {}]
  /\ UNCHANGED <<registry, pc, leaving, rm, queue, writer, closers, slow>>

\* Slips in remove: it returns early when the handle is already gone; it forgets
\* the users index; it always reports the connection as present; it leaves the
\* handle in place.
RemoveEarlyReturn(a, c) ==
  /\ conns' = conns \ {c}
  /\ rm' = [rm EXCEPT ![a] = [id |-> c, present |-> c \in conns, indexed |-> c \in conns,
                              shards |-> IF c \in conns THEN Channels ELSE {}]]
RemoveNotIndexed(a, c) ==
  /\ conns' = conns \ {c}
  /\ rm' = [rm EXCEPT ![a] = [id |-> c, present |-> c \in conns,
                              indexed |-> FALSE, shards |-> Channels]]
RemoveAlwaysPresent(a, c) ==
  /\ conns' = conns \ {c}
  /\ rm' = [rm EXCEPT ![a] = [id |-> c, present |-> TRUE,
                              indexed |-> c \in conns, shards |-> Channels]]
RemoveKeepsHandle(a, c) ==
  /\ UNCHANGED conns
  /\ rm' = [rm EXCEPT ![a] = [id |-> c, present |-> c \in conns,
                              indexed |-> c \in conns, shards |-> Channels]]

\* ... then Hub::remove, whose first step takes the handle out of `conns'.
Remove(a, c) ==
  /\ conns' = conns \ {c}
  /\ rm' = [rm EXCEPT ![a] = [id |-> c, present |-> c \in conns,
                              indexed |-> c \in conns, shards |-> Channels]]

ClosingRemove(c) ==
  /\ pc[c] = "closing" /\ Free(c)
  /\ mine[c] = {}
  /\ Remove(c, c)
  /\ pc' = [pc EXCEPT ![c] = "removing"]
  /\ UNCHANGED <<users, subs, mine, leaving, fan, queue, writer, closers, slow>>

-----------------------------------------------------------------------------
(* The rest of Hub::remove, by whichever actor runs it.                    *)

RemoveUser(a) ==
  /\ rm[a].id # NoConn
  /\ rm[a].indexed
  /\ users' = [users EXCEPT ![UserOf[rm[a].id]] = @ \ {rm[a].id}]
  /\ rm' = [rm EXCEPT ![a].indexed = FALSE]
  /\ UNCHANGED <<conns, subs, pc, mine, leaving, fan, queue, writer, closers, slow>>

\* Slip: a channel that loses one subscriber is pruned with all of them.
RemoveShardEmptied(a, ch) ==
  /\ rm[a].id # NoConn
  /\ ~rm[a].indexed
  /\ ch \in rm[a].shards
  /\ subs' = [subs EXCEPT ![ch] = {}]
  /\ rm' = [rm EXCEPT ![a].shards = @ \ {ch}]
  /\ UNCHANGED <<conns, users, pc, mine, leaving, fan, queue, writer, closers, slow>>

RemoveShard(a, ch) ==
  /\ rm[a].id # NoConn
  /\ ~rm[a].indexed
  /\ ch \in rm[a].shards
  /\ subs' = [subs EXCEPT ![ch] = @ \ {rm[a].id}]
  /\ rm' = [rm EXCEPT ![a].shards = @ \ {ch}]
  /\ UNCHANGED <<conns, users, pc, mine, leaving, fan, queue, writer, closers, slow>>

\* remove returns was_present: on_disconnect ignores it, deliver_push spawns
\* the task that will enqueue Close(3008).
RemoveDone(a) ==
  /\ rm[a].id # NoConn
  /\ ~rm[a].indexed
  /\ rm[a].shards = {}
  /\ rm' = [rm EXCEPT ![a] = Idle]
  /\ IF a \in Conns /\ pc[a] = "removing"
     THEN /\ pc' = [pc EXCEPT ![a] = "gone"]
          /\ UNCHANGED <<closers, slow>>
     ELSE /\ UNCHANGED pc
          /\ closers' = IF rm[a].present THEN closers \cup {rm[a].id} ELSE closers
          /\ slow' = IF rm[a].present
                     THEN [slow EXCEPT ![rm[a].id] = @ + 1] ELSE slow
  /\ UNCHANGED <<registry, mine, leaving, fan, queue, writer>>

-----------------------------------------------------------------------------
(* deliver_push: snapshot the subscribers, then try_send to each handle.   *)

Publish(p, ch) ==
  /\ Free(p)
  /\ fan' = [fan EXCEPT ![p] = subscribers(ch)]
  /\ UNCHANGED <<registry, pc, mine, leaving, rm, queue, writer, closers, slow>>

Deliver(a, c) ==
  /\ c \in fan[a] /\ rm[a].id = NoConn
  /\ Room(c)
  /\ queue' = [queue EXCEPT ![c] = Append(@, "frame")]
  /\ fan' = [fan EXCEPT ![a] = @ \ {c}]
  /\ UNCHANGED <<registry, pc, mine, leaving, rm, writer, closers, slow>>

\* Slip: the fan-out awaits a slot instead of dropping a full consumer.
DropOnlyClosed(a, c) ==
  /\ c \in fan[a] /\ rm[a].id = NoConn
  /\ ~writer[c]
  /\ Remove(a, c)
  /\ fan' = [fan EXCEPT ![a] = @ \ {c}]
  /\ UNCHANGED <<users, subs, pc, mine, leaving, queue, writer, closers, slow>>

\* Full or closed: drop the consumer from the hub and go on.
DropSlow(a, c) ==
  /\ c \in fan[a] /\ rm[a].id = NoConn
  /\ ~Room(c)
  /\ Remove(a, c)
  /\ fan' = [fan EXCEPT ![a] = @ \ {c}]
  /\ UNCHANGED <<users, subs, pc, mine, leaving, queue, writer, closers, slow>>

\* Slip: the Close is try_sent, so a full queue swallows it.
TrySlowClose(c) ==
  /\ c \in closers
  /\ queue' = IF Room(c) THEN [queue EXCEPT ![c] = Append(@, "close")] ELSE queue
  /\ closers' = closers \ {c}
  /\ UNCHANGED <<registry, pc, mine, leaving, fan, rm, writer, slow>>

\* The detached task: tx.send(Close(slow)).await, Err once the writer is done.
SendSlowClose(c) ==
  /\ c \in closers
  /\ \/ Room(c) /\ queue' = [queue EXCEPT ![c] = Append(@, "close")]
     \/ ~writer[c] /\ UNCHANGED queue
  /\ closers' = closers \ {c}
  /\ UNCHANGED <<registry, pc, mine, leaving, fan, rm, writer, slow>>

-----------------------------------------------------------------------------
(* The writer task.  It ends after a Close, on a socket error, or when the *)
(* queue is empty and every sender is dropped; what is queued then is lost.*)

\* A clone of the sender lives in the reader, in the hub and in snapshots.
SenderAlive(c) ==
  \/ pc[c] # "gone" \/ c \in conns \cup closers
  \/ \E a \in Actors : c \in fan[a] \/ rm[a].id = c

WriteFrame(c) ==
  /\ writer[c] /\ queue[c] # <<>> /\ Head(queue[c]) = "frame"
  /\ queue' = [queue EXCEPT ![c] = Tail(@)]
  /\ UNCHANGED <<registry, pc, mine, leaving, fan, rm, writer, closers, slow>>

WriterStops(c) ==
  /\ writer' = [writer EXCEPT ![c] = FALSE]
  /\ queue' = [queue EXCEPT ![c] = <<>>]
  /\ UNCHANGED <<registry, pc, mine, leaving, fan, rm, closers, slow>>

WriteClose(c) ==
  /\ writer[c] /\ queue[c] # <<>> /\ Head(queue[c]) = "close"
  /\ WriterStops(c)

SocketError(c) == writer[c] /\ WriterStops(c)

WriterDrained(c) ==
  /\ writer[c] /\ queue[c] = <<>> /\ ~SenderAlive(c)
  /\ WriterStops(c)

-----------------------------------------------------------------------------

Registration(c) == Admit(c) \/ Refuse(c) \/ AddConn(c) \/ AddUser(c)

Teardown(c) == ClosingRemove(c) \/ \E ch \in Channels : ClosingLeave(c, ch)

Reader(c) ==
  \/ Registration(c)
  \/ Teardown(c)
  \/ FinishUnsubscribe(c) \/ ReaderSend(c) \/ ReaderEnd(c)
  \/ \E ch \in Channels :
       Subscribe(c, ch) \/ StartUnsubscribe(c, ch) \/ ReaderPublish(c, ch)

Removing(a) ==
  RemoveUser(a) \/ RemoveDone(a) \/ \E ch \in Channels : RemoveShard(a, ch)

Broadcasting(a) == \E c \in Conns : Deliver(a, c) \/ DropSlow(a, c)

Writer(c) == WriteFrame(c) \/ WriteClose(c) \/ WriterDrained(c)

Next ==
  \/ \E c \in Conns : Reader(c) \/ Writer(c) \/ SocketError(c) \/ SendSlowClose(c)
  \/ \E p \in Publishers, ch \in Channels : Publish(p, ch)
  \/ \E a \in Actors : Broadcasting(a) \/ Removing(a)

Spec == Init /\ [][Next]_vars

\* A task that can run does run.  Writers are left out: a socket may be wedged.
TasksRun ==
  \A a \in Actors : WF_vars(Broadcasting(a)) /\ WF_vars(Removing(a))

\* A connection under way is carried through to its end.
ReadersFinish == \A c \in Conns : WF_vars(Teardown(c)) /\ WF_vars(FinishUnsubscribe(c))

\* Every socket accepts what is written to it, sooner or later, or fails; tokio
\* hands a freed slot to the waiting senders in order, so none of them starves.
SocketsMove == \A c \in Conns : WF_vars(Writer(c)) /\ SF_vars(SendSlowClose(c))

FairSpec == Spec /\ TasksRun /\ ReadersFinish

-----------------------------------------------------------------------------
(* Properties.                                                             *)

\* Some actor has taken c out of `conns' and has not reached the users index.
IndexPending(c) == \E a \in Actors : rm[a].id = c /\ rm[a].indexed

\* Once a reader has finished on_disconnect, nothing in the hub names its
\* connection any more, whatever removals of the same connection ran beside it;
\* the one exception is the users entry that another remove, which found the
\* handle first, is about to delete (hub.rs remove).
NoGhost ==
  \A c \in Conns : pc[c] = "gone" =>
    /\ c \notin conns
    /\ \A ch \in Channels : c \notin subs[ch]
    /\ (\E u \in Users : c \in users[u]) => IndexPending(c)

\* conns and users agree up to the operation in flight: an indexed id has a
\* handle or a removal on its way to the index, and a handle is indexed unless
\* its add has not taken the second lock (hub.rs add, remove, user_clients).
UsersIndexAgrees ==
  \A c \in Conns :
    /\ \A u \in Users : c \in users[u] =>
         u = UserOf[c] /\ (c \in conns \/ IndexPending(c))
    /\ c \in conns => pc[c] = "adding" \/ c \in users[UserOf[c]]

\* The slow-consumer Close is fired at most once per connection, however many
\* broadcasts find its queue full and even if its reader removes it at the same
\* time (the "exactly once" of hub.rs remove and of deliver_push).
SlowCloseOnce == \A c \in Conns : slow[c] <= 1

Queued(c, item) == \E i \in 1..Len(queue[c]) : queue[c][i] = item

\* A connection the fan-out dropped while its reader still serves it is never
\* left believing it is subscribed: the Close is being prepared, waiting for a
\* slot, queued, or its writer is over (deliver_push).
DroppedIsTold ==
  \A c \in Conns : pc[c] \in {"live", "leave"} /\ c \notin conns =>
    \/ ~writer[c] \/ c \in closers \/ Queued(c, "close")
    \/ \E a \in Actors : rm[a].id = c /\ rm[a].present

\* Every subscription a live reader believes in is in the hub unless the
\* fan-out has dropped the connection: no interleaving of removals loses a
\* subscription of a connection that stays registered (hub.rs subscribe).
SubscribedIsRouted ==
  \A c \in conns : pc[c] = "live" => \A ch \in mine[c] : c \in subs[ch]

\* The connection limit as the source states it (node.rs Limits).
WithinUserLimit ==
  UserLimit > 0 =>
    \A u \in Users \ {Anonymous} :
      Cardinality({c \in conns : UserOf[c] = u}) <= UserLimit

\* The load-bearing requirement of the README: a broadcast ends even if no
\* writer ever takes another item (checked under FairSpec, which promises
\* nothing of the writers).
BroadcastEnds == \A p \in Publishers : fan[p] # {} ~> Free(p)

\* A connection dropped for slowness is closed in the end as long as its socket
\* moves (node.rs deliver_push; checked under FairSpec).
DroppedIsClosed == SocketsMove => \A c \in Conns : slow[c] > 0 ~> ~writer[c]

\* handle_socket ends with writer.await: once the reader is through with
\* on_disconnect every sender is dropped and the writer ends by itself, as long
\* as its socket moves (ws.rs; checked under FairSpec).
WriterEnds == SocketsMove => \A c \in Conns : pc[c] = "gone" ~> ~writer[c]

-----------------------------------------------------------------------------
(* The inductive invariant behind the properties above.                    *)

\* Before its reader is live a connection is in nobody's hands; before AddConn
\* it is in no table either.
Unborn ==
  \A c \in Conns :
    /\ pc[c] \in {"new", "admitted", "adding"} =>
         /\ mine[c] = {} /\ slow[c] = 0
         /\ \A a \in Actors : c \notin fan[a] /\ rm[a].id # c
         /\ \A ch \in Channels : c \notin subs[ch]
    /\ pc[c] \in {"new", "admitted"} =>
         c \notin conns /\ \A u \in Users : c \notin users[u]
    /\ pc[c] = "adding" => c \in conns

\* The handle is what decides: while it is registered nobody removes the
\* connection, and of all the removals that ever start one finds it.
OneRemoverFinds ==
  \A c \in Conns :
    /\ c \in conns => /\ slow[c] = 0
                      /\ pc[c] \in {"adding", "live", "leave", "closing"}
                      /\ \A a \in Actors : rm[a].id # c
    /\ \A a \in Actors : rm[a].id = c /\ rm[a].present =>
         /\ slow[c] = 0
         /\ \A b \in Actors : rm[b].id = c /\ rm[b].present => a = b

\* What the reader's own remove has visited stays clean.
OwnRemoval ==
  \A c \in Conns :
    /\ pc[c] = "removing" =>
         /\ rm[c].id = c
         /\ \A ch \in Channels \ rm[c].shards : c \notin subs[ch]
    /\ pc[c] = "gone" => \A ch \in Channels : c \notin subs[ch]

\* A subscription is dropped from the hub by its reader only after the reader
\* has forgotten it.
Routed ==
  \A c \in Conns :
    /\ pc[c] # "leave" => leaving[c] = {}
    /\ pc[c] \in {"live", "leave"} =>
         /\ mine[c] \cap leaving[c] = {}
         /\ c \in conns => \A ch \in mine[c] : c \in subs[ch]

IInv ==
  /\ Unborn /\ OneRemoverFinds /\ OwnRemoval /\ Routed
  /\ UsersIndexAgrees /\ SlowCloseOnce /\ DroppedIsTold
=============================================================================
