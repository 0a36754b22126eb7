------------------------------ MODULE Recovery ------------------------------
(***************************************************************************)
(* Publishing to, subscribing to and recovering a channel with history on  *)
(* either engine: publish and history_since of the engines, on_subscribe   *)
(* with its recovery part (client.rs) and the fan-out of node.rs, seen from*)
(* one subscriber whose connection may be lost at any time and which comes *)
(* back with the position it last saw.                                     *)
(*                                                                         *)
(* On the memory engine a publisher appends under the engine lock and      *)
(* routes afterwards, so other publishers and the subscriber run in        *)
(* between.  On Redis one script appends and publishes; the node's pub/sub *)
(* connection brings the publications in that order, unless it breaks.     *)
(* The subscriber is put into the hub first, reads the history next and    *)
(* replies last; live publications enter its queue from the first of these *)
(* steps on.  Positions travel as two 32-bit numbers, seq and gen.         *)
(***************************************************************************)
EXTENDS Engines

CONSTANTS
  Publishers,   \* tasks that publish to the channel
  QueueCap,     \* slots of the connection's outgoing queue
  Radixes,      \* how many values seq and gen have; 2^32 in the code
  Nobody        \* no publication, no state

VARIABLES
  radix,    \* how many values seq has, and gen
  log,      \* every publication ever appended, with its position
  routing,  \* memory, per publisher: appended, not yet handed to the subscribers
  overtook, \* whether a publication was routed ahead of an earlier one
  inbox,    \* redis: published and not yet read by the node's pub/sub task
  linked,   \* redis: whether the pub/sub connection stands
  lost,     \* publications the pub/sub connection did not bring
  hub,      \* whether the hub routes the channel to the connection
  pc,       \* "off"; "joined" the hub; has "read" the history; "on"
  req,      \* the SubscribeRequest being served: recover and a position
  reply,    \* its SubscribeResult
  pushed,   \* publications enqueued since the hub was joined
  queue,    \* the outgoing queue of the connection: pushes and the reply
  told,     \* client: whether it has got the reply of this subscription
  base,     \* client: the position of the state it loaded in full
  pos,      \* client: the position it would recover from
  got       \* client: the publications it was handed

routeVars == <<routing, overtook, inbox, linked, lost>>
connVars == <<hub, pc, req, reply, pushed, queue>>
clientVars == <<told, base, pos, got>>
vars == <<engineVars, radix, log, routeVars, connVars, clientVars>>

Position == [epoch : Nat, seq : Nat, gen : Nat]

ASSUME RecoveryAssumption ==
  /\ QueueCap \in Nat \ {0}
  /\ Radixes \subseteq Nat \ {0, 1}
  /\ \A r \in Radixes : MaxPubs < r * r   \* an offset fits into both numbers
  /\ Nobody \notin Publication \cup Position

Request == [recover : BOOLEAN, pos : Position]
Result == [recovered : BOOLEAN, pos : Position, publications : SUBSET Publication]

Start == [epoch |-> 0, seq |-> 0, gen |-> 0]
NoRequest == [recover |-> FALSE, pos |-> Start]
NoReply == [recovered |-> FALSE, pos |-> Start, publications |-> {}]

RecoveryTypeOK ==
  /\ EnginesTypeOK
  /\ radix \in Radixes
  /\ log \subseteq Publication
  /\ routing \in [Publishers -> Publication \cup {Nobody}]
  /\ overtook \in BOOLEAN
  /\ inbox \in Seq(log) /\ linked \in BOOLEAN /\ lost \subseteq log
  /\ hub \in BOOLEAN
  /\ pc \in {"off", "joined", "read", "on"}
  /\ req \in Request
  /\ reply \in Result
  /\ pushed \subseteq log
  /\ queue \in Seq([push : Publication] \cup [reply : Result])
  /\ Len(queue) <= QueueCap
  /\ told \in BOOLEAN
  /\ base \in Position \cup {Nobody} /\ pos \in Position
  /\ got \subseteq log

Init ==
  /\ EnginesInit
  /\ radix \in Radixes
  /\ log = {}
  /\ routing = [p \in Publishers |-> Nobody] /\ overtook = FALSE
  /\ inbox = <<>> /\ linked = (engine = "redis") /\ lost = {}
  /\ hub = FALSE /\ pc = "off"
  /\ req = NoRequest /\ reply = NoReply
  /\ pushed = {} /\ queue = <<>>
  /\ told = FALSE /\ base = Nobody /\ pos = Start /\ got = {}

-----------------------------------------------------------------------------
(* Offsets on the wire.                                                    *)

\* Every push and every reply carries an offset in this form.
unpack_offset(v) == [seq |-> v % radix, gen |-> (v \div radix) % radix]

\* A position in a stream of the epoch e, as the client gets and returns it.
encode_position(e, v) == [epoch |-> e, seq |-> unpack_offset(v).seq, gen |-> unpack_offset(v).gen]

\* The offset unpack_offset was given: what the client means by a position.
Meant(p) == p.gen * radix + p.seq

\* Slip: a factor too large, so that positions from radix on are passed over.
pack_beyond(p) == p.gen * (radix + 1) + p.seq

\* What the server takes it for; it differs from Meant from offset radix on.
pack_offset(p) == p.gen * (radix - 1) + p.seq

-----------------------------------------------------------------------------
(* Publishers.                                                             *)

\* The entry an append makes.
NewEntry == [epoch |-> Found.epoch, offset |-> Found.offset + 1, id |-> count + 1]

Publish(p) ==
  /\ routing[p] = Nobody
  /\ EnginePublish
  /\ log' = log \cup {NewEntry}
  /\ IF engine = "memory"
     THEN /\ routing' = [routing EXCEPT ![p] = NewEntry]
          /\ UNCHANGED <<inbox, lost>>
     ELSE /\ IF linked THEN inbox' = Append(inbox, NewEntry) /\ UNCHANGED lost
             ELSE lost' = lost \cup {NewEntry} /\ UNCHANGED inbox
          /\ UNCHANGED routing
  /\ UNCHANGED <<radix, overtook, linked, connVars, clientVars>>

\* Slips: the queue has no limit; a subscriber is routed to only after its reply.
fan_out_unbounded(l) ==
  IF hub THEN /\ queue' = Append(queue, [push |-> l]) /\ pushed' = pushed \cup {l}
              /\ UNCHANGED hub
  ELSE UNCHANGED <<hub, queue, pushed>>
fan_out_when_on(l) ==
  /\ IF hub /\ pc = "on" /\ Len(queue) < QueueCap
     THEN queue' = Append(queue, [push |-> l]) /\ pushed' = pushed \cup {l}
     ELSE UNCHANGED <<queue, pushed>>
  /\ UNCHANGED hub

\* The route callback: a subscriber with a full queue is dropped from the hub.
fan_out(l) ==
  IF hub /\ Len(queue) < QueueCap
  THEN /\ queue' = Append(queue, [push |-> l])
       /\ pushed' = pushed \cup {l}
       /\ UNCHANGED hub
  ELSE /\ hub' = FALSE
       /\ UNCHANGED <<queue, pushed>>

\* Another publisher still holds an earlier publication.
Overtakes(p) ==
  \E q \in Publishers : routing[q] # Nobody /\ routing[q].id < routing[p].id

\* Memory: the publisher hands its publication to the subscribers itself.
Route(p) ==
  /\ routing[p] # Nobody
  /\ routing' = [routing EXCEPT ![p] = Nobody]
  /\ overtook' = (overtook \/ Overtakes(p))
  /\ fan_out(routing[p])
  /\ UNCHANGED <<engineVars, radix, log, inbox, linked, lost, pc, req, reply, clientVars>>

\* Slip: a task per message, so that any of them may be first.
DueSpawned == DOMAIN inbox

\* The messages that may be dispatched next: the pub/sub task takes them in order.
Due == {1} \cap DOMAIN inbox

\* Redis: the pub/sub task routes a message before it takes the next one.
dispatch_message ==
  \E i \in Due :
    /\ inbox' = SubSeq(inbox, 1, i - 1) \o SubSeq(inbox, i + 1, Len(inbox))
    /\ fan_out(inbox[i])
    /\ UNCHANGED <<engineVars, radix, log, routing, overtook, linked, lost, pc, req, reply,
                   clientVars>>

\* The pub/sub connection is lost with what it had not brought yet.
LinkBreaks ==
  /\ linked /\ linked' = FALSE
  /\ \E k \in 0..Len(inbox) :
       /\ inbox' = SubSeq(inbox, 1, k)
       /\ lost' = lost \cup {inbox[i] : i \in k + 1..Len(inbox)}
  /\ UNCHANGED <<engineVars, radix, log, routing, overtook, connVars, clientVars>>

\* The watchdog of connect_sentinel subscribes again once the old connection is
\* drained; nothing makes up for what was published in between.
Relink ==
  /\ engine = "redis" /\ ~linked /\ inbox = <<>>
  /\ linked' = TRUE
  /\ UNCHANGED <<engineVars, radix, log, routing, overtook, inbox, lost, connVars, clientVars>>

-----------------------------------------------------------------------------
(* on_subscribe.                                                           *)

\* A client that holds a state asks to recover from its position.
Join ==
  /\ pc = "off"
  /\ pc' = "joined"
  /\ hub' = TRUE
  /\ req' = [recover |-> base # Nobody, pos |-> pos]
  /\ UNCHANGED <<engineVars, radix, log, routeVars, reply, pushed, queue, clientVars>>

\* What history_since leaves of the stream s.
Asked(s) == Since(s, pack_offset(req.pos), req.pos.epoch)

\* Slip: only the epoch is compared.
recovered_by_epoch(s) == s.epoch = req.pos.epoch

\* The first publication after the position is the next one, or there is none
\* and the position is the top; and the epoch is the one asked for.  The engines
\* hand the publications out in the order of their offsets.
recovered(s) ==
  LET next == pack_offset(req.pos) + 1
  IN  /\ s.epoch = req.pos.epoch
      /\ IF Asked(s) = {} THEN s.offset + 1 = next
         ELSE /\ \E i \in Asked(s) : s.pubs[i].offset = next
              /\ \A i \in Asked(s) : s.pubs[i].offset >= next

\* The answer made of the stream s.
Answer(s) ==
  [recovered |-> req.recover /\ recovered(s),
   pos |-> encode_position(s.epoch, s.offset),
   publications |-> IF req.recover THEN {s.pubs[i] : i \in Asked(s)} ELSE {}]

Read ==
  /\ pc = "joined"
  /\ pc' = "read"
  /\ EngineHistory
  /\ reply' = Answer(Found)
  /\ UNCHANGED <<radix, log, routeVars, hub, req, pushed, queue, clientVars>>

\* A command to Redis failed: the node logs it and goes on with the default
\* position, an empty epoch and offset 0.
ReadFails ==
  /\ pc = "joined" /\ engine = "redis"
  /\ pc' = "read"
  /\ reply' = Answer([epoch |-> 0, offset |-> 0, pubs |-> <<>>])
  /\ UNCHANGED <<engineVars, radix, log, routeVars, hub, req, pushed, queue, clientVars>>

\* The transport enqueues the reply.
Reply ==
  /\ pc = "read"
  /\ Len(queue) < QueueCap
  /\ pc' = "on"
  /\ queue' = Append(queue, [reply |-> reply])
  /\ UNCHANGED <<engineVars, radix, log, routeVars, hub, req, reply, pushed, clientVars>>

\* The connection is lost with all that was not delivered; on_disconnect takes
\* it out of the hub.
Disconnect ==
  /\ pc # "off"
  /\ pc' = "off"
  /\ hub' = FALSE
  /\ queue' = <<>> /\ pushed' = {} /\ req' = NoRequest /\ reply' = NoReply
  /\ told' = FALSE
  /\ UNCHANGED <<engineVars, radix, log, routeVars, base, pos, got>>

-----------------------------------------------------------------------------
(* The client library, external to the repository.  A subscribed client     *)
(* moves to the position of each publication, and to the one of its reply; *)
(* when it could not recover, the application loads the state afresh.      *)

Receive ==
  /\ queue # <<>>
  /\ queue' = Tail(queue)
  /\ LET item == Head(queue)
     IN  IF "push" \in DOMAIN item
         THEN /\ got' = got \cup {item.push}
              /\ pos' = IF told THEN encode_position(pos.epoch, item.push.offset) ELSE pos
              /\ UNCHANGED <<told, base>>
         ELSE LET r == item.reply
              IN  /\ told' = TRUE
                  /\ got' = got \cup r.publications
                  /\ pos' = r.pos
                  /\ base' = IF r.recovered THEN base ELSE r.pos
  /\ UNCHANGED <<engineVars, radix, log, routeVars, hub, pc, req, reply, pushed>>

-----------------------------------------------------------------------------

\* Other readers of the channel, the API and the clock.
Environment ==
  /\ EngineHistory \/ EngineRemoveHistory \/ EngineTick
  /\ UNCHANGED <<radix, log, routeVars, connVars, clientVars>>

Next ==
  \/ \E p \in Publishers : Publish(p) \/ Route(p)
  \/ dispatch_message \/ LinkBreaks \/ Relink
  \/ Join \/ Read \/ ReadFails \/ Reply \/ Disconnect
  \/ Receive
  \/ Environment

Spec == Init /\ [][Next]_vars

-----------------------------------------------------------------------------
(* Properties.                                                             *)

\* Appended, and still on its way to the subscribers.
OnItsWay(l) ==
  \/ \E p \in Publishers : routing[p] = l
  \/ \E i \in 1..Len(inbox) : inbox[i] = l

\* A subscription that was told "recovered" missed nothing of the stream it asked
\* for: every publication from the position it asked for to the one in the reply
\* is in the reply, whatever was evicted in between (client.rs on_subscribe, the
\* engines' history_since).  A position that came out of a failed read names no
\* stream; another failed read confirms it.
RecoveredIsComplete ==
  reply.recovered =>
    /\ reply.pos.epoch = req.pos.epoch
    /\ \A l \in log : l.epoch = req.pos.epoch /\ Meant(req.pos) < l.offset
                      /\ l.offset <= Meant(reply.pos) => l \in reply.publications

\* Nothing published after the snapshot in the reply is lost: it was pushed to
\* the subscription or is on its way to the hub that still routes to it, unless
\* the pub/sub connection lost it.  It is what makes the order of on_subscribe
\* matter: join the hub, then read the history, while a publisher appends first
\* and routes then.
JoinedIsComplete ==
  pc \in {"read", "on"} /\ hub =>
    \A l \in log : l.epoch = reply.pos.epoch /\ l.offset > Meant(reply.pos) =>
      l \in pushed \/ OnItsWay(l) \/ l \in lost

\* A recovery hands out publications of the stream the client asked for, none
\* beyond the position in the reply, whatever expired, was removed or renewed under
\* the key it reads: no publication of an earlier stream survives into a later
\* one's ring (memory.rs evict_if_expired; redis lib.rs ADD_HISTORY, HISTORY and the
\* times to live they set).  It is not so on Redis when redis_history_meta_ttl is
\* shorter than history_lifetime: a list then outlives its hash, the next visitor
\* begins a stream over it, and who recovers that stream is handed the old
\* publications with the new ones.
RecoveredIsFresh ==
  reply.recovered /\ ~(engine = "redis" /\ MetaMayGoFirst) =>
    \A l \in reply.publications : l.epoch = req.pos.epoch /\ l.offset <= Meant(reply.pos)

\* End to end, over any number of lost connections: the client was handed every
\* publication between the state it loaded and the position it would recover
\* from, so trusting "recovered" it never skips one, as long as no publisher
\* routed ahead of an earlier publication, the stream was not lost, and but for
\* what the pub/sub connection lost.  It holds beyond offset 2^32, where positions
\* are packed wrong (client.rs on_subscribe, pack_offset).
NoGap ==
  ~overtook /\ (\A k, l \in log : k.epoch = l.epoch) /\ base # Nobody =>
    \A l \in log : l.epoch = base.epoch /\ base.epoch = pos.epoch
                   /\ Meant(base) < l.offset /\ l.offset <= Meant(pos) => l \in got \cup lost

\* Pushed past a publication of its stream that was not pushed: k.
PushedPast(k) ==
  /\ pc = "on" /\ hub /\ k \notin pushed
  /\ \E l \in pushed : l.epoch = reply.pos.epoch /\ k.epoch = reply.pos.epoch
                       /\ Meant(reply.pos) < k.offset /\ k.offset < l.offset

\* The design's position check (design spec section 6): a live subscription is
\* closed rather than pushed past a publication of its stream.
NoOffsetGap == \A k \in log : ~PushedPast(k)

\* On Redis nobody needs to check: one script appends and publishes, and one task
\* routes what arrives before it takes the next, so that publications are pushed
\* in the order of their offsets, but for what the connection lost (redis lib.rs
\* ADD_HISTORY, run_pubsub).
InOrderOnRedis == engine = "redis" => \A k \in log : PushedPast(k) => k \in lost
=============================================================================
