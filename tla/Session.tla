------------------------------ MODULE Session ------------------------------
(***************************************************************************)
(* One connection seen from its reader task: the session state machine of  *)
(* centrifugo-core/src/client.rs and the loop that drives it in ws.rs      *)
(* (sockjs.rs runs the same loop).  A frame is a batch of commands; their  *)
(* replies go out as one frame, then the deferred Joins are published,     *)
(* then a Close if a command asked for one.  Between frames the reader     *)
(* takes control signals of the API and checks expiries on a timer.        *)
(*                                                                         *)
(* A handler is one step: the state it reads and writes belongs to the     *)
(* reader alone, except for the hub, where the fan-out may drop the        *)
(* connection (module Hub has those steps).  What a frame contains, what a *)
(* token or a proxy says and which check fails first are inputs.  Channel  *)
(* options do not change while the node runs, so the ones captured in      *)
(* SubState are the current ones.                                          *)
(***************************************************************************)
EXTENDS Integers, Sequences, FiniteSets

CONSTANTS
  Channels,
  Known,        \* channels of a configured namespace
  PresenceOn,   \* channels with the presence option
  JoinLeave,    \* channels with the join_leave option
  ServerOnly,   \* channels with the server_side option
  Private,      \* channels that need a subscription token
  Users,
  Anonymous,    \* the empty user
  TokenChannels,\* the server-side channel lists credentials may carry
  RefreshProxy, \* whether a refresh proxy is configured
  ChannelLimit, \* client_channel_limit, 0 = none
  Grace,        \* ClientExpired(Sub)CloseDelay
  Period,       \* EXPIRY_CHECK_INTERVAL
  Lookahead,    \* the presence ping interval
  TTLs,         \* lifetimes tokens are issued for, in seconds
  CtrlQueue,    \* capacity of the reader's control queue
  MaxBatch,     \* bound: commands in a frame
  MaxNow        \* bound: the clock stops here

ASSUME SessionAssumption ==
  /\ Known \subseteq Channels /\ PresenceOn \subseteq Known /\ JoinLeave \subseteq Known
  /\ ServerOnly \subseteq Known /\ Private \subseteq Channels
  /\ Anonymous \in Users
  /\ TokenChannels \subseteq Seq(Channels)
  /\ RefreshProxy \in BOOLEAN
  /\ ChannelLimit \in Nat
  /\ Grace \in Nat /\ Period \in Nat \ {0} /\ Lookahead \in Nat
  /\ TTLs \subseteq Nat \ {0}
  /\ CtrlQueue \in Nat \ {0} /\ MaxBatch \in Nat /\ MaxNow \in Nat

VARIABLES
  authenticated, user,
  expireAt,     \* token expiry, 0 = none
  subs,         \* the channels of Client.subscriptions
  serverSubs,   \* those subscribed server-side
  subExpire,    \* expiry of each subscription token, 0 = none
  pendingJoins, \* channels whose Join is deferred
  pc,           \* where the reader is
  handled,      \* commands of the current batch handled
  replies,      \* replies of the current batch: the channels each one subscribes
  disconnect,   \* the code of the Close to enqueue, 0 = none
  registered,   \* whether the hub has the handle
  indexedAs,    \* the user the hub registered the connection under
  routed,       \* the channels the hub routes to the connection
  presence,     \* the channels whose presence names the connection
  seen,         \* the last event other subscribers saw of it, per channel
  order,        \* replies and own Joins of the current frame put on the queue
  writer,       \* whether the writer task still holds the receiver
  ctrl,         \* the control queue
  now,          \* unix seconds
  nextCheck     \* the next tick of the expiry timer

identity == <<authenticated, user, expireAt>>
subscriptions == <<subs, serverSubs, subExpire>>
batch == <<handled, replies, disconnect>>
node == <<registered, indexedAs, routed, presence>>
wire == <<seen, order, writer>>
outside == <<ctrl, now, nextCheck>>
vars == <<identity, subscriptions, pendingJoins, pc, batch, node, wire, outside>>

\* Disconnect codes, and the number standing for a proxy's own.
InvalidToken == 3002
BadRequest == 3003
ServerError == 3004
ExpiredCode == 3005
SubExpired == 3006
Forced == 3012
ConnectionLimit == 3013
ProxyCode == 4000
Codes == {InvalidToken, BadRequest, ServerError, ExpiredCode, SubExpired, Forced,
          ConnectionLimit, ProxyCode}

AllChannels == "all"
Signals == [unsubscribe : Channels \cup {AllChannels}] \cup [disconnect : {Forced}]
Item == [reply : SUBSET Channels] \cup [join : Channels]

SessionTypeOK ==
  /\ authenticated \in BOOLEAN /\ user \in Users
  /\ expireAt \in Nat /\ subExpire \in [Channels -> Nat]
  /\ subs \subseteq Channels /\ serverSubs \subseteq subs
  /\ pendingJoins \in Seq(Channels)
  /\ pc \in {"idle", "batch", "flush", "joins", "close", "leaving", "gone"}
  /\ handled \in 0..MaxBatch /\ replies \in Seq(SUBSET Channels)
  /\ disconnect \in Codes \cup {0}
  /\ registered \in BOOLEAN /\ indexedAs \in Users
  /\ routed \subseteq Channels /\ presence \subseteq Channels
  /\ seen \in [Channels -> {"nothing", "join", "leave"}]
  /\ order \in Seq(Item) /\ writer \in BOOLEAN
  /\ ctrl \in Seq(Signals) /\ Len(ctrl) <= CtrlQueue
  /\ now \in Nat \ {0} /\ nextCheck \in Nat

Init ==
  /\ authenticated = FALSE /\ user = Anonymous /\ expireAt = 0
  /\ subs = {} /\ serverSubs = {} /\ subExpire = [ch \in Channels |-> 0]
  /\ pendingJoins = <<>>
  /\ pc = "idle" /\ handled = 0 /\ replies = <<>> /\ disconnect = 0
  /\ registered = FALSE /\ indexedAs = Anonymous
  /\ routed = {} /\ presence = {}
  /\ seen = [ch \in Channels |-> "nothing"] /\ order = <<>> /\ writer = TRUE
  /\ ctrl = <<>>
  /\ now = 1 /\ nextCheck = 1 + Period

-----------------------------------------------------------------------------
(* Commands.                                                               *)

\* A reply that subscribes the channels chs; errors subscribe none.
Answer(chs) == replies' = Append(replies, chs) /\ UNCHANGED disconnect
Refuse == Answer({})
Drop(code) == disconnect' = code /\ UNCHANGED replies

\* The dispatcher hands over the next command of the batch.
Handling ==
  /\ pc = "batch" /\ disconnect = 0 /\ handled < MaxBatch
  /\ handled' = handled + 1
  /\ UNCHANGED <<pc, wire, outside>>

\* A command before CONNECT, without an id or with malformed params.
BadCommand ==
  /\ Handling
  /\ Drop(BadRequest)
  /\ UNCHANGED <<identity, subscriptions, pendingJoins, node>>

\* The expiries a token verified now may carry: it is not expired yet.
Expiries == {0} \cup {now + t : t \in TTLs}

\* What a verified token or a connect proxy says.
Credentials == [user : Users, expireAt : Expiries, channels : TokenChannels]

ToSet(s) == {s[i] : i \in 1..Len(s)}

connect_rejected ==
  /\ Handling
  /\ \/ authenticated /\ Drop(BadRequest)
     \/ ~authenticated /\ \/ Refuse
                          \/ \E code \in {InvalidToken, BadRequest, ProxyCode} : Drop(code)
  /\ UNCHANGED <<identity, subscriptions, pendingJoins, node>>

\* The identity is taken over before the connection limit is looked at.
connect_over_limit ==
  /\ Handling /\ ~authenticated
  /\ \E c \in Credentials :
       /\ c.user # Anonymous /\ ToSet(c.channels) \subseteq Known
       /\ authenticated' = TRUE /\ user' = c.user /\ expireAt' = c.expireAt
  /\ Drop(ConnectionLimit)
  /\ UNCHANGED <<subscriptions, pendingJoins, node>>

\* The channels of a list whose Join is deferred, in its order.
Deferred(s) ==
  LET upTo[i \in 0..Len(s)] ==
        IF i = 0 THEN <<>>
        ELSE IF s[i] \in JoinLeave THEN Append(upTo[i - 1], s[i]) ELSE upTo[i - 1]
  IN  upTo[Len(s)]

\* A channel listed twice is subscribed once and joined twice.
connect_ok ==
  /\ Handling /\ ~authenticated
  /\ \E c \in Credentials :
       LET chs == ToSet(c.channels)
       IN  /\ chs \subseteq Known
           /\ authenticated' = TRUE /\ user' = c.user /\ expireAt' = c.expireAt
           /\ registered' = TRUE /\ indexedAs' = c.user
           /\ subs' = chs /\ serverSubs' = chs /\ UNCHANGED subExpire
           /\ routed' = chs
           /\ presence' = chs \cap PresenceOn
           /\ pendingJoins' = Deferred(c.channels)
           /\ Answer(chs)

\* Slip: the limit is compared with > instead of >=.
LimitReachedLate == ChannelLimit > 0 /\ Cardinality(subs) > ChannelLimit

LimitReached == ChannelLimit > 0 /\ Cardinality(subs) >= ChannelLimit

\* Limit, already subscribed, unknown channel, permission, token or proxy.
subscribe_rejected ==
  /\ Handling /\ authenticated
  /\ \/ Refuse \/ Drop(ProxyCode)
  /\ UNCHANGED <<identity, subscriptions, pendingJoins, node>>

on_subscribe(ch) ==
  /\ Handling /\ authenticated
  /\ ~LimitReached /\ ch \notin subs
  /\ ch \in Known \ ServerOnly
  /\ subs' = subs \cup {ch} /\ UNCHANGED serverSubs
  /\ \E e \in IF ch \in Private THEN Expiries ELSE {0} :
       subExpire' = [subExpire EXCEPT ![ch] = e]
  /\ routed' = routed \cup {ch}
  /\ presence' = IF ch \in PresenceOn THEN presence \cup {ch} ELSE presence
  /\ pendingJoins' = IF ch \in JoinLeave THEN Append(pendingJoins, ch) ELSE pendingJoins
  /\ Answer({ch})
  /\ UNCHANGED <<identity, registered, indexedAs>>

\* Slips: the Leave, or the presence entry, is forgotten.
LeaveUnseen(ch) ==
  /\ subs' = subs \ {ch} /\ serverSubs' = serverSubs \ {ch}
  /\ subExpire' = [subExpire EXCEPT ![ch] = 0]
  /\ presence' = presence \ {ch} /\ routed' = routed \ {ch}
  /\ UNCHANGED <<seen, registered, indexedAs>>
LeavePresent(ch) ==
  /\ subs' = subs \ {ch} /\ serverSubs' = serverSubs \ {ch}
  /\ subExpire' = [subExpire EXCEPT ![ch] = 0]
  /\ seen' = IF ch \in JoinLeave THEN [seen EXCEPT ![ch] = "leave"] ELSE seen
  /\ routed' = routed \ {ch}
  /\ UNCHANGED <<presence, registered, indexedAs>>

\* Presence is removed and Leave published before the hub forgets the channel.
unsubscribe_channel(ch) ==
  /\ subs' = subs \ {ch} /\ serverSubs' = serverSubs \ {ch}
  /\ subExpire' = [subExpire EXCEPT ![ch] = 0]
  /\ presence' = presence \ {ch} /\ routed' = routed \ {ch}
  /\ seen' = IF ch \in JoinLeave THEN [seen EXCEPT ![ch] = "leave"] ELSE seen
  /\ UNCHANGED <<registered, indexedAs>>

\* Not a Handling step: it publishes.
on_unsubscribe(ch) ==
  /\ pc = "batch" /\ disconnect = 0 /\ handled < MaxBatch /\ authenticated
  /\ handled' = handled + 1
  /\ IF ch \in subs THEN unsubscribe_channel(ch) ELSE UNCHANGED <<subscriptions, node, seen>>
  /\ Refuse
  /\ UNCHANGED <<identity, pendingJoins, pc, order, writer, outside>>

\* A token of another user switches the session, but not the hub's index.
on_refresh ==
  /\ Handling /\ authenticated
  /\ \/ RefreshProxy /\ Drop(BadRequest) /\ UNCHANGED identity
     \/ /\ ~RefreshProxy
        /\ \/ \E code \in {ExpiredCode, InvalidToken} : Drop(code) /\ UNCHANGED identity
           \/ \E c \in Credentials :
                /\ user' = IF c.user # Anonymous THEN c.user ELSE user
                /\ expireAt' = c.expireAt
                /\ Refuse /\ UNCHANGED authenticated
  /\ UNCHANGED <<subscriptions, pendingJoins, node>>

\* An expired token is answered with success and clears the expiry.
on_sub_refresh(ch) ==
  /\ Handling /\ authenticated
  /\ \/ ch \in serverSubs /\ Drop(BadRequest) /\ UNCHANGED subscriptions
     \/ ch \notin subs /\ Refuse /\ UNCHANGED subscriptions
     \/ /\ ch \in subs \ serverSubs
        /\ \/ Drop(InvalidToken) /\ UNCHANGED subscriptions
           \/ Refuse /\ UNCHANGED subscriptions
           \/ /\ \E e \in Expiries : subExpire' = [subExpire EXCEPT ![ch] = e]
              /\ Refuse /\ UNCHANGED <<subs, serverSubs>>
  /\ UNCHANGED <<identity, pendingJoins, node>>

\* PING, PUBLISH, PRESENCE, PRESENCE_STATS, HISTORY, RPC and unknown methods
\* leave the session as it is: one reply, or the Close a proxy asked for.
query ==
  /\ Handling /\ authenticated
  /\ Refuse \/ Drop(ProxyCode)
  /\ UNCHANGED <<identity, subscriptions, pendingJoins, node>>

-----------------------------------------------------------------------------
(* The read loop.                                                          *)

Frame ==
  /\ pc = "idle"
  /\ pc' = "batch"
  /\ UNCHANGED <<identity, subscriptions, pendingJoins, batch, node, wire, outside>>

\* The client is gone.
StreamEnds ==
  /\ pc = "idle"
  /\ pc' = "leaving"
  /\ UNCHANGED <<identity, subscriptions, pendingJoins, batch, node, wire, outside>>

\* An empty or undecodable frame.
BadFrame ==
  /\ pc = "idle"
  /\ pc' = "close" /\ disconnect' = BadRequest
  /\ UNCHANGED <<identity, subscriptions, pendingJoins, handled, replies, node, wire, outside>>

BatchDone ==
  /\ pc = "batch"
  /\ pc' = "flush"
  /\ UNCHANGED <<identity, subscriptions, pendingJoins, batch, node, wire, outside>>

Subscribed(rs) == UNION {rs[i] : i \in 1..Len(rs)}

\* The replies go out as one frame; without a receiver the loop is left, and
\* the deferred Joins with it.
Flush ==
  /\ pc = "flush"
  /\ IF replies # <<>> /\ ~writer
     THEN pc' = "leaving" /\ UNCHANGED order
     ELSE /\ pc' = "joins"
          /\ order' = IF replies = <<>> THEN order
                      ELSE Append(order, [reply |-> Subscribed(replies)])
  /\ handled' = 0 /\ replies' = <<>>
  /\ UNCHANGED <<identity, subscriptions, pendingJoins, disconnect, node, seen, writer, outside>>

\* Slip: the Joins come before the replies.
JoinsFirst ==
  /\ pc \in {"flush", "joins"} /\ pendingJoins # <<>>
  /\ LET ch == Head(pendingJoins)
     IN  /\ seen' = [seen EXCEPT ![ch] = "join"]
         /\ order' = IF registered /\ ch \in routed THEN Append(order, [join |-> ch]) ELSE order
  /\ pendingJoins' = Tail(pendingJoins)
  /\ UNCHANGED <<identity, subscriptions, pc, batch, node, writer, outside>>

flush_pending_joins ==
  /\ pc = "joins" /\ pendingJoins # <<>>
  /\ LET ch == Head(pendingJoins)
     IN  /\ seen' = [seen EXCEPT ![ch] = "join"]
         /\ order' = IF registered /\ ch \in routed THEN Append(order, [join |-> ch]) ELSE order
  /\ pendingJoins' = Tail(pendingJoins)
  /\ UNCHANGED <<identity, subscriptions, pc, batch, node, writer, outside>>

JoinsDone ==
  /\ pc = "joins" /\ pendingJoins = <<>>
  /\ pc' = IF disconnect = 0 THEN "idle" ELSE "close"
  /\ order' = <<>>
  /\ UNCHANGED <<identity, subscriptions, pendingJoins, batch, node, seen, writer, outside>>

\* The Close is enqueued, or nobody is there to take it.
Close ==
  /\ pc = "close"
  /\ pc' = "leaving"
  /\ UNCHANGED <<identity, subscriptions, pendingJoins, batch, node, wire, outside>>

-----------------------------------------------------------------------------
(* The timer.                                                              *)

Lapsed(e) == e > 0 /\ now > e + Grace

\* Slip: only the connection's own token is looked at.
check_connection_only(e) == IF authenticated /\ Lapsed(e) THEN ExpiredCode ELSE 0

check_expired(e) ==
  IF ~authenticated THEN 0
  ELSE IF Lapsed(e) THEN ExpiredCode
  ELSE IF \E ch \in subs : Lapsed(subExpire[ch]) THEN SubExpired ELSE 0

RefreshDue ==
  RefreshProxy /\ authenticated /\ expireAt > 0 /\ expireAt - now <= Lookahead

\* proactive_refresh, then check_expired.
ExpiryTick ==
  /\ pc = "idle" /\ now >= nextCheck
  /\ nextCheck' = nextCheck + Period
  /\ \/ /\ RefreshDue
        /\ \E code \in {ExpiredCode, ProxyCode, ServerError} : disconnect' = code
        /\ UNCHANGED expireAt
     \/ \E e \in IF RefreshDue THEN {now + t : t \in TTLs} ELSE {expireAt} :
          /\ expireAt' = e
          /\ disconnect' = check_expired(e)
  /\ pc' = IF disconnect' = 0 THEN "idle" ELSE "close"
  /\ UNCHANGED <<authenticated, user, subscriptions, pendingJoins, handled, replies, node, wire,
                 ctrl, now>>

\* refresh_presence re-asserts every entry; TTLs are the engine's business.
PresenceTick ==
  /\ pc = "idle" /\ authenticated
  /\ presence' = presence \cup (subs \cap PresenceOn)
  /\ UNCHANGED <<identity, subscriptions, pendingJoins, pc, batch, registered, indexedAs, routed,
                 wire, outside>>

-----------------------------------------------------------------------------
(* Control signals.                                                        *)

\* server_unsubscribe; a channel no longer subscribed is passed over.
SignalUnsubscribe ==
  /\ pc = "idle" /\ ctrl # <<>> /\ "unsubscribe" \in DOMAIN Head(ctrl)
  /\ ctrl' = Tail(ctrl)
  /\ LET ch == Head(ctrl).unsubscribe
     IN  IF ch # AllChannels
         THEN IF ch \in subs THEN unsubscribe_channel(ch) ELSE UNCHANGED <<subscriptions, node, seen>>
         ELSE /\ subs' = {} /\ serverSubs' = {} /\ subExpire' = [c \in Channels |-> 0]
              /\ presence' = presence \ subs /\ routed' = routed \ subs
              /\ seen' = [c \in Channels |->
                            IF c \in subs \cap JoinLeave THEN "leave" ELSE seen[c]]
              /\ UNCHANGED <<registered, indexedAs>>
  /\ UNCHANGED <<identity, pendingJoins, pc, batch, order, writer, now, nextCheck>>

\* Slip: the signal is logged and forgotten.
SignalIgnored ==
  /\ pc = "idle" /\ ctrl # <<>> /\ "disconnect" \in DOMAIN Head(ctrl)
  /\ ctrl' = Tail(ctrl)
  /\ UNCHANGED <<identity, subscriptions, pendingJoins, pc, batch, node, wire, now, nextCheck>>

SignalDisconnect ==
  /\ pc = "idle" /\ ctrl # <<>> /\ "disconnect" \in DOMAIN Head(ctrl)
  /\ ctrl' = Tail(ctrl)
  /\ disconnect' = Head(ctrl).disconnect /\ pc' = "close"
  /\ UNCHANGED <<identity, subscriptions, pendingJoins, handled, replies, node, wire, now,
                 nextCheck>>

-----------------------------------------------------------------------------
(* on_disconnect.                                                          *)

DisconnectChannel(ch) ==
  /\ pc = "leaving" /\ ch \in subs
  /\ subs' = subs \ {ch} /\ serverSubs' = serverSubs \ {ch}
  /\ subExpire' = [subExpire EXCEPT ![ch] = 0]
  /\ presence' = presence \ {ch}
  /\ seen' = IF ch \in JoinLeave THEN [seen EXCEPT ![ch] = "leave"] ELSE seen
  /\ UNCHANGED <<identity, pendingJoins, pc, batch, registered, indexedAs, routed, order, writer,
                 outside>>

DisconnectDone ==
  /\ pc = "leaving" /\ subs = {}
  /\ pc' = "gone"
  /\ registered' = FALSE /\ routed' = {}
  /\ UNCHANGED <<identity, subscriptions, pendingJoins, batch, indexedAs, presence, wire, outside>>

-----------------------------------------------------------------------------
(* The rest of the node.                                                   *)

\* apply_control: try_send, a full queue is only logged.
SendSignal(s) ==
  IF pc # "gone" /\ Len(ctrl) < CtrlQueue THEN ctrl' = Append(ctrl, s) ELSE UNCHANGED ctrl

\* The API acts on the connections the hub has indexed under the user.
UnsubscribeUser(u, ch) ==
  /\ registered /\ indexedAs = u
  /\ SendSignal([unsubscribe |-> ch])
  /\ UNCHANGED <<identity, subscriptions, pendingJoins, pc, batch, node, wire, now, nextCheck>>

DisconnectUser(u) ==
  /\ registered /\ indexedAs = u
  /\ SendSignal([disconnect |-> Forced])
  /\ UNCHANGED <<identity, subscriptions, pendingJoins, pc, batch, node, wire, now, nextCheck>>

\* The fan-out drops a slow consumer from the hub.
DroppedAsSlow ==
  /\ registered
  /\ registered' = FALSE /\ routed' = {}
  /\ UNCHANGED <<identity, subscriptions, pendingJoins, pc, batch, indexedAs, presence, wire, outside>>

\* The writer ends: a Close was written or the socket failed.
WriterEnds ==
  /\ writer /\ writer' = FALSE
  /\ UNCHANGED <<identity, subscriptions, pendingJoins, pc, batch, node, seen, order, outside>>

\* The reader serves its timer within the second it is due.
Tick ==
  /\ now < MaxNow /\ (pc = "gone" \/ now < nextCheck)
  /\ now' = now + 1
  /\ UNCHANGED <<identity, subscriptions, pendingJoins, pc, batch, node, wire, ctrl, nextCheck>>

Command ==
  \/ BadCommand \/ connect_rejected \/ connect_over_limit \/ connect_ok
  \/ subscribe_rejected \/ on_refresh \/ query
  \/ \E ch \in Channels : on_subscribe(ch) \/ on_unsubscribe(ch) \/ on_sub_refresh(ch)

\* The steps a reader in the middle of something takes.
Proceed ==
  \/ BatchDone \/ Flush \/ flush_pending_joins \/ JoinsDone \/ Close \/ DisconnectDone
  \/ \E ch \in Channels : DisconnectChannel(ch)

Signal == SignalUnsubscribe \/ SignalDisconnect

Reader ==
  \/ Frame \/ BadFrame \/ StreamEnds
  \/ Command \/ Proceed \/ Signal
  \/ ExpiryTick \/ PresenceTick

Environment ==
  \/ DroppedAsSlow \/ WriterEnds \/ Tick
  \/ \E u \in Users : DisconnectUser(u)
                      \/ \E ch \in Channels \cup {AllChannels} : UnsubscribeUser(u, ch)

Next == Reader \/ Environment

Spec == Init /\ [][Next]_vars

\* The reader runs; select! picks at random among what is ready, so that frames
\* that never stop coming do not keep it from its control queue.
FairSpec == Spec /\ WF_vars(Proceed) /\ SF_vars(Signal)

-----------------------------------------------------------------------------
(* Properties.                                                             *)

\* Whatever the session went through, between frames the hub routes to it what
\* it is subscribed to (or nothing, if it was dropped as slow) and presence
\* names it exactly where its channels say; afterwards nothing is left of it
\* (client.rs on_subscribe, unsubscribe_channel, on_disconnect).
Settled ==
  /\ pc = "idle" => /\ registered => routed = subs
                    /\ presence = subs \cap PresenceOn
  /\ pc = "gone" => ~registered /\ routed = {} /\ presence = {} /\ subs = {}

\* A subscription of the client's own counts against the limit together with
\* the server-side ones: no sequence of (un)subscriptions gets beyond it
\* (client.rs on_subscribe).
LimitHolds ==
  ChannelLimit > 0 /\ subs # serverSubs => Cardinality(subs) <= ChannelLimit

\* A connection or a subscription whose token lapsed does not outlive the grace
\* period by more than one check (client.rs check_expired, proactive_refresh).
LapsedIsClosed ==
  pc = "idle" /\ authenticated =>
    \A e \in {expireAt} \cup {subExpire[ch] : ch \in subs} :
      e > 0 => now <= e + Grace + Period

\* The connection never sees its own Join ahead of the reply that subscribed it
\* (client.rs flush_pending_joins).
ReplyFirst ==
  \A j \in 1..Len(order) : "join" \in DOMAIN order[j] =>
    \E i \in 1..(j - 1) : "reply" \in DOMAIN order[i] /\ order[j].join \in order[i].reply

\* The last event others saw of the connection tells whether it is subscribed,
\* whoever ended the subscription.  It holds for clients that send one command
\* per frame: a frame that subscribes and unsubscribes has its Leave published
\* at once and its deferred Join afterwards (client.rs unsubscribe_channel,
\* flush_pending_joins).
MembersAgree ==
  pc \in {"idle", "gone"} =>
    \A ch \in JoinLeave : (ch \in subs) <=> (seen[ch] = "join")

\* A disconnect the control queue accepted ends the session, as long as its
\* queue takes what the reader sends (checked under FairSpec).
DisconnectTakesEffect ==
  (\E i \in 1..Len(ctrl) : "disconnect" \in DOMAIN ctrl[i]) ~> pc = "gone"

\* What disconnect_user and unsubscribe_user are said to act on: all of the
\* user's connections are found under the user.
AllFound == registered => indexedAs = user
=============================================================================
