------------------------------ MODULE Members ------------------------------
(***************************************************************************)
(* What the nodes of a cluster tell each other on the control channel:     *)
(* NODE pings, which feed every node's registry, and the requests of       *)
(* unsubscribe_user and disconnect_user (centrifugo-core/src/node.rs).     *)
(*                                                                         *)
(* Time passes in units.  One task of a node looks at both timers and      *)
(* waits for Redis to answer each ping, without a limit; while it does,    *)
(* their ticks pile up.  Messages may be read late.  Ages stop where       *)
(* nobody tells them apart any more, so that time has no end.              *)
(***************************************************************************)
EXTENDS Links

CONSTANTS
  PingEvery,    \* NODE ping interval (3 s)
  CleanEvery,   \* pruning interval (9 s)
  MaxAge,       \* age up to which a node is kept (7 s)
  MaxRequests,  \* bound: requests made
  MaxLate,      \* bound: units a tick waits for the task
  MaxLagging,   \* bound: nodes lagging from one unit to the next
  MaxUnread     \* bound: messages that lie unread from one unit to the next

ASSUME MembersAssumption ==
  /\ PingEvery \in Nat \ {0} /\ CleanEvery \in Nat \ {0}
  /\ MaxAge \in Nat /\ PingEvery <= MaxAge
  /\ MaxRequests \in Nat /\ MaxLate \in Nat /\ MaxUnread \in Nat /\ MaxLagging \in Nat

VARIABLES
  age,        \* the registries: units since a node was seen, or None
  pingIn, cleanIn, \* units to the next tick of both timers; below 0 it is late
  ping,       \* the server a node's PUBLISH of a ping is on its way to, Unanswered
              \* once it is there, None while the task waits for its timers
  pending,    \* the request each node has yet to publish
  asked,      \* requests made so far
  applied,    \* how often each node has applied each request
  \* for the properties:
  sound,      \* units a node's pings and its subscription have worked
  deadFor,    \* units since a node has crashed and the last it sent was read
  due         \* nodes a request was sent to that have not lost their link since

timers == <<pingIn, cleanIn, ping>>
registry == <<age, timers, deadFor>>
requests == <<pending, asked, applied, due>>
memberVars == <<registry, sound, requests>>

Requests == 1..MaxRequests
Message == [from : Nodes, request : 0..MaxRequests]   \* request 0: a NODE ping

Unanswered == 0   \* no server has this number
Least(a, b) == IF a < b THEN a ELSE b
Forgotten == MaxAge + CleanEvery   \* the longest a dead node is listed
Steady == PingEvery + 1            \* units after which both ends have pinged

MembersTypeOK ==
  /\ LinksTypeOK
  /\ inbox \in [Nodes -> Seq(Message)]
  /\ age \in [Nodes -> [Nodes -> 0..(MaxAge + 1) \cup {None}]]
  /\ pingIn \in [Nodes -> -MaxLate..PingEvery] /\ cleanIn \in [Nodes -> -MaxLate..CleanEvery]
  /\ ping \in [Nodes -> Servers \cup {Unanswered, None}]
  /\ pending \in [Nodes -> 0..MaxRequests] /\ asked \in 0..MaxRequests
  /\ applied \in [Nodes -> [Requests -> Nat]] /\ due \in [Requests -> SUBSET Nodes]
  /\ sound \in [Nodes -> 0..Steady] /\ deadFor \in [Nodes -> 0..(Forgotten + 1)]

MembersInit ==
  /\ age = [n \in Nodes |-> [m \in Nodes |-> None]]
  /\ pingIn = [n \in Nodes |-> 0] /\ cleanIn = [n \in Nodes |-> 0]
  /\ ping = [n \in Nodes |-> None]
  /\ pending = [n \in Nodes |-> 0] /\ asked = 0
  /\ applied = [n \in Nodes |-> [r \in Requests |-> 0]]
  /\ due = [r \in Requests |-> {}]
  /\ sound = [n \in Nodes |-> 0] /\ deadFor = [n \in Nodes |-> 0]

-----------------------------------------------------------------------------
(* What a start, a crash, a broken link and a failed master mean here.     *)

Unsound(n) == sound' = [sound EXCEPT ![n] = 0]

\* new_with_engine seeds the registry with the node itself; the intervals of
\* spawn_node_pings tick at once.
Seeded(n) ==
  /\ age' = [age EXCEPT ![n][n] = 0]
  /\ UNCHANGED <<timers, deadFor, sound, requests>>

\* A ping on its way when the process dies may still arrive.
Lost(n) ==
  /\ Unsound(n)
  /\ due' = [r \in Requests |-> due[r] \ {n}]
  /\ pending' = [pending EXCEPT ![n] = 0]
  /\ age' = [age EXCEPT ![n] = [m \in Nodes |-> None]]
  /\ pingIn' = [pingIn EXCEPT ![n] = 0] /\ cleanIn' = [cleanIn EXCEPT ![n] = 0]
  /\ ping' = [ping EXCEPT ![n] = IF @ = Unanswered THEN None ELSE @]
  /\ UNCHANGED <<deadFor, asked, applied>>

Deaf(n) ==
  /\ Unsound(n)
  /\ due' = [r \in Requests |-> IF applied[n][r] = 0 THEN due[r] \ {n} ELSE due[r]]
  /\ UNCHANGED <<registry, pending, asked, applied>>

\* A live node's command may wait for the connection to be made again.
Cut ==
  /\ sound' = [n \in Nodes |-> 0]
  /\ ping' = [n \in Nodes |-> IF status[n] = "dead" THEN None ELSE ping[n]]
  /\ UNCHANGED <<age, pingIn, cleanIn, deadFor, requests>>

-----------------------------------------------------------------------------
(* Control messages.                                                       *)

\* PUBLISH on the control channel of server s.
Broadcast(s, message) ==
  inbox' = [m \in Nodes |-> IF sub[m] = s THEN Append(inbox[m], message) ELSE inbox[m]]

OnlyInbox == UNCHANGED <<master, serving, troubles, status, mgr, sub, watch, target>>

\* unsubscribe_user, disconnect_user: first to the node's own connections...
\* (one call at a time at a node: a bound)
Request(n) ==
  /\ status[n] = "up" /\ asked < MaxRequests /\ pending[n] = 0
  /\ asked' = asked + 1
  /\ applied' = [applied EXCEPT ![n][asked + 1] = @ + 1]
  /\ due' = [due EXCEPT ![asked + 1] = {n}]
  /\ pending' = [pending EXCEPT ![n] = asked + 1]
  /\ UNCHANGED <<linkVars, registry, sound>>

\* ...then to the other nodes; an error is only logged.
publish_control(n) ==
  /\ status[n] = "up" /\ pending[n] # 0
  /\ pending' = [pending EXCEPT ![n] = 0]
  /\ \/ /\ Usable(mgr[n])
        /\ Broadcast(mgr[n], [from |-> n, request |-> pending[n]])
        /\ due' = [due EXCEPT ![pending[n]] = @ \cup {m \in Nodes : sub[m] = mgr[n]}]
     \/ UNCHANGED <<inbox, due>>
  /\ OnlyInbox /\ UNCHANGED <<registry, sound, asked, applied>>

\* apply_control on a decoded message.
Apply(n, message) ==
  IF message.request = 0
  THEN age' = [age EXCEPT ![n][message.from] = 0] /\ UNCHANGED applied
  ELSE applied' = [applied EXCEPT ![n][message.request] = @ + 1] /\ UNCHANGED age

\* The task reads the next message.
Read(n) ==
  /\ status[n] = "up" /\ watch[n] = "listen" /\ inbox[n] # <<>>
  /\ inbox' = [inbox EXCEPT ![n] = Tail(@)]
  /\ OnlyInbox /\ UNCHANGED <<timers, deadFor, sound, pending, asked, due>>

\* Slip: a node takes its own messages like those of others.
dispatch_own(n) == Read(n) /\ Apply(n, Head(inbox[n]))

\* decode_control skips the node's own.
dispatch_message(n) ==
  /\ Read(n)
  /\ IF Head(inbox[n]).from = n THEN UNCHANGED <<age, applied>> ELSE Apply(n, Head(inbox[n]))

-----------------------------------------------------------------------------
(* The registry and its timers.                                            *)

\* The ping timer ticks: the task publishes through the manager of the moment
\* and awaits the answer.  A late tick does not move those after it.
Ping(n) ==
  /\ status[n] = "up" /\ ping[n] = None /\ pingIn[n] <= 0
  /\ pingIn' = [pingIn EXCEPT ![n] = @ + PingEvery]
  /\ ping' = [ping EXCEPT ![n] = mgr[n]]
  /\ UNCHANGED <<linkVars, age, cleanIn, deadFor, sound, requests>>

\* Redis hands the ping on, that of a process that has died since as well.
PingPublished(n) ==
  /\ ping[n] # None /\ Usable(ping[n])
  /\ Broadcast(ping[n], [from |-> n, request |-> 0])
  /\ ping' = [ping EXCEPT ![n] = IF status[n] = "up" THEN Unanswered ELSE None]
  /\ OnlyInbox /\ UNCHANGED <<age, pingIn, cleanIn, deadFor, sound, requests>>

\* publish_control returns, the result ignored: a ping that failed is lost.
PingAnswered(n) ==
  /\ ping[n] # None
  /\ IF ping[n] = Unanswered THEN UNCHANGED sound ELSE Unsound(n)
  /\ ping' = [ping EXCEPT ![n] = None]
  /\ UNCHANGED <<linkVars, age, pingIn, cleanIn, deadFor, requests>>

\* NodeRegistry.clean; the node itself stays.
Recent(n, m) == age[n][m] # None /\ age[n][m] <= MaxAge
Kept(n, m) == m = n \/ Recent(n, m)

clean(n) ==
  /\ status[n] = "up" /\ ping[n] = None /\ cleanIn[n] <= 0
  /\ cleanIn' = [cleanIn EXCEPT ![n] = @ + CleanEvery]
  /\ age' = [age EXCEPT ![n] = [m \in Nodes |-> IF Kept(n, m) THEN @[m] ELSE None]]
  /\ UNCHANGED <<linkVars, pingIn, ping, deadFor, sound, requests>>

\* Pings and messages of n take the way through the master and are through.
Sound(n) ==
  /\ status[n] = "up" /\ serving /\ mgr[n] = master /\ sub[n] = master
  /\ ping[n] = None /\ inbox[n] = <<>>

\* Nothing that n sent is on its way to a server or unread.
Quiet(n) ==
  /\ ping[n] = None
  /\ \A m \in Nodes : \A i \in 1..Len(inbox[m]) : inbox[m][i].from # n

\* Nodes with a ping unanswered or a message unread.
Lagging == {n \in Up : ping[n] # None \/ inbox[n] # <<>>}

\* A task that waits for no answer serves its timers in time.
UnitPasses ==
  /\ Cardinality(Lagging) <= MaxLagging
  /\ \A n \in Up :
       /\ ping[n] = None => pingIn[n] > 0 /\ cleanIn[n] > 0
       /\ pingIn[n] > -MaxLate /\ cleanIn[n] > -MaxLate /\ Len(inbox[n]) <= MaxUnread
  /\ pingIn' = [n \in Nodes |-> IF n \in Up THEN pingIn[n] - 1 ELSE pingIn[n]]
  /\ cleanIn' = [n \in Nodes |-> IF n \in Up THEN cleanIn[n] - 1 ELSE cleanIn[n]]
  /\ age' = [n \in Nodes |-> [m \in Nodes |->
              IF age[n][m] = None THEN None ELSE Least(age[n][m] + 1, MaxAge + 1)]]
  /\ deadFor' = [n \in Nodes |-> IF status[n] = "dead" /\ Quiet(n)
                                 THEN Least(deadFor[n] + 1, Forgotten + 1) ELSE 0]
  /\ sound' = [n \in Nodes |-> IF Sound(n) THEN Least(sound[n] + 1, Steady) ELSE 0]
  /\ UNCHANGED <<linkVars, ping, requests>>

-----------------------------------------------------------------------------
(* Properties.                                                             *)

\* The registry tells the truth, give or take the timers: nodes whose pings
\* and subscriptions have worked for a while list each other, and themselves;
\* and a node that crashed is pruned everywhere after the greatest age and one
\* pruning interval, except where a tick of the pruning timer is overdue, which
\* takes a ping that Redis has not answered (node.rs NodeRegistry,
\* spawn_node_pings; lib.rs decode_control).
RegistryTruthful ==
  \A n \in Up :
    /\ age[n][n] # None
    /\ \A m \in Nodes :
         /\ sound[n] = Steady /\ sound[m] = Steady => age[n][m] # None
         /\ deadFor[m] > Forgotten /\ cleanIn[n] >= 0 => age[n][m] = None

\* A request takes effect at its own node though Redis is gone, and at every
\* node that listened to the server it was published on, unless that node's
\* link broke before it read it; nowhere twice (node.rs unsubscribe_user,
\* disconnect_user; lib.rs dispatch_message, decode_control).
ExactlyOnce ==
  \A r \in Requests, n \in Nodes :
    /\ applied[n][r] <= 1
    /\ n \in due[r] =>
         applied[n][r] = 1 \/ \E i \in 1..Len(inbox[n]) : inbox[n][i].request = r
=============================================================================
