---------------------------- MODULE ClusterProofs ----------------------------
(***************************************************************************)
(* The cluster for any number of nodes, connections and requests, any      *)
(* intervals within their assumptions and any number of troubles.          *)
(***************************************************************************)
EXTENDS Cluster, TLAPS

\* The connections start as they are typed.
LEMMA LinksStart == Init => LinksTypeOK
BY LinksAssumption DEF Init, LinksInit, LinksTypeOK, Servers

\* Every step that touches the links keeps their types.
LEMMA LinksKeep ==
  ASSUME LinksTypeOK, [Next]_vars
  PROVE  LinksTypeOK'
<1>. USE LinksAssumption DEF LinksTypeOK, Servers
<1>1. ASSUME NEW n \in Nodes, Connect(n) PROVE LinksTypeOK'
  BY <1>1 DEF Connect
<1>2. ASSUME NEW n \in Nodes, Crash(n) PROVE LinksTypeOK'
  BY <1>2 DEF Crash
<1>3. ASSUME ServerFails PROVE LinksTypeOK'
  <2>1. troubles' \in 0..MaxTroubles
    BY <1>3 DEF ServerFails
  <2>2. serving' \in BOOLEAN
    BY <1>3 DEF ServerFails
  <2>. QED  BY <1>3, <2>1, <2>2 DEF ServerFails
<1>4. ASSUME ServerReturns PROVE LinksTypeOK'
  BY <1>4 DEF ServerReturns
<1>5. ASSUME NEW n \in Nodes, LinkBreaks(n) PROVE LinksTypeOK'
  BY <1>5 DEF LinkBreaks
<1>6. ASSUME NEW n \in Nodes, StreamEnds(n) PROVE LinksTypeOK'
  BY <1>6 DEF StreamEnds
<1>7. ASSUME NEW n \in Nodes, Resolve(n) PROVE LinksTypeOK'
  BY <1>7 DEF Resolve
<1>8. ASSUME NEW n \in Nodes, SwapManager(n) PROVE LinksTypeOK'
  BY <1>8 DEF SwapManager, Usable
<1>9. ASSUME NEW n \in Nodes, subscribe(n) PROVE LinksTypeOK'
  BY <1>9 DEF subscribe
<1>10. ASSUME NEW n \in Nodes, subscribe_fails(n) PROVE LinksTypeOK'
  BY <1>10 DEF subscribe_fails
<1>11. ASSUME UNCHANGED <<master, serving, troubles, status, mgr, sub, watch, target>>
       PROVE LinksTypeOK'
  BY <1>11
<1>. HIDE DEF LinksTypeOK, Servers
<1>12. CASE Pings
  BY <1>11, <1>12 DEF Pings, UnitPasses, Ping, PingPublished, PingAnswered, clean, OnlyInbox, linkVars
<1>13. CASE Asking
  BY <1>11, <1>13 DEF Asking, Request, publish_control, OnlyInbox, linkVars
<1>14. CASE PresencePart
  BY <1>11, <1>14 DEF PresencePart, PresenceStep, PRESENCE_READ, PresenceClock, on_subscribe,
                      refresh_presence, unsubscribe_channel, linkVars
<1>15. ASSUME NEW n \in Nodes, Reading(n) PROVE LinksTypeOK'
  BY <1>11, <1>15 DEF Reading, dispatch_message, Read, OnlyInbox
<1>16. ASSUME NEW n \in Nodes, Reconnect(n) PROVE LinksTypeOK'
  BY <1>6, <1>7, <1>8, <1>9, <1>10, <1>16 DEF Reconnect, Watchdog
<1>17. CASE UNCHANGED vars
  BY <1>11, <1>17 DEF vars, linkVars
<1>. QED
  BY <1>1, <1>2, <1>3, <1>4, <1>5, <1>12, <1>13, <1>14, <1>15, <1>16, <1>17
     DEF Next, MasterFails, MasterReturns, Start, NodeCrashes, LinkLost

-----------------------------------------------------------------------------
(* Presence.                                                               *)

\* Why an entry is still there: the score of a connection that missed no update
\* outlasts its timer by the expiry less one interval, of one that missed one by
\* the expiry less two.  A connection that left has a score no newer than that.
Renewed ==
  \A c \in Clients :
    /\ c \in subscribed => status[NodeOf[c]] = "up"
    /\ c \in subscribed /\ misses[c] < 2 =>
         c \in entry /\ score[c] >= PresenceExpire - (misses[c] + 1) * PresencePing + assertIn[c]
    /\ c \notin subscribed => misses[c] = 2 /\ score[c] + away[c] <= PresenceExpire

PInv == LinksTypeOK /\ PresenceTypeOK /\ Renewed

\* No entry and nobody subscribed: what is claimed of presence holds at first.
LEMMA PresenceStart == Init => PInv
BY LinksStart, PresenceAssumption
   DEF Init, PresenceInit, PInv, PresenceTypeOK, Renewed

\* An update, at subscription or on the timer, that leaves the timer at t.
LEMMA AssertKeeps ==
  ASSUME PInv, NEW c \in Clients, Assert(c), c \in subscribed',
         status[NodeOf[c]] = "up",
         UNCHANGED <<status, away>>,
         subscribed' = subscribed \cup {c},
         NEW t \in 0..PresencePing, assertIn' = [assertIn EXCEPT ![c] = t],
         \/ c \notin subscribed /\ misses[c] = 2 /\ t = assertIn[c]
         \/ c \in subscribed /\ assertIn[c] = 0 /\ t = PresencePing
  PROVE  PresenceTypeOK' /\ Renewed'
<1>. USE PresenceAssumption DEF PInv, PresenceTypeOK
<1>1. PresenceTypeOK'
  BY DEF Assert
<1>2. ASSUME NEW d \in Clients, d # c
      PROVE  (d \in subscribed' <=> d \in subscribed) /\ (d \in entry' <=> d \in entry)
             /\ misses'[d] = misses[d] /\ score'[d] = score[d] /\ assertIn'[d] = assertIn[d]
  BY <1>2 DEF Assert
<1>3. ASSUME misses'[c] < 2
      PROVE  c \in entry' /\ score'[c] >= PresenceExpire - (misses'[c] + 1) * PresencePing + assertIn'[c]
  <2>1. CASE misses'[c] = 0
    BY <2>1 DEF Assert
  <2>2. CASE misses'[c] = 1
    <3>1. misses[c] = 0 /\ UNCHANGED <<entry, score>>
      BY <2>2 DEF Assert
    <3>2. c \in subscribed /\ assertIn[c] = 0 /\ t = PresencePing
      BY <3>1
    <3>3. c \in entry /\ score[c] >= PresenceExpire - PresencePing
      BY <3>1, <3>2 DEF Renewed
    <3>. QED  BY <2>2, <3>1, <3>2, <3>3
  <2>. QED  BY <1>1, <1>3, <2>1, <2>2
<1>. QED
  BY <1>1, <1>2, <1>3 DEF Renewed

\* No step of a connection, a node or the master breaks what is claimed of presence.
LEMMA PresenceKeeps ==
  ASSUME PInv, [Next]_vars
  PROVE  PresenceTypeOK' /\ Renewed'
<1>. USE PresenceAssumption DEF PInv, PresenceTypeOK
<1>1. ASSUME NEW n \in Nodes, Crash(n), Orphaned(n) PROVE PresenceTypeOK' /\ Renewed'
  <2>1. PresenceTypeOK'
    BY <1>1 DEF Orphaned, Leave
  <2>2. ASSUME NEW c \in Clients, NodeOf[c] # n
        PROVE  /\ status'[NodeOf[c]] = status[NodeOf[c]]
               /\ (c \in subscribed' <=> c \in subscribed)
               /\ UNCHANGED <<entry, score, assertIn>>
               /\ misses'[c] = misses[c] /\ away'[c] = away[c]
    BY <1>1, <2>2 DEF Orphaned, Leave, Crash, LinksTypeOK
  <2>3. ASSUME NEW c \in Clients, NodeOf[c] = n
        PROVE  c \notin subscribed' /\ misses'[c] = 2 /\ score'[c] + away'[c] <= PresenceExpire
    BY <1>1, <2>3 DEF Orphaned, Leave, Renewed
  <2>. QED  BY <2>1, <2>2, <2>3 DEF Renewed
<1>2. ASSUME ServerReturns, Rewound PROVE PresenceTypeOK' /\ Renewed'
  <2>1. PresenceTypeOK'
    BY <1>2 DEF Rewound
  <2>2. ASSUME NEW c \in Clients
        PROVE  misses'[c] = 2 /\ score'[c] <= score[c]
               /\ UNCHANGED <<subscribed, away, status>>
    BY <1>2, <2>2 DEF Rewound, ServerReturns
  <2>. QED  BY <2>1, <2>2 DEF Renewed
<1>3. ASSUME UNCHANGED presenceVars,
             \A c \in Clients : c \in subscribed => status'[NodeOf[c]] = "up"
      PROVE  PresenceTypeOK' /\ Renewed'
  BY <1>3 DEF presenceVars, Renewed
<1>4. ASSUME NEW c \in Clients, on_subscribe(c) PROVE PresenceTypeOK' /\ Renewed'
  <2>1. /\ Assert(c) /\ status[NodeOf[c]] = "up" /\ UNCHANGED <<status, away, assertIn>>
        /\ subscribed' = subscribed \cup {c} /\ c \notin subscribed
    BY <1>4 DEF on_subscribe, linkVars
  <2>2. misses[c] = 2
    BY <2>1 DEF Renewed
  <2>3. assertIn[c] \in 0..PresencePing /\ assertIn' = [assertIn EXCEPT ![c] = assertIn[c]]
    BY <2>1
  <2>4. c \in subscribed'
    BY <2>1
  <2>. HIDE DEF PInv, PresenceTypeOK
  <2>. QED  BY <2>1, <2>2, <2>3, <2>4, AssertKeeps
<1>5. ASSUME NEW c \in Clients, refresh_presence(c) PROVE PresenceTypeOK' /\ Renewed'
  <2>1. CASE c \in subscribed
    <3>1. /\ Assert(c) /\ status[NodeOf[c]] = "up" /\ UNCHANGED <<status, away>>
          /\ subscribed' = subscribed \cup {c} /\ assertIn[c] = 0
          /\ assertIn' = [assertIn EXCEPT ![c] = PresencePing]
      BY <1>5, <2>1 DEF refresh_presence, linkVars
    <3>2. c \in subscribed' /\ PresencePing \in 0..PresencePing
      BY <3>1
    <3>. HIDE DEF PInv, PresenceTypeOK
    <3>. QED  BY <2>1, <3>1, <3>2, AssertKeeps
  <2>2. CASE c \notin subscribed
    BY <1>5, <2>2 DEF refresh_presence, linkVars, Renewed
  <2>. QED  BY <2>1, <2>2
<1>6. ASSUME NEW c \in Clients, unsubscribe_channel(c) PROVE PresenceTypeOK' /\ Renewed'
  <2>1. PresenceTypeOK' /\ UNCHANGED <<status, assertIn, score>> /\ entry \ {c} \subseteq entry'
    BY <1>6 DEF unsubscribe_channel, Leave, linkVars
  <2>2. c \notin subscribed' /\ misses'[c] = 2 /\ score'[c] + away'[c] <= PresenceExpire
    BY <1>6 DEF unsubscribe_channel, Leave
  <2>3. ASSUME NEW d \in Clients, d # c
        PROVE  (d \in subscribed' <=> d \in subscribed) /\ (d \in entry => d \in entry')
               /\ misses'[d] = misses[d] /\ away'[d] = away[d]
    BY <1>6, <2>1, <2>3 DEF unsubscribe_channel, Leave
  <2>. QED  BY <2>1, <2>2, <2>3 DEF Renewed
<1>7. ASSUME PRESENCE_READ PROVE PresenceTypeOK' /\ Renewed'
  <2>1. PresenceTypeOK' /\ UNCHANGED <<status, subscribed, assertIn, score, misses, away>>
    BY <1>7 DEF PRESENCE_READ, Present, linkVars
  <2>2. ASSUME NEW c \in Clients, c \in subscribed, misses[c] < 2 PROVE c \in entry'
    <3>1. c \in entry /\ score[c] >= PresenceExpire - (misses[c] + 1) * PresencePing + assertIn[c]
      BY <2>2 DEF Renewed
    <3>2. misses[c] = 0 \/ misses[c] = 1
      BY <2>2
    <3>3. score[c] > 0
      BY <3>1, <3>2
    <3>. QED  BY <1>7, <3>1, <3>3 DEF PRESENCE_READ, Present
  <2>. QED  BY <2>1, <2>2 DEF Renewed
<1>8. ASSUME PresenceClock PROVE PresenceTypeOK' /\ Renewed'
  <2>1. UNCHANGED <<status, subscribed, entry, misses>>
    BY <1>8 DEF PresenceClock, linkVars
  <2>2. ASSUME NEW c \in Clients
        PROVE  /\ assertIn[c] \in 0..PresencePing /\ score[c] \in 0..PresenceExpire
               /\ away[c] \in 0..PresenceExpire /\ misses[c] \in 0..2
               /\ status[NodeOf[c]] = "up" => assertIn[c] > 0
               /\ assertIn'[c] = IF status[NodeOf[c]] = "up" THEN assertIn[c] - 1 ELSE assertIn[c]
               /\ score'[c] = IF score[c] > 0 THEN score[c] - 1 ELSE 0
               /\ away'[c] = IF c \in subscribed THEN 0
                             ELSE IF away[c] < PresenceExpire THEN away[c] + 1 ELSE PresenceExpire
    BY <1>8 DEF PresenceClock
  <2>3. assertIn' \in [Clients -> 0..PresencePing]
    BY <1>8, <2>2 DEF PresenceClock
  <2>4. score' \in [Clients -> 0..PresenceExpire] /\ away' \in [Clients -> 0..PresenceExpire]
    BY <1>8, <2>2 DEF PresenceClock
  <2>5. ASSUME NEW c \in Clients, c \in subscribed, misses[c] < 2
        PROVE  c \in entry /\ score'[c] >= PresenceExpire - (misses[c] + 1) * PresencePing + assertIn'[c]
    <3>1. /\ status[NodeOf[c]] = "up" /\ c \in entry
          /\ score[c] >= PresenceExpire - (misses[c] + 1) * PresencePing + assertIn[c]
      BY <2>5 DEF Renewed
    <3>2. misses[c] = 0 \/ misses[c] = 1
      BY <2>2, <2>5
    <3>3. score[c] > 0
      BY <2>2, <3>1, <3>2
    <3>4. assertIn'[c] = assertIn[c] - 1 /\ score'[c] = score[c] - 1
      BY <2>2, <3>1, <3>3
    <3>. QED  BY <2>2, <3>1, <3>2, <3>4
  <2>6. ASSUME NEW c \in Clients, c \notin subscribed
        PROVE  misses[c] = 2 /\ score'[c] + away'[c] <= PresenceExpire
    <3>1. misses[c] = 2 /\ score[c] + away[c] <= PresenceExpire
      BY <2>6 DEF Renewed
    <3>. QED  BY <2>2, <2>6, <3>1
  <2>7. PresenceTypeOK'
    BY <2>1, <2>3, <2>4
  <2>. QED  BY <2>1, <2>5, <2>6, <2>7 DEF Renewed
<1>9. ASSUME UNCHANGED presenceVars, UNCHANGED status PROVE PresenceTypeOK' /\ Renewed'
  BY <1>3, <1>9 DEF Renewed
<1>. HIDE DEF PInv, PresenceTypeOK
<1>10. ASSUME NEW n \in Nodes, Start(n) PROVE PresenceTypeOK' /\ Renewed'
  <2>1. ASSUME NEW c \in Clients, c \in subscribed PROVE status'[NodeOf[c]] = "up"
    BY <1>10, <2>1, PresenceAssumption DEF Start, Connect, PInv, LinksTypeOK, Renewed
  <2>. QED  BY <1>3, <1>10, <2>1 DEF Start
<1>11. CASE MasterFails
  BY <1>9, <1>11 DEF MasterFails, ServerFails
<1>12. ASSUME NEW n \in Nodes, LinkLost(n) PROVE PresenceTypeOK' /\ Renewed'
  BY <1>9, <1>12 DEF LinkLost, LinkBreaks
<1>13. ASSUME NEW n \in Nodes, Reconnect(n) PROVE PresenceTypeOK' /\ Renewed'
  BY <1>9, <1>13 DEF Reconnect, Watchdog, StreamEnds, Resolve, SwapManager, subscribe, subscribe_fails
<1>14. ASSUME NEW n \in Nodes, Reading(n) PROVE PresenceTypeOK' /\ Renewed'
  BY <1>9, <1>14 DEF Reading, dispatch_message, Read, OnlyInbox
<1>15. CASE Pings
  BY <1>9, <1>15 DEF Pings, UnitPasses, Ping, PingPublished, PingAnswered, clean, OnlyInbox, linkVars
<1>16. CASE Asking
  BY <1>9, <1>16 DEF Asking, Request, publish_control, OnlyInbox, linkVars
<1>17. CASE UNCHANGED vars
  BY <1>9, <1>17 DEF vars, linkVars
<1>. QED
  BY <1>1, <1>2, <1>4, <1>5, <1>6, <1>7, <1>8, <1>10, <1>11, <1>12, <1>13, <1>14, <1>15,
     <1>16, <1>17
     DEF Next, MasterReturns, NodeCrashes, PresencePart, PresenceStep

\* The entries and the expiry set stay what the timers of the connections made
\* them (client.rs refresh_presence; lib.rs PRESENCE_ADD, PRESENCE_REM).
THEOREM PresenceInvariance == Spec => []PInv
<1>1. PInv /\ [Next]_vars => PInv'
  BY LinksKeep, PresenceKeeps DEF PInv
<1>. QED  BY PresenceStart, <1>1, PTL DEF Spec

\* For any number of nodes, connections and troubles and any intervals of which
\* two fit into the expiry, presence shows who is there after a single lost
\* update and not who has been gone for the expiry (client.rs refresh_presence;
\* lib.rs PRESENCE_ADD, PRESENCE_REM, PRESENCE_READ).
THEOREM PresenceTheorem == Spec => []PresenceTruthful
<1>1. PInv => PresenceTruthful
  <2>. SUFFICES ASSUME PInv, NEW c \in Clients
                PROVE  /\ c \in subscribed /\ misses[c] < 2 => c \in Present
                       /\ c \notin subscribed /\ away[c] = PresenceExpire => c \notin Present
    BY DEF PresenceTruthful
  <2>. USE PresenceAssumption DEF PInv, PresenceTypeOK, Present
  <2>1. ASSUME c \in subscribed, misses[c] < 2 PROVE c \in Present
    <3>1. c \in entry /\ score[c] >= PresenceExpire - (misses[c] + 1) * PresencePing + assertIn[c]
      BY <2>1 DEF Renewed
    <3>2. misses[c] = 0 \/ misses[c] = 1
      BY <2>1
    <3>. QED  BY <3>1, <3>2
  <2>2. ASSUME c \notin subscribed, away[c] = PresenceExpire PROVE c \notin Present
    BY <2>2 DEF Renewed
  <2>. QED  BY <2>1, <2>2
<1>. QED  BY PresenceInvariance, <1>1, PTL
-----------------------------------------------------------------------------
(* Control requests.                                                       *)

\* Registries, timers and requests start as they are typed.
LEMMA MembersStart == Init => MembersTypeOK
BY LinksStart, MembersAssumption
   DEF Init, MembersInit, LinksInit, MembersTypeOK, Requests, Forgotten, Steady

\* Every step keeps their types.
LEMMA MembersKeep ==
  ASSUME MembersTypeOK, [Next]_vars
  PROVE  MembersTypeOK'
<1>0. LinksTypeOK'
  BY LinksKeep DEF MembersTypeOK
<1>. USE <1>0, MembersAssumption DEF MembersTypeOK, Requests, Forgotten, Steady
<1>1. ASSUME UNCHANGED <<inbox, memberVars>> PROVE MembersTypeOK'
  BY <1>1 DEF memberVars, registry, timers, requests
<1>2. ASSUME NEW n \in Nodes, Start(n) PROVE MembersTypeOK'
  <2>1. age' \in [Nodes -> [Nodes -> 0..(MaxAge + 1) \cup {None}]]
    BY <1>2 DEF Start, Seeded
  <2>2. UNCHANGED <<inbox, timers, deadFor, sound, pending, asked, applied, due>>
    BY <1>2 DEF Start, Connect, Seeded, requests
  <2>. QED  BY <2>1, <2>2 DEF timers
<1>3. ASSUME NEW n \in Nodes, Crash(n), Lost(n) PROVE MembersTypeOK'
  <2>1. inbox' \in [Nodes -> Seq(Message)]
    BY <1>3 DEF Crash
  <2>2. age' \in [Nodes -> [Nodes -> 0..(MaxAge + 1) \cup {None}]]
    BY <1>3 DEF Lost
  <2>3. /\ pingIn' \in [Nodes -> -MaxLate..PingEvery] /\ cleanIn' \in [Nodes -> -MaxLate..CleanEvery]
        /\ ping' \in [Nodes -> Servers \cup {Unanswered, None}]
    BY <1>3 DEF Lost
  <2>4. pending' \in [Nodes -> 0..MaxRequests] /\ due' \in [1..MaxRequests -> SUBSET Nodes]
    BY <1>3 DEF Lost
  <2>5. sound' \in [Nodes -> 0..(PingEvery + 1)]
    BY <1>3 DEF Lost, Unsound
  <2>. QED  BY <1>3, <2>1, <2>2, <2>3, <2>4, <2>5 DEF Lost
<1>4. CASE MasterFails
  BY <1>4 DEF MasterFails, ServerFails, Cut, requests
<1>5. ASSUME NEW n \in Nodes, LinkLost(n) PROVE MembersTypeOK'
  <2>1. inbox' \in [Nodes -> Seq(Message)]
    <3>1. PICK k \in 0..Len(inbox[n]) : inbox' = [inbox EXCEPT ![n] = SubSeq(@, 1, k)]
      BY <1>5 DEF LinkLost, LinkBreaks
    <3>2. SubSeq(inbox[n], 1, k) \in Seq(Message)
      BY <3>1
    <3>. QED  BY <3>1, <3>2
  <2>2. due' \in [1..MaxRequests -> SUBSET Nodes] /\ sound' \in [Nodes -> 0..(PingEvery + 1)]
    BY <1>5 DEF LinkLost, Deaf, Unsound
  <2>3. UNCHANGED <<age, pingIn, cleanIn, ping, deadFor, pending, asked, applied>>
    BY <1>5 DEF LinkLost, Deaf, registry, timers
  <2>. QED  BY <2>1, <2>2, <2>3
<1>6. ASSUME UnitPasses PROVE MembersTypeOK'
  <2>1. age' \in [Nodes -> [Nodes -> 0..(MaxAge + 1) \cup {None}]]
    <3>1. ASSUME NEW n \in Nodes, NEW m \in Nodes
          PROVE  (IF age[n][m] = None THEN None ELSE Least(age[n][m] + 1, MaxAge + 1))
                   \in 0..(MaxAge + 1) \cup {None}
      <4>1. age[n][m] \in 0..(MaxAge + 1) \cup {None} /\ MaxAge \in Nat
        OBVIOUS
      <4>. HIDE <1>0 DEF MembersTypeOK
      <4>. QED  BY <4>1 DEF Least
    <3>. QED  BY <1>6, <3>1 DEF UnitPasses
  <2>2. pingIn' \in [Nodes -> -MaxLate..PingEvery] /\ cleanIn' \in [Nodes -> -MaxLate..CleanEvery]
    <3>1. /\ pingIn \in [Nodes -> -MaxLate..PingEvery] /\ cleanIn \in [Nodes -> -MaxLate..CleanEvery]
          /\ MaxLate \in Nat /\ PingEvery \in Nat /\ CleanEvery \in Nat
      OBVIOUS
    <3>. HIDE <1>0 DEF MembersTypeOK
    <3>2. ASSUME NEW n \in Nodes
          PROVE  /\ (IF n \in Up THEN pingIn[n] - 1 ELSE pingIn[n]) \in -MaxLate..PingEvery
                 /\ (IF n \in Up THEN cleanIn[n] - 1 ELSE cleanIn[n]) \in -MaxLate..CleanEvery
      BY <1>6, <3>1 DEF UnitPasses
    <3>. QED  BY <1>6, <3>2 DEF UnitPasses
  <2>3. sound' \in [Nodes -> 0..Steady] /\ deadFor' \in [Nodes -> 0..(Forgotten + 1)]
    <3>1. /\ sound \in [Nodes -> 0..Steady] /\ deadFor \in [Nodes -> 0..(Forgotten + 1)]
          /\ Steady \in Nat /\ Forgotten \in Nat
      BY DEF Steady, Forgotten
    <3>. HIDE <1>0 DEF MembersTypeOK, Steady, Forgotten
    <3>2. ASSUME NEW n \in Nodes
          PROVE  /\ (IF Sound(n) THEN Least(sound[n] + 1, Steady) ELSE 0) \in 0..Steady
                 /\ (IF status[n] = "dead" /\ Quiet(n)
                     THEN Least(deadFor[n] + 1, Forgotten + 1) ELSE 0) \in 0..(Forgotten + 1)
      <4>1. sound[n] \in 0..Steady /\ deadFor[n] \in 0..(Forgotten + 1)
        BY <3>1
      <4>. QED  BY <3>1, <4>1 DEF Least
    <3>. QED  BY <1>6, <3>2, Zenon DEF UnitPasses
  <2>. QED  BY <1>6, <2>1, <2>2, <2>3 DEF UnitPasses, linkVars, requests
<1>7. ASSUME NEW s \in Servers, NEW message \in Message, Broadcast(s, message)
      PROVE  inbox' \in [Nodes -> Seq(Message)]
  BY <1>7 DEF Broadcast
<1>8. ASSUME NEW n \in Nodes, Ping(n) PROVE MembersTypeOK'
  <2>1. pingIn' \in [Nodes -> -MaxLate..PingEvery]
    BY <1>8 DEF Ping
  <2>2. ping' \in [Nodes -> Servers \cup {Unanswered, None}]
    BY <1>8 DEF Ping, LinksTypeOK
  <2>3. UNCHANGED <<inbox, age, cleanIn, deadFor, sound, pending, asked, applied, due>>
    BY <1>8 DEF Ping, linkVars, requests
  <2>. QED  BY <2>1, <2>2, <2>3
<1>17. ASSUME NEW n \in Nodes, PingPublished(n) PROVE MembersTypeOK'
  <2>1. inbox' \in [Nodes -> Seq(Message)]
    <3>1. [from |-> n, request |-> 0] \in Message
      BY DEF Message
    <3>2. ping[n] \in Servers
      BY <1>17 DEF PingPublished, Usable, LinksTypeOK
    <3>. QED  BY <1>7, <1>17, <3>1, <3>2 DEF PingPublished
  <2>2. ping' \in [Nodes -> Servers \cup {Unanswered, None}]
    BY <1>17 DEF PingPublished
  <2>3. UNCHANGED <<age, pingIn, cleanIn, deadFor, sound, pending, asked, applied, due>>
    BY <1>17 DEF PingPublished, requests
  <2>. QED  BY <2>1, <2>2, <2>3
<1>18. ASSUME NEW n \in Nodes, PingAnswered(n) PROVE MembersTypeOK'
  <2>1. ping' \in [Nodes -> Servers \cup {Unanswered, None}]
    BY <1>18 DEF PingAnswered
  <2>2. UNCHANGED sound \/ sound' = [sound EXCEPT ![n] = 0]
    BY <1>18 DEF PingAnswered, Unsound
  <2>3. sound' \in [Nodes -> 0..(PingEvery + 1)]
    <3>1. sound \in [Nodes -> 0..(PingEvery + 1)]
      OBVIOUS
    <3>. HIDE <1>0 DEF MembersTypeOK
    <3>. QED  BY <2>2, <3>1
  <2>4. UNCHANGED <<inbox, age, pingIn, cleanIn, deadFor, pending, asked, applied, due>>
    BY <1>18 DEF PingAnswered, linkVars, requests
  <2>. QED  BY <2>1, <2>3, <2>4
<1>9. ASSUME NEW n \in Nodes, clean(n) PROVE MembersTypeOK'
  <2>1. age' \in [Nodes -> [Nodes -> 0..(MaxAge + 1) \cup {None}]]
    <3>1. [m \in Nodes |-> IF Kept(n, m) THEN age[n][m] ELSE None]
            \in [Nodes -> 0..(MaxAge + 1) \cup {None}]
      OBVIOUS
    <3>2. age' = [age EXCEPT ![n] = [m \in Nodes |-> IF Kept(n, m) THEN age[n][m] ELSE None]]
      BY <1>9 DEF clean
    <3>. QED  BY <3>1, <3>2
  <2>2. cleanIn' \in [Nodes -> -MaxLate..CleanEvery]
    BY <1>9 DEF clean
  <2>3. UNCHANGED <<inbox, pingIn, ping, deadFor, sound, pending, asked, applied, due>>
    BY <1>9 DEF clean, linkVars, requests
  <2>. QED  BY <2>1, <2>2, <2>3
<1>10. ASSUME NEW n \in Nodes, Request(n) PROVE MembersTypeOK'
  <2>1. asked + 1 \in 1..MaxRequests
    BY <1>10 DEF Request
  <2>2. applied' \in [Nodes -> [1..MaxRequests -> Nat]]
    <3>1. [applied[n] EXCEPT ![asked + 1] = @ + 1] \in [1..MaxRequests -> Nat]
      BY <2>1
    <3>2. applied' = [applied EXCEPT ![n] = [applied[n] EXCEPT ![asked + 1] = @ + 1]]
      BY <1>10 DEF Request
    <3>. QED  BY <3>1, <3>2
  <2>3. due' \in [1..MaxRequests -> SUBSET Nodes] /\ pending' \in [Nodes -> 0..MaxRequests]
        /\ asked' \in 0..MaxRequests
    BY <1>10, <2>1 DEF Request
  <2>4. UNCHANGED <<inbox, age, pingIn, cleanIn, ping, deadFor, sound>>
    BY <1>10 DEF Request, linkVars, registry, timers
  <2>. QED  BY <2>2, <2>3, <2>4
<1>11. ASSUME NEW n \in Nodes, publish_control(n) PROVE MembersTypeOK'
  <2>1. inbox' \in [Nodes -> Seq(Message)]
    <3>1. [from |-> n, request |-> pending[n]] \in Message
      BY DEF Message
    <3>2. Broadcast(mgr[n], [from |-> n, request |-> pending[n]]) \/ UNCHANGED inbox
      BY <1>11 DEF publish_control
    <3>3. mgr[n] \in Servers
      BY DEF LinksTypeOK
    <3>. QED  BY <1>7, <3>1, <3>2, <3>3
  <2>2. pending' \in [Nodes -> 0..MaxRequests]
    BY <1>11 DEF publish_control
  <2>3. due' \in [1..MaxRequests -> SUBSET Nodes]
    <3>1. \/ UNCHANGED due
          \/ due' = [due EXCEPT ![pending[n]] = @ \cup {m \in Nodes : sub[m] = mgr[n]}]
      BY <1>11 DEF publish_control
    <3>2. due \in [1..MaxRequests -> SUBSET Nodes]
      OBVIOUS
    <3>. HIDE <1>0 DEF MembersTypeOK
    <3>. QED  BY <3>1, <3>2
  <2>4. UNCHANGED <<age, pingIn, cleanIn, ping, deadFor, sound, asked, applied>>
    BY <1>11 DEF publish_control, registry, timers
  <2>. QED  BY <2>1, <2>2, <2>3, <2>4
<1>12. ASSUME NEW n \in Nodes, Reading(n) PROVE MembersTypeOK'
  <2>1. inbox' \in [Nodes -> Seq(Message)]
    BY <1>12 DEF Reading, dispatch_message, Read
  <2>2. Head(inbox[n]) \in Message
    BY <1>12 DEF Reading, dispatch_message, Read
  <2>3. PICK f \in Nodes, r \in 0..MaxRequests :
          Head(inbox[n]).from = f /\ Head(inbox[n]).request = r
    BY <2>2 DEF Message
  <2>4. age' \in [Nodes -> [Nodes -> 0..(MaxAge + 1) \cup {None}]]
    <3>1. UNCHANGED age \/ age' = [age EXCEPT ![n] = [age[n] EXCEPT ![f] = 0]]
      BY <1>12, <2>3 DEF Reading, dispatch_message, Apply
    <3>2. [age[n] EXCEPT ![f] = 0] \in [Nodes -> 0..(MaxAge + 1) \cup {None}]
      BY <2>3
    <3>. QED  BY <3>1, <3>2
  <2>5. applied' \in [Nodes -> [1..MaxRequests -> Nat]]
    <3>1. \/ UNCHANGED applied
          \/ r # 0 /\ applied' = [applied EXCEPT ![n] = [applied[n] EXCEPT ![r] = @ + 1]]
      BY <1>12, <2>3 DEF Reading, dispatch_message, Apply
    <3>2. ASSUME r # 0 PROVE [applied[n] EXCEPT ![r] = @ + 1] \in [1..MaxRequests -> Nat]
      <4>1. applied[n] \in [1..MaxRequests -> Nat]
        OBVIOUS
      <4>2. r \in 1..MaxRequests
        BY <2>3, <3>2
      <4>. HIDE <1>0 DEF MembersTypeOK
      <4>. QED  BY <4>1, <4>2
    <3>. QED  BY <3>1, <3>2
  <2>6. UNCHANGED <<pingIn, cleanIn, ping, deadFor, sound, pending, asked, due>>
    BY <1>12 DEF Reading, dispatch_message, Read, timers
  <2>. QED  BY <2>1, <2>4, <2>5, <2>6
<1>. HIDE DEF MembersTypeOK
<1>13. CASE MasterReturns
  BY <1>1, <1>13 DEF MasterReturns, ServerReturns
<1>14. ASSUME NEW n \in Nodes, Reconnect(n) PROVE MembersTypeOK'
  BY <1>1, <1>14 DEF Reconnect, Watchdog, StreamEnds, Resolve, SwapManager, subscribe, subscribe_fails
<1>15. CASE PresencePart
  BY <1>1, <1>15 DEF PresencePart, PresenceStep, PRESENCE_READ, PresenceClock, on_subscribe,
                     refresh_presence, unsubscribe_channel, linkVars
<1>16. CASE UNCHANGED vars
  BY <1>1, <1>16 DEF vars, linkVars
<1>. QED
  BY <1>2, <1>3, <1>4, <1>5, <1>6, <1>8, <1>9, <1>10, <1>11, <1>12, <1>13, <1>14, <1>15, <1>16,
     <1>17, <1>18
     DEF Next, NodeCrashes, Pings, Asking
\* Why no node applies a request twice.  Before a request is published only its
\* own node has applied it and nobody has received it; once it is, every link
\* carries it at most once, to its own node, which skips it, or to one that has
\* not applied it.
Unsent ==
  \A n \in Nodes : pending[n] # 0 =>
    /\ pending[n] <= asked /\ applied[n][pending[n]] = 1
    /\ \A m \in Nodes \ {n} : pending[m] # pending[n] /\ applied[m][pending[n]] = 0
    /\ \A m \in Nodes : \A i \in 1..Len(inbox[m]) : inbox[m][i].request # pending[n]

InFlight ==
  \A n \in Nodes : \A i \in 1..Len(inbox[n]) : inbox[n][i].request # 0 =>
    /\ inbox[n][i].request <= asked
    /\ applied[inbox[n][i].from][inbox[n][i].request] = 1
    /\ inbox[n][i].from # n => applied[n][inbox[n][i].request] = 0

Single ==
  \A n \in Nodes : \A i, j \in 1..Len(inbox[n]) :
    inbox[n][i].request # 0 /\ inbox[n][i].request = inbox[n][j].request => i = j

Unasked == \A r \in Requests : r > asked => due[r] = {} /\ \A n \in Nodes : applied[n][r] = 0

RInv == MembersTypeOK /\ Unsent /\ InFlight /\ Single /\ Unasked /\ ExactlyOnce
\* Nothing asked, nothing sent.
LEMMA RequestsStart == Init => RInv
BY MembersStart, MembersAssumption
   DEF Init, LinksInit, MembersInit, Requests, RInv, Unsent, InFlight, Single, Unasked, ExactlyOnce

\* What a node that lost some or all of the end of its link still holds.
LEMMA ShorterLink ==
  ASSUME RInv, NEW n \in Nodes, MembersTypeOK',
         NEW q \in Seq(Message), inbox' = [inbox EXCEPT ![n] = q],
         Len(q) <= Len(inbox[n]), \A i \in 1..Len(q) : q[i] = inbox[n][i],
         UNCHANGED <<asked, applied>>,
         \A m \in Nodes : pending'[m] = 0 \/ pending'[m] = pending[m],
         \A r \in Requests : due'[r] \subseteq due[r]
                             /\ (n \in due'[r] => applied[n][r] # 0)
  PROVE  Unsent' /\ InFlight' /\ Single' /\ Unasked' /\ ExactlyOnce'
<1>. USE DEF RInv
<1>1. ASSUME NEW m \in Nodes
      PROVE  /\ inbox[m] \in Seq(Message) /\ Len(inbox'[m]) \in 0..Len(inbox[m])
             /\ \A i \in 1..Len(inbox'[m]) : inbox'[m][i] = inbox[m][i]
             /\ m # n => inbox'[m] = inbox[m]
  <2>1. inbox[m] \in Seq(Message) /\ inbox'[m] = IF m = n THEN q ELSE inbox[m]
    BY DEF MembersTypeOK
  <2>. HIDE DEF RInv
  <2>2. Len(inbox[m]) \in Nat /\ Len(q) \in Nat
    BY <2>1
  <2>. QED  BY <2>1, <2>2
<1>2. Unsent'
  BY <1>1 DEF Unsent
<1>3. InFlight'
  BY <1>1 DEF InFlight
<1>4. Single'
  BY <1>1 DEF Single
<1>5. Unasked'
  BY DEF Unasked
<1>6. ExactlyOnce'
  <2>. SUFFICES ASSUME NEW r \in Requests, NEW m \in Nodes
                PROVE  /\ applied[m][r] <= 1
                       /\ m \in due'[r] => applied[m][r] = 1
                                           \/ \E i \in 1..Len(inbox'[m]) : inbox'[m][i].request = r
    BY DEF ExactlyOnce
  <2>1. CASE m = n
    <3>1. applied[n][r] \in Nat /\ applied[n][r] <= 1
      BY DEF ExactlyOnce, MembersTypeOK
    <3>2. n \in due'[r] => applied[n][r] # 0
      OBVIOUS
    <3>. QED  BY <2>1, <3>1, <3>2
  <2>2. CASE m # n
    BY <1>1, <2>2 DEF ExactlyOnce
  <2>. QED  BY <2>1, <2>2
<1>. QED  BY <1>2, <1>3, <1>4, <1>5, <1>6

\* No step makes a node apply a request twice or lose one it was sent.
LEMMA RequestsKeep ==
  ASSUME RInv, [Next]_vars, MembersTypeOK'
  PROVE  Unsent' /\ InFlight' /\ Single' /\ Unasked' /\ ExactlyOnce'
<1>0. /\ inbox \in [Nodes -> Seq(Message)] /\ pending \in [Nodes -> 0..MaxRequests]
      /\ asked \in 0..MaxRequests /\ applied \in [Nodes -> [Requests -> Nat]]
      /\ due \in [Requests -> SUBSET Nodes]
  BY DEF RInv, MembersTypeOK
<1>c. Unsent
  BY DEF RInv
<1>d. InFlight
  BY DEF RInv
<1>e. Single
  BY DEF RInv
<1>f. Unasked
  BY DEF RInv
<1>g. ExactlyOnce
  BY DEF RInv
<1>a. ASSUME NEW m \in Nodes, NEW i \in 1..Len(inbox[m])
      PROVE  inbox[m][i].from \in Nodes /\ inbox[m][i].request \in 0..MaxRequests
  <2>1. inbox[m] \in Seq(Message)
    BY <1>0
  <2>2. inbox[m][i] \in Message
    BY <2>1
  <2>. QED  BY <2>2 DEF Message
<1>b. ASSUME NEW s, NEW x, Broadcast(s, x), NEW m \in Nodes
      PROVE  /\ Len(inbox[m]) \in Nat
             /\ sub[m] = s =>      /\ Len(inbox'[m]) = Len(inbox[m]) + 1
                                   /\ inbox'[m][Len(inbox[m]) + 1] = x
                                   /\ \A i \in 1..Len(inbox[m]) : inbox'[m][i] = inbox[m][i]
             /\ sub[m] # s => inbox'[m] = inbox[m]
  <2>1. inbox[m] \in Seq(Message)
        /\ inbox'[m] = IF sub[m] = s THEN Append(inbox[m], x) ELSE inbox[m]
    BY <1>0, <1>b DEF Broadcast
  <2>. QED  BY <2>1
<1>1. ASSUME UNCHANGED <<inbox, requests>> PROVE  Unsent' /\ InFlight' /\ Single' /\ Unasked' /\ ExactlyOnce'
  BY <1>1, <1>c, <1>d, <1>e, <1>f, <1>g
     DEF requests, Unsent, InFlight, Single, Unasked, ExactlyOnce
<1>2. ASSUME NEW n \in Nodes, Crash(n), Lost(n)
      PROVE  Unsent' /\ InFlight' /\ Single' /\ Unasked' /\ ExactlyOnce'
  <2>1. inbox' = [inbox EXCEPT ![n] = <<>>]
    BY <1>2 DEF Crash
  <2>2. UNCHANGED <<asked, applied>> /\ \A m \in Nodes : pending'[m] = 0 \/ pending'[m] = pending[m]
    BY <1>2 DEF Lost, RInv, MembersTypeOK
  <2>3. \A r \in Requests : due'[r] \subseteq due[r] /\ (n \in due'[r] => applied[n][r] # 0)
    BY <1>2 DEF Lost
  <2>4. <<>> \in Seq(Message) /\ Len(<<>>) <= Len(inbox[n])
    BY DEF RInv, MembersTypeOK
  <2>5. \A i \in 1..Len(<<>>) : <<>>[i] = inbox[n][i]
    OBVIOUS
  <2>. QED  BY <2>1, <2>2, <2>3, <2>4, <2>5, ShorterLink
<1>3. ASSUME NEW n \in Nodes, LinkLost(n) PROVE  Unsent' /\ InFlight' /\ Single' /\ Unasked' /\ ExactlyOnce'
  <2>1. PICK k \in 0..Len(inbox[n]) : inbox' = [inbox EXCEPT ![n] = SubSeq(@, 1, k)]
    BY <1>3 DEF LinkLost, LinkBreaks
  <2>2. inbox[n] \in Seq(Message)
    BY DEF RInv, MembersTypeOK
  <2>. DEFINE q == SubSeq(inbox[n], 1, k)
  <2>3. /\ q \in Seq(Message) /\ Len(q) <= Len(inbox[n]) /\ inbox' = [inbox EXCEPT ![n] = q]
        /\ \A i \in 1..Len(q) : q[i] = inbox[n][i]
    BY <2>1, <2>2
  <2>4. UNCHANGED <<asked, applied>> /\ \A m \in Nodes : pending'[m] = 0 \/ pending'[m] = pending[m]
    BY <1>3 DEF LinkLost, Deaf
  <2>. HIDE DEF q
  <2>5. \A r \in Requests : due'[r] \subseteq due[r] /\ (n \in due'[r] => applied[n][r] # 0)
    BY <1>3 DEF LinkLost, Deaf
  <2>. QED  BY <2>3, <2>4, <2>5, ShorterLink
<1>4. ASSUME NEW n \in Nodes, Request(n) PROVE  Unsent' /\ InFlight' /\ Single' /\ Unasked' /\ ExactlyOnce'
  <2>. DEFINE q == asked + 1
  <2>1. /\ asked' = q /\ UNCHANGED inbox /\ pending[n] = 0
        /\ pending' = [pending EXCEPT ![n] = q] /\ due' = [due EXCEPT ![q] = {n}]
        /\ applied' = [applied EXCEPT ![n][q] = @ + 1]
    BY <1>4 DEF Request, linkVars
  <2>2. q \in Requests /\ asked \in Nat /\ q \in Nat /\ q # 0 /\ q > asked
    BY <1>0, <1>4, MembersAssumption DEF Request, Requests
  <2>3. ASSUME NEW m \in Nodes
        PROVE  /\ pending'[m] = IF m = n THEN q ELSE pending[m]
               /\ pending[m] # q /\ applied[m][q] = 0
               /\ pending[m] # 0 => pending[m] \in Requests
    BY <1>0, <1>c, <1>f, <2>1, <2>2 DEF Unsent, Unasked, Requests
  <2>4. ASSUME NEW m \in Nodes, NEW r \in Requests
        PROVE  /\ applied'[m][r] = IF m = n /\ r = q THEN 1 ELSE applied[m][r]
               /\ due'[r] = IF r = q THEN {n} ELSE due[r]
    <3>1. applied[n][q] = 0 /\ applied[m] \in [Requests -> Nat]
      BY <1>0, <2>3
    <3>2. applied'[m] = IF m = n THEN [applied[n] EXCEPT ![q] = @ + 1] ELSE applied[m]
      BY <1>0, <2>1
    <3>3. due'[r] = IF r = q THEN {n} ELSE due[r]
      BY <1>0, <2>1
    <3>. QED  BY <2>2, <3>1, <3>2, <3>3
  <2>5. ASSUME NEW m \in Nodes, NEW i \in 1..Len(inbox[m])
        PROVE  /\ inbox[m][i].from \in Nodes /\ inbox[m][i].request # q
               /\ inbox[m][i].request # 0 => inbox[m][i].request \in Requests
    BY <1>0, <1>d, <1>a, <2>2 DEF InFlight, Requests
  <2>. HIDE DEF q
  <2>6. Unsent'
    <3>. SUFFICES ASSUME NEW m \in Nodes, pending'[m] # 0
                  PROVE  /\ pending'[m] <= asked' /\ applied'[m][pending'[m]] = 1
                         /\ \A k \in Nodes \ {m} : pending'[k] # pending'[m]
                                                   /\ applied'[k][pending'[m]] = 0
                         /\ \A k \in Nodes : \A i \in 1..Len(inbox'[k]) :
                              inbox'[k][i].request # pending'[m]
      BY DEF Unsent
    <3>1. CASE m = n
      BY <2>1, <2>2, <2>3, <2>4, <2>5, <3>1
    <3>2. CASE m # n
      <4>1. /\ pending'[m] = pending[m] /\ pending[m] \in Requests /\ pending[m] # q
            /\ pending[m] <= asked /\ asked <= q /\ pending[m] \in Nat
        BY <1>0, <1>c, <2>2, <2>3, <3>2 DEF Unsent, q, Requests
      <4>2. applied'[m][pending[m]] = 1 /\ pending'[m] <= asked'
        BY <1>0, <1>c, <2>1, <2>2, <2>4, <4>1 DEF Unsent, Requests
      <4>3. ASSUME NEW k \in Nodes \ {m}
            PROVE  pending'[k] # pending'[m] /\ applied'[k][pending'[m]] = 0
        <5>1. pending[k] # pending[m] /\ applied[k][pending[m]] = 0
          BY <1>0, <1>c, <4>1, <2>2 DEF Unsent, Requests
        <5>. QED  BY <2>3, <2>4, <4>1, <5>1
      <4>. QED  BY <1>0, <1>c, <2>1, <4>1, <4>2, <4>3 DEF Unsent, Requests
    <3>. QED  BY <3>1, <3>2
  <2>7. InFlight'
    <3>. SUFFICES ASSUME NEW m \in Nodes, NEW i \in 1..Len(inbox[m]), inbox[m][i].request # 0
                  PROVE  /\ inbox[m][i].request <= q
                         /\ applied'[inbox[m][i].from][inbox[m][i].request] = 1
                         /\ inbox[m][i].from # m => applied'[m][inbox[m][i].request] = 0
      BY <2>1 DEF InFlight
    <3>1. /\ inbox[m][i].request <= asked
          /\ applied[inbox[m][i].from][inbox[m][i].request] = 1
          /\ inbox[m][i].from # m => applied[m][inbox[m][i].request] = 0
      BY <1>0, <1>d DEF InFlight
    <3>2. inbox[m][i].from \in Nodes /\ inbox[m][i].request # q /\ inbox[m][i].request \in Requests
      BY <2>5
    <3>3. inbox[m][i].request <= q
      BY <2>2, <3>1, <3>2 DEF Requests, q
    <3>. QED  BY <2>4, <3>1, <3>2, <3>3
  <2>10. Single'
    BY <1>e, <2>1 DEF Single
  <2>8. Unasked'
    BY <1>0, <1>f, <2>1, <2>2, <2>4 DEF Unasked, Requests
  <2>9. ExactlyOnce'
    BY <1>g, <2>1, <2>3, <2>4 DEF ExactlyOnce
  <2>. QED  BY <2>6, <2>7, <2>8, <2>9, <2>10
<1>5. ASSUME NEW n \in Nodes, PingPublished(n)
      PROVE  Unsent' /\ InFlight' /\ Single' /\ Unasked' /\ ExactlyOnce'
  <2>1. UNCHANGED <<pending, asked, applied, due>>
    BY <1>5 DEF PingPublished, requests
  <2>3. CASE Broadcast(ping[n], [from |-> n, request |-> 0])
    <3>1. ASSUME NEW m \in Nodes
          PROVE  /\ Len(inbox[m]) \in Nat /\ Len(inbox'[m]) \in {Len(inbox[m]), Len(inbox[m]) + 1}
                 /\ \A i \in 1..Len(inbox[m]) : inbox'[m][i] = inbox[m][i]
                 /\ \A i \in 1..Len(inbox'[m]) : i \in 1..Len(inbox[m]) \/ inbox'[m][i].request = 0
      BY <1>b, <2>3
    <3>2. Unsent'
      <4>. SUFFICES ASSUME NEW m \in Nodes, pending[m] # 0
                    PROVE  /\ pending[m] <= asked /\ applied[m][pending[m]] = 1
                           /\ \A k \in Nodes \ {m} : pending[k] # pending[m]
                                                     /\ applied[k][pending[m]] = 0
                           /\ \A k \in Nodes : \A i \in 1..Len(inbox'[k]) :
                                inbox'[k][i].request # pending[m]
        BY <2>1 DEF Unsent
      <4>1. ASSUME NEW k \in Nodes, NEW i \in 1..Len(inbox'[k])
            PROVE  inbox'[k][i].request # pending[m]
        <5>1. CASE i \in 1..Len(inbox[k])
          BY <1>c, <3>1, <5>1 DEF Unsent
        <5>. QED  BY <3>1, <4>1, <5>1
      <4>. QED  BY <1>c, <4>1 DEF Unsent
    <3>3. ASSUME NEW m \in Nodes, NEW i \in 1..Len(inbox'[m]), inbox'[m][i].request # 0
          PROVE  i \in 1..Len(inbox[m]) /\ inbox'[m][i] = inbox[m][i]
      BY <3>1, <3>3
    <3>4. InFlight'
      BY <1>d, <2>1, <3>3 DEF InFlight
    <3>7. Single'
      <4>. SUFFICES ASSUME NEW m \in Nodes,
                           NEW i \in 1..Len(inbox'[m]), NEW j \in 1..Len(inbox'[m]),
                           inbox'[m][i].request # 0, inbox'[m][i].request = inbox'[m][j].request
                    PROVE  i = j
        BY DEF Single
      <4>. QED  BY <1>e, <3>3 DEF Single
    <3>5. Unasked'
      BY <1>0, <1>f, <2>1 DEF Unasked
    <3>6. ExactlyOnce'
      <4>. SUFFICES ASSUME NEW r \in Requests, NEW m \in Nodes
                    PROVE  /\ applied[m][r] <= 1
                           /\ m \in due[r] => applied[m][r] = 1
                                              \/ \E i \in 1..Len(inbox'[m]) : inbox'[m][i].request = r
        BY <2>1 DEF ExactlyOnce
      <4>1. 1..Len(inbox[m]) \subseteq 1..Len(inbox'[m])
        BY <3>1
      <4>. QED  BY <1>g, <3>1, <4>1 DEF ExactlyOnce
    <3>. QED  BY <3>2, <3>4, <3>5, <3>6, <3>7
  <2>. QED  BY <1>5, <2>3 DEF PingPublished
<1>6. ASSUME NEW n \in Nodes, publish_control(n)
      PROVE  Unsent' /\ InFlight' /\ Single' /\ Unasked' /\ ExactlyOnce'
  <2>. DEFINE q == pending[n]
  <2>1. /\ q # 0 /\ q \in Requests /\ q \in Nat /\ pending' = [pending EXCEPT ![n] = 0]
        /\ UNCHANGED <<asked, applied>>
    BY <1>0, <1>6 DEF publish_control, Requests
  <2>2. ASSUME NEW m \in Nodes
        PROVE  pending'[m] = IF m = n THEN 0 ELSE pending[m]
    BY <1>0, <2>1
  <2>3. /\ q <= asked /\ applied[n][q] = 1
        /\ \A m \in Nodes \ {n} : pending[m] # q /\ applied[m][q] = 0
        /\ \A m \in Nodes : \A i \in 1..Len(inbox[m]) : inbox[m][i].request # q
    BY <1>0, <1>c, <2>1 DEF Unsent
  <2>4. CASE UNCHANGED <<inbox, due>>
    <3>1. Unsent'
      BY <1>0, <1>c, <2>1, <2>2, <2>4 DEF Unsent
    <3>2. InFlight' /\ Single'
      BY <1>0, <1>d, <1>e, <2>1, <2>4 DEF InFlight, Single
    <3>3. Unasked' /\ ExactlyOnce'
      BY <1>0, <1>f, <1>g, <2>1, <2>4 DEF Unasked, ExactlyOnce
    <3>. QED  BY <3>1, <3>2, <3>3
  <2>5. CASE /\ Broadcast(mgr[n], [from |-> n, request |-> q])
             /\ due' = [due EXCEPT ![q] = @ \cup {m \in Nodes : sub[m] = mgr[n]}]
    <3>1. ASSUME NEW m \in Nodes
          PROVE  /\ Len(inbox[m]) \in Nat /\ Len(inbox'[m]) \in {Len(inbox[m]), Len(inbox[m]) + 1}
                 /\ \A i \in 1..Len(inbox[m]) : inbox'[m][i] = inbox[m][i]
                 /\ \A i \in 1..Len(inbox'[m]) :
                      \/ i \in 1..Len(inbox[m])
                      \/ i = Len(inbox[m]) + 1 /\ inbox'[m][i].request = q /\ inbox'[m][i].from = n
                 /\ sub[m] = mgr[n] => \E i \in 1..Len(inbox'[m]) : inbox'[m][i].request = q
      BY <1>b, <2>5
    <3>2. ASSUME NEW r \in Requests
          PROVE  due'[r] = IF r = q THEN due[r] \cup {m \in Nodes : sub[m] = mgr[n]} ELSE due[r]
      BY <1>0, <2>5
    <3>. HIDE DEF q
    <3>3. Unsent'
      BY <1>0, <1>c, <2>1, <2>2, <2>3, <3>1 DEF Unsent
    <3>4. ASSUME NEW m \in Nodes, NEW i \in 1..Len(inbox'[m]), inbox'[m][i].request # 0
          PROVE  \/ i \in 1..Len(inbox[m]) /\ inbox'[m][i] = inbox[m][i] /\ inbox[m][i].request # q
                 \/ i = Len(inbox[m]) + 1 /\ inbox'[m][i].request = q /\ inbox'[m][i].from = n
      BY <2>3, <3>1, <3>4
    <3>5. InFlight'
      <4>. SUFFICES ASSUME NEW m \in Nodes, NEW i \in 1..Len(inbox'[m]), inbox'[m][i].request # 0
                    PROVE  /\ inbox'[m][i].request <= asked
                           /\ applied[inbox'[m][i].from][inbox'[m][i].request] = 1
                           /\ inbox'[m][i].from # m => applied[m][inbox'[m][i].request] = 0
        BY <2>1 DEF InFlight
      <4>1. CASE i \in 1..Len(inbox[m]) /\ inbox'[m][i] = inbox[m][i]
        BY <1>0, <1>d, <4>1 DEF InFlight
      <4>2. CASE inbox'[m][i].request = q /\ inbox'[m][i].from = n
        BY <2>3, <4>2
      <4>. QED  BY <3>4, <4>1, <4>2
    <3>6. Single'
      BY <1>e, <3>4 DEF Single
    <3>7. Unasked'
      <4>. SUFFICES ASSUME NEW r \in Requests, r > asked
                    PROVE  due'[r] = {} /\ \A m \in Nodes : applied[m][r] = 0
        BY <2>1 DEF Unasked
      <4>1. r # q
        BY <1>0, <2>3 DEF Requests
      <4>. QED  BY <1>0, <1>f, <3>2, <4>1 DEF Unasked
    <3>8. ExactlyOnce'
      <4>. SUFFICES ASSUME NEW r \in Requests, NEW m \in Nodes
                    PROVE  /\ applied[m][r] <= 1
                           /\ m \in due'[r] => applied[m][r] = 1
                                               \/ \E i \in 1..Len(inbox'[m]) : inbox'[m][i].request = r
        BY <2>1 DEF ExactlyOnce
      <4>1. 1..Len(inbox[m]) \subseteq 1..Len(inbox'[m])
        BY <3>1
      <4>2. CASE m \in due[r]
        BY <1>g, <3>1, <4>1, <4>2 DEF ExactlyOnce
      <4>3. CASE m \notin due[r]
        <5>1. m \in due'[r] => r = q /\ sub[m] = mgr[n]
          BY <3>2, <4>3
        <5>2. applied[m][r] <= 1
          BY <1>g DEF ExactlyOnce
        <5>. QED  BY <3>1, <5>1, <5>2
      <4>. QED  BY <4>2, <4>3
    <3>. QED  BY <3>3, <3>5, <3>6, <3>7, <3>8
  <2>. QED  BY <1>6, <2>4, <2>5 DEF publish_control
<1>7. ASSUME NEW n \in Nodes, Reading(n)
      PROVE  Unsent' /\ InFlight' /\ Single' /\ Unasked' /\ ExactlyOnce'
  <2>. DEFINE q == inbox[n][1].request  f == inbox[n][1].from
  <2>1. /\ Len(inbox[n]) > 0 /\ Head(inbox[n]) = inbox[n][1]
        /\ inbox' = [inbox EXCEPT ![n] = Tail(inbox[n])]
        /\ UNCHANGED <<pending, asked, due>>
    BY <1>0, <1>7 DEF Reading, dispatch_message, Read
  <2>2. ASSUME NEW m \in Nodes
        PROVE  /\ Len(inbox[m]) \in Nat
               /\ m # n => inbox'[m] = inbox[m]
               /\ m = n => /\ Len(inbox'[m]) = Len(inbox[m]) - 1
                           /\ \A i \in 1..Len(inbox'[m]) : inbox'[m][i] = inbox[m][i + 1]
    <3>1. inbox[m] \in Seq(Message)
      BY <1>0
    <3>2. inbox'[m] = IF m = n THEN Tail(inbox[n]) ELSE inbox[m]
      BY <1>0, <2>1
    <3>3. m = n => /\ Len(Tail(inbox[m])) = Len(inbox[m]) - 1
                   /\ \A i \in 1..Len(Tail(inbox[m])) : Tail(inbox[m])[i] = inbox[m][i + 1]
      BY <2>1, <3>1
    <3>. QED  BY <3>1, <3>2, <3>3
  <2>3. f \in Nodes /\ q \in 0..MaxRequests
    BY <1>a, <2>1, <2>2
  <2>4. ASSUME NEW m \in Nodes, NEW i \in 1..Len(inbox'[m])
        PROVE  \E j \in 1..Len(inbox[m]) : inbox'[m][i] = inbox[m][j] /\ (m = n => j = i + 1)
    <3>1. CASE m = n
      <4>1. i + 1 \in 1..Len(inbox[m]) /\ inbox'[m][i] = inbox[m][i + 1]
        BY <2>2, <2>4, <3>1
      <4>. QED  BY <4>1
    <3>2. CASE m # n
      BY <2>2, <3>2
    <3>. QED  BY <3>1, <3>2
  <2>5. \/ /\ q # 0 /\ f # n /\ applied' = [applied EXCEPT ![n][q] = @ + 1]
        \/ (q = 0 \/ f = n) /\ UNCHANGED applied
    BY <1>7, <2>1 DEF Reading, dispatch_message, Apply
  <2>6. Single'
    <3>. SUFFICES ASSUME NEW m \in Nodes, NEW i \in 1..Len(inbox'[m]), NEW j \in 1..Len(inbox'[m]),
                         inbox'[m][i].request # 0, inbox'[m][i].request = inbox'[m][j].request
                  PROVE  i = j
      BY DEF Single
    <3>1. CASE m = n
      <4>1. i + 1 \in 1..Len(inbox[m]) /\ j + 1 \in 1..Len(inbox[m])
            /\ inbox'[m][i] = inbox[m][i + 1] /\ inbox'[m][j] = inbox[m][j + 1]
        BY <2>2, <3>1
      <4>2. i + 1 = j + 1
        BY <1>e, <4>1 DEF Single
      <4>. QED  BY <4>2
    <3>2. CASE m # n
      BY <1>e, <2>2, <3>2 DEF Single
    <3>. QED  BY <3>1, <3>2
  <2>7. ASSUME NEW r \in Requests, NEW m \in Nodes,
               \E j \in 1..Len(inbox[m]) : inbox[m][j].request = r,
               m # n \/ r # q
        PROVE  \E i \in 1..Len(inbox'[m]) : inbox'[m][i].request = r
    <3>1. PICK j \in 1..Len(inbox[m]) : inbox[m][j].request = r
      BY <2>7
    <3>2. CASE m = n
      <4>1. j # 1
        BY <2>7, <3>1, <3>2
      <4>2. j - 1 \in 1..Len(inbox'[m])
        BY <2>2, <3>1, <3>2, <4>1
      <4>3. inbox'[m][j - 1] = inbox[m][(j - 1) + 1] /\ (j - 1) + 1 = j
        BY <2>2, <3>1, <3>2, <4>2
      <4>. QED  BY <3>1, <4>2, <4>3
    <3>3. CASE m # n
      BY <2>2, <3>1, <3>3
    <3>. QED  BY <3>2, <3>3
  <2>8. /\ q # 0 => q <= asked /\ applied[f][q] = 1 /\ (f # n => applied[n][q] = 0)
        /\ q # 0 => \A m \in Nodes : pending[m] # q
    <3>1. 1 \in 1..Len(inbox[n])
      BY <2>1, <2>2
    <3>. QED  BY <1>0, <1>d, <1>c, <3>1 DEF InFlight, Unsent
  <2>9. CASE (q = 0 \/ f = n) /\ UNCHANGED applied
    <3>1. Unsent'
      BY <1>0, <1>c, <2>1, <2>4, <2>9 DEF Unsent
    <3>2. InFlight'
      BY <1>0, <1>d, <2>1, <2>4, <2>9 DEF InFlight
    <3>3. Unasked'
      BY <1>0, <1>f, <2>1, <2>9 DEF Unasked
    <3>4. ExactlyOnce'
      <4>. SUFFICES ASSUME NEW r \in Requests, NEW m \in Nodes
                    PROVE  /\ applied[m][r] <= 1
                           /\ m \in due[r] => applied[m][r] = 1
                                              \/ \E i \in 1..Len(inbox'[m]) : inbox'[m][i].request = r
        BY <2>1, <2>9 DEF ExactlyOnce
      <4>1. CASE m = n /\ r = q
        BY <2>8, <2>9, <4>1 DEF Requests
      <4>2. CASE m # n \/ r # q
        BY <1>g, <2>7, <4>2 DEF ExactlyOnce
      <4>. QED  BY <4>1, <4>2
    <3>. QED  BY <2>6, <3>1, <3>2, <3>3, <3>4
  <2>10. CASE q # 0 /\ f # n /\ applied' = [applied EXCEPT ![n][q] = @ + 1]
    <3>0. q \in Requests /\ applied[n][q] = 0
      BY <2>3, <2>8, <2>10, MembersAssumption DEF Requests
    <3>1. ASSUME NEW m \in Nodes, NEW r \in Requests
          PROVE  applied'[m][r] = IF m = n /\ r = q THEN 1 ELSE applied[m][r]
      <4>1. applied[m] \in [Requests -> Nat]
        BY <1>0
      <4>2. applied'[m] = IF m = n THEN [applied[n] EXCEPT ![q] = @ + 1] ELSE applied[m]
        BY <1>0, <2>10
      <4>. QED  BY <3>0, <4>1, <4>2
    <3>2. Unsent'
      <4>. SUFFICES ASSUME NEW m \in Nodes, pending[m] # 0
                    PROVE  /\ pending[m] <= asked /\ applied'[m][pending[m]] = 1
                           /\ \A k \in Nodes \ {m} : pending[k] # pending[m]
                                                     /\ applied'[k][pending[m]] = 0
                           /\ \A k \in Nodes : \A i \in 1..Len(inbox'[k]) :
                                inbox'[k][i].request # pending[m]
        BY <2>1 DEF Unsent
      <4>1. pending[m] \in Requests /\ pending[m] # q
        BY <1>0, <2>8, <2>10 DEF Requests
      <4>2. \A k \in Nodes : applied'[k][pending[m]] = applied[k][pending[m]]
        BY <3>1, <4>1
      <4>3. ASSUME NEW k \in Nodes, NEW i \in 1..Len(inbox'[k])
            PROVE  inbox'[k][i].request # pending[m]
        BY <1>c, <2>4, <4>3 DEF Unsent
      <4>. QED  BY <1>c, <4>2, <4>3 DEF Unsent
    <3>3. InFlight'
      <4>. SUFFICES ASSUME NEW m \in Nodes, NEW i \in 1..Len(inbox'[m]), inbox'[m][i].request # 0
                    PROVE  /\ inbox'[m][i].request <= asked
                           /\ applied'[inbox'[m][i].from][inbox'[m][i].request] = 1
                           /\ inbox'[m][i].from # m => applied'[m][inbox'[m][i].request] = 0
        BY <2>1 DEF InFlight
      <4>1. PICK j \in 1..Len(inbox[m]) : inbox'[m][i] = inbox[m][j] /\ (m = n => j = i + 1)
        BY <2>4
      <4>2. /\ inbox[m][j].request <= asked /\ applied[inbox[m][j].from][inbox[m][j].request] = 1
            /\ inbox[m][j].from # m => applied[m][inbox[m][j].request] = 0
        BY <1>0, <1>d, <4>1 DEF InFlight
      <4>3. inbox[m][j].from \in Nodes /\ inbox[m][j].request \in Requests
        BY <1>a, <4>1, MembersAssumption DEF Requests
      <4>4. m # n \/ inbox[m][j].request # q
        <5>. SUFFICES ASSUME m = n, inbox[m][j].request = q PROVE FALSE
          OBVIOUS
        <5>1. 1 \in 1..Len(inbox[n]) /\ j \in 1..Len(inbox[n]) /\ j # 1
          BY <2>1, <2>2, <4>1
        <5>. QED  BY <1>e, <2>10, <5>1 DEF Single
      <4>. QED  BY <3>1, <4>1, <4>2, <4>3, <4>4
    <3>4. Unasked'
      <4>. SUFFICES ASSUME NEW r \in Requests, r > asked
                    PROVE  due[r] = {} /\ \A m \in Nodes : applied'[m][r] = 0
        BY <2>1 DEF Unasked
      <4>1. r # q
        BY <1>0, <2>8, <2>10 DEF Requests
      <4>. QED  BY <1>0, <1>f, <3>1, <4>1 DEF Unasked
    <3>5. ExactlyOnce'
      <4>. SUFFICES ASSUME NEW r \in Requests, NEW m \in Nodes
                    PROVE  /\ applied'[m][r] <= 1
                           /\ m \in due[r] => applied'[m][r] = 1
                                              \/ \E i \in 1..Len(inbox'[m]) : inbox'[m][i].request = r
        BY <2>1 DEF ExactlyOnce
      <4>1. CASE m = n /\ r = q
        BY <3>1, <4>1
      <4>2. CASE m # n \/ r # q
        BY <1>g, <2>7, <3>1, <4>2 DEF ExactlyOnce
      <4>. QED  BY <4>1, <4>2
    <3>. QED  BY <2>6, <3>2, <3>3, <3>4, <3>5
  <2>. QED  BY <2>5, <2>9, <2>10
<1>8. CASE MasterFails
  BY <1>1, <1>8 DEF MasterFails, ServerFails, Cut
<1>9. CASE MasterReturns
  BY <1>1, <1>9 DEF MasterReturns, ServerReturns, memberVars
<1>10. ASSUME NEW n \in Nodes, Start(n)
       PROVE  Unsent' /\ InFlight' /\ Single' /\ Unasked' /\ ExactlyOnce'
  BY <1>1, <1>10 DEF Start, Connect, Seeded
<1>11. ASSUME NEW n \in Nodes, Reconnect(n)
       PROVE  Unsent' /\ InFlight' /\ Single' /\ Unasked' /\ ExactlyOnce'
  BY <1>1, <1>11 DEF Reconnect, Watchdog, StreamEnds, Resolve, SwapManager, subscribe,
                     subscribe_fails, memberVars
<1>12. ASSUME UnitPasses \/ \E n \in Nodes : clean(n) \/ Ping(n) \/ PingAnswered(n)
       PROVE  Unsent' /\ InFlight' /\ Single' /\ Unasked' /\ ExactlyOnce'
  BY <1>1, <1>12 DEF UnitPasses, clean, Ping, PingAnswered, linkVars
<1>13. CASE PresencePart
  BY <1>1, <1>13 DEF PresencePart, PresenceStep, PRESENCE_READ, PresenceClock, on_subscribe,
                     refresh_presence, unsubscribe_channel, linkVars, memberVars
<1>14. CASE UNCHANGED vars
  BY <1>1, <1>14 DEF vars, linkVars, memberVars
<1>. QED
  BY <1>2, <1>3, <1>4, <1>5, <1>6, <1>7, <1>8, <1>9, <1>10, <1>11, <1>12, <1>13, <1>14
     DEF Next, NodeCrashes, Pings, Asking

\* Types of the whole cluster (Links, Members, Presence).
THEOREM TypeCorrect == Spec => []ClusterTypeOK
<1>1. MembersTypeOK /\ PInv /\ [Next]_vars => MembersTypeOK' /\ PInv'
  BY LinksKeep, MembersKeep, PresenceKeeps DEF PInv
<1>2. MembersTypeOK /\ PInv => ClusterTypeOK
  BY DEF PInv, ClusterTypeOK
<1>. QED  BY MembersStart, PresenceStart, <1>1, <1>2, PTL DEF Spec

\* For any number of nodes, requests and troubles a request takes effect at its
\* own node and at every node it was sent to that keeps its link, and nowhere
\* twice (node.rs unsubscribe_user, disconnect_user; lib.rs dispatch_message,
\* decode_control).
THEOREM ExactlyOnceTheorem == Spec => []ExactlyOnce
<1>1. RInv /\ [Next]_vars => RInv'
  BY MembersKeep, RequestsKeep DEF RInv
<1>2. RInv => ExactlyOnce
  BY DEF RInv
<1>. QED  BY RequestsStart, <1>1, <1>2, PTL DEF Spec
-----------------------------------------------------------------------------
(* The registry.                                                           *)

\* What is left of Sound within a unit.
Connected(n) == status[n] = "up" /\ serving /\ mgr[n] = master /\ sub[n] = master

\* A node that is not up holds no link, no message and no registry, and only
\* one that is dead has been dead for a while.
Silent ==
  \A n \in Nodes :
    /\ status[n] # "up" => /\ sub[n] = None /\ inbox[n] = <<>> /\ watch[n] = "listen"
                           /\ \A m \in Nodes : age[n][m] = None
    /\ status[n] # "dead" \/ ping[n] # None => deadFor[n] = 0
    /\ watch[n] \in {"sleep", "manager", "subscribe"} => sub[n] = None
    /\ sound[n] > 0 => Connected(n)

\* Why a node with a working link is listed: if both ends have worked for longer
\* than the sender's last ping is ago, that ping has arrived or is on its way,
\* and pruning comes too late for the one before.
Arrived ==
  \A n, m \in Nodes :
    n # m /\ PingEvery - pingIn[m] < sound[n] /\ PingEvery - pingIn[m] < sound[m] =>
      \/ ping[m] # None /\ ping[m] # Unanswered
      \/ age[n][m] # None /\ age[n][m] <= PingEvery - pingIn[m]
      \/ \E i \in 1..Len(inbox[n]) : inbox[n][i].from = m /\ inbox[n][i].request = 0

Remembered ==
  \A n, m \in Nodes :
    n # m /\ sound[n] = Steady /\ sound[m] = Steady => age[n][m] # None /\ age[n][m] <= PingEvery

ListsItself == \A n \in Up : age[n][n] # None

\* Why a dead node is pruned: its age is no less than the time it has been dead,
\* and past the greatest age the next pruning is at most an interval away.
Pruned ==
  \A n, m \in Nodes :
    /\ age[n][m] # None /\ status[m] = "dead" =>
         /\ age[n][m] >= Least(deadFor[m], MaxAge + 1)
         /\ deadFor[m] > MaxAge => deadFor[m] + cleanIn[n] <= Forgotten
    /\ \A i \in 1..Len(inbox[n]) : deadFor[inbox[n][i].from] = 0

Registered == Silent /\ Arrived /\ Remembered /\ ListsItself /\ Pruned

AInv == MembersTypeOK /\ Registered
\* Nobody up, nobody listed.
LEMMA RegistryStart == Init => AInv
BY MembersStart, LinksAssumption, MembersAssumption
   DEF Init, LinksInit, MembersInit, AInv, Registered, Silent, Arrived, Remembered, ListsItself, Pruned,
       Up, Steady

\* No step makes a working node forgotten or a dead one remembered.
LEMMA RegistryKeep ==
  ASSUME AInv, [Next]_vars, MembersTypeOK'
  PROVE Registered'
<1>0. /\ inbox \in [Nodes -> Seq(Message)] /\ status \in [Nodes -> {"new", "up", "dead"}]
      /\ mgr \in [Nodes -> Servers] /\ sub \in [Nodes -> Servers \cup {None}]
      /\ master \in Servers
      /\ watch \in [Nodes -> {"listen", "sleep", "manager", "subscribe", "ended"}]
      /\ age \in [Nodes -> [Nodes -> 0..(MaxAge + 1) \cup {None}]]
      /\ pingIn \in [Nodes -> -MaxLate..PingEvery] /\ cleanIn \in [Nodes -> -MaxLate..CleanEvery]
      /\ ping \in [Nodes -> Servers \cup {Unanswered, None}]
      /\ sound \in [Nodes -> 0..Steady] /\ deadFor \in [Nodes -> 0..(Forgotten + 1)]
  BY DEF AInv, MembersTypeOK, LinksTypeOK
<1>a. Silent
  BY DEF AInv, Registered
<1>b. Arrived
  BY DEF AInv, Registered
<1>c. Remembered
  BY DEF AInv, Registered
<1>d. ListsItself
  BY DEF AInv, Registered
<1>e. Pruned
  BY DEF AInv, Registered
<1>f. /\ PingEvery \in Nat \ {0} /\ CleanEvery \in Nat \ {0} /\ MaxAge \in Nat /\ PingEvery <= MaxAge
      /\ MaxLate \in Nat /\ None \notin Nat /\ Steady = PingEvery + 1 /\ Forgotten = MaxAge + CleanEvery
      /\ \A n \in Nodes : mgr[n] # None /\ mgr[n] \in Nat
  BY <1>0, LinksAssumption, MembersAssumption DEF Servers, Steady, Forgotten
<1>g. ASSUME NEW n \in Nodes
      PROVE  /\ pingIn[n] \in -MaxLate..PingEvery /\ sound[n] \in 0..Steady
             /\ cleanIn[n] \in -MaxLate..CleanEvery
             /\ deadFor[n] \in 0..(Forgotten + 1)
             /\ \A m \in Nodes : age[n][m] \in 0..(MaxAge + 1) \cup {None}
  BY <1>0
<1>h. ASSUME NEW n \in Nodes
      PROVE  /\ pingIn'[n] \in -MaxLate..PingEvery /\ sound'[n] \in 0..Steady
             /\ cleanIn'[n] \in -MaxLate..CleanEvery
             /\ deadFor'[n] \in 0..(Forgotten + 1)
             /\ \A m \in Nodes : age'[n][m] \in 0..(MaxAge + 1) \cup {None}
  BY DEF MembersTypeOK
<1>1. ASSUME UNCHANGED <<status, sub, watch, mgr, master, serving, inbox, registry, sound>>
      PROVE  Registered'
  <2>1. Silent'
    BY <1>1, <1>a DEF Silent, Connected, registry, timers
  <2>2. Arrived' /\ Remembered' /\ ListsItself'
    BY <1>1, <1>b, <1>c, <1>d DEF Arrived, Remembered, ListsItself, Up, registry, timers
  <2>3. Pruned'
    BY <1>1, <1>e DEF Pruned, registry, timers
  <2>. QED  BY <2>1, <2>2, <2>3 DEF Registered
<1>2. ASSUME NEW n \in Nodes, Start(n) PROVE Registered'
  <2>1. /\ status[n] = "new" /\ status' = [status EXCEPT ![n] = "up"]
        /\ mgr' = [mgr EXCEPT ![n] = master] /\ sub' = [sub EXCEPT ![n] = master]
        /\ age' = [age EXCEPT ![n][n] = 0]
        /\ UNCHANGED <<master, serving, watch, inbox, pingIn, cleanIn, ping, deadFor, sound>>
    BY <1>2 DEF Start, Connect, Seeded, timers
  <2>2. /\ sound[n] = 0 /\ watch[n] = "listen" /\ deadFor[n] = 0
        /\ \A m \in Nodes : age[n][m] = None
    BY <1>0, <1>a, <2>1 DEF Silent, Connected
  <2>3. ASSUME NEW k \in Nodes, NEW m \in Nodes
        PROVE  age'[k][m] = IF k = n /\ m = n THEN 0 ELSE age[k][m]
    BY <1>0, <2>1
  <2>4. ASSUME NEW k \in Nodes
        PROVE  /\ status'[k] = IF k = n THEN "up" ELSE status[k]
               /\ k # n => mgr'[k] = mgr[k] /\ sub'[k] = sub[k]
    BY <1>0, <2>1
  <2>5. Silent'
    BY <1>a, <2>1, <2>2, <2>3, <2>4 DEF Silent, Connected
  <2>6. Arrived' /\ Remembered'
    BY <1>b, <1>c, <2>1, <2>3 DEF Arrived, Remembered
  <2>7. ListsItself'
    BY <1>d, <1>f, <2>3, <2>4 DEF ListsItself, Up
  <2>8. Pruned'
    BY <1>e, <2>1, <2>3, <2>4 DEF Pruned
  <2>. QED  BY <2>5, <2>6, <2>7, <2>8 DEF Registered
<1>3. ASSUME NEW n \in Nodes, NodeCrashes(n) PROVE Registered'
  <2>1. /\ status[n] = "up" /\ status' = [status EXCEPT ![n] = "dead"]
        /\ mgr' = [mgr EXCEPT ![n] = 1] /\ sub' = [sub EXCEPT ![n] = None]
        /\ watch' = [watch EXCEPT ![n] = "listen"] /\ inbox' = [inbox EXCEPT ![n] = <<>>]
        /\ sound' = [sound EXCEPT ![n] = 0]
        /\ age' = [age EXCEPT ![n] = [m \in Nodes |-> None]]
        /\ pingIn' = [pingIn EXCEPT ![n] = 0] /\ cleanIn' = [cleanIn EXCEPT ![n] = 0]
        /\ ping' = [ping EXCEPT ![n] = IF ping[n] = Unanswered THEN None ELSE ping[n]]
        /\ UNCHANGED <<master, serving, deadFor>>
    BY <1>3 DEF NodeCrashes, Crash, Lost, Unsound
  <2>2. ASSUME NEW k \in Nodes
        PROVE  /\ k = n => /\ status'[k] = "dead" /\ sub'[k] = None /\ watch'[k] = "listen"
                           /\ inbox'[k] = <<>> /\ sound'[k] = 0 /\ \A m \in Nodes : age'[k][m] = None
               /\ k # n => /\ status'[k] = status[k] /\ mgr'[k] = mgr[k] /\ sub'[k] = sub[k]
                           /\ watch'[k] = watch[k] /\ inbox'[k] = inbox[k] /\ sound'[k] = sound[k]
                           /\ age'[k] = age[k] /\ pingIn'[k] = pingIn[k] /\ cleanIn'[k] = cleanIn[k]
                           /\ ping'[k] = ping[k]
    BY <1>0, <2>1
  <2>3. Silent'
    BY <1>a, <2>1, <2>2 DEF Silent, Connected
  <2>4. Arrived'
    <3>. SUFFICES ASSUME NEW k \in Nodes, NEW m \in Nodes, k # m,
                         PingEvery - pingIn'[m] < sound'[k], PingEvery - pingIn'[m] < sound'[m]
                  PROVE  \/ ping'[m] # None /\ ping'[m] # Unanswered
                         \/ age'[k][m] # None /\ age'[k][m] <= PingEvery - pingIn'[m]
                         \/ \E i \in 1..Len(inbox'[k]) : inbox'[k][i].from = m /\ inbox'[k][i].request = 0
      BY DEF Arrived
    <3>1. k # n /\ m # n
      BY <1>f, <1>h, <2>2
    <3>. QED  BY <1>b, <2>2, <3>1 DEF Arrived
  <2>6. Remembered' /\ ListsItself'
    BY <1>c, <1>d, <1>f, <2>2 DEF Remembered, ListsItself, Up
  <2>5. Pruned'
    <3>1. deadFor[n] = 0
      BY <1>a, <2>1 DEF Silent
    <3>2. ASSUME NEW k \in Nodes, NEW m \in Nodes, age'[k][m] # None, status'[m] = "dead"
          PROVE  /\ age'[k][m] >= Least(deadFor[m], MaxAge + 1)
                 /\ deadFor[m] > MaxAge => deadFor[m] + cleanIn'[k] <= Forgotten
      <4>1. k # n /\ age[k][m] = age'[k][m] /\ cleanIn'[k] = cleanIn[k] /\ age[k][m] \in 0..(MaxAge + 1)
        BY <1>0, <2>2, <3>2
      <4>2. CASE m = n
        BY <1>f, <3>1, <4>1, <4>2 DEF Least
      <4>3. CASE m # n
        BY <1>e, <2>2, <3>2, <4>1, <4>3 DEF Pruned
      <4>. QED  BY <4>2, <4>3
    <3>3. ASSUME NEW k \in Nodes, NEW i \in 1..Len(inbox'[k])
          PROVE  deadFor[inbox'[k][i].from] = 0
      BY <1>e, <2>2, <3>3 DEF Pruned
    <3>. QED  BY <2>1, <3>2, <3>3 DEF Pruned
  <2>. QED  BY <2>3, <2>4, <2>5, <2>6 DEF Registered
<1>4. CASE MasterFails
  <2>1. /\ sound' = [n \in Nodes |-> 0]
        /\ ping' = [n \in Nodes |-> IF status[n] = "dead" THEN None ELSE ping[n]]
        /\ UNCHANGED <<master, status, mgr, sub, watch, inbox, age, pingIn, cleanIn, deadFor>>
    BY <1>4 DEF MasterFails, ServerFails, Cut
  <2>2. Silent'
    BY <1>a, <2>1 DEF Silent
  <2>3. Arrived' /\ Remembered'
    BY <1>f, <1>h, <2>1 DEF Arrived, Remembered
  <2>4. ListsItself' /\ Pruned'
    BY <1>d, <1>e, <2>1 DEF ListsItself, Pruned, Up
  <2>. QED  BY <2>2, <2>3, <2>4 DEF Registered
<1>5. CASE MasterReturns
  <2>1. /\ ~serving
        /\ UNCHANGED <<status, mgr, sub, watch, inbox, age, pingIn, cleanIn, ping, deadFor, sound>>
    BY <1>5 DEF MasterReturns, ServerReturns, memberVars, registry, timers
  <2>2. \A n \in Nodes : ~(sound[n] > 0)
    BY <1>a, <2>1 DEF Silent, Connected
  <2>3. Silent'
    BY <1>a, <2>1, <2>2 DEF Silent
  <2>4. Arrived' /\ Remembered'
    BY <1>b, <1>c, <2>1 DEF Arrived, Remembered
  <2>5. ListsItself' /\ Pruned'
    BY <1>d, <1>e, <2>1 DEF ListsItself, Pruned, Up
  <2>. QED  BY <2>3, <2>4, <2>5 DEF Registered
<1>6. ASSUME NEW n \in Nodes, LinkLost(n) PROVE Registered'
  <2>1. PICK k \in 0..Len(inbox[n]) : inbox' = [inbox EXCEPT ![n] = SubSeq(@, 1, k)]
    BY <1>6 DEF LinkLost, LinkBreaks
  <2>2. /\ sub[n] # None /\ sub' = [sub EXCEPT ![n] = None] /\ sound' = [sound EXCEPT ![n] = 0]
        /\ UNCHANGED <<master, serving, status, mgr, watch, age, pingIn, cleanIn, ping, deadFor>>
    BY <1>6 DEF LinkLost, LinkBreaks, Deaf, Unsound, registry, timers
  <2>3. status[n] = "up"
    BY <1>0, <1>a, <2>2 DEF Silent
  <2>4. ASSUME NEW m \in Nodes
        PROVE  /\ Len(inbox'[m]) \in 0..Len(inbox[m])
               /\ \A i \in 1..Len(inbox'[m]) : inbox'[m][i] = inbox[m][i]
               /\ m # n => inbox'[m] = inbox[m] /\ sub'[m] = sub[m] /\ sound'[m] = sound[m]
               /\ m = n => sub'[m] = None /\ sound'[m] = 0
    <3>1. inbox[m] \in Seq(Message) /\ inbox'[m] = IF m = n THEN SubSeq(inbox[m], 1, k) ELSE inbox[m]
      BY <1>0, <2>1
    <3>2. Len(inbox'[m]) \in 0..Len(inbox[m])
          /\ \A i \in 1..Len(inbox'[m]) : inbox'[m][i] = inbox[m][i]
      BY <2>1, <3>1
    <3>. QED  BY <1>0, <2>2, <3>1, <3>2
  <2>5. Silent'
    BY <1>a, <2>2, <2>3, <2>4 DEF Silent, Connected
  <2>6. Arrived'
    <3>. SUFFICES ASSUME NEW j \in Nodes, NEW m \in Nodes, j # m,
                         PingEvery - pingIn'[m] < sound'[j], PingEvery - pingIn'[m] < sound'[m]
                  PROVE  \/ ping'[m] # None /\ ping'[m] # Unanswered
                         \/ age'[j][m] # None /\ age'[j][m] <= PingEvery - pingIn'[m]
                         \/ \E i \in 1..Len(inbox'[j]) : inbox'[j][i].from = m /\ inbox'[j][i].request = 0
      BY DEF Arrived
    <3>1. j # n /\ m # n
      BY <1>f, <1>h, <2>4
    <3>. QED  BY <1>b, <2>2, <2>4, <3>1 DEF Arrived
  <2>7. Remembered' /\ ListsItself'
    BY <1>c, <1>d, <1>f, <2>2, <2>4 DEF Remembered, ListsItself, Up
  <2>8. Pruned'
    <3>1. ASSUME NEW m \in Nodes, NEW i \in 1..Len(inbox'[m])
          PROVE  deadFor[inbox'[m][i].from] = 0
      <4>1. i \in 1..Len(inbox[m]) /\ inbox'[m][i] = inbox[m][i]
        BY <2>4, <3>1
      <4>. QED  BY <1>e, <4>1 DEF Pruned
    <3>. QED  BY <1>e, <2>2, <3>1 DEF Pruned
  <2>. QED  BY <2>5, <2>6, <2>7, <2>8 DEF Registered
<1>7. ASSUME NEW n \in Nodes, Reconnect(n) PROVE Registered'
  <2>1. UNCHANGED <<master, serving, status, inbox, age, pingIn, cleanIn, ping, deadFor, sound>>
    BY <1>7 DEF Reconnect, Watchdog, StreamEnds, Resolve, SwapManager, subscribe, subscribe_fails,
                memberVars, registry, timers
  <2>2. /\ status[n] = "up" /\ sub[n] = None
        /\ sub'[n] = None \/ watch'[n] = "listen"
        /\ \A m \in Nodes \ {n} : mgr'[m] = mgr[m] /\ sub'[m] = sub[m] /\ watch'[m] = watch[m]
    <3>1. CASE StreamEnds(n)
      BY <1>0, <3>1 DEF StreamEnds
    <3>2. CASE Resolve(n)
      BY <1>0, <1>a, <3>2 DEF Resolve, Silent
    <3>3. CASE SwapManager(n)
      BY <1>0, <1>a, <3>3 DEF SwapManager, Silent
    <3>4. CASE subscribe(n)
      BY <1>0, <1>a, <3>4 DEF subscribe, Silent
    <3>5. CASE subscribe_fails(n)
      BY <1>0, <1>a, <3>5 DEF subscribe_fails, Silent
    <3>. QED  BY <1>7, <3>1, <3>2, <3>3, <3>4, <3>5 DEF Reconnect, Watchdog
  <2>3. ~(sound[n] > 0)
    BY <1>0, <1>a, <1>f, <2>2 DEF Silent, Connected, Servers
  <2>4. Silent'
    BY <1>a, <2>1, <2>2, <2>3 DEF Silent, Connected
  <2>5. Arrived' /\ Remembered'
    BY <1>b, <1>c, <2>1 DEF Arrived, Remembered
  <2>6. ListsItself' /\ Pruned'
    BY <1>d, <1>e, <2>1 DEF ListsItself, Pruned, Up
  <2>. QED  BY <2>4, <2>5, <2>6 DEF Registered
<1>8. ASSUME NEW n \in Nodes, clean(n) PROVE Registered'
  <2>1. /\ status[n] = "up" /\ cleanIn[n] <= 0
        /\ cleanIn' = [cleanIn EXCEPT ![n] = cleanIn[n] + CleanEvery]
        /\ age' = [age EXCEPT ![n] = [m \in Nodes |-> IF Kept(n, m) THEN age[n][m] ELSE None]]
        /\ UNCHANGED <<status, sub, watch, mgr, master, serving, inbox, pingIn, ping, deadFor, sound>>
    BY <1>8 DEF clean, linkVars
  <2>2. ASSUME NEW k \in Nodes, NEW m \in Nodes
        PROVE  age'[k][m] = IF k # n \/ Kept(n, m) THEN age[k][m] ELSE None
    BY <1>0, <2>1
  <2>3. ASSUME NEW m \in Nodes, age[n][m] # None, age[n][m] <= PingEvery
        PROVE  age'[n][m] = age[n][m]
    BY <1>f, <1>g, <2>2, <2>3 DEF Kept, Recent
  <2>4. Silent'
    BY <1>a, <2>1, <2>2 DEF Silent, Connected
  <2>5. Arrived'
    <3>. SUFFICES ASSUME NEW j \in Nodes, NEW m \in Nodes, j # m,
                         PingEvery - pingIn[m] < sound[j], PingEvery - pingIn[m] < sound[m]
                  PROVE  \/ ping'[m] # None /\ ping'[m] # Unanswered
                         \/ age'[j][m] # None /\ age'[j][m] <= PingEvery - pingIn[m]
                         \/ \E i \in 1..Len(inbox[j]) : inbox[j][i].from = m /\ inbox[j][i].request = 0
      BY <2>1 DEF Arrived
    <3>1. CASE age[j][m] # None /\ age[j][m] <= PingEvery - pingIn[m]
      <4>1. age[j][m] <= PingEvery
        BY <1>f, <1>g, <3>1
      <4>2. age'[j][m] = age[j][m]
        BY <2>2, <2>3, <3>1, <4>1
      <4>. QED  BY <3>1, <4>2
    <3>. QED  BY <1>b, <2>1, <3>1 DEF Arrived
  <2>6. Remembered' /\ ListsItself'
    BY <1>c, <1>d, <2>1, <2>2, <2>3 DEF Remembered, ListsItself, Up, Kept
  <2>7. Pruned'
    <3>1. ASSUME NEW k \in Nodes, NEW m \in Nodes, age'[k][m] # None, status[m] = "dead"
          PROVE  /\ age'[k][m] >= Least(deadFor[m], MaxAge + 1)
                 /\ deadFor[m] > MaxAge => deadFor[m] + cleanIn'[k] <= Forgotten
      <4>1. /\ age'[k][m] = age[k][m] /\ age[k][m] >= Least(deadFor[m], MaxAge + 1)
            /\ deadFor[m] > MaxAge => deadFor[m] + cleanIn[k] <= Forgotten
        BY <1>e, <2>2, <3>1 DEF Pruned
      <4>2. CASE k = n
        <5>1. m # n /\ age[n][m] <= MaxAge
          BY <2>1, <2>2, <3>1, <4>2 DEF Kept, Recent
        <5>2. ~(deadFor[m] > MaxAge)
          <6>1. deadFor[m] \in Nat /\ age[n][m] \in Nat /\ age[n][m] >= Least(deadFor[m], MaxAge + 1)
            BY <1>f, <1>g, <3>1, <4>1, <4>2
          <6>. QED  BY <1>f, <5>1, <6>1 DEF Least
        <5>. QED  BY <4>1, <5>2
      <4>3. CASE k # n
        BY <1>0, <2>1, <4>1, <4>3
      <4>. QED  BY <4>2, <4>3
    <3>. QED  BY <1>e, <2>1, <3>1 DEF Pruned
  <2>. QED  BY <2>4, <2>5, <2>6, <2>7 DEF Registered
<1>9. ASSUME UnitPasses PROVE Registered'
  <2>1. /\ UNCHANGED <<status, sub, watch, mgr, master, serving, inbox, ping>>
        /\ \A n \in Up : ping[n] = None => pingIn[n] > 0
    BY <1>9 DEF UnitPasses, linkVars
  <2>2. ASSUME NEW n \in Nodes
        PROVE  /\ pingIn'[n] = IF n \in Up THEN pingIn[n] - 1 ELSE pingIn[n]
               /\ cleanIn'[n] = IF n \in Up THEN cleanIn[n] - 1 ELSE cleanIn[n]
               /\ deadFor'[n] = IF status[n] = "dead" /\ Quiet(n)
                                THEN Least(deadFor[n] + 1, Forgotten + 1) ELSE 0
               /\ sound'[n] = IF Sound(n) THEN Least(sound[n] + 1, Steady) ELSE 0
    BY <1>9 DEF UnitPasses
  <2>3. ASSUME NEW n \in Nodes, NEW m \in Nodes
        PROVE  age'[n][m] = IF age[n][m] = None THEN None ELSE Least(age[n][m] + 1, MaxAge + 1)
    BY <1>9 DEF UnitPasses
  <2>4. \A n \in Nodes : Sound(n) => ping[n] = None /\ inbox[n] = <<>> /\ Connected(n)
    BY DEF Sound, Connected
  <2>5. Silent'
    <3>1. \A n \in Nodes : sound'[n] > 0 => Connected(n)'
      BY <2>1, <2>2, <2>4 DEF Connected
    <3>. QED  BY <1>a, <2>1, <2>2, <2>3, <3>1 DEF Silent, Quiet
  <2>6. ASSUME NEW n \in Nodes, NEW m \in Nodes, n # m,
               PingEvery - pingIn'[m] < sound'[n], PingEvery - pingIn'[m] < sound'[m]
        PROVE  age'[n][m] # None /\ age'[n][m] <= PingEvery - pingIn'[m]
    <3>1. sound'[n] > 0 /\ sound'[m] > 0
      BY <1>f, <1>h, <2>6
    <3>2. Sound(n) /\ Sound(m)
      BY <2>2, <3>1
    <3>3. m \in Up
      BY <3>2 DEF Sound, Up
    <3>4. pingIn'[m] = pingIn[m] - 1 /\ pingIn[m] > 0
      BY <2>1, <2>2, <2>4, <3>2, <3>3
    <3>5. sound'[n] <= sound[n] + 1 /\ sound'[m] <= sound[m] + 1
      BY <1>f, <1>g, <2>2, <3>2 DEF Least
    <3>6. PingEvery - pingIn[m] < sound[n] /\ PingEvery - pingIn[m] < sound[m]
      BY <1>f, <1>g, <1>h, <2>6, <3>4, <3>5
    <3>7. age[n][m] # None /\ age[n][m] <= PingEvery - pingIn[m]
      <4>1. ping[m] = None /\ inbox[n] = <<>>
        BY <2>4, <3>2
      <4>2. 1..Len(inbox[n]) = {}
        BY <4>1
      <4>. QED  BY <1>b, <2>6, <3>6, <4>1, <4>2 DEF Arrived
    <3>8. age[n][m] \in Nat /\ pingIn[m] \in 1..PingEvery
      BY <1>f, <1>g, <3>4, <3>7
    <3>9. age'[n][m] = age[n][m] + 1
      BY <1>f, <2>3, <3>7, <3>8 DEF Least
    <3>. QED  BY <1>f, <3>4, <3>7, <3>8, <3>9
  <2>7. Arrived'
    BY <2>6 DEF Arrived
  <2>8. Remembered'
    <3>. SUFFICES ASSUME NEW n \in Nodes, NEW m \in Nodes, n # m, sound'[n] = Steady, sound'[m] = Steady
                  PROVE  age'[n][m] # None /\ age'[n][m] <= PingEvery
      BY DEF Remembered, Steady
    <3>0. Sound(m) /\ m \in Up
      BY <1>f, <2>2 DEF Sound, Up
    <3>3. pingIn'[m] = pingIn[m] - 1 /\ pingIn[m] > 0
      BY <2>1, <2>2, <2>4, <3>0
    <3>1. PingEvery - pingIn'[m] < sound'[n] /\ PingEvery - pingIn'[m] < sound'[m]
      BY <1>f, <1>g, <3>3
    <3>2. age'[n][m] # None /\ age'[n][m] <= PingEvery - pingIn'[m]
      BY <2>6, <3>1
    <3>. QED  BY <1>f, <1>g, <1>h, <3>2, <3>3
  <2>9. ListsItself'
    <3>. SUFFICES ASSUME NEW n \in Up PROVE age'[n][n] # None
      BY <2>1 DEF ListsItself, Up
    <3>1. n \in Nodes /\ age[n][n] # None
      BY <1>d DEF ListsItself, Up
    <3>2. age'[n][n] = Least(age[n][n] + 1, MaxAge + 1) /\ age[n][n] \in Nat
      BY <1>g, <1>f, <2>3, <3>1
    <3>. QED  BY <1>f, <3>2 DEF Least
  <2>10. Pruned'
    <3>1. ASSUME NEW n \in Nodes, NEW m \in Nodes, age'[n][m] # None, status[m] = "dead"
          PROVE  /\ age'[n][m] >= Least(deadFor'[m], MaxAge + 1)
                 /\ deadFor'[m] > MaxAge => deadFor'[m] + cleanIn'[n] <= Forgotten
      <4>1. /\ age[n][m] # None /\ age[n][m] \in Nat /\ deadFor[m] \in Nat
            /\ cleanIn[n] \in Int /\ cleanIn[n] <= CleanEvery
            /\ age[n][m] >= Least(deadFor[m], MaxAge + 1)
            /\ deadFor[m] > MaxAge => deadFor[m] + cleanIn[n] <= Forgotten
        BY <1>e, <1>f, <1>g, <2>3, <3>1 DEF Pruned
      <4>2. n \in Up
        BY <1>a, <4>1 DEF Silent, Up
      <4>3. /\ cleanIn'[n] = cleanIn[n] - 1
            /\ deadFor'[m] = 0 \/ deadFor'[m] = Least(deadFor[m] + 1, Forgotten + 1)
            /\ age'[n][m] = Least(age[n][m] + 1, MaxAge + 1)
        BY <2>2, <2>3, <4>1, <4>2
      <4>. QED  BY <1>f, <4>1, <4>3 DEF Least
    <3>2. ASSUME NEW n \in Nodes, NEW i \in 1..Len(inbox[n])
          PROVE  deadFor'[inbox[n][i].from] = 0
      <4>1. inbox[n] \in Seq(Message)
        BY <1>0
      <4>4. inbox[n][i] \in Message
        BY <3>2, <4>1
      <4>2. inbox[n][i].from \in Nodes
        BY <4>4 DEF Message
      <4>3. ~Quiet(inbox[n][i].from)
        BY <3>2 DEF Quiet
      <4>. QED  BY <2>2, <4>2, <4>3
    <3>. QED  BY <2>1, <3>1, <3>2 DEF Pruned, Forgotten
  <2>. QED  BY <2>5, <2>7, <2>8, <2>9, <2>10 DEF Registered
<1>i. ASSUME NEW n \in Nodes, NEW s \in Nat, NEW q \in 0..MaxRequests,
             Broadcast(s, [from |-> n, request |-> q]), NEW m \in Nodes
      PROVE  /\ status[m] # "up" => inbox'[m] = <<>>
             /\ Len(inbox[m]) \in Nat /\ Len(inbox'[m]) \in {Len(inbox[m]), Len(inbox[m]) + 1}
             /\ \A i \in 1..Len(inbox[m]) : i \in 1..Len(inbox'[m]) /\ inbox'[m][i] = inbox[m][i]
             /\ \A i \in 1..Len(inbox'[m]) : i \in 1..Len(inbox[m]) \/ inbox'[m][i].from = n
             /\ sub[m] = s =>
                  \E i \in 1..Len(inbox'[m]) : inbox'[m][i].from = n /\ inbox'[m][i].request = q
  <2>. DEFINE x == [from |-> n, request |-> q]
  <2>1. inbox[m] \in Seq(Message)
    BY <1>0
  <2>2. inbox'[m] = IF sub[m] = s THEN Append(inbox[m], x) ELSE inbox[m]
    BY <1>0, <1>i DEF Broadcast
  <2>3. x.from = n /\ x.request = q
    OBVIOUS
  <2>4. status[m] # "up" => inbox[m] = <<>> /\ sub[m] # s
    BY <1>a, <1>f DEF Silent
  <2>. HIDE DEF x
  <2>5. CASE sub[m] = s
    <3>1. /\ Len(Append(inbox[m], x)) = Len(inbox[m]) + 1 /\ Len(inbox[m]) \in Nat
          /\ Append(inbox[m], x)[Len(inbox[m]) + 1] = x
          /\ \A i \in 1..Len(inbox[m]) : Append(inbox[m], x)[i] = inbox[m][i]
      BY <2>1
    <3>. QED  BY <2>2, <2>3, <2>4, <2>5, <3>1 DEF x
  <2>6. CASE sub[m] # s
    BY <2>1, <2>2, <2>4, <2>6
  <2>. QED  BY <2>5, <2>6
<1>j. ASSUME NEW n \in Nodes, deadFor[n] = 0, NEW s \in Nat, NEW q \in 0..MaxRequests,
             Broadcast(s, [from |-> n, request |-> q]),
             \A k \in Nodes : ping'[k] # None => ping[k] # None,
             UNCHANGED <<status, sub, watch, mgr, master, serving, age, cleanIn, deadFor, sound>>
      PROVE  Silent' /\ Remembered' /\ ListsItself' /\ Pruned'
  <2>1. Silent'
    BY <1>a, <1>i, <1>j DEF Silent, Connected
  <2>2. Remembered' /\ ListsItself'
    BY <1>c, <1>d, <1>j DEF Remembered, ListsItself, Up
  <2>3. ASSUME NEW m \in Nodes, NEW i \in 1..Len(inbox'[m])
        PROVE  deadFor[inbox'[m][i].from] = 0
    <3>1. CASE i \in 1..Len(inbox[m])
      BY <1>e, <1>i, <1>j, <3>1 DEF Pruned
    <3>2. CASE inbox'[m][i].from = n
      BY <1>j, <3>2
    <3>. QED  BY <1>i, <1>j, <2>3, <3>1, <3>2
  <2>4. Pruned'
    BY <1>e, <1>j, <2>3 DEF Pruned
  <2>. QED  BY <2>1, <2>2, <2>4
<1>10. ASSUME NEW n \in Nodes, PingPublished(n) PROVE Registered'
  <2>1. /\ ping[n] = master /\ master \in Nat /\ 0 \in 0..MaxRequests
        /\ Broadcast(master, [from |-> n, request |-> 0])
        /\ ping' = [ping EXCEPT ![n] = IF status[n] = "up" THEN Unanswered ELSE None]
        /\ UNCHANGED <<status, sub, watch, mgr, master, serving, age, pingIn, cleanIn, deadFor, sound>>
    BY <1>0, <1>10, MembersAssumption DEF PingPublished, Usable, OnlyInbox, Servers
  <2>2. /\ \A k \in Nodes : ping'[k] # None => ping[k] # None
        /\ \A k \in Nodes : k # n => ping'[k] = ping[k]
        /\ deadFor[n] = 0
    BY <1>0, <1>a, <1>f, <2>1 DEF Silent
  <2>3. Silent' /\ Remembered' /\ ListsItself' /\ Pruned'
    BY <1>j, <2>1, <2>2
  <2>4. Arrived'
    <3>. SUFFICES ASSUME NEW j \in Nodes, NEW m \in Nodes, j # m,
                         PingEvery - pingIn[m] < sound[j], PingEvery - pingIn[m] < sound[m]
                  PROVE  \/ ping'[m] # None /\ ping'[m] # Unanswered
                         \/ age[j][m] # None /\ age[j][m] <= PingEvery - pingIn[m]
                         \/ \E i \in 1..Len(inbox'[j]) : inbox'[j][i].from = m /\ inbox'[j][i].request = 0
      BY <2>1 DEF Arrived
    <3>1. CASE m = n
      <4>1. sound[j] > 0
        BY <1>f, <1>g
      <4>2. sub[j] = master
        BY <1>a, <4>1 DEF Silent, Connected
      <4>. QED  BY <1>i, <2>1, <3>1, <4>2
    <3>2. CASE m # n
      <4>1. \A i \in 1..Len(inbox[j]) : i \in 1..Len(inbox'[j]) /\ inbox'[j][i] = inbox[j][i]
        BY <1>i, <2>1
      <4>. QED  BY <1>b, <2>2, <3>2, <4>1 DEF Arrived
    <3>. QED  BY <3>1, <3>2
  <2>. QED  BY <2>3, <2>4 DEF Registered
<1>16. ASSUME NEW n \in Nodes, Ping(n) PROVE Registered'
  <2>1. /\ status[n] = "up" /\ ping' = [ping EXCEPT ![n] = mgr[n]]
        /\ mgr[n] # None /\ mgr[n] # Unanswered /\ \A m \in Nodes : m # n => pingIn'[m] = pingIn[m]
        /\ UNCHANGED <<status, sub, watch, mgr, master, serving, inbox, age, cleanIn, deadFor, sound>>
    BY <1>0, <1>16, <1>f DEF Ping, linkVars, Servers, Unanswered
  <2>2. ASSUME NEW m \in Nodes
        PROVE  ping'[m] = IF m = n THEN mgr[n] ELSE ping[m]
    BY <1>0, <2>1
  <2>3. Silent'
    BY <1>a, <2>1, <2>2 DEF Silent, Connected
  <2>4. Arrived'
    BY <1>b, <2>1, <2>2 DEF Arrived
  <2>5. Remembered' /\ ListsItself' /\ Pruned'
    BY <1>c, <1>d, <1>e, <2>1 DEF Remembered, ListsItself, Pruned, Up
  <2>. QED  BY <2>3, <2>4, <2>5 DEF Registered
<1>17. ASSUME NEW n \in Nodes, PingAnswered(n) PROVE Registered'
  <2>1. /\ \/ ping[n] = Unanswered /\ UNCHANGED sound
           \/ ping[n] # Unanswered /\ Unsound(n)
        /\ ping' = [ping EXCEPT ![n] = None]
        /\ UNCHANGED <<status, sub, watch, mgr, master, serving, inbox, age, pingIn, cleanIn, deadFor>>
    BY <1>17 DEF PingAnswered, linkVars
  <2>2. ASSUME NEW m \in Nodes
        PROVE  /\ ping'[m] = IF m = n THEN None ELSE ping[m]
               /\ sound'[m] = IF m = n /\ ping[n] # Unanswered THEN 0 ELSE sound[m]
    BY <1>0, <2>1 DEF Unsound
  <2>3. Silent'
    BY <1>a, <2>1, <2>2 DEF Silent, Connected
  <2>4. Arrived'
    <3>. SUFFICES ASSUME NEW j \in Nodes, NEW m \in Nodes, j # m,
                         PingEvery - pingIn[m] < sound'[j], PingEvery - pingIn[m] < sound'[m]
                  PROVE  \/ ping'[m] # None /\ ping'[m] # Unanswered
                         \/ age[j][m] # None /\ age[j][m] <= PingEvery - pingIn[m]
                         \/ \E i \in 1..Len(inbox[j]) : inbox[j][i].from = m /\ inbox[j][i].request = 0
      BY <2>1 DEF Arrived
    <3>1. sound[j] = sound'[j] /\ sound[m] = sound'[m] /\ ~(m = n /\ ping[n] # Unanswered)
      BY <1>f, <1>g, <2>2
    <3>. QED  BY <1>b, <2>2, <3>1 DEF Arrived
  <2>5. Remembered' /\ ListsItself' /\ Pruned'
    BY <1>c, <1>d, <1>e, <1>f, <2>1, <2>2 DEF Remembered, ListsItself, Pruned, Up
  <2>. QED  BY <2>3, <2>4, <2>5 DEF Registered
<1>11. ASSUME NEW n \in Nodes, publish_control(n) PROVE Registered'
  <2>1. /\ status[n] = "up"
        /\ UNCHANGED <<status, sub, watch, mgr, master, serving, age, pingIn, cleanIn, ping, deadFor, sound>>
        /\ Broadcast(mgr[n], [from |-> n, request |-> pending[n]]) \/ UNCHANGED inbox
    BY <1>11 DEF publish_control, OnlyInbox, registry, timers
  <2>2. CASE UNCHANGED inbox
    BY <1>1, <2>1, <2>2 DEF registry, timers
  <2>3. CASE Broadcast(mgr[n], [from |-> n, request |-> pending[n]])
    <3>1. pending[n] \in 0..MaxRequests /\ mgr[n] \in Nat /\ deadFor[n] = 0
      BY <1>a, <1>f, <2>1 DEF AInv, MembersTypeOK, Silent
    <3>2. Silent' /\ Remembered' /\ ListsItself' /\ Pruned'
      BY <1>j, <2>1, <2>3, <3>1
    <3>3. ASSUME NEW m \in Nodes
          PROVE  \A i \in 1..Len(inbox[m]) : i \in 1..Len(inbox'[m]) /\ inbox'[m][i] = inbox[m][i]
      BY <1>i, <2>1, <2>3, <3>1
    <3>4. Arrived'
      <4>. SUFFICES ASSUME NEW j \in Nodes, NEW m \in Nodes, j # m,
                           PingEvery - pingIn[m] < sound[j], PingEvery - pingIn[m] < sound[m]
                    PROVE  \/ ping'[m] # None /\ ping'[m] # Unanswered
                           \/ age[j][m] # None /\ age[j][m] <= PingEvery - pingIn[m]
                           \/ \E i \in 1..Len(inbox'[j]) : inbox'[j][i].from = m /\ inbox'[j][i].request = 0
        BY <2>1 DEF Arrived
      <4>. QED  BY <1>b, <2>1, <3>3 DEF Arrived
    <3>. QED  BY <3>2, <3>4 DEF Registered
  <2>. QED  BY <2>1, <2>2, <2>3
<1>12. ASSUME NEW n \in Nodes, Reading(n) PROVE Registered'
  <2>. DEFINE q == inbox[n][1].request  f == inbox[n][1].from
  <2>1. /\ status[n] = "up" /\ Len(inbox[n]) > 0 /\ Head(inbox[n]) = inbox[n][1]
        /\ inbox' = [inbox EXCEPT ![n] = Tail(inbox[n])]
        /\ UNCHANGED <<status, sub, watch, mgr, master, serving, pingIn, cleanIn, ping, deadFor, sound>>
    BY <1>0, <1>12 DEF Reading, dispatch_message, Read, OnlyInbox, timers
  <2>2. ASSUME NEW m \in Nodes
        PROVE  /\ Len(inbox[m]) \in Nat
               /\ m # n => inbox'[m] = inbox[m]
               /\ m = n => /\ Len(inbox'[m]) = Len(inbox[m]) - 1
                           /\ \A i \in 1..Len(inbox'[m]) : inbox'[m][i] = inbox[m][i + 1]
    <3>1. inbox[m] \in Seq(Message)
      BY <1>0
    <3>2. inbox'[m] = IF m = n THEN Tail(inbox[n]) ELSE inbox[m]
      BY <1>0, <2>1
    <3>3. m = n => /\ Len(Tail(inbox[m])) = Len(inbox[m]) - 1
                   /\ \A i \in 1..Len(Tail(inbox[m])) : Tail(inbox[m])[i] = inbox[m][i + 1]
      BY <2>1, <3>1
    <3>. QED  BY <3>1, <3>2, <3>3
  <2>3. 1 \in 1..Len(inbox[n])
    BY <2>1, <2>2
  <2>4. f \in Nodes /\ deadFor[f] = 0
    <3>1. inbox[n] \in Seq(Message)
      BY <1>0
    <3>2. inbox[n][1] \in Message
      BY <2>3, <3>1
    <3>. QED  BY <1>e, <2>3, <3>2 DEF Pruned, Message
  <2>5. \/ q = 0 /\ f # n /\ age' = [age EXCEPT ![n][f] = 0]
        \/ (q # 0 \/ f = n) /\ UNCHANGED age
    BY <1>12, <2>1 DEF Reading, dispatch_message, Apply
  <2>6. ASSUME NEW k \in Nodes, NEW m \in Nodes
        PROVE  age'[k][m] = age[k][m] \/ (k = n /\ m = f /\ age'[k][m] = 0)
    <3>1. UNCHANGED age \/ age' = [age EXCEPT ![n][f] = 0]
      BY <2>5
    <3>. HIDE DEF f
    <3>2. ASSUME age' = [age EXCEPT ![n][f] = 0]
          PROVE  age'[k] = IF k = n THEN [age[n] EXCEPT ![f] = 0] ELSE age[k]
      BY <1>0, <3>2
    <3>3. age[n] \in [Nodes -> 0..(MaxAge + 1) \cup {None}]
      BY <1>0
    <3>. QED  BY <2>4, <3>1, <3>2, <3>3
  <2>7. Silent'
    BY <1>a, <2>1, <2>2, <2>6 DEF Silent, Connected
  <2>8. Arrived'
    <3>. SUFFICES ASSUME NEW j \in Nodes, NEW m \in Nodes, j # m,
                         PingEvery - pingIn[m] < sound[j], PingEvery - pingIn[m] < sound[m]
                  PROVE  \/ ping'[m] # None /\ ping'[m] # Unanswered
                         \/ age'[j][m] # None /\ age'[j][m] <= PingEvery - pingIn[m]
                         \/ \E i \in 1..Len(inbox'[j]) : inbox'[j][i].from = m /\ inbox'[j][i].request = 0
      BY <2>1 DEF Arrived
    <3>1. CASE age[j][m] # None /\ age[j][m] <= PingEvery - pingIn[m]
      BY <1>f, <1>g, <2>6, <3>1
    <3>2. ASSUME NEW i \in 1..Len(inbox[j]), inbox[j][i].from = m, inbox[j][i].request = 0
          PROVE  \/ ping'[m] # None /\ ping'[m] # Unanswered
                 \/ age'[j][m] # None /\ age'[j][m] <= PingEvery - pingIn[m]
                 \/ \E k \in 1..Len(inbox'[j]) : inbox'[j][k].from = m /\ inbox'[j][k].request = 0
      <4>1. CASE j # n
        BY <2>2, <3>2, <4>1
      <4>2. CASE j = n /\ i = 1
        <5>1. age' = [age EXCEPT ![n][m] = 0]
          BY <2>5, <3>2, <4>2
        <5>2. age'[j][m] = 0
          BY <1>0, <4>2, <5>1
        <5>. QED  BY <1>f, <1>g, <5>2
      <4>3. CASE j = n /\ i # 1
        <5>1. i - 1 \in 1..Len(inbox'[j])
          BY <2>2, <4>3
        <5>2. inbox'[j][i - 1] = inbox[j][(i - 1) + 1] /\ (i - 1) + 1 = i
          BY <2>2, <4>3, <5>1
        <5>. QED  BY <3>2, <5>1, <5>2
      <4>. QED  BY <4>1, <4>2, <4>3
    <3>. QED  BY <1>b, <2>1, <3>1, <3>2 DEF Arrived
  <2>9. Remembered' /\ ListsItself'
    BY <1>c, <1>d, <1>f, <2>1, <2>6 DEF Remembered, ListsItself, Up
  <2>10. Pruned'
    <3>1. ASSUME NEW k \in Nodes, NEW m \in Nodes, age'[k][m] # None, status[m] = "dead"
          PROVE  /\ age'[k][m] >= Least(deadFor[m], MaxAge + 1)
                 /\ deadFor[m] > MaxAge => deadFor[m] + cleanIn[k] <= Forgotten
      <4>1. CASE age'[k][m] = age[k][m]
        BY <1>e, <3>1, <4>1 DEF Pruned
      <4>2. CASE m = f /\ age'[k][m] = 0
        BY <1>f, <2>4, <4>2 DEF Least
      <4>. QED  BY <2>6, <4>1, <4>2
    <3>2. ASSUME NEW m \in Nodes, NEW i \in 1..Len(inbox'[m])
          PROVE  deadFor[inbox'[m][i].from] = 0
      <4>1. CASE m = n
        <5>1. i + 1 \in 1..Len(inbox[m]) /\ inbox'[m][i] = inbox[m][i + 1]
          BY <2>2, <3>2, <4>1
        <5>. QED  BY <1>e, <5>1 DEF Pruned
      <4>2. CASE m # n
        BY <1>e, <2>2, <3>2, <4>2 DEF Pruned
      <4>. QED  BY <4>1, <4>2
    <3>. QED  BY <2>1, <3>1, <3>2 DEF Pruned
  <2>. QED  BY <2>7, <2>8, <2>9, <2>10 DEF Registered
<1>13. ASSUME NEW n \in Nodes, Request(n) PROVE Registered'
  BY <1>1, <1>13 DEF Request, linkVars
<1>14. CASE PresencePart
  BY <1>1, <1>14 DEF PresencePart, PresenceStep, PRESENCE_READ, PresenceClock, on_subscribe,
                     refresh_presence, unsubscribe_channel, linkVars, memberVars
<1>15. CASE UNCHANGED vars
  BY <1>1, <1>15 DEF vars, linkVars, memberVars
<1>. QED
  BY <1>2, <1>3, <1>4, <1>5, <1>6, <1>7, <1>8, <1>9, <1>10, <1>11, <1>12, <1>13, <1>14, <1>15,
     <1>16, <1>17 DEF Next, Pings, Asking

\* For any number of nodes and any intervals with a ping in every greatest age,
\* working nodes list each other, and a dead one is forgotten in time wherever
\* no ping that Redis leaves unanswered keeps the pruning from its ticks
\* (node.rs NodeRegistry, spawn_node_pings; lib.rs decode_control).
THEOREM RegistryTheorem == Spec => []RegistryTruthful
<1>1. AInv /\ [Next]_vars => AInv'
  BY MembersKeep, RegistryKeep DEF AInv
<1>2. AInv => RegistryTruthful
  <2>. SUFFICES ASSUME AInv, NEW n \in Up, NEW m \in Nodes
                PROVE  /\ age[n][n] # None
                       /\ sound[n] = Steady /\ sound[m] = Steady => age[n][m] # None
                       /\ deadFor[m] > Forgotten /\ cleanIn[n] >= 0 => age[n][m] = None
    BY DEF RegistryTruthful, Up
  <2>1. n \in Nodes /\ age[n][n] # None
    BY DEF AInv, Registered, ListsItself, Up
  <2>2. sound[n] = Steady /\ sound[m] = Steady => age[n][m] # None
    BY <2>1 DEF AInv, Registered, Remembered
  <2>3. ASSUME deadFor[m] > Forgotten, cleanIn[n] >= 0, age[n][m] # None PROVE FALSE
    <3>1. /\ deadFor[m] \in Nat /\ cleanIn[n] \in Int /\ MaxAge \in Nat /\ CleanEvery \in Nat
          /\ Forgotten = MaxAge + CleanEvery
      BY <2>1, MembersAssumption DEF AInv, MembersTypeOK, Forgotten
    <3>2. status[m] = "dead"
      BY <2>3, <3>1 DEF AInv, Registered, Silent
    <3>. QED  BY <2>1, <2>3, <3>1, <3>2 DEF AInv, Registered, Pruned
  <2>. QED  BY <2>1, <2>2, <2>3
<1>. QED  BY RegistryStart, <1>1, <1>2, PTL DEF Spec
=============================================================================
