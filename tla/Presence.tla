------------------------------ MODULE Presence ------------------------------
(***************************************************************************)
(* The presence of one channel in Redis (centrifugo-redis/src/lib.rs): a   *)
(* hash of the connections subscribed and a set of the times their entries *)
(* expire, which every connection renews on its presence timer             *)
(* (centrifugo-core/src/client.rs) and which outlive a node that crashed.  *)
(* The scripts are atomic.  Lifetimes count down in units; no timer is     *)
(* overslept.                                                              *)
(***************************************************************************)
EXTENDS Links

CONSTANTS
  Clients,        \* connections, each of one node
  NodeOf,
  PresencePing,   \* presence_ping_interval (25 s)
  PresenceExpire  \* presence_expire_ms (60 s)

ASSUME PresenceAssumption ==
  /\ NodeOf \in [Clients -> Nodes]
  /\ PresencePing \in Nat \ {0} /\ PresenceExpire \in Nat
  /\ 2 * PresencePing < PresenceExpire

VARIABLES
  subscribed, \* connections subscribed to the channel
  assertIn,   \* units to the next tick of a connection's presence timer
  entry,      \* connections in the hash and the expiry set
  score,      \* units until the newest score of a connection is reached
  \* for the properties:
  misses,     \* updates that failed since one took effect, 2 = two or none did
  away        \* units since a connection was subscribed, up to PresenceExpire

presenceVars == <<subscribed, assertIn, entry, score, misses, away>>

PresenceTypeOK ==
  /\ subscribed \subseteq Clients /\ entry \subseteq Clients
  /\ assertIn \in [Clients -> 0..PresencePing]
  /\ score \in [Clients -> 0..PresenceExpire]
  /\ misses \in [Clients -> 0..2] /\ away \in [Clients -> 0..PresenceExpire]

PresenceInit ==
  /\ subscribed = {} /\ entry = {}
  /\ assertIn = [c \in Clients |-> PresencePing] /\ score = [c \in Clients |-> 0]
  /\ misses = [c \in Clients |-> 2] /\ away = [c \in Clients |-> PresenceExpire]

-----------------------------------------------------------------------------
(* What a crash of a node and the return of a master mean here.            *)

Leave(cs) ==
  /\ subscribed' = subscribed \ cs
  /\ away' = [c \in Clients |-> IF c \in cs THEN 0 ELSE away[c]]
  /\ misses' = [c \in Clients |-> IF c \in cs THEN 2 ELSE misses[c]]

\* The connections of a node that crashed are gone, their entries are not.
Orphaned(n) ==
  /\ Leave({c \in subscribed : NodeOf[c] = n})
  /\ UNCHANGED <<assertIn, entry, score>>

\* What the server holds may be older than the last commands: what they removed
\* may be there again, what they added not yet.
Rewound ==
  /\ entry' \in SUBSET {c \in Clients : c \in entry \/ score[c] > 0}
  /\ \E s \in [Clients -> 0..PresenceExpire] :
       (\A c \in Clients : s[c] <= score[c]) /\ score' = s
  /\ misses' = [c \in Clients |-> 2]
  /\ UNCHANGED <<subscribed, assertIn, away>>

-----------------------------------------------------------------------------
(* Operations.                                                             *)

\* add_presence through the manager of the connection's node; PRESENCE_ADD.
Assert(c) ==
  \/ /\ Usable(mgr[NodeOf[c]])
     /\ entry' = entry \cup {c} /\ score' = [score EXCEPT ![c] = PresenceExpire]
     /\ misses' = [misses EXCEPT ![c] = 0]
  \/ misses' = [misses EXCEPT ![c] = IF @ = 0 THEN 1 ELSE 2] /\ UNCHANGED <<entry, score>>

on_subscribe(c) ==
  /\ status[NodeOf[c]] = "up" /\ c \notin subscribed
  /\ subscribed' = subscribed \cup {c}
  /\ Assert(c)
  /\ UNCHANGED <<linkVars, assertIn, away>>

\* Slip: the timer renews presence whether or not the channel is left.
refresh_always(c) ==
  /\ status[NodeOf[c]] = "up" /\ assertIn[c] = 0
  /\ assertIn' = [assertIn EXCEPT ![c] = PresencePing]
  /\ Assert(c)
  /\ UNCHANGED <<linkVars, subscribed, away>>

\* Slip: the timer is armed with the other of the two intervals.
refresh_late(c) ==
  /\ status[NodeOf[c]] = "up" /\ assertIn[c] = 0
  /\ assertIn' = [assertIn EXCEPT ![c] = PresenceExpire]
  /\ IF c \in subscribed THEN Assert(c) ELSE UNCHANGED <<entry, score, misses>>
  /\ UNCHANGED <<linkVars, subscribed, away>>

\* The presence timer of the connection ticks.
refresh_presence(c) ==
  /\ status[NodeOf[c]] = "up" /\ assertIn[c] = 0
  /\ assertIn' = [assertIn EXCEPT ![c] = PresencePing]
  /\ IF c \in subscribed THEN Assert(c) ELSE UNCHANGED <<entry, score, misses>>
  /\ UNCHANGED <<linkVars, subscribed, away>>

\* on_unsubscribe, a control signal or on_disconnect: PRESENCE_REM, or an error
\* that is only logged.
unsubscribe_channel(c) ==
  /\ status[NodeOf[c]] = "up" /\ c \in subscribed
  /\ Leave({c})
  /\ \/ Usable(mgr[NodeOf[c]]) /\ entry' = entry \ {c}
     \/ UNCHANGED entry
  /\ UNCHANGED <<linkVars, assertIn, score>>

\* presence and presence_stats: the script removes what expired and answers with
\* the rest.  Both keys expire with the newest score: that removes nothing else.
Present == {c \in entry : score[c] > 0}

PRESENCE_READ ==
  /\ serving
  /\ entry' = Present
  /\ UNCHANGED <<linkVars, subscribed, assertIn, score, misses, away>>

PresenceClock ==
  /\ \A c \in Clients : status[NodeOf[c]] = "up" => assertIn[c] > 0
  /\ assertIn' = [c \in Clients |->
                   IF status[NodeOf[c]] = "up" THEN assertIn[c] - 1 ELSE assertIn[c]]
  /\ score' = [c \in Clients |-> IF score[c] > 0 THEN score[c] - 1 ELSE 0]
  /\ away' = [c \in Clients |->
               IF c \in subscribed THEN 0
               ELSE IF away[c] < PresenceExpire THEN away[c] + 1 ELSE PresenceExpire]
  /\ UNCHANGED <<linkVars, subscribed, entry, misses>>

PresenceStep ==
  \/ PRESENCE_READ \/ PresenceClock
  \/ \E c \in Clients : on_subscribe(c) \/ refresh_presence(c) \/ unsubscribe_channel(c)

-----------------------------------------------------------------------------
(* Properties.                                                             *)

\* One update that is lost does not hide a connection that is subscribed, and
\* after a change of master the first one that gets through shows it again; no
\* reader sees a connection that has been gone for the expiry interval, though
\* its node crashed, its removal failed or an old replica brought it back
\* (client.rs refresh_presence; lib.rs PRESENCE_ADD, PRESENCE_REM, PRESENCE_READ).
PresenceTruthful ==
  \A c \in Clients :
    /\ c \in subscribed /\ misses[c] < 2 => c \in Present
    /\ c \notin subscribed /\ away[c] = PresenceExpire => c \notin Present
=============================================================================
