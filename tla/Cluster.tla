------------------------------ MODULE Cluster ------------------------------
(***************************************************************************)
(* Nodes on one Redis: the connections of Links carry the pings and the    *)
(* requests of Members and the presence updates of Presence.  The three    *)
(* share nothing but the connections and what happens to them, so that one *)
(* of them at a time is looked at.                                         *)
(***************************************************************************)
EXTENDS Members, Presence

CONSTANTS
  PingTroubles,  \* bound: troubles while the timers of the registry run,
  LagTroubles    \* and where nodes may lag for any reason

VARIABLE part  \* "pings", "lags", "requests" or "presence"

vars == <<part, linkVars, memberVars, presenceVars>>

ClusterTypeOK == MembersTypeOK /\ PresenceTypeOK

Init ==
  /\ part \in {"pings", "lags", "requests", "presence"}
  /\ LinksInit /\ MembersInit /\ PresenceInit

Start(n) == Connect(n) /\ Seeded(n) /\ UNCHANGED <<part, presenceVars>>

NodeCrashes(n) == Crash(n) /\ Lost(n) /\ Orphaned(n) /\ UNCHANGED part

\* Bounds: while the timers run there is less trouble.
Troublesome ==
  /\ part = "pings" => troubles <= PingTroubles
  /\ part = "lags" => troubles <= LagTroubles

MasterFails == ServerFails /\ Cut /\ UNCHANGED <<part, presenceVars>> /\ Troublesome'

MasterReturns == ServerReturns /\ Rewound /\ UNCHANGED <<part, memberVars>>

LinkLost(n) == LinkBreaks(n) /\ Deaf(n) /\ UNCHANGED <<part, presenceVars>> /\ Troublesome'

Reconnect(n) == Watchdog(n) /\ UNCHANGED <<part, memberVars, presenceVars>>

\* Nodes that wait for a server which is gone to answer a ping.
Waiting == {n \in Nodes : ping[n] \notin {None, Unanswered} /\ ~Usable(ping[n])}

\* Bound: in "pings" no other node lags.
Pings ==
  /\ part \in {"pings", "lags"}
  /\ \/ UnitPasses /\ (part = "pings" => Lagging \subseteq Waiting)
     \/ \E n \in Nodes : Ping(n) \/ PingPublished(n) \/ PingAnswered(n) \/ clean(n)
  /\ UNCHANGED <<part, presenceVars>>

Asking ==
  /\ part = "requests"
  /\ \E n \in Nodes : Request(n) \/ publish_control(n)
  /\ UNCHANGED <<part, presenceVars>>

Reading(n) == dispatch_message(n) /\ UNCHANGED <<part, presenceVars>>

PresencePart ==
  /\ part = "presence"
  /\ PresenceStep
  /\ UNCHANGED <<part, memberVars>>

Next ==
  \/ MasterFails \/ MasterReturns \/ Pings \/ Asking \/ PresencePart
  \/ \E n \in Nodes :
       Start(n) \/ NodeCrashes(n) \/ LinkLost(n) \/ Reconnect(n) \/ Reading(n)

Spec == Init /\ [][Next]_vars

\* The master returns or is replaced in the end, a connection to a dead server
\* is noticed, a node reads what it received, and its watchdog goes on; what it
\* attempts again and again succeeds some time.
FairSpec ==
  /\ Spec
  /\ WF_vars(MasterReturns)
  /\ \A n \in Watched :
       /\ WF_vars(~Usable(sub[n]) /\ LinkLost(n)) /\ WF_vars(Reading(n))
       /\ WF_vars(Reconnect(n))
       /\ SF_vars(subscribe(n) /\ UNCHANGED <<part, memberVars, presenceVars>>)

-----------------------------------------------------------------------------
(* Properties.                                                             *)

\* Whatever was lost on the way, a node that found Redis through Sentinel ends
\* up listening to the server that is master then (lib.rs connect_sentinel).
\* Its commands need not follow: the watchdog subscribes also where the manager
\* could not be made, and does not try again until the link breaks.
ListensAgain ==
  <>[](\A n \in Watched : n \in Up => serving /\ sub[n] = master)
=============================================================================
