------------------------------- MODULE Links -------------------------------
(***************************************************************************)
(* The nodes of a cluster and their connections to Redis                   *)
(* (centrifugo-redis/src/lib.rs): each has a manager its commands go       *)
(* through and a pub/sub connection read by a task of its own; a watchdog  *)
(* makes both again when the latter is lost, if Redis was found through    *)
(* Sentinel.  Servers are numbered: the one Sentinel names may crash and   *)
(* come back, or give way to the next for good.                            *)
(***************************************************************************)
EXTENDS Integers, Sequences, FiniteSets

CONSTANTS
  Nodes,        \* node uids; a restarted process is another node
  Watched,      \* those that found Redis through Sentinel
  MaxTroubles,  \* bound: crashes of a master, and pub/sub connections lost with
                \* their server alive
  None

ASSUME LinksAssumption ==
  /\ Watched \subseteq Nodes
  /\ MaxTroubles \in Nat /\ None \notin Nat

VARIABLES
  master,     \* the server Sentinel names
  serving,    \* whether it takes connections and commands
  troubles,   \* crashes and losses so far
  status,     \* of a node: "new", "up" or "dead"
  mgr,        \* the server each node's commands go to
  sub,        \* the server each node's pub/sub connection is to, or None
  watch,      \* where the task that reads the connection is
  target,     \* the server the watchdog resolved, None while it reads or sleeps
  inbox       \* what Redis has sent on the connection and the task not read

linkVars == <<master, serving, troubles, status, mgr, sub, watch, target, inbox>>

Servers == 1..(MaxTroubles + 1)
Up == {n \in Nodes : status[n] = "up"}
Usable(s) == s = master /\ serving

LinksTypeOK ==
  /\ master \in Servers /\ serving \in BOOLEAN
  /\ troubles \in 0..MaxTroubles
  /\ status \in [Nodes -> {"new", "up", "dead"}]
  /\ mgr \in [Nodes -> Servers] /\ sub \in [Nodes -> Servers \cup {None}]
  /\ watch \in [Nodes -> {"listen", "sleep", "manager", "subscribe", "ended"}]
  /\ target \in [Nodes -> Servers \cup {None}]

LinksInit ==
  /\ master = 1 /\ serving = TRUE /\ troubles = 0
  /\ status = [n \in Nodes |-> "new"]
  /\ mgr = [n \in Nodes |-> 1] /\ sub = [n \in Nodes |-> None]
  /\ watch = [n \in Nodes |-> "listen"] /\ target = [n \in Nodes |-> None]
  /\ inbox = [n \in Nodes |-> <<>>]

\* connect and connect_sentinel return once both connections are made.
Connect(n) ==
  /\ status[n] = "new" /\ serving
  /\ status' = [status EXCEPT ![n] = "up"]
  /\ mgr' = [mgr EXCEPT ![n] = master] /\ sub' = [sub EXCEPT ![n] = master]
  /\ UNCHANGED <<master, serving, troubles, watch, target, inbox>>

\* What the process kept is lost and reset.
Crash(n) ==
  /\ status[n] = "up"
  /\ status' = [status EXCEPT ![n] = "dead"]
  /\ mgr' = [mgr EXCEPT ![n] = 1] /\ sub' = [sub EXCEPT ![n] = None]
  /\ watch' = [watch EXCEPT ![n] = "listen"] /\ target' = [target EXCEPT ![n] = None]
  /\ inbox' = [inbox EXCEPT ![n] = <<>>]
  /\ UNCHANGED <<master, serving, troubles>>

ServerFails ==
  /\ serving /\ troubles < MaxTroubles
  /\ serving' = FALSE /\ troubles' = troubles + 1
  /\ UNCHANGED <<master, status, mgr, sub, watch, target, inbox>>

\* The server is back, or Sentinel promotes a replica.
ServerReturns ==
  /\ ~serving
  /\ serving' = TRUE
  /\ master' \in {master, master + 1} \cap Servers
  /\ UNCHANGED <<troubles, status, mgr, sub, watch, target, inbox>>

\* A pub/sub connection is lost, with some of what it had in flight.
LinkBreaks(n) ==
  /\ sub[n] # None
  /\ IF Usable(sub[n]) THEN troubles < MaxTroubles /\ troubles' = troubles + 1
     ELSE UNCHANGED troubles
  /\ sub' = [sub EXCEPT ![n] = None]
  /\ \E k \in 0..Len(inbox[n]) : inbox' = [inbox EXCEPT ![n] = SubSeq(@, 1, k)]
  /\ UNCHANGED <<master, serving, status, mgr, watch, target>>

\* run_pubsub ends with its stream; without Sentinel nothing follows.
StreamEnds(n) ==
  /\ status[n] = "up" /\ watch[n] = "listen" /\ sub[n] = None /\ inbox[n] = <<>>
  /\ watch' = [watch EXCEPT ![n] = IF n \in Watched THEN "sleep" ELSE "ended"]
  /\ UNCHANGED <<master, serving, troubles, status, mgr, sub, target, inbox>>

\* Half a second later async_master_for answers; while it fails the loop goes on
\* sleeping.
Resolve(n) ==
  /\ status[n] = "up" /\ watch[n] = "sleep"
  /\ watch' = [watch EXCEPT ![n] = "manager"]
  /\ target' = [target EXCEPT ![n] = master]
  /\ UNCHANGED <<master, serving, troubles, status, mgr, sub, inbox>>

\* get_connection_manager: commands go to the server resolved, or on to the one
\* before if it fails; the watchdog subscribes in either case.
SwapManager(n) ==
  /\ status[n] = "up" /\ watch[n] = "manager"
  /\ watch' = [watch EXCEPT ![n] = "subscribe"]
  /\ \/ Usable(target[n]) /\ mgr' = [mgr EXCEPT ![n] = target[n]]
     \/ UNCHANGED mgr
  /\ UNCHANGED <<master, serving, troubles, status, sub, target, inbox>>

\* Slip: a watchdog that reads on without subscribing.
SubscribesNothing(n) ==
  /\ status[n] = "up" /\ watch[n] = "subscribe" /\ Usable(target[n])
  /\ watch' = [watch EXCEPT ![n] = "listen"] /\ target' = [target EXCEPT ![n] = None]
  /\ UNCHANGED <<master, serving, troubles, status, mgr, sub, inbox>>

subscribe(n) ==
  /\ status[n] = "up" /\ watch[n] = "subscribe" /\ Usable(target[n])
  /\ watch' = [watch EXCEPT ![n] = "listen"]
  /\ sub' = [sub EXCEPT ![n] = target[n]] /\ target' = [target EXCEPT ![n] = None]
  /\ UNCHANGED <<master, serving, troubles, status, mgr, inbox>>

subscribe_fails(n) ==
  /\ status[n] = "up" /\ watch[n] = "subscribe"
  /\ watch' = [watch EXCEPT ![n] = "sleep"] /\ target' = [target EXCEPT ![n] = None]
  /\ UNCHANGED <<master, serving, troubles, status, mgr, sub, inbox>>

\* The steps of the task that leave what was received alone.
Watchdog(n) ==
  \/ StreamEnds(n) \/ Resolve(n) \/ SwapManager(n) \/ subscribe(n) \/ subscribe_fails(n)
=============================================================================
