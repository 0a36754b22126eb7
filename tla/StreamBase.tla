----------------------------- MODULE StreamBase -----------------------------
(***************************************************************************)
(* What the history streams of both engines share: the options of the      *)
(* channel, the clock and the numbering of publications.                   *)
(***************************************************************************)
EXTENDS Naturals, Sequences

CONSTANTS
  HistorySize,  \* history_size of the channel
  Lifetime,     \* history_lifetime, in seconds
  MemoryMetaTTL,\* memory_history_meta_ttl, in seconds; 0 = for ever
  RedisMetaTTL, \* redis_history_meta_ttl, in seconds; 0 = for ever
  MaxEpochs,    \* bound: history_remove is called on these epochs only, 0 = never
  MaxNow,       \* bound: the clock stops here
  MaxPubs       \* bound: publications in a behaviour

ASSUME StreamAssumption ==
  /\ HistorySize \in Nat \ {0}
  /\ Lifetime \in Nat \ {0}
  /\ MemoryMetaTTL \in Nat /\ RedisMetaTTL \in Nat
  /\ MaxEpochs \in Nat /\ MaxNow \in Nat /\ MaxPubs \in Nat

VARIABLES
  now,      \* unix seconds
  count     \* publications ever appended

\* A deadline that never comes; the clock starts at 1.
Never == 0

\* What the engines keep of a publication is its offset.  The stream it was
\* appended to and its number are for the properties: no code sees them.
Publication == [epoch : Nat, offset : Nat, id : Nat]

\* The publications of the stream e end at its top offset and have no holes; only
\* before its first one lies what earlier streams left.
EndsAt(ring, e, top) ==
  \A i \in 1..Len(ring) :
    IF Len(ring) < top + i
    THEN ring[i].epoch = e /\ ring[i].offset + Len(ring) = top + i
    ELSE ring[i].epoch < e

\* A publication is appended; the bound stops the publisher.
Numbered ==
  /\ count < MaxPubs
  /\ count' = count + 1
  /\ UNCHANGED now

\* Time passes, up to the bound.
Clock ==
  /\ now < MaxNow
  /\ now' = now + 1
  /\ UNCHANGED count
=============================================================================
