----------------------------- MODULE RedisStream -----------------------------
(***************************************************************************)
(* The history stream of one channel in Redis (centrifugo-redis/src/lib.rs)*)
(* as all nodes see it: a list of framed publications and a meta hash with *)
(* the top offset and the epoch, two keys that expire each on its own.     *)
(* Each Lua script is atomic in Redis, so each operation is one step; what *)
(* history and history_since do with the script's answer changes nothing.  *)
(***************************************************************************)
EXTENDS StreamBase

VARIABLES
  list,       \* the list, oldest first; an empty list is an absent key
  listGone,   \* when the list expires
  meta,       \* the meta hash: fields s and e; epoch 0 = an absent key
  metaGone    \* when the hash expires

redisVars == <<now, count, list, listGone, meta, metaGone>>

\* A key whose time to live was set at t seconds from the epoch's clock.
Gone(t) == t # Never /\ now >= t

NoMeta == [epoch |-> 0, offset |-> 0]

\* What a command finds under the keys.
List == IF Gone(listGone) THEN <<>> ELSE list
Meta == IF Gone(metaGone) THEN NoMeta ELSE meta

RedisTypeOK ==
  /\ now \in Nat \ {0} /\ count \in Nat
  /\ list \in Seq(Publication) /\ Len(list) <= HistorySize
  /\ meta \in [epoch : Nat, offset : Nat]
  /\ listGone \in Nat /\ metaGone \in Nat

RedisInit ==
  /\ now = 1 /\ count = 0
  /\ list = <<>> /\ listGone = Never
  /\ meta = NoMeta /\ metaGone = Never

\* Both scripts create the epoch from the server's clock where there is none.
WithEpoch(m) == IF m.epoch = 0 THEN [m EXCEPT !.epoch = now] ELSE m

\* Slip: only a new hash is given a time to live.
DeadlineOnce ==
  IF Meta.epoch # 0 THEN metaGone ELSE IF RedisMetaTTL > 0 THEN now + RedisMetaTTL ELSE Never

\* Both scripts renew the time to live of the meta hash, if it has one.
MetaDeadline == IF RedisMetaTTL > 0 THEN now + RedisMetaTTL ELSE Never

\* LPUSH and LTRIM 0 history_size-1, seen from the oldest end.
Pushed(l, p) ==
  IF Len(l) < HistorySize THEN Append(l, p)
  ELSE Append(SubSeq(l, Len(l) - HistorySize + 2, Len(l)), p)

\* publish with history: the script also publishes the frame.
ADD_HISTORY ==
  LET top == Meta.offset + 1 IN
  /\ Numbered
  /\ meta' = [WithEpoch(Meta) EXCEPT !.offset = top]
  /\ metaGone' = MetaDeadline
  /\ list' = Pushed(List, [epoch |-> WithEpoch(Meta).epoch, offset |-> top, id |-> count + 1])
  /\ listGone' = now + Lifetime

\* history and history_since.
HISTORY ==
  /\ meta' = WithEpoch(Meta)
  /\ metaGone' = MetaDeadline
  /\ UNCHANGED <<now, count, list, listGone>>

\* Slip: the key of the meta hash is deleted instead of the list's.
DeleteMeta ==
  /\ meta' = NoMeta /\ metaGone' = Never
  /\ UNCHANGED <<now, count, list, listGone>>

DeleteHistory ==
  /\ list' = <<>> /\ listGone' = Never
  /\ UNCHANGED <<now, count, meta, metaGone>>

RedisTick == Clock /\ UNCHANGED <<list, listGone, meta, metaGone>>

RedisNext == ADD_HISTORY \/ HISTORY \/ DeleteHistory \/ RedisTick

RedisSpecification == RedisInit /\ [][RedisNext]_redisVars

-----------------------------------------------------------------------------
(* Properties.                                                             *)

\* An absent hash stands for the stream that a visitor would create now.
RedisEpoch == IF Meta.epoch = 0 THEN now ELSE Meta.epoch
RedisOffset == Meta.offset

\* What earlier streams left in the list: all but the last publications, as many
\* of them as the current stream has had.
Stale == IF RedisOffset < Len(List) THEN Len(List) - RedisOffset ELSE 0
RedisIds == [i \in 1..(Len(List) - Stale) |-> List[Stale + i].id]

\* The meta hash may expire while the list lives.
MetaMayGoFirst == 0 < RedisMetaTTL /\ RedisMetaTTL < Lifetime

RedisStreamSpec == INSTANCE StreamSpec WITH
  epoch <- RedisEpoch, top <- RedisOffset, window <- RedisIds

\* The Redis engine keeps the promise the memory engine keeps for the publications
\* of the current stream, whichever of the two keys expires first: when
\* redis_history_meta_ttl is shorter than history_lifetime a list meets a hash of a
\* later epoch, and what it held before stays at its front until history_size
\* pushes it out.  Seconds of the server's clock name epochs apart because a hash
\* lives for one second or more (lib.rs ADD_HISTORY, HISTORY).
RedisPromise == RedisStreamSpec!SSpec
=============================================================================
