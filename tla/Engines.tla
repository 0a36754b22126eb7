------------------------------- MODULE Engines -------------------------------
(***************************************************************************)
(* The history half of the Engine trait (centrifugo-core/src/engine.rs): a *)
(* node holds one engine behind an Arc<dyn Engine>, chosen at startup.  In *)
(* both, an operation on a stream is one atomic step: the memory engine's  *)
(* under its lock, the one of Redis as a script.                           *)
(***************************************************************************)
EXTENDS MemoryStream, RedisStream

VARIABLE engine   \* "memory" or "redis"

memory == <<stream, epochs>>
redis == <<list, listGone, meta, metaGone>>
engineVars == <<engine, now, count, memory, redis>>

EnginesInit == engine \in {"memory", "redis"} /\ StreamInit /\ RedisInit

EnginesTypeOK == engine \in {"memory", "redis"} /\ StreamTypeOK /\ RedisTypeOK

\* One operation of the engine the node holds.
OnMemory(Operation) == engine = "memory" /\ Operation /\ UNCHANGED <<engine, redis>>
OnRedis(Operation) == engine = "redis" /\ Operation /\ UNCHANGED <<engine, memory>>

\* The trait's publish with history, history, remove_history; and the clock.
EnginePublish == OnMemory(add_to_history) \/ OnRedis(ADD_HISTORY)
EngineHistory == OnMemory(history) \/ OnRedis(HISTORY)
EngineRemoveHistory == OnMemory(remove_history) \/ OnRedis(DeleteHistory)
EngineTick == OnMemory(Tick) \/ OnRedis(RedisTick)

\* The stream as the operation in hand finds it, whichever engine keeps it.
Found ==
  IF engine = "memory"
  THEN [epoch |-> Touched.epoch, offset |-> Touched.offset, pubs |-> Touched.pubs]
  ELSE [epoch |-> WithEpoch(Meta).epoch, offset |-> Meta.offset, pubs |-> List]
=============================================================================
