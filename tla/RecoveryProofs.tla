--------------------------- MODULE RecoveryProofs ---------------------------
(***************************************************************************)
(* Publishing, subscribing and recovering on either engine, for every      *)
(* number of publishers, history size, lifetime, queue and radix of seq    *)
(* and gen.  The proof goes from the engine outwards: what an operation    *)
(* makes of the stream the next one finds; the log of all publications     *)
(* against that stream; what is on its way to the hub; the reply; the      *)
(* queue and the client.  Each part is an invariant of its own that uses   *)
(* the ones before it.                                                     *)
(*                                                                         *)
(* On Redis a list may meet a hash of a later stream, where the hash's     *)
(* time to live is the shorter one: the ring then begins with publications *)
(* of earlier epochs, and the proofs carry them along.                     *)
(***************************************************************************)
EXTENDS Recovery, StreamProofs, RedisProofs

-----------------------------------------------------------------------------
(* The engine.                                                             *)

EnginePart ==
  /\ EnginesTypeOK /\ StreamInv /\ RInv /\ (~MetaMayGoFirst => OwnList)
  /\ stream.epoch \in {0, epochs}
  /\ stream.offset <= count /\ meta.offset <= count /\ count <= MaxPubs

\* What an operation finds is a stream; its ring ends at the top.
LEMMA FoundIs ==
  ASSUME EnginePart
  PROVE  /\ Found.epoch \in Nat \ {0} /\ Found.offset \in 0..count
         /\ Found.pubs \in Seq(Publication)
         /\ EndsAt(Found.pubs, Found.epoch, Found.offset)
         /\ ~(engine = "redis" /\ MetaMayGoFirst) => Len(Found.pubs) <= Found.offset
         /\ count \in Nat /\ now \in Nat /\ epochs \in Nat
         /\ engine \in {"memory", "redis"}
<1>0. count \in Nat /\ now \in Nat \ {0} /\ epochs \in Nat /\ engine \in {"memory", "redis"}
      /\ stream.offset <= count /\ meta.offset <= count
  BY DEF EnginePart, EnginesTypeOK, StreamTypeOK
<1>1. CASE engine = "memory"
  <2>1. /\ Found.epoch = Touched.epoch /\ Found.offset = Touched.offset
        /\ Found.pubs = Touched.pubs
    BY <1>1 DEF Found
  <2>2. Good(Touched) /\ Touched.epoch \in 1..(epochs + 1)
    BY TouchedIsGood DEF EnginePart, EnginesTypeOK
  <2>3. Touched.offset \in {0, stream.offset}
    BY TouchedIsGood, FreshIsGood, <1>0 DEF EnginePart, EnginesTypeOK
  <2>4. Touched.offset \in Nat /\ Touched.pubs \in Seq(Publication)
        /\ EndsAt(Touched.pubs, Touched.epoch, Touched.offset)
        /\ Len(Touched.pubs) <= Touched.offset
    BY <2>2 DEF Good, Stream
  <2>. QED  BY <1>0, <2>1, <2>2, <2>3, <2>4
<1>2. CASE engine = "redis"
  <2>1. /\ Found.epoch = WithEpoch(Meta).epoch /\ Found.offset = Meta.offset
        /\ Found.pubs = List
    BY <1>2 DEF Found
  <2>2. RedisTypeOK /\ RInv /\ (~MetaMayGoFirst => OwnList)
    BY DEF EnginePart, EnginesTypeOK
  <2>3. /\ Found.epoch \in Nat \ {0} /\ List \in Seq(Publication)
        /\ EndsAt(List, Found.epoch, Meta.offset)
    BY <2>1, <2>2, FoundKeys DEF ListTellsStreams, RedisOffset
  <2>4. Meta.offset \in 0..count
    BY <1>0, <2>2, FoundKeys DEF NoMeta
  <2>5. ~MetaMayGoFirst => Len(List) <= Meta.offset
    BY <2>2, OwnListFound
  <2>. QED  BY <1>0, <1>2, <2>1, <2>3, <2>4, <2>5
<1>. QED  BY <1>0, <1>1, <1>2

LEMMA EngineStart == EnginesInit => EnginePart
<1>. SUFFICES ASSUME EnginesInit PROVE EnginePart
  OBVIOUS
<1>1. EnginesTypeOK /\ StreamInv
  BY StreamStart, RedisStart DEF EnginesInit, EnginesTypeOK
<1>2. RInv /\ OwnList
  BY RedisStart, StreamAssumption DEF EnginesInit, RedisInit, OwnList, Never
<1>3. stream.epoch = 0 /\ stream.offset = 0 /\ meta.offset = 0 /\ count = 0
  BY DEF EnginesInit, StreamInit, RedisInit, NoStream, NewStream, NoMeta
<1>. QED  BY <1>1, <1>2, <1>3, StreamAssumption DEF EnginePart

\* One operation of the engine the node holds, or none.
EngineMove ==
  EnginePublish \/ EngineHistory \/ EngineRemoveHistory \/ EngineTick \/ UNCHANGED engineVars

LEMMA MemoryMove ==
  ASSUME EnginePart, engine = "memory", EngineMove
  PROVE  /\ StreamNext \/ UNCHANGED streamVars
         /\ UNCHANGED <<engine, redis>>
         /\ now' \in {now, now + 1} /\ count' \in {count, count + 1}
<1>. USE DEF memory, redis, engineVars, streamVars
<1>1. CASE EnginePublish
  BY <1>1 DEF EnginePublish, OnMemory, OnRedis, StreamNext, add_to_history, Numbered
<1>2. CASE EngineHistory
  BY <1>2 DEF EngineHistory, OnMemory, OnRedis, StreamNext, history
<1>3. CASE EngineRemoveHistory
  BY <1>3 DEF EngineRemoveHistory, OnMemory, OnRedis, StreamNext, remove_history
<1>4. CASE EngineTick
  BY <1>4 DEF EngineTick, OnMemory, OnRedis, StreamNext, Tick, Clock
<1>5. CASE UNCHANGED engineVars
  BY <1>5
<1>. QED  BY <1>1, <1>2, <1>3, <1>4, <1>5 DEF EngineMove

LEMMA RedisMove ==
  ASSUME EnginePart, engine = "redis", EngineMove
  PROVE  /\ ADD_HISTORY \/ HISTORY \/ DeleteHistory \/ RedisTick \/ UNCHANGED redisVars
         /\ UNCHANGED <<engine, memory>>
         /\ now' \in {now, now + 1} /\ count' \in {count, count + 1}
<1>. USE DEF memory, redis, engineVars, redisVars
<1>1. CASE EnginePublish
  BY <1>1 DEF EnginePublish, OnMemory, OnRedis, ADD_HISTORY, Numbered
<1>2. CASE EngineHistory
  BY <1>2 DEF EngineHistory, OnMemory, OnRedis, HISTORY
<1>3. CASE EngineRemoveHistory
  BY <1>3 DEF EngineRemoveHistory, OnMemory, OnRedis, DeleteHistory
<1>4. CASE EngineTick
  BY <1>4 DEF EngineTick, OnMemory, OnRedis, RedisTick, Clock
<1>5. CASE UNCHANGED engineVars
  BY <1>5
<1>. QED  BY <1>1, <1>2, <1>3, <1>4, <1>5 DEF EngineMove

\* The count bounds the offsets, and an entry has the last epoch generated.
LEMMA MemoryNumbers ==
  ASSUME EnginePart, engine = "memory", EngineMove
  PROVE  /\ stream'.epoch \in {0, epochs'}
         /\ stream'.offset <= count' /\ meta'.offset <= count' /\ count' <= MaxPubs
<1>0. /\ StreamTypeOK /\ StreamInv /\ stream.epoch \in {0, epochs}
      /\ stream.offset <= count /\ meta.offset <= count /\ count <= MaxPubs
      /\ count \in Nat /\ epochs \in Nat /\ now \in Nat /\ stream \in Stream
      /\ meta \in [epoch : Nat, offset : Nat]
  BY DEF EnginePart, EnginesTypeOK, StreamTypeOK, RedisTypeOK
<1>. DEFINE t == Touched
<1>1. /\ Good(t) /\ t.offset \in {0, stream.offset} /\ t.offset \in Nat /\ t.epoch \in Nat
      /\ stream.offset \in Nat
  <2>1. Good(t) /\ t.offset \in {0, stream.offset}
    BY <1>0, TouchedIsGood, FreshIsGood
  <2>. QED  BY <1>0, <2>1 DEF Good, Stream
<1>2. NewEpochs = t.epoch
  <2>1. t.epoch \in 1..(epochs + 1) /\ (t.epoch = stream.epoch \/ t = NewStream(epochs + 1))
    BY <1>0, TouchedIsGood
  <2>2. t.epoch \in {epochs, epochs + 1}
    BY <1>0, <2>1, FreshIsGood
  <2>. QED  BY <1>0, <2>2 DEF NewEpochs
<1>3. meta' = meta
  BY MemoryMove DEF redis
<1>4. CASE add_to_history
  <2>1. stream' = Appended(t, count + 1) /\ epochs' = t.epoch /\ count' = count + 1
        /\ count < MaxPubs
    BY <1>2, <1>4 DEF add_to_history, Numbered
  <2>. HIDE DEF t
  <2>2. stream'.epoch = t.epoch /\ stream'.offset = t.offset + 1
    <3>1. Good(t) /\ count + 1 \in Nat /\ now \in Nat
      BY <1>0, <1>1
    <3>2. Appended(t, count + 1).epoch = t.epoch
          /\ Appended(t, count + 1).offset = t.offset + 1
      BY <3>1, AppendedIsGood
    <3>. QED  BY <2>1, <3>2
  <2>. QED  BY <1>0, <1>1, <1>3, <2>1, <2>2, StreamAssumption
<1>5. CASE history
  BY <1>0, <1>1, <1>2, <1>3, <1>5 DEF history
<1>6. CASE remove_history
  <2>1. stream'.epoch = 0 /\ stream'.offset = 0 /\ count' = count
    BY <1>6, FreshIsGood DEF remove_history, NoStream
  <2>. QED  BY <1>0, <1>3, <2>1
<1>7. CASE Tick \/ UNCHANGED streamVars
  BY <1>0, <1>3, <1>7 DEF Tick, Clock, streamVars
<1>. QED  BY <1>4, <1>5, <1>6, <1>7, MemoryMove DEF StreamNext

LEMMA EngineStep ==
  ASSUME EnginePart, EngineMove
  PROVE  EnginePart'
<1>0. /\ StreamTypeOK /\ StreamInv /\ RedisTypeOK /\ RInv /\ (~MetaMayGoFirst => OwnList)
      /\ engine \in {"memory", "redis"} /\ count \in Nat /\ now \in Nat \ {0}
  BY DEF EnginePart, EnginesTypeOK, StreamTypeOK
<1>m. MetaMayGoFirst' <=> MetaMayGoFirst
  BY DEF MetaMayGoFirst
<1>1. CASE engine = "memory"
  <2>1. StreamTypeOK' /\ StreamInv'
    BY <1>0, <1>1, MemoryMove, StreamStep
  <2>2. /\ engine' = engine /\ list' = list /\ listGone' = listGone /\ meta' = meta
        /\ metaGone' = metaGone /\ now' \in {now, now + 1} /\ count' \in {count, count + 1}
    BY <1>1, MemoryMove DEF redis
  <2>3. RedisTypeOK'
    BY <1>0, <2>2 DEF RedisTypeOK
  <2>4. LiveMeta'
    <3>1. CASE now' = now
      BY <1>0, <2>2, <3>1 DEF RInv, LiveMeta
    <3>2. CASE now' = now + 1
      BY <1>0, <2>2, <3>2 DEF RedisTypeOK, RInv, LiveMeta
    <3>. QED  BY <2>2, <3>1, <3>2
  <2>5. RInv'
    BY <1>0, <2>2, <2>4 DEF RInv, EndsAt
  <2>6. ~Gone(listGone)' => ~Gone(listGone)
    BY <1>0, <2>2 DEF Gone, RedisTypeOK, Never
  <2>7. OwnList => OwnList'
    <3>0. /\ listGone \in Nat /\ now \in Nat /\ Lifetime \in Nat
          /\ listGone' = listGone /\ now' \in {now, now + 1}
      BY <1>0, <2>2, StreamAssumption DEF RedisTypeOK
    <3>1. listGone <= now + Lifetime => listGone' <= now' + Lifetime
      <4>1. CASE now' = now
        BY <3>0, <4>1
      <4>2. CASE now' = now + 1
        BY <3>0, <4>2
      <4>. QED  BY <3>0, <4>1, <4>2
    <3>. QED  BY <2>2, <2>6, <3>1 DEF OwnList
  <2>8. EnginesTypeOK'
    BY <1>0, <2>1, <2>2, <2>3 DEF EnginesTypeOK
  <2>. QED  BY <1>0, <1>1, <1>m, <2>1, <2>5, <2>7, <2>8, MemoryNumbers DEF EnginePart
<1>2. CASE engine = "redis"
  <2>1. /\ engine' = engine /\ stream' = stream /\ epochs' = epochs
        /\ now' \in {now, now + 1} /\ count' \in {count, count + 1}
    BY <1>2, RedisMove DEF memory
  <2>2. StreamTypeOK'
    BY <1>0, <2>1 DEF StreamTypeOK
  <2>3. StreamInv'
    BY <1>0, <2>1 DEF StreamInv, RingContiguous, EpochKnown, EndsAt
  <2>4. ADD_HISTORY \/ HISTORY \/ DeleteHistory \/ RedisTick \/ UNCHANGED redisVars
    BY <1>2, RedisMove
  <2>5. RedisTypeOK' /\ RInv'
    BY <1>0, <2>4, AddKeeps, LookKeeps, RestKeeps
  <2>6. ~MetaMayGoFirst => OwnList'
    BY <1>0, <2>4, OwnListKeeps
  <2>7. EnginesTypeOK'
    BY <1>0, <2>1, <2>2, <2>5 DEF EnginesTypeOK
  <2>8. meta'.offset <= count' /\ count' <= MaxPubs
    <3>1. /\ meta.offset <= count /\ count <= MaxPubs /\ meta.offset \in Nat
          /\ Meta.offset \in {0, meta.offset}
      BY <1>0, FoundKeys DEF EnginePart, RedisTypeOK, NoMeta
    <3>2. CASE ADD_HISTORY
      <4>1. meta'.offset = Meta.offset + 1 /\ count' = count + 1 /\ count < MaxPubs
        BY <1>0, <3>2, AddMakes
      <4>. QED  BY <1>0, <3>1, <4>1, StreamAssumption
    <3>3. CASE HISTORY
      <4>1. meta'.offset = Meta.offset /\ count' = count
        BY <1>0, <3>3, LookMakes
      <4>. QED  BY <1>0, <3>1, <4>1
    <3>4. CASE DeleteHistory \/ RedisTick \/ UNCHANGED redisVars
      BY <3>1, <3>4 DEF DeleteHistory, RedisTick, Clock, redisVars
    <3>. QED  BY <2>4, <3>2, <3>3, <3>4
  <2>9. stream'.epoch \in {0, epochs'} /\ stream'.offset <= count'
    BY <1>0, <2>1 DEF EnginePart, StreamTypeOK, Stream
  <2>. QED  BY <1>m, <2>3, <2>5, <2>6, <2>7, <2>8, <2>9 DEF EnginePart
<1>. QED  BY <1>0, <1>1, <1>2

-----------------------------------------------------------------------------
(* What an operation makes of the stream the next one finds.               *)

\* An append: the next offset of the same stream, and a ring made of the old
\* one and the new publication.
Grown ==
  /\ count' = count + 1 /\ count < MaxPubs
  /\ Found.epoch' = Found.epoch /\ Found.offset' = Found.offset + 1
  /\ \A i \in 1..Len(Found.pubs') :
       \/ Found.pubs'[i] = NewEntry
       \/ \E j \in 1..Len(Found.pubs) : Found.pubs'[i] = Found.pubs[j]

\* The stream was lost, and the next visitor begins a new one.
Renewed == Found.epoch' > Found.epoch /\ Found.offset' = 0

\* The position stays.
Stayed == Found.epoch' = Found.epoch /\ Found.offset' = Found.offset

\* Of the publications all stay or none; those that stay are the new stream's past.
Rested ==
  /\ count' = count /\ (Renewed \/ Stayed)
  /\ Found.pubs' = Found.pubs \/ Found.pubs' = <<>>

\* What an append leaves is the new publication and some of the old ones.
LEMMA KeptOfOld ==
  ASSUME NEW q \in Seq(Publication), NEW p \in Publication,
         NEW i \in 1..Len(Kept(Append(q, p)))
  PROVE  Kept(Append(q, p))[i] = p \/ \E j \in 1..Len(q) : Kept(Append(q, p))[i] = q[j]
<1>. DEFINE g == Append(q, p)
<1>1. g \in Seq(Publication) /\ Len(g) = Len(q) + 1 /\ g[Len(q) + 1] = p
      /\ \A j \in 1..Len(q) : g[j] = q[j]
  OBVIOUS
<1>. HIDE DEF g
<1>2. \E j \in 1..Len(g) : Kept(g)[i] = g[j]
  <2>1. CASE Len(g) > HistorySize
    <3>1. Kept(g) = SubSeq(g, Len(g) - HistorySize + 1, Len(g))
      BY <2>1 DEF Kept
    <3>2. Len(Kept(g)) = HistorySize
          /\ \A k \in 1..HistorySize : Kept(g)[k] = g[Len(g) - HistorySize + k]
      BY <1>1, <2>1, <3>1, StreamAssumption
    <3>3. i \in 1..HistorySize
      BY <3>2 DEF g
    <3>4. Len(g) - HistorySize + i \in 1..Len(g)
      BY <1>1, <2>1, <3>3, StreamAssumption
    <3>. QED  BY <3>2, <3>3, <3>4
  <2>2. CASE ~(Len(g) > HistorySize)
    <3>1. Kept(g) = g
      BY <2>2 DEF Kept
    <3>2. i \in 1..Len(g)
      BY <3>1 DEF g
    <3>. QED  BY <3>1, <3>2
  <2>. QED  BY <2>1, <2>2
<1>3. PICK j \in 1..Len(g) : Kept(g)[i] = g[j]
  BY <1>2
<1>4. CASE j = Len(q) + 1
  BY <1>1, <1>3, <1>4 DEF g
<1>5. CASE j # Len(q) + 1
  <2>1. j \in 1..Len(q) /\ g[j] = q[j]
    BY <1>1, <1>5
  <2>. QED  BY <1>3, <2>1 DEF g
<1>. QED  BY <1>4, <1>5

LEMMA MemoryAppends ==
  ASSUME EnginePart, engine = "memory", EnginePublish
  PROVE  Grown
<1>. DEFINE t == Touched
            pub == [epoch |-> t.epoch, offset |-> t.offset + 1, id |-> count + 1]
<1>1. add_to_history /\ engine' = engine
  BY DEF EnginePublish, OnMemory, OnRedis
<1>2. StreamTypeOK /\ StreamInv
  BY DEF EnginePart, EnginesTypeOK
<1>3. Good(t) /\ count \in Nat /\ now \in Nat \ {0} /\ t.epoch \in Nat \ {0}
  BY <1>2, TouchedIsGood DEF StreamTypeOK
<1>4. /\ stream' = Appended(t, count + 1) /\ now' = now
      /\ count' = count + 1 /\ count < MaxPubs
  BY <1>1 DEF add_to_history, Numbered
<1>5. Found.epoch = t.epoch /\ Found.offset = t.offset /\ Found.pubs = t.pubs
  BY DEF Found
<1>6. t.pubs \in Seq(Publication) /\ pub \in Publication /\ t.offset \in Nat
  BY <1>3 DEF Good, Stream, Publication
<1>7. Touched' = stream'
  <2>1. /\ stream'.epoch = t.epoch /\ stream'.expireAt = now + Lifetime
        /\ stream'.metaExpireAt = IF MemoryMetaTTL > 0 THEN now + MemoryMetaTTL ELSE Never
    BY <1>4 DEF Appended
  <2>. HIDE DEF t
  <2>2. ~Expired(stream.metaExpireAt)' /\ ~Expired(stream.expireAt)'
    BY <1>3, <1>4, <2>1, StreamAssumption DEF Expired, Never
  <2>. QED  BY <1>3, <2>1, <2>2 DEF Touched, evict_if_expired
<1>8. /\ Found.epoch' = stream'.epoch /\ Found.offset' = stream'.offset
      /\ Found.pubs' = stream'.pubs
  BY <1>1, <1>7 DEF Found
<1>p. pub = NewEntry
  BY <1>5 DEF NewEntry
<1>. HIDE DEF t
<1>9. /\ stream'.epoch = t.epoch /\ stream'.offset = t.offset + 1
      /\ stream'.pubs = Kept(Append(t.pubs, pub))
  BY <1>4 DEF Appended
<1>10. ASSUME NEW i \in 1..Len(stream'.pubs)
       PROVE  stream'.pubs[i] = pub \/ \E j \in 1..Len(t.pubs) : stream'.pubs[i] = t.pubs[j]
  <2>1. i \in 1..Len(Kept(Append(t.pubs, pub)))
    BY <1>9
  <2>. HIDE DEF pub
  <2>2. \/ Kept(Append(t.pubs, pub))[i] = pub
        \/ \E j \in 1..Len(t.pubs) : Kept(Append(t.pubs, pub))[i] = t.pubs[j]
    BY <1>6, <2>1, KeptOfOld
  <2>. QED  BY <1>9, <2>2
<1>. HIDE DEF pub
<1>. QED  BY <1>4, <1>5, <1>8, <1>9, <1>10, <1>p DEF Grown

LEMMA RedisAppends ==
  ASSUME EnginePart, engine = "redis", EnginePublish
  PROVE  Grown
<1>1. ADD_HISTORY /\ engine' = "redis"
  BY DEF EnginePublish, OnMemory, OnRedis
<1>2. RedisTypeOK /\ RInv
  BY DEF EnginePart, EnginesTypeOK
<1>3. /\ count' = count + 1 /\ count < MaxPubs
      /\ meta'.epoch = RedisEpoch /\ meta'.offset = Meta.offset + 1
      /\ List' = list' /\ Meta' = meta'
      /\ RedisEpoch = WithEpoch(Meta).epoch /\ RedisEpoch # 0
  BY <1>1, <1>2, AddMakes, FoundKeys
<1>4. /\ Found.epoch = RedisEpoch /\ Found.offset = Meta.offset /\ Found.pubs = List
  BY <1>3 DEF Found
<1>5. /\ Found.epoch' = RedisEpoch /\ Found.offset' = Meta.offset + 1 /\ Found.pubs' = list'
  <2>1. WithEpoch(Meta)'.epoch = meta'.epoch
    BY <1>3 DEF WithEpoch
  <2>. QED  BY <1>1, <1>3, <2>1 DEF Found
<1>6. Added = NewEntry
  BY <1>3, <1>4 DEF Added, NewEntry
<1>7. PICK k \in 0..Len(List) : Grew(List, list', Added, k)
  BY <1>1, <1>2, AddMakes
<1>8. ASSUME NEW i \in 1..Len(list')
      PROVE  list'[i] = Added \/ \E j \in 1..Len(List) : list'[i] = List[j]
  <2>1. Len(List) \in Nat /\ Len(list') = Len(List) - k + 1
    BY <1>2, <1>7, FoundKeys DEF Grew
  <2>2. CASE i = Len(list')
    BY <1>7, <2>2 DEF Grew
  <2>3. CASE i # Len(list')
    <3>1. i \in 1..(Len(List) - k) /\ k + i \in 1..Len(List)
      BY <2>1, <2>3
    <3>. QED  BY <1>7, <3>1 DEF Grew
  <2>. QED  BY <2>2, <2>3
<1>. QED  BY <1>3, <1>4, <1>5, <1>6, <1>8 DEF Grown

\* The three ways an operation of the memory engine may find the entry.
Absent == Touched = NewStream(epochs + 1) /\ (Expired(stream.metaExpireAt) \/ stream.epoch = 0)
Emptied == /\ Touched = Cleared(stream) /\ stream.epoch # 0
           /\ ~Expired(stream.metaExpireAt) /\ Expired(stream.expireAt)
Whole == /\ Touched = stream /\ stream.epoch # 0
         /\ ~Expired(stream.metaExpireAt) /\ ~Expired(stream.expireAt)

LEMMA TouchedForms == StreamTypeOK /\ StreamInv => Absent \/ Emptied \/ Whole
<1>. SUFFICES ASSUME StreamTypeOK, StreamInv PROVE Absent \/ Emptied \/ Whole
  OBVIOUS
<1>1. stream \in Stream
  BY DEF StreamTypeOK
<1>2. CASE Expired(stream.metaExpireAt) \/ stream.epoch = 0
  <2>1. Touched = NewStream(epochs + 1)
    BY <1>2 DEF Touched, evict_if_expired, NoStream, NewStream, Expired, StreamInv, EpochKnown
  <2>. QED  BY <1>2, <2>1 DEF Absent
<1>3. CASE ~Expired(stream.metaExpireAt) /\ stream.epoch # 0 /\ Expired(stream.expireAt)
  <2>1. Touched = Cleared(stream)
    BY <1>3 DEF Touched, evict_if_expired, Cleared
  <2>. QED  BY <1>3, <2>1 DEF Emptied
<1>4. CASE ~Expired(stream.metaExpireAt) /\ stream.epoch # 0 /\ ~Expired(stream.expireAt)
  <2>1. Touched = stream
    BY <1>4 DEF Touched, evict_if_expired
  <2>. QED  BY <1>4, <2>1 DEF Whole
<1>. QED  BY <1>2, <1>3, <1>4

LEMMA TouchedFormsNext == StreamTypeOK' /\ StreamInv' => Absent' \/ Emptied' \/ Whole'
BY TouchedForms, PTL

\* What the two other forms look like.
FormsFacts ==
  /\ Absent => Touched.epoch = epochs + 1 /\ Touched.offset = 0 /\ Touched.pubs = <<>>
  /\ Emptied => /\ Touched.epoch = stream.epoch /\ Touched.offset = stream.offset
                /\ Touched.pubs = <<>>
                /\ Touched.expireAt = Never /\ Touched.metaExpireAt = stream.metaExpireAt

LEMMA FormsShow == FormsFacts
BY DEF FormsFacts, Absent, Emptied, NewStream, Cleared

LEMMA FormsShowNext == FormsFacts'
BY FormsShow, PTL

LEMMA MemoryRests ==
  ASSUME EnginePart, engine = "memory",
         EngineHistory \/ EngineRemoveHistory \/ EngineTick \/ UNCHANGED engineVars
  PROVE  Rested
<1>0. /\ StreamTypeOK /\ StreamInv /\ stream.epoch \in {0, epochs}
      /\ now \in Nat \ {0} /\ epochs \in Nat
      /\ stream.metaExpireAt \in Nat /\ stream.expireAt \in Nat /\ stream.epoch \in Nat
  BY DEF EnginePart, EnginesTypeOK, StreamTypeOK, Stream
<1>1. Absent \/ Emptied \/ Whole
  BY <1>0, TouchedForms
<1>2. (StreamTypeOK /\ StreamInv)' /\ engine' = engine
  <2>1. EngineMove
    BY DEF EngineMove
  <2>. QED  BY <1>0, <2>1, MemoryMove, StreamStep
<1>3. Absent' \/ Emptied' \/ Whole'
  BY <1>2, TouchedFormsNext
<1>4. /\ Found.epoch = Touched.epoch /\ Found.offset = Touched.offset
      /\ Found.pubs = Touched.pubs
      /\ Found.epoch' = Touched.epoch' /\ Found.offset' = Touched.offset'
      /\ Found.pubs' = Touched.pubs'
  BY <1>2 DEF Found
<1>5. CASE EngineHistory
  <2>1. stream' = Touched /\ now' = now /\ count' = count
    BY <1>5 DEF EngineHistory, OnMemory, OnRedis, history
  <2>2. stream'.epoch # 0
    BY <1>0, <1>1, <2>1, FormsShow DEF FormsFacts, Emptied, Whole
  <2>3. ~Expired(stream.metaExpireAt)' /\ ~Expired(stream.expireAt)'
    <3>1. CASE Absent
      <4>1. stream'.metaExpireAt = Never /\ stream'.expireAt = Never
        BY <2>1, <3>1 DEF Absent, NewStream
      <4>. QED  BY <4>1 DEF Expired
    <3>2. CASE Emptied
      <4>1. stream'.metaExpireAt = stream.metaExpireAt /\ stream'.expireAt = Never
        BY <2>1, <3>2, FormsShow DEF FormsFacts
      <4>. QED  BY <2>1, <3>2, <4>1 DEF Expired, Emptied
    <3>3. CASE Whole
      BY <2>1, <3>3 DEF Whole, Expired
    <3>. QED  BY <1>1, <3>1, <3>2, <3>3
  <2>4. Touched' = Touched
    BY <2>1, <2>2, <2>3 DEF Touched, evict_if_expired
  <2>. QED  BY <1>4, <2>1, <2>4 DEF Rested, Stayed
<1>6. CASE EngineRemoveHistory
  <2>1. stream' = NoStream /\ now' = now /\ count' = count /\ epochs' = epochs
    BY <1>6 DEF EngineRemoveHistory, OnMemory, OnRedis, remove_history
  <2>2. stream'.epoch = 0
    BY <2>1, FreshIsGood DEF NoStream
  <2>3. Absent'
    BY <1>3, <2>2 DEF Emptied, Whole
  <2>4. Touched.epoch' = epochs + 1 /\ Touched.offset' = 0 /\ Touched.pubs' = <<>>
    BY <2>1, <2>3, FormsShowNext DEF FormsFacts
  <2>5. CASE Absent
    BY <1>4, <2>1, <2>4, <2>5, FormsShow DEF FormsFacts, Rested, Stayed
  <2>6. CASE Emptied \/ Whole
    <3>1. Touched.epoch = epochs
      BY <1>0, <2>6, FormsShow DEF FormsFacts, Emptied, Whole
    <3>. QED  BY <1>0, <1>4, <2>1, <2>4, <3>1 DEF Rested, Renewed
  <2>. QED  BY <1>1, <2>5, <2>6
<1>7. CASE EngineTick \/ UNCHANGED engineVars
  <2>1. /\ stream' = stream /\ count' = count /\ epochs' = epochs
        /\ now' = now + 1 \/ now' = now
    BY <1>7 DEF EngineTick, OnMemory, OnRedis, Tick, Clock, engineVars, memory
  <2>2. /\ Expired(stream.metaExpireAt) => Expired(stream.metaExpireAt)'
        /\ Expired(stream.expireAt) => Expired(stream.expireAt)'
    <3>1. CASE now' = now
      BY <2>1, <3>1 DEF Expired
    <3>2. CASE now' = now + 1
      BY <1>0, <2>1, <3>2 DEF Expired
    <3>. QED  BY <2>1, <3>1, <3>2
  <2>3. CASE Absent
    <3>1. Absent'
      BY <1>3, <2>1, <2>2, <2>3 DEF Absent, Emptied, Whole
    <3>. QED  BY <1>4, <2>1, <2>3, <3>1, FormsShow, FormsShowNext DEF FormsFacts, Rested, Stayed
  <2>4. CASE Emptied
    <3>1. Touched.epoch = epochs /\ Touched.offset = stream.offset /\ Touched.pubs = <<>>
      BY <1>0, <2>4, FormsShow DEF FormsFacts, Emptied
    <3>2. CASE Absent'
      <4>1. Touched.epoch' = epochs + 1 /\ Touched.offset' = 0 /\ Touched.pubs' = <<>>
        BY <2>1, <3>2, FormsShowNext DEF FormsFacts
      <4>. QED  BY <1>0, <1>4, <2>1, <3>1, <4>1 DEF Rested, Renewed
    <3>3. CASE Emptied'
      <4>1. Touched.epoch' = stream.epoch /\ Touched.offset' = stream.offset
            /\ Touched.pubs' = <<>>
        BY <2>1, <3>3, FormsShowNext DEF FormsFacts
      <4>. QED  BY <1>4, <2>1, <2>4, <3>1, <4>1, FormsShow DEF FormsFacts, Rested, Stayed
    <3>4. ~Whole'
      BY <2>2, <2>4 DEF Emptied, Whole
    <3>. QED  BY <1>3, <3>2, <3>3, <3>4
  <2>5. CASE Whole
    <3>1. Touched = stream /\ Touched.epoch = epochs
      BY <1>0, <2>5 DEF Whole
    <3>2. CASE Absent'
      <4>1. Touched.epoch' = epochs + 1 /\ Touched.offset' = 0 /\ Touched.pubs' = <<>>
        BY <2>1, <3>2, FormsShowNext DEF FormsFacts
      <4>. QED  BY <1>0, <1>4, <2>1, <3>1, <4>1 DEF Rested, Renewed
    <3>3. CASE Emptied'
      <4>1. Touched.epoch' = stream.epoch /\ Touched.offset' = stream.offset
            /\ Touched.pubs' = <<>>
        BY <2>1, <3>3, FormsShowNext DEF FormsFacts
      <4>. QED  BY <1>4, <2>1, <3>1, <4>1 DEF Rested, Stayed
    <3>4. CASE Whole'
      <4>1. Touched' = stream
        BY <2>1, <3>4 DEF Whole
      <4>. QED  BY <1>4, <2>1, <3>1, <4>1 DEF Rested, Stayed
    <3>. QED  BY <1>3, <3>2, <3>3, <3>4
  <2>. QED  BY <1>1, <2>3, <2>4, <2>5
<1>. QED  BY <1>5, <1>6, <1>7

LEMMA RedisRests ==
  ASSUME EnginePart, engine = "redis",
         EngineHistory \/ EngineRemoveHistory \/ EngineTick \/ UNCHANGED engineVars
  PROVE  Rested
<1>0. /\ RedisTypeOK /\ RInv /\ now \in Nat \ {0}
      /\ Meta \in [epoch : Nat, offset : Nat] /\ Meta.epoch <= now
      /\ (Meta.epoch = 0 => Meta.offset = 0)
      /\ RedisEpoch = WithEpoch(Meta).epoch /\ RedisEpoch # 0
  BY FoundKeys DEF EnginePart, EnginesTypeOK, RedisTypeOK
<1>1. engine' = "redis"
  <2>1. EngineMove
    BY DEF EngineMove
  <2>. QED  BY <2>1, RedisMove
<1>2. /\ Found.epoch = WithEpoch(Meta).epoch /\ Found.offset = Meta.offset
      /\ Found.pubs = List
  BY DEF Found
<1>3. /\ Found.epoch' = WithEpoch(Meta).epoch' /\ Found.offset' = Meta.offset'
      /\ Found.pubs' = List'
  BY <1>1 DEF Found
<1>4. CASE EngineHistory
  <2>1. HISTORY
    BY <1>4 DEF EngineHistory, OnMemory, OnRedis
  <2>2. /\ Meta' = meta' /\ List' = List /\ count' = count
        /\ meta'.epoch = RedisEpoch /\ meta'.offset = Meta.offset
    BY <1>0, <2>1, LookMakes
  <2>3. WithEpoch(Meta).epoch' = WithEpoch(Meta).epoch /\ Meta.offset' = Meta.offset
    BY <1>0, <2>2 DEF WithEpoch
  <2>. QED  BY <1>2, <1>3, <2>2, <2>3 DEF Rested, Stayed
<1>5. CASE EngineRemoveHistory
  <2>1. Meta' = Meta /\ List' = <<>> /\ now' = now /\ count' = count
    BY <1>5 DEF EngineRemoveHistory, OnMemory, OnRedis, DeleteHistory, Meta, List, Gone
  <2>2. WithEpoch(Meta).epoch' = WithEpoch(Meta).epoch
    BY <2>1 DEF WithEpoch
  <2>. QED  BY <1>2, <1>3, <2>1, <2>2 DEF Rested, Stayed
<1>6. CASE EngineTick
  <2>1. /\ now' = now + 1 /\ count' = count /\ list' = list /\ listGone' = listGone
        /\ meta' = meta /\ metaGone' = metaGone
    BY <1>6 DEF EngineTick, OnMemory, OnRedis, RedisTick, Clock
  <2>2. List' = List \/ List' = <<>>
    BY <1>0, <2>1 DEF List, Gone, RedisTypeOK, Never
  <2>3. CASE Meta.epoch' = 0
    <3>1. /\ Found.epoch' = now + 1 /\ Found.epoch <= now /\ Found.epoch \in Nat
      BY <1>0, <1>2, <1>3, <2>1, <2>3 DEF WithEpoch
    <3>2. Meta.offset' = 0
      <4>1. Meta' \in {NoMeta, meta} /\ (meta.epoch = 0 => meta.offset = 0)
        BY <1>0, <2>1 DEF Meta, RInv, LiveMeta
      <4>. QED  BY <2>3, <4>1 DEF NoMeta
    <3>3. Renewed
      BY <1>0, <1>3, <3>1, <3>2 DEF Renewed
    <3>. QED  BY <1>2, <1>3, <2>1, <2>2, <3>3 DEF Rested
  <2>4. CASE Meta.epoch' # 0
    <3>1. Meta' = Meta
      BY <1>0, <2>1, <2>4 DEF Meta, Gone, RedisTypeOK, Never, NoMeta
    <3>2. WithEpoch(Meta).epoch' = WithEpoch(Meta).epoch
      BY <2>4, <3>1 DEF WithEpoch
    <3>. QED  BY <1>2, <1>3, <2>1, <2>2, <3>1, <3>2 DEF Rested, Stayed
  <2>. QED  BY <2>3, <2>4
<1>7. CASE UNCHANGED engineVars
  <2>1. count' = count /\ Found' = Found
    BY <1>7 DEF engineVars, memory, redis, Found, Touched, evict_if_expired, Expired, Cleared,
                Meta, List, Gone, WithEpoch
  <2>. QED  BY <2>1 DEF Rested, Stayed
<1>. QED  BY <1>4, <1>5, <1>6, <1>7

\* A publication appends to the stream that was found.
LEMMA Publishing == EnginePart /\ EnginePublish => Grown
BY MemoryAppends, RedisAppends, FoundIs

\* Everything else leaves the position or loses the stream.
LEMMA Resting ==
  ASSUME EnginePart,
         EngineHistory \/ EngineRemoveHistory \/ EngineTick \/ UNCHANGED engineVars
  PROVE  Rested
BY MemoryRests, RedisRests, FoundIs

-----------------------------------------------------------------------------
(* The log.                                                                *)

\* Where a publication of the log stands against what is found now.
Placed(l) ==
  /\ l.id \in 1..count /\ l.offset \in 1..count /\ l.epoch \in 1..Found.epoch
  /\ l.epoch = Found.epoch => l.offset <= Found.offset

\* Numbers name publications, and order those of a stream as the offsets do.
Apart(k, l) ==
  /\ k.id = l.id => k = l
  /\ k.epoch = l.epoch => (k.id < l.id <=> k.offset < l.offset)

LogPart ==
  /\ log \subseteq Publication
  /\ \A l \in log : Placed(l)
  /\ \A k, l \in log : Apart(k, l)

\* What the ring holds was published.
RingPart == \A i \in 1..Len(Found.pubs) : Found.pubs[i] \in log

LEMMA LogTypes ==
  ASSUME LogPart, NEW l \in log
  PROVE  l \in Publication /\ l.id \in Nat /\ l.offset \in Nat /\ l.epoch \in Nat
BY DEF LogPart, Publication

LEMMA NewEntryIs ==
  ASSUME EnginePart
  PROVE  /\ NewEntry \in Publication /\ NewEntry.id = count + 1
         /\ NewEntry.offset = Found.offset + 1 /\ NewEntry.epoch = Found.epoch
<1>1. Found.epoch \in Nat /\ Found.offset + 1 \in Nat /\ count + 1 \in Nat
  BY FoundIs
<1>. QED  BY <1>1 DEF NewEntry, Publication

LEMMA LogGrows ==
  ASSUME EnginePart, LogPart, Grown, log' = log \cup {NewEntry}
  PROVE  LogPart' /\ NewEntry \notin log
<1>e. PICK e : e = NewEntry
  OBVIOUS
<1>0. /\ Found.epoch \in Nat \ {0} /\ Found.offset \in 0..count /\ count \in Nat
      /\ count' = count + 1 /\ Found.epoch' = Found.epoch /\ Found.offset' = Found.offset + 1
  BY FoundIs DEF Grown
<1>1. e \in Publication /\ e.id = count + 1 /\ e.offset = Found.offset + 1 /\ e.epoch = Found.epoch
  BY <1>e, NewEntryIs
<1>2. log' = log \cup {e}
  BY <1>e
<1>3. Placed(e)'
  BY <1>0, <1>1 DEF Placed
<1>4. ASSUME NEW l \in log PROVE Placed(l)' /\ Apart(e, l) /\ Apart(l, e) /\ l.id < e.id
  <2>1. l.id \in Nat /\ l.offset \in Nat /\ l.epoch \in Nat /\ Placed(l)
    BY LogTypes DEF LogPart
  <2>2. Placed(l)'
    BY <1>0, <2>1 DEF Placed
  <2>3. l.id < e.id /\ (l.epoch = e.epoch => l.offset < e.offset)
    BY <1>0, <1>1, <2>1 DEF Placed
  <2>. QED  BY <1>0, <1>1, <2>1, <2>2, <2>3 DEF Apart
<1>5. Apart(e, e)
  BY <1>0, <1>1 DEF Apart
<1>6. \A l \in log' : Placed(l)'
  BY <1>2, <1>3, <1>4
<1>7. \A k, l \in log' : Apart(k, l)
  <2>1. \A k, l \in log : Apart(k, l)
    BY DEF LogPart
  <2>. QED  BY <1>2, <1>4, <1>5, <2>1
<1>8. \A k, l : Apart(k, l)' <=> Apart(k, l)
  BY DEF Apart
<1>9. log' \subseteq Publication
  BY <1>1, <1>2 DEF LogPart
<1>10. e \notin log
  BY <1>0, <1>1, <1>4
<1>. QED  BY <1>e, <1>6, <1>7, <1>8, <1>9, <1>10 DEF LogPart

FoundNumber == Found.epoch \in Nat \ {0} /\ Found.offset \in 0..count

LEMMA FoundNumberNext == EnginePart' => FoundNumber'
<1>1. EnginePart => FoundNumber
  BY FoundIs DEF FoundNumber
<1>. QED  BY <1>1, PTL

LEMMA LogRests ==
  ASSUME EnginePart, EnginePart', LogPart, Rested, log' = log
  PROVE  LogPart'
<1>0. /\ Found.epoch \in Nat \ {0} /\ Found.offset \in 0..count /\ count \in Nat
      /\ count' = count
  BY FoundIs DEF Rested
<1>1. \/ Found.epoch' = Found.epoch /\ Found.offset' = Found.offset
      \/ Found.epoch' > Found.epoch /\ Found.epoch' \in Nat
  <2>1. Found.epoch' \in Nat
    BY FoundNumberNext DEF FoundNumber
  <2>. QED  BY <2>1 DEF Rested, Renewed, Stayed
<1>2. ASSUME NEW l \in log PROVE Placed(l)'
  <2>1. l.id \in Nat /\ l.offset \in Nat /\ l.epoch \in Nat /\ Placed(l)
    BY LogTypes DEF LogPart
  <2>2. CASE Found.epoch' = Found.epoch /\ Found.offset' = Found.offset
    BY <1>0, <2>1, <2>2 DEF Placed
  <2>3. CASE Found.epoch' > Found.epoch /\ Found.epoch' \in Nat
    <3>1. l.epoch < Found.epoch'
      BY <1>0, <2>1, <2>3 DEF Placed
    <3>. QED  BY <1>0, <2>1, <2>3, <3>1 DEF Placed
  <2>. QED  BY <1>1, <2>2, <2>3
<1>3. \A k, l \in log : Apart(k, l)'
  BY DEF LogPart, Apart
<1>. QED  BY <1>2, <1>3 DEF LogPart

LEMMA RingGrows ==
  ASSUME EnginePart, EnginePart', RingPart, Grown, log' = log \cup {NewEntry}, engine' = engine
  PROVE  RingPart'
BY DEF RingPart, Grown

LEMMA RingRests ==
  ASSUME EnginePart, RingPart, Rested, log' = log, engine' = engine
  PROVE  RingPart'
<1>. SUFFICES ASSUME NEW i \in 1..Len(Found.pubs') PROVE Found.pubs'[i] \in log'
  BY DEF RingPart
<1>1. Found.pubs' # <<>>
  OBVIOUS
<1>2. Found.pubs' = Found.pubs
  BY <1>1 DEF Rested
<1>. QED  BY <1>2 DEF RingPart

-----------------------------------------------------------------------------
(* On the way from the engine to the hub.                                  *)

\* A publisher holds one publication and no other holds it; the messages of the
\* pub/sub connection are in the order of their numbers; an engine uses its way.
ShapePart ==
  /\ routing \in [Publishers -> log \cup {Nobody}]
  /\ inbox \in Seq(log) /\ lost \subseteq log
  /\ \A p, q \in Publishers : routing[p] # Nobody /\ routing[p] = routing[q] => p = q
  /\ \A i, j \in 1..Len(inbox) : i < j => inbox[i].id < inbox[j].id
  /\ engine = "memory" => inbox = <<>>
  /\ engine = "redis" => ~overtook /\ \A p \in Publishers : routing[p] = Nobody

LEMMA SeqGrows ==
  ASSUME NEW S, NEW T, S \subseteq T, NEW s \in Seq(S)
  PROVE  s \in Seq(T)
<1>1. Len(s) \in Nat /\ s \in [1..Len(s) -> S]
  OBVIOUS
<1>2. s \in [1..Len(s) -> T]
  BY <1>1
<1>. QED  BY <1>1, <1>2

\* A publication is not Nobody.
LEMMA SomeEntry ==
  ASSUME LogPart, NEW l \in log \cup {NewEntry}, EnginePart
  PROVE  l # Nobody
BY NewEntryIs, RecoveryAssumption DEF LogPart

\* A publication sets out on its way, or the connection to Redis is down and it is lost.
LEMMA PublishShape ==
  ASSUME EnginePart, LogPart, ShapePart, NEW p \in Publishers, Publish(p)
  PROVE  /\ ShapePart' /\ engine' = engine /\ Grown
         /\ log' = log \cup {NewEntry} /\ lost \subseteq lost' /\ overtook' = overtook
         /\ \A e : e = NewEntry => OnItsWay(e)' \/ e \in lost'
         /\ \A k \in log : OnItsWay(k)' <=> OnItsWay(k)
<1>e. PICK e : e = NewEntry
  OBVIOUS
<1>0. /\ log' = log \cup {e} /\ overtook' = overtook /\ routing[p] = Nobody
      /\ engine' = engine /\ engine \in {"memory", "redis"}
  BY <1>e, FoundIs DEF Publish, EnginePublish, OnMemory, OnRedis
<1>1. Grown
  BY Publishing DEF Publish
<1>2. e \notin log /\ e # Nobody /\ \A l \in log : l # Nobody
  BY <1>e, <1>0, <1>1, LogGrows, SomeEntry
<1>3. /\ routing \in [Publishers -> log \cup {Nobody}] /\ inbox \in Seq(log)
      /\ lost \subseteq log /\ Len(inbox) \in Nat
  BY DEF ShapePart
<1>4. CASE engine = "memory"
  <2>1. /\ routing' = [routing EXCEPT ![p] = e] /\ inbox' = inbox /\ lost' = lost
        /\ inbox = <<>>
    BY <1>e, <1>4 DEF Publish, ShapePart
  <2>2. /\ routing'[p] = e /\ \A q \in Publishers : q # p => routing'[q] = routing[q]
        /\ routing' \in [Publishers -> log' \cup {Nobody}]
    BY <1>0, <1>3, <2>1
  <2>3. inbox' \in Seq(log') /\ lost' \subseteq log' /\ Len(inbox') = 0
    BY <1>0, <1>3, <2>1
  <2>4. ASSUME NEW k \in Publishers, NEW q \in Publishers, routing'[k] # Nobody,
               routing'[k] = routing'[q]
        PROVE  k = q
    <3>1. \A r \in Publishers : routing[r] # e
      BY <1>2, <1>3
    <3>. QED  BY <2>2, <2>4, <3>1 DEF ShapePart
  <2>5. \A i, j \in 1..Len(inbox') : i < j => inbox'[i].id < inbox'[j].id
    BY <2>3
  <2>6. ShapePart'
    BY <1>0, <1>4, <2>1, <2>2, <2>3, <2>4, <2>5 DEF ShapePart
  <2>7. OnItsWay(e)'
    BY <2>2 DEF OnItsWay
  <2>8. ASSUME NEW k \in log PROVE OnItsWay(k)' <=> OnItsWay(k)
    <3>1. k # e /\ k # Nobody
      BY <1>2
    <3>2. (\E q \in Publishers : routing'[q] = k) <=> (\E q \in Publishers : routing[q] = k)
      BY <1>0, <2>2, <3>1
    <3>. QED  BY <2>1, <3>2 DEF OnItsWay
  <2>. QED  BY <1>e, <1>0, <1>1, <2>1, <2>6, <2>7, <2>8
<1>5. CASE engine = "redis"
  <2>1. routing' = routing /\ \/ inbox' = Append(inbox, e) /\ lost' = lost
                              \/ inbox' = inbox /\ lost' = lost \cup {e}
    BY <1>e, <1>5 DEF Publish
  <2>2. ~overtook /\ \A q \in Publishers : routing[q] = Nobody
    BY <1>5 DEF ShapePart
  <2>3. /\ inbox \in Seq(log') /\ lost' \subseteq log'
        /\ routing' \in [Publishers -> log' \cup {Nobody}]
    BY <1>0, <1>3, <2>1, SeqGrows
  <2>4. \A i \in 1..Len(inbox) : inbox[i] \in log /\ inbox[i].id < e.id
    <3>1. \A l \in log : l.id < e.id
      <4>1. \A l \in log : l.id \in 1..count
        BY DEF LogPart, Placed
      <4>2. e.id = count + 1 /\ count \in Nat
        BY <1>e, NewEntryIs, FoundIs
      <4>. QED  BY <4>1, <4>2
    <3>. QED  BY <1>3, <3>1
  <2>5. \A i, j \in 1..Len(inbox) : i < j => inbox[i].id < inbox[j].id
    BY DEF ShapePart
  <2>6. CASE inbox' = Append(inbox, e) /\ lost' = lost
    <3>1. /\ inbox' \in Seq(log') /\ Len(inbox') = Len(inbox) + 1
          /\ inbox'[Len(inbox) + 1] = e
          /\ \A i \in 1..Len(inbox) : inbox'[i] = inbox[i]
      BY <1>0, <1>3, <2>3, <2>6
    <3>2. ASSUME NEW i \in 1..Len(inbox'), NEW j \in 1..Len(inbox'), i < j
          PROVE  inbox'[i].id < inbox'[j].id
      <4>1. i \in 1..Len(inbox)
        BY <1>3, <3>1, <3>2
      <4>2. j \in 1..Len(inbox) \/ j = Len(inbox) + 1
        BY <1>3, <3>1
      <4>. QED  BY <2>4, <2>5, <3>1, <3>2, <4>1, <4>2
    <3>3. ShapePart'
      BY <1>0, <1>5, <2>1, <2>2, <2>3, <3>1, <3>2 DEF ShapePart
    <3>4. OnItsWay(e)'
      BY <1>3, <3>1 DEF OnItsWay
    <3>5. ASSUME NEW k \in log PROVE OnItsWay(k)' <=> OnItsWay(k)
      <4>1. k # e
        BY <1>2
      <4>2. (\E i \in 1..Len(inbox') : inbox'[i] = k) <=> (\E i \in 1..Len(inbox) : inbox[i] = k)
        BY <1>3, <3>1, <4>1
      <4>. QED  BY <2>1, <4>2 DEF OnItsWay
    <3>. QED  BY <1>e, <1>0, <1>1, <2>6, <3>3, <3>4, <3>5
  <2>7. CASE inbox' = inbox /\ lost' = lost \cup {e}
    <3>1. ShapePart'
      BY <1>0, <1>5, <2>1, <2>2, <2>3, <2>5, <2>7 DEF ShapePart
    <3>2. \A k \in log : OnItsWay(k)' <=> OnItsWay(k)
      BY <2>1, <2>7 DEF OnItsWay
    <3>. QED  BY <1>e, <1>0, <1>1, <2>7, <3>1, <3>2
  <2>. QED  BY <2>1, <2>6, <2>7
<1>. QED  BY <1>0, <1>4, <1>5

\* The publication l is handed to the subscriber, or the subscriber is dropped; l was
\* the earliest on its way, unless a publisher was overtaken.
Handed(l) ==
  /\ l \in log /\ OnItsWay(l) /\ fan_out(l)
  /\ \A k \in log : OnItsWay(k)' <=> OnItsWay(k) /\ k # l
  /\ ~overtook' => ~overtook /\ \A k \in log : OnItsWay(k) => k = l \/ l.id < k.id
  /\ UNCHANGED <<engineVars, radix, log, lost, pc, req, reply, clientVars>>

LEMMA RouteHands ==
  ASSUME EnginePart, LogPart, ShapePart, NEW p \in Publishers, Route(p)
  PROVE  ShapePart' /\ \E l : Handed(l)
<1>l. PICK l : l = routing[p]
  OBVIOUS
<1>0. /\ routing \in [Publishers -> log \cup {Nobody}] /\ inbox \in Seq(log)
      /\ engine \in {"memory", "redis"} /\ inbox = <<>> /\ engine = "memory"
      /\ l \in log /\ l # Nobody
  BY <1>l, FoundIs DEF ShapePart, Route
<1>1. /\ routing' = [routing EXCEPT ![p] = Nobody] /\ fan_out(l)
      /\ inbox' = inbox /\ log' = log /\ lost' = lost /\ engine' = engine
      /\ overtook' = (overtook \/ Overtakes(p))
      /\ UNCHANGED <<engineVars, radix, log, lost, pc, req, reply, clientVars>>
  BY <1>l DEF Route, engineVars
<1>2. routing'[p] = Nobody /\ \A q \in Publishers : q # p => routing'[q] = routing[q]
  BY <1>0, <1>1
<1>3. ShapePart'
  <2>1. routing' \in [Publishers -> log' \cup {Nobody}]
    BY <1>0, <1>1
  <2>2. ASSUME NEW k \in Publishers, NEW q \in Publishers, routing'[k] # Nobody,
               routing'[k] = routing'[q]
        PROVE  k = q
    BY <1>2, <2>2 DEF ShapePart
  <2>. QED  BY <1>0, <1>1, <2>1, <2>2 DEF ShapePart
<1>4. \A k \in log : OnItsWay(k) <=> \E q \in Publishers : routing[q] = k
  BY <1>0 DEF OnItsWay
<1>5. \A k \in log : OnItsWay(k)' <=> \E q \in Publishers : routing'[q] = k
  BY <1>0, <1>1 DEF OnItsWay
<1>6. ASSUME NEW k \in log PROVE OnItsWay(k)' <=> OnItsWay(k) /\ k # l
  <2>1. k # Nobody
    BY RecoveryAssumption DEF LogPart
  <2>2. ASSUME NEW q \in Publishers, routing'[q] = k PROVE routing[q] = k /\ k # l
    <3>1. q # p
      BY <1>2, <2>1, <2>2
    <3>2. routing[q] = k
      BY <1>2, <2>2, <3>1
    <3>. QED  BY <1>l, <2>1, <3>1, <3>2 DEF ShapePart
  <2>3. ASSUME NEW q \in Publishers, routing[q] = k, k # l PROVE routing'[q] = k
    BY <1>l, <1>2, <2>3
  <2>. QED  BY <1>4, <1>5, <2>2, <2>3
<1>7. ASSUME ~overtook', NEW k \in log, OnItsWay(k) PROVE k = l \/ l.id < k.id
  <2>1. PICK q \in Publishers : routing[q] = k
    BY <1>4, <1>7
  <2>2. k # Nobody /\ l.id \in Nat /\ k.id \in Nat /\ Apart(k, l)
    BY <1>0, LogTypes, RecoveryAssumption DEF LogPart
  <2>3. ~(k.id < l.id)
    BY <1>l, <1>1, <1>7, <2>1, <2>2 DEF Overtakes
  <2>. QED  BY <2>2, <2>3 DEF Apart
<1>8. OnItsWay(l)
  BY <1>l, <1>0, <1>4
<1>9. ~overtook' => ~overtook
  BY <1>1
<1>10. Handed(l)
  BY <1>0, <1>1, <1>6, <1>7, <1>8, <1>9 DEF Handed
<1>. QED  BY <1>3, <1>10

LEMMA DispatchHands ==
  ASSUME EnginePart, LogPart, ShapePart, dispatch_message
  PROVE  ShapePart' /\ \E l : Handed(l)
<1>1. inbox \in Seq(log) /\ Len(inbox) \in Nat /\ DOMAIN inbox = 1..Len(inbox)
  BY DEF ShapePart
<1>2. /\ 1 \in 1..Len(inbox) /\ inbox' = SubSeq(inbox, 1, 0) \o SubSeq(inbox, 2, Len(inbox))
      /\ fan_out(inbox[1])
      /\ UNCHANGED <<engineVars, radix, log, routing, overtook, linked, lost, pc, req, reply,
                     clientVars>>
  BY <1>1 DEF dispatch_message, Due
<1>l. PICK l : l = inbox[1]
  OBVIOUS
<1>3. l \in log /\ fan_out(l)
  BY <1>l, <1>1, <1>2
<1>4. /\ inbox' \in Seq(log) /\ Len(inbox') = Len(inbox) - 1
      /\ \A i \in 1..(Len(inbox) - 1) : inbox'[i] = inbox[i + 1]
  BY <1>1, <1>2
<1>5. engine' = engine /\ log' = log /\ lost' = lost /\ routing' = routing /\ overtook' = overtook
  BY <1>2 DEF engineVars
<1>6. engine = "redis" /\ ~overtook /\ \A q \in Publishers : routing[q] = Nobody
  BY <1>1, <1>2, FoundIs DEF ShapePart
<1>7. \A i, j \in 1..Len(inbox) : i < j => inbox[i].id < inbox[j].id
  BY DEF ShapePart
<1>8. ShapePart'
  <2>1. ASSUME NEW i \in 1..Len(inbox'), NEW j \in 1..Len(inbox'), i < j
        PROVE  inbox'[i].id < inbox'[j].id
    <3>1. /\ i + 1 \in 1..Len(inbox) /\ j + 1 \in 1..Len(inbox) /\ i + 1 < j + 1
          /\ inbox'[i] = inbox[i + 1] /\ inbox'[j] = inbox[j + 1]
      BY <1>1, <1>4, <2>1
    <3>. QED  BY <1>7, <3>1
  <2>. QED  BY <1>4, <1>5, <1>6, <2>1 DEF ShapePart
<1>9. \A k \in log : k # Nobody
  BY RecoveryAssumption DEF LogPart
<1>10. \A k \in log : OnItsWay(k) <=> \E i \in 1..Len(inbox) : inbox[i] = k
  BY <1>6, <1>9 DEF OnItsWay
<1>11. \A k \in log : OnItsWay(k)' <=> \E i \in 1..Len(inbox') : inbox'[i] = k
  BY <1>5, <1>6, <1>9 DEF OnItsWay
<1>12. ASSUME NEW i \in 1..Len(inbox) PROVE i = 1 \/ (inbox[i] # l /\ l.id < inbox[i].id)
  <2>1. CASE i # 1
    <3>1. l.id < inbox[i].id
      BY <1>l, <1>1, <1>2, <1>7, <2>1
    <3>2. l.id \in Nat
      BY <1>3, LogTypes
    <3>. QED  BY <3>1, <3>2
  <2>. QED  BY <2>1
<1>13. ASSUME NEW k \in log PROVE OnItsWay(k)' <=> OnItsWay(k) /\ k # l
  <2>1. ASSUME NEW i \in 1..Len(inbox'), inbox'[i] = k
        PROVE  k # l /\ \E j \in 1..Len(inbox) : inbox[j] = k
    <3>1. i + 1 \in 1..Len(inbox) /\ inbox[i + 1] = k /\ i + 1 # 1
      BY <1>1, <1>4, <2>1
    <3>. QED  BY <1>12, <3>1
  <2>2. ASSUME NEW i \in 1..Len(inbox), inbox[i] = k, k # l
        PROVE  \E j \in 1..Len(inbox') : inbox'[j] = k
    <3>1. i # 1
      BY <1>l, <2>2
    <3>2. i - 1 \in 1..Len(inbox') /\ inbox'[i - 1] = inbox[(i - 1) + 1] /\ (i - 1) + 1 = i
      BY <1>1, <1>4, <3>1
    <3>. QED  BY <2>2, <3>2
  <2>. QED  BY <1>10, <1>11, <2>1, <2>2
<1>14. \A k \in log : OnItsWay(k) => k = l \/ l.id < k.id
  BY <1>l, <1>10, <1>12
<1>15. OnItsWay(l)
  BY <1>l, <1>2, <1>3, <1>10
<1>16. Handed(l)
  BY <1>2, <1>3, <1>5, <1>6, <1>13, <1>14, <1>15 DEF Handed
<1>. QED  BY <1>8, <1>16

\* The other steps leave what is on its way where it is, or the connection to Redis
\* loses it.
Lossy ==
  /\ log' = log /\ lost \subseteq lost' /\ overtook' = overtook
  /\ \A k \in log : /\ OnItsWay(k)' => OnItsWay(k)
                    /\ OnItsWay(k) => OnItsWay(k)' \/ k \in lost'

LEMMA BreakShape ==
  ASSUME EnginePart, LogPart, ShapePart, LinkBreaks
  PROVE  ShapePart' /\ Lossy
<1>0. /\ inbox \in Seq(log) /\ Len(inbox) \in Nat /\ lost \subseteq log
      /\ routing' = routing /\ overtook' = overtook /\ log' = log /\ engine' = engine
  BY DEF ShapePart, LinkBreaks, engineVars
<1>1. PICK n \in 0..Len(inbox) :
        /\ inbox' = SubSeq(inbox, 1, n)
        /\ lost' = lost \cup {inbox[i] : i \in n + 1..Len(inbox)}
  BY DEF LinkBreaks
<1>2. /\ inbox' \in Seq(log) /\ Len(inbox') = n /\ \A i \in 1..n : inbox'[i] = inbox[i]
  BY <1>0, <1>1
<1>3. lost' \subseteq log /\ lost \subseteq lost'
        /\ \A i \in 1..Len(inbox) : i \in 1..n \/ inbox[i] \in lost'
  BY <1>0, <1>1
<1>4. 1..n \subseteq 1..Len(inbox)
  BY <1>0, <1>1
<1>5. ShapePart'
  <2>1. \A i, j \in 1..Len(inbox') : i < j => inbox'[i].id < inbox'[j].id
    BY <1>2, <1>4 DEF ShapePart
  <2>2. engine' = "memory" => inbox' = <<>>
    BY <1>0, <1>1, <1>2 DEF ShapePart
  <2>. QED  BY <1>0, <1>2, <1>3, <2>1, <2>2 DEF ShapePart
<1>6. ASSUME NEW k \in log
      PROVE  (OnItsWay(k)' => OnItsWay(k)) /\ (OnItsWay(k) => OnItsWay(k)' \/ k \in lost')
  BY <1>0, <1>2, <1>3, <1>4 DEF OnItsWay
<1>. QED  BY <1>0, <1>3, <1>5, <1>6 DEF Lossy

LEMMA CalmShape ==
  ASSUME ShapePart, UNCHANGED <<engine, log, routing, overtook, inbox, lost>>
  PROVE  ShapePart' /\ Lossy
BY DEF ShapePart, Lossy, OnItsWay

-----------------------------------------------------------------------------
(* The steps, as the subscriber's side sees them.                          *)

WayPart == EnginePart /\ LogPart /\ RingPart /\ ShapePart

Published ==
  /\ Grown /\ log' = log \cup {NewEntry} /\ lost \subseteq lost' /\ overtook' = overtook
  /\ \A e : e = NewEntry => OnItsWay(e)' \/ e \in lost'
  /\ \A k \in log : OnItsWay(k)' <=> OnItsWay(k)
  /\ UNCHANGED <<connVars, clientVars>>

Served ==
  \/ Join \/ Read \/ ReadFails \/ Reply \/ Disconnect \/ Receive
  \/ UNCHANGED <<connVars, clientVars>>

LEMMA WayStep ==
  ASSUME WayPart, [Next]_vars
  PROVE  /\ WayPart' /\ UNCHANGED <<engine, radix>>
         /\ \/ Published
            \/ Rested /\ \E l : Handed(l)
            \/ Rested /\ Lossy /\ Served
<1>0. EnginePart /\ LogPart /\ RingPart /\ ShapePart
  BY DEF WayPart
<1>1. ASSUME NEW p \in Publishers, Publish(p)
      PROVE  WayPart' /\ UNCHANGED <<engine, radix>> /\ Published
  <2>1. /\ ShapePart' /\ engine' = engine /\ Grown /\ log' = log \cup {NewEntry}
        /\ lost \subseteq lost' /\ overtook' = overtook
        /\ \A e : e = NewEntry => OnItsWay(e)' \/ e \in lost'
        /\ \A k \in log : OnItsWay(k)' <=> OnItsWay(k)
    BY <1>0, <1>1, PublishShape
  <2>2. EnginePart'
    BY <1>0, <1>1, EngineStep DEF Publish, EngineMove
  <2>3. LogPart' /\ RingPart'
    BY <1>0, <2>1, <2>2, LogGrows, RingGrows
  <2>4. UNCHANGED <<connVars, clientVars>> /\ radix' = radix
    BY <1>1 DEF Publish
  <2>. QED  BY <2>1, <2>2, <2>3, <2>4 DEF WayPart, Published
<1>2. ASSUME EngineHistory \/ EngineRemoveHistory \/ EngineTick \/ UNCHANGED engineVars,
             log' = log
      PROVE  EnginePart' /\ LogPart' /\ RingPart' /\ Rested /\ engine' = engine
  <2>1. EnginePart' /\ Rested
    BY <1>0, <1>2, EngineStep, Resting DEF EngineMove
  <2>2. engine' = engine
    BY <1>2 DEF EngineHistory, EngineRemoveHistory, EngineTick, OnMemory, OnRedis, engineVars
  <2>. QED  BY <1>0, <1>2, <2>1, <2>2, LogRests, RingRests
<1>3. ASSUME \E l : Handed(l), ShapePart', log' = log, UNCHANGED <<engineVars, radix>>
      PROVE  WayPart' /\ UNCHANGED <<engine, radix>> /\ Rested
  BY <1>2, <1>3 DEF WayPart
<1>4. ASSUME NEW p \in Publishers, Route(p)
      PROVE  WayPart' /\ UNCHANGED <<engine, radix>> /\ Rested /\ \E l : Handed(l)
  <2>1. log' = log /\ UNCHANGED <<engineVars, radix>>
    BY <1>4 DEF Route
  <2>2. ShapePart' /\ \E l : Handed(l)
    BY <1>0, <1>4, RouteHands
  <2>. QED  BY <1>3, <2>1, <2>2
<1>5. ASSUME dispatch_message
      PROVE  WayPart' /\ UNCHANGED <<engine, radix>> /\ Rested /\ \E l : Handed(l)
  <2>1. log' = log /\ UNCHANGED <<engineVars, radix>>
    BY <1>5 DEF dispatch_message
  <2>2. ShapePart' /\ \E l : Handed(l)
    BY <1>0, <1>5, DispatchHands
  <2>. QED  BY <1>3, <2>1, <2>2
<1>6. ASSUME LinkBreaks
      PROVE  WayPart' /\ UNCHANGED <<engine, radix>> /\ Rested /\ Lossy /\ Served
  <2>1. UNCHANGED engineVars /\ log' = log /\ radix' = radix /\ UNCHANGED <<connVars, clientVars>>
    BY <1>6 DEF LinkBreaks
  <2>2. ShapePart' /\ Lossy
    BY <1>0, <1>6, BreakShape
  <2>. QED  BY <1>2, <2>1, <2>2 DEF WayPart, Served
<1>7. ASSUME EngineHistory \/ EngineRemoveHistory \/ EngineTick \/ UNCHANGED engineVars,
             UNCHANGED <<radix, log, routing, overtook, inbox, lost>>, Served
      PROVE  WayPart' /\ UNCHANGED <<engine, radix>> /\ Rested /\ Lossy /\ Served
  <2>1. EnginePart' /\ LogPart' /\ RingPart' /\ Rested /\ engine' = engine
    BY <1>2, <1>7
  <2>2. ShapePart' /\ Lossy
    BY <1>0, <1>7, <2>1, CalmShape
  <2>. QED  BY <1>7, <2>1, <2>2 DEF WayPart
<1>8. CASE Relink
  BY <1>7, <1>8 DEF Relink, Served
<1>9. CASE Join
  BY <1>7, <1>9 DEF Join, Served, routeVars
<1>10. CASE Read
  BY <1>7, <1>10 DEF Read, Served, routeVars
<1>11. CASE ReadFails
  BY <1>7, <1>11 DEF ReadFails, Served, routeVars
<1>12. CASE Reply
  BY <1>7, <1>12 DEF Reply, Served, routeVars
<1>13. CASE Disconnect
  BY <1>7, <1>13 DEF Disconnect, Served, routeVars
<1>14. CASE Receive
  BY <1>7, <1>14 DEF Receive, Served, routeVars
<1>15. CASE Environment
  BY <1>7, <1>15 DEF Environment, Served, routeVars
<1>16. CASE UNCHANGED vars
  BY <1>7, <1>16 DEF vars, Served, routeVars
<1>. QED
  BY <1>1, <1>4, <1>5, <1>6, <1>8, <1>9, <1>10, <1>11, <1>12, <1>13, <1>14, <1>15, <1>16
     DEF Next

-----------------------------------------------------------------------------
(* Positions, and the types of the connection and the client.              *)

Item == [push : Publication] \cup [reply : Result]

TypePart ==
  /\ radix \in Radixes
  /\ overtook \in BOOLEAN /\ linked \in BOOLEAN /\ hub \in BOOLEAN /\ told \in BOOLEAN
  /\ pc \in {"off", "joined", "read", "on"}
  /\ req \in Request /\ reply \in Result
  /\ pushed \subseteq log
  /\ queue \in Seq(Item) /\ Len(queue) <= QueueCap
  /\ base \in Position \cup {Nobody} /\ pos \in Position
  /\ got \subseteq Publication

\* seq and gen put together: the number meant, and the one the server takes them for.
LEMMA Packing ==
  ASSUME radix \in Radixes, NEW p \in Position
  PROVE  /\ Meant(p) \in Nat /\ pack_offset(p) \in Nat
         /\ pack_offset(p) <= Meant(p)
         /\ Meant(p) < radix => pack_offset(p) = Meant(p)
<1>1. radix \in Nat /\ radix > 1 /\ p.gen \in Nat /\ p.seq \in Nat
  BY RecoveryAssumption DEF Position
<1>2. /\ p.gen * radix \in Nat /\ p.gen * (radix - 1) \in Nat
      /\ p.gen * (radix - 1) <= p.gen * radix
      /\ p.gen # 0 => p.gen * radix >= radix
      /\ p.gen = 0 => p.gen * radix = 0 /\ p.gen * (radix - 1) = 0
  BY <1>1
<1>. QED  BY <1>1, <1>2 DEF Meant, pack_offset

\* seq and gen of an offset that fits mean that offset.
LEMMA Unpacking ==
  ASSUME radix \in Radixes, NEW e \in Nat, NEW v \in 0..MaxPubs
  PROVE  /\ encode_position(e, v) \in Position /\ encode_position(e, v).epoch = e
         /\ Meant(encode_position(e, v)) = v
<1>1. radix \in Nat /\ radix > 1 /\ v \in Nat /\ v < radix * radix
  BY RecoveryAssumption, StreamAssumption
<1>. DEFINE q == v \div radix
            m == v % radix
<1>2. q \in Nat /\ m \in Nat /\ v = q * radix + m /\ q < radix
  BY <1>1
<1>. HIDE DEF q, m
<1>3. q % radix = q
  BY <1>1, <1>2
<1>4. encode_position(e, v) = [epoch |-> e, seq |-> m, gen |-> q]
  BY <1>3 DEF encode_position, unpack_offset, q, m
<1>. QED  BY <1>2, <1>4 DEF Position, Meant

\* What the answer says of the stream it was made of.
LEMMA AnswerIs ==
  ASSUME TypePart, NEW s, s.epoch \in Nat, s.offset \in 0..MaxPubs, s.pubs \in Seq(Publication)
  PROVE  /\ Answer(s) \in Result
         /\ Answer(s).pos.epoch = s.epoch /\ Meant(Answer(s).pos) = s.offset
         /\ Answer(s).recovered => req.recover /\ recovered(s)
         /\ \A l \in Answer(s).publications : \E i \in Asked(s) : l = s.pubs[i]
         /\ req.recover => \A i \in Asked(s) : s.pubs[i] \in Answer(s).publications
         /\ Asked(s) \subseteq 1..Len(s.pubs)
<1>1. encode_position(s.epoch, s.offset) \in Position
      /\ encode_position(s.epoch, s.offset).epoch = s.epoch
      /\ Meant(encode_position(s.epoch, s.offset)) = s.offset
  BY Unpacking DEF TypePart
<1>2. Asked(s) \subseteq 1..Len(s.pubs)
  BY DEF Asked, Since
<1>3. ASSUME NEW i \in Asked(s) PROVE s.pubs[i] \in Publication
  BY <1>2
<1>4. Answer(s).pos = encode_position(s.epoch, s.offset)
  BY DEF Answer
<1>5. Answer(s).recovered = (req.recover /\ recovered(s)) /\ Answer(s).recovered \in BOOLEAN
  BY DEF Answer
<1>6. Answer(s).publications = IF req.recover THEN {s.pubs[i] : i \in Asked(s)} ELSE {}
  BY DEF Answer
<1>7. Answer(s).publications \in SUBSET Publication
  BY <1>3, <1>6
<1>8. Answer(s) \in Result
  <2>1. Answer(s) = [recovered |-> Answer(s).recovered, pos |-> Answer(s).pos,
                     publications |-> Answer(s).publications]
    BY DEF Answer
  <2>. QED  BY <1>1, <1>4, <1>5, <1>7, <2>1 DEF Result
<1>. QED  BY <1>1, <1>2, <1>4, <1>5, <1>6, <1>8

\* A read, successful or not, with the stream the answer is made of.
LEMMA ReadIs ==
  ASSUME EnginePart, TypePart, Read \/ ReadFails
  PROVE  \E s : /\ s.epoch \in Nat /\ s.offset \in 0..MaxPubs /\ s.pubs \in Seq(Publication)
                /\ reply' = Answer(s)
                /\ \/ s = Found
                   \/ s.epoch = 0 /\ s.pubs = <<>>
<1>1. CASE Read
  <2>s. PICK s : s = Found
    OBVIOUS
  <2>1. s.epoch \in Nat /\ s.offset \in 0..MaxPubs /\ s.pubs \in Seq(Publication)
    <3>1. count <= MaxPubs /\ MaxPubs \in Nat
      BY StreamAssumption DEF EnginePart
    <3>. QED  BY <2>s, <3>1, FoundIs
  <2>. QED  BY <1>1, <2>s, <2>1 DEF Read
<1>2. CASE ReadFails
  <2>s. PICK s : s = [epoch |-> 0, offset |-> 0, pubs |-> <<>>]
    OBVIOUS
  <2>1. s.epoch = 0 /\ s.offset = 0 /\ s.pubs = <<>>
    BY <2>s
  <2>2. s.pubs \in Seq(Publication) /\ s.epoch \in Nat /\ s.offset \in 0..MaxPubs
    BY <2>1, StreamAssumption
  <2>3. reply' = Answer(s)
    BY <1>2, <2>s DEF ReadFails
  <2>. QED  BY <2>1, <2>2, <2>3
<1>. QED  BY <1>1, <1>2

LEMMA HandedIs ==
  ASSUME NEW l, Handed(l)
  PROVE  /\ \/ /\ hub /\ hub' = hub /\ Len(queue) < QueueCap
               /\ queue' = Append(queue, [push |-> l]) /\ pushed' = pushed \cup {l}
            \/ ~hub' /\ hub' = FALSE /\ queue' = queue /\ pushed' = pushed
         /\ log' = log /\ pc' = pc /\ req' = req /\ reply' = reply
         /\ told' = told /\ base' = base /\ pos' = pos /\ got' = got
BY DEF Handed, fan_out, clientVars

LEMMA TypeServed ==
  ASSUME EnginePart, TypePart, Served, radix' = radix, log' = log,
         overtook' = overtook, linked' \in BOOLEAN
  PROVE  TypePart'
<1>0. /\ radix \in Radixes /\ hub \in BOOLEAN /\ told \in BOOLEAN /\ overtook \in BOOLEAN
      /\ pc \in {"off", "joined", "read", "on"} /\ req \in Request /\ reply \in Result
      /\ pushed \subseteq log /\ queue \in Seq(Item) /\ Len(queue) <= QueueCap
      /\ base \in Position \cup {Nobody} /\ pos \in Position /\ got \subseteq Publication
      /\ Len(queue) \in Nat /\ QueueCap \in Nat \ {0}
  BY RecoveryAssumption DEF TypePart
<1>a. ASSUME UNCHANGED clientVars
      PROVE  told' \in BOOLEAN /\ base' \in Position \cup {Nobody} /\ pos' \in Position
             /\ got' \subseteq Publication
  BY <1>0, <1>a DEF clientVars
<1>1. CASE Join
  <2>1. req' \in Request
    BY <1>0, <1>1 DEF Join, Request
  <2>. QED  BY <1>0, <1>1, <1>a, <2>1 DEF Join, TypePart
<1>2. CASE Read \/ ReadFails
  <2>1. reply' \in Result
    <3>1. PICK s : /\ s.epoch \in Nat /\ s.offset \in 0..MaxPubs /\ s.pubs \in Seq(Publication)
                   /\ reply' = Answer(s)
      BY <1>2, ReadIs
    <3>. QED  BY <3>1, AnswerIs
  <2>2. pc' = "read" /\ UNCHANGED <<hub, req, pushed, queue>> /\ UNCHANGED clientVars
    BY <1>2 DEF Read, ReadFails
  <2>. QED  BY <1>0, <1>a, <2>1, <2>2 DEF TypePart
<1>3. CASE Reply
  <2>1. queue' = Append(queue, [reply |-> reply]) /\ Len(queue) < QueueCap /\ pc' = "on"
        /\ UNCHANGED <<hub, req, reply, pushed>> /\ UNCHANGED clientVars
    BY <1>3 DEF Reply
  <2>2. [reply |-> reply] \in Item
    BY <1>0 DEF Item
  <2>3. queue' \in Seq(Item) /\ Len(queue') <= QueueCap
    BY <1>0, <2>1, <2>2
  <2>. QED  BY <1>0, <1>a, <2>1, <2>3 DEF TypePart
<1>4. CASE Disconnect
  <2>1. /\ pc' = "off" /\ hub' = FALSE /\ queue' = <<>> /\ pushed' = {} /\ req' = NoRequest
        /\ reply' = NoReply /\ told' = FALSE /\ UNCHANGED <<base, pos, got>>
    BY <1>4 DEF Disconnect
  <2>2. NoRequest \in Request /\ NoReply \in Result
    <3>1. Start \in Position
      BY DEF Start, Position
    <3>. QED  BY <3>1 DEF NoRequest, NoReply, Request, Result
  <2>3. queue' \in Seq(Item) /\ Len(queue') <= QueueCap
    BY <1>0, <2>1
  <2>. QED  BY <1>0, <2>1, <2>2, <2>3 DEF TypePart
<1>5. CASE Receive
  <2>i. PICK item : item = Head(queue)
    OBVIOUS
  <2>1. /\ queue # <<>> /\ queue' = Tail(queue) /\ UNCHANGED <<hub, pc, req, reply, pushed>>
        /\ IF "push" \in DOMAIN item
           THEN /\ got' = got \cup {item.push}
                /\ pos' = IF told THEN encode_position(pos.epoch, item.push.offset) ELSE pos
                /\ UNCHANGED <<told, base>>
           ELSE /\ told' = TRUE /\ got' = got \cup item.reply.publications
                /\ pos' = item.reply.pos
                /\ base' = IF item.reply.recovered THEN base ELSE item.reply.pos
    BY <1>5, <2>i DEF Receive
  <2>2. queue' \in Seq(Item) /\ Len(queue') <= QueueCap /\ item \in Item
    BY <1>0, <2>1, <2>i
  <2>3. CASE "push" \in DOMAIN item
    <3>1. item \in [push : Publication]
      BY <2>2, <2>3 DEF Item
    <3>2. item.push \in Publication /\ item.push.offset \in Nat
      BY <3>1 DEF Publication
    <3>3. encode_position(pos.epoch, item.push.offset) \in Position
      <4>1. radix \in Nat \ {0} /\ pos.epoch \in Nat
        BY <1>0, RecoveryAssumption DEF Position
      <4>. QED  BY <3>2, <4>1 DEF encode_position, unpack_offset, Position
    <3>. QED  BY <1>0, <2>1, <2>2, <2>3, <3>2, <3>3 DEF TypePart
  <2>4. CASE ~("push" \in DOMAIN item)
    <3>1. item \in [reply : Result]
      BY <2>2, <2>4 DEF Item
    <3>2. /\ item.reply.pos \in Position /\ item.reply.publications \subseteq Publication
      BY <3>1 DEF Result
    <3>. QED  BY <1>0, <2>1, <2>2, <2>4, <3>2 DEF TypePart
  <2>. QED  BY <2>3, <2>4
<1>6. CASE UNCHANGED <<connVars, clientVars>>
  BY <1>0, <1>6 DEF TypePart, connVars, clientVars
<1>. QED  BY <1>1, <1>2, <1>3, <1>4, <1>5, <1>6 DEF Served

LEMMA FlagsAre ==
  ASSUME TypePart, [Next]_vars
  PROVE  linked' \in BOOLEAN /\ overtook' \in BOOLEAN
<1>1. linked \in BOOLEAN /\ overtook \in BOOLEAN
  BY DEF TypePart
<1>2. CASE LinkBreaks \/ Relink
  BY <1>1, <1>2 DEF LinkBreaks, Relink
<1>3. ASSUME NEW p \in Publishers, Publish(p) PROVE linked' = linked /\ overtook' = overtook
  BY <1>3 DEF Publish
<1>4. ASSUME NEW p \in Publishers, Route(p) PROVE linked' = linked /\ overtook' \in BOOLEAN
  BY <1>4 DEF Route
<1>5. CASE dispatch_message \/ Join \/ Read \/ ReadFails \/ Reply \/ Disconnect \/ Receive
           \/ Environment
  BY <1>1, <1>5 DEF dispatch_message, Join, Read, ReadFails, Reply, Disconnect, Receive,
                    Environment, routeVars
<1>6. CASE UNCHANGED vars
  BY <1>1, <1>6 DEF vars, routeVars
<1>. QED  BY <1>1, <1>2, <1>3, <1>4, <1>5, <1>6 DEF Next

LEMMA TypeStep ==
  ASSUME WayPart, TypePart, [Next]_vars
  PROVE  TypePart'
<1>0. EnginePart /\ radix' = radix
      /\ (Published \/ (\E l : Handed(l)) \/ (Lossy /\ Served))
  BY WayStep DEF WayPart
<1>1. linked' \in BOOLEAN /\ overtook' \in BOOLEAN
  BY FlagsAre
<1>2. CASE Published
  BY <1>0, <1>1, <1>2 DEF Published, TypePart, connVars, clientVars
<1>3. ASSUME NEW l, Handed(l) PROVE TypePart'
  <2>1. l \in log /\ l \in Publication
    BY <1>3, <1>0, LogTypes DEF Handed, WayPart
  <2>2. queue \in Seq(Item) /\ [push |-> l] \in Item /\ Len(queue) \in Nat /\ QueueCap \in Nat
        /\ Len(queue) <= QueueCap
    BY <2>1, RecoveryAssumption DEF TypePart, Item
  <2>3. queue' \in Seq(Item) /\ Len(queue') <= QueueCap
    <3>1. CASE queue' = queue
      BY <2>2, <3>1
    <3>2. CASE queue' = Append(queue, [push |-> l]) /\ Len(queue) < QueueCap
      BY <2>2, <3>2
    <3>. QED  BY <1>3, <3>1, <3>2, HandedIs
  <2>4. pushed' \subseteq log'
    <3>1. (pushed' = pushed \/ pushed' = pushed \cup {l}) /\ log' = log
      BY <1>3, HandedIs
    <3>2. pushed \subseteq log
      BY DEF TypePart
    <3>. QED  BY <2>1, <3>1, <3>2
  <2>5. hub' \in BOOLEAN
    <3>1. hub' = hub \/ hub' = FALSE
      BY <1>3, HandedIs
    <3>. QED  BY <3>1 DEF TypePart
  <2>. QED  BY <1>0, <1>1, <1>3, <2>3, <2>4, <2>5, HandedIs DEF TypePart
<1>4. CASE Lossy /\ Served
  BY <1>0, <1>1, <1>4, TypeServed DEF Lossy
<1>. QED  BY <1>0, <1>2, <1>3, <1>4

-----------------------------------------------------------------------------
(* The reply.                                                              *)

ReplyPart ==
  /\ pc \in {"off", "joined"} => reply = NoReply
  /\ pc = "off" => ~hub
  /\ reply.pos.epoch <= Found.epoch
  /\ reply.pos.epoch = Found.epoch => Meant(reply.pos) <= Found.offset

Answered == RecoveredIsComplete /\ reply.publications \subseteq log

\* Behind a pushed publication of the reply's stream and past its snapshot.
Behind(k, l) ==
  /\ k.epoch = reply.pos.epoch /\ l.epoch = reply.pos.epoch
  /\ Meant(reply.pos) < k.offset /\ k.offset < l.offset

PushPart ==
  pc \in {"read", "on"} /\ ~overtook =>
    \A l \in pushed, k \in log : Behind(k, l) => k \in pushed \cup lost

\* An answer, right after it was made.
LEMMA JustRead ==
  ASSUME WayPart, TypePart, Read \/ ReadFails
  PROVE  /\ reply'.pos.epoch <= Found.epoch
         /\ reply'.pos.epoch = Found.epoch => Meant(reply'.pos) <= Found.offset
         /\ \A l \in log : l.epoch = reply'.pos.epoch => l.offset <= Meant(reply'.pos)
         /\ reply'.recovered => reply'.pos.epoch = req.pos.epoch
         /\ reply'.recovered /\ ~(engine = "redis" /\ MetaMayGoFirst) =>
              \A l \in reply'.publications :
                l.epoch = req.pos.epoch /\ l.offset <= Meant(reply'.pos)
<1>0. EnginePart /\ LogPart /\ Found.epoch \in Nat \ {0} /\ radix \in Radixes
      /\ req.pos \in Position
  BY FoundIs DEF WayPart, TypePart, Request
<1>s. PICK s : /\ s.epoch \in Nat /\ s.offset \in 0..MaxPubs /\ s.pubs \in Seq(Publication)
               /\ reply' = Answer(s)
               /\ s = Found \/ (s.epoch = 0 /\ s.pubs = <<>>)
  BY <1>0, ReadIs
<1>1. /\ reply'.pos.epoch = s.epoch /\ Meant(reply'.pos) = s.offset
      /\ reply'.recovered => req.recover /\ recovered(s)
      /\ \A l \in reply'.publications : \E i \in Asked(s) : l = s.pubs[i]
      /\ Asked(s) \subseteq 1..Len(s.pubs)
  BY <1>s, AnswerIs
<1>2. /\ s.epoch <= Found.epoch /\ (s.epoch = Found.epoch => s.offset <= Found.offset)
      /\ \A l \in log : l.epoch = s.epoch => l.offset <= s.offset
  <2>1. \A l \in log : Placed(l) /\ l.epoch \in Nat
    BY <1>0, LogTypes DEF LogPart
  <2>2. CASE s = Found
    BY <1>0, <1>s, <2>1, <2>2, FoundIs DEF Placed
  <2>3. CASE s.epoch = 0
    BY <1>0, <2>1, <2>3 DEF Placed
  <2>. QED  BY <1>s, <2>2, <2>3
<1>3. reply'.recovered => s.epoch = req.pos.epoch
  BY <1>1 DEF recovered
<1>4. ASSUME reply'.recovered, ~(engine = "redis" /\ MetaMayGoFirst),
             NEW l \in reply'.publications
      PROVE  l.epoch = s.epoch /\ l.offset <= s.offset
  <2>1. PICK i \in Asked(s) : l = s.pubs[i]
    BY <1>1
  <2>2. i \in 1..Len(s.pubs) /\ Len(s.pubs) \in Nat
    BY <1>1, <1>s
  <2>3. s = Found
    BY <1>s, <2>2
  <2>4. EndsAt(s.pubs, s.epoch, s.offset) /\ Len(s.pubs) <= s.offset
    BY <1>0, <1>4, <2>3, FoundIs
  <2>5. s.pubs[i].epoch = s.epoch /\ s.pubs[i].offset + Len(s.pubs) = s.offset + i
    BY <1>s, <2>2, <2>4 DEF EndsAt
  <2>6. s.pubs[i] \in Publication
    BY <1>s, <2>2
  <2>. DEFINE o == s.pubs[i].offset
              n == Len(s.pubs)
              top == s.offset
  <2>7. o \in Nat /\ n \in Nat /\ top \in Nat /\ i \in 1..n /\ o + n = top + i
    BY <1>s, <2>2, <2>5, <2>6 DEF Publication
  <2>8. o <= top
    <3>. HIDE DEF o, n, top
    <3>. QED  BY <2>7
  <2>. QED  BY <2>1, <2>5, <2>8
<1>. QED  BY <1>1, <1>2, <1>3, <1>4

\* An answer that says recovered holds all of the stream from the position on: the first
\* publication after the position is in the ring, and what the ring has of the stream has
\* no holes; where something older lies before it, all of the stream is there.
LEMMA JustRecovered ==
  ASSUME WayPart, TypePart, Read \/ ReadFails
  PROVE  /\ reply'.publications \subseteq log
         /\ reply'.recovered =>
              \A l \in log : /\ l.epoch = req.pos.epoch /\ Meant(req.pos) < l.offset
                             /\ l.offset <= Meant(reply'.pos)
                             => l \in reply'.publications
<1>0. EnginePart /\ LogPart /\ RingPart /\ radix \in Radixes /\ req.pos \in Position
  BY DEF WayPart, TypePart, Request
<1>s. PICK s : /\ s.epoch \in Nat /\ s.offset \in 0..MaxPubs /\ s.pubs \in Seq(Publication)
               /\ reply' = Answer(s)
               /\ s = Found \/ (s.epoch = 0 /\ s.pubs = <<>>)
  BY <1>0, ReadIs
<1>1. /\ reply'.pos.epoch = s.epoch /\ Meant(reply'.pos) = s.offset
      /\ reply'.recovered => req.recover /\ recovered(s)
      /\ \A l \in reply'.publications : \E i \in Asked(s) : l = s.pubs[i]
      /\ req.recover => \A i \in Asked(s) : s.pubs[i] \in reply'.publications
      /\ Asked(s) \subseteq 1..Len(s.pubs)
  BY <1>s, AnswerIs
<1>p. PICK pack : pack = pack_offset(req.pos)
  OBVIOUS
<1>m. PICK meant : meant = Meant(req.pos)
  OBVIOUS
<1>2. pack \in Nat /\ meant \in Nat /\ pack <= meant
  BY <1>0, <1>p, <1>m, Packing
<1>3. CASE s.epoch = 0 /\ s.pubs = <<>>
  <2>1. Asked(s) = {}
    BY <1>1, <1>3
  <2>2. reply'.publications = {}
    BY <1>1, <2>1
  <2>3. ASSUME reply'.recovered, NEW l \in log PROVE l.epoch # req.pos.epoch
    <3>1. req.pos.epoch = 0
      BY <1>1, <1>3, <2>3 DEF recovered
    <3>2. l.epoch # 0
      BY <1>0 DEF LogPart, Placed
    <3>. QED  BY <3>1, <3>2
  <2>. QED  BY <2>2, <2>3
<1>4. CASE s = Found
  <2>1. \A i \in 1..Len(s.pubs) : s.pubs[i] \in log
    BY <1>0, <1>4 DEF RingPart
  <2>2. EndsAt(s.pubs, s.epoch, s.offset)
    BY <1>0, <1>4, FoundIs
  <2>3. ASSUME reply'.recovered, NEW l \in log, l.epoch = req.pos.epoch,
               meant < l.offset, l.offset <= s.offset
        PROVE  l \in reply'.publications
    <3>1. req.recover /\ s.epoch = req.pos.epoch
          /\ IF Asked(s) = {} THEN s.offset + 1 = pack + 1
             ELSE \E i \in Asked(s) : s.pubs[i].offset = pack + 1
      BY <1>1, <1>p, <2>3 DEF recovered
    <3>2. l.offset \in Nat /\ s.offset \in Nat /\ Len(s.pubs) \in Nat
      BY <1>0, <1>s, LogTypes
    <3>3. Asked(s) # {}
      BY <1>2, <2>3, <3>1, <3>2
    <3>4. PICK i \in Asked(s) : s.pubs[i].offset = pack + 1
      BY <3>1, <3>3
    <3>5. i \in 1..Len(s.pubs)
          /\ (Len(s.pubs) < s.offset + i => pack + 1 + Len(s.pubs) = s.offset + i)
      BY <1>1, <2>2, <3>4 DEF EndsAt
    <3>6. PICK j : j = l.offset + Len(s.pubs) - s.offset
      OBVIOUS
    <3>7. j \in 1..Len(s.pubs) /\ Len(s.pubs) < s.offset + j
      <4>. DEFINE o == l.offset
                  n == Len(s.pubs)
                  top == s.offset
      <4>0. o \in Nat /\ n \in Nat /\ top \in Nat /\ pack \in Nat /\ meant \in Nat
        BY <1>2, <3>2
      <4>1. /\ i \in 1..n /\ j = o + n - top
            /\ (n < top + i => pack + 1 + n = top + i)
            /\ pack <= meant /\ meant < o /\ o <= top
        BY <1>2, <2>3, <3>5, <3>6
      <4>2. j \in 1..n /\ n < top + j
        <5>. HIDE DEF o, n, top
        <5>. QED  BY <4>0, <4>1
      <4>. QED  BY <4>2
    <3>8. s.pubs[j].epoch = s.epoch /\ s.pubs[j].offset = l.offset
      <4>1. s.pubs[j].epoch = s.epoch /\ s.pubs[j].offset + Len(s.pubs) = s.offset + j
        BY <2>2, <3>7 DEF EndsAt
      <4>2. s.pubs[j] \in Publication
        BY <1>s, <3>7
      <4>. DEFINE o == s.pubs[j].offset
                  n == Len(s.pubs)
      <4>3. o \in Nat /\ n \in Nat /\ o + n = s.offset + j
        BY <3>2, <4>1, <4>2 DEF Publication
      <4>4. o = l.offset
        <5>. HIDE DEF o
        <5>. QED  BY <3>2, <3>6, <4>3
      <4>. QED  BY <4>1, <4>4
    <3>9. j \in Asked(s)
      <4>1. s.pubs[j].offset > pack
        BY <1>2, <2>3, <3>2, <3>8
      <4>2. ~(s.offset = pack /\ s.epoch = req.pos.epoch)
        BY <1>2, <2>3, <3>2
      <4>. QED  BY <1>p, <3>7, <4>1, <4>2 DEF Asked, Since
    <3>p. PICK k : k = s.pubs[j]
      OBVIOUS
    <3>10. k \in log /\ k.epoch = l.epoch /\ k.offset = l.offset
      BY <2>1, <2>3, <3>1, <3>7, <3>8, <3>p
    <3>11. k = l
      <4>1. Apart(k, l) /\ Apart(l, k) /\ k.id \in Nat /\ l.id \in Nat
        BY <1>0, <3>10, LogTypes DEF LogPart
      <4>. QED  BY <3>2, <3>10, <4>1 DEF Apart
    <3>. QED  BY <1>1, <3>1, <3>9, <3>11, <3>p
  <2>4. reply'.publications \subseteq log
    BY <1>1, <2>1
  <2>. QED  BY <1>1, <1>m, <2>3, <2>4
<1>. QED  BY <1>s, <1>3, <1>4

\* The stream that is found never goes back.
LEMMA FoundMoves ==
  ASSUME EnginePart, EnginePart', Grown \/ Rested
  PROVE  /\ Found.epoch \in Nat \ {0} /\ Found.epoch' \in Nat /\ Found.epoch <= Found.epoch'
         /\ Found.offset \in Nat /\ Found.offset' \in Nat
         /\ Found.epoch' = Found.epoch => Found.offset <= Found.offset'
<1>1. Found.epoch \in Nat \ {0} /\ Found.offset \in Nat
  BY FoundIs
<1>2. Found.epoch' \in Nat
  BY FoundNumberNext DEF FoundNumber
<1>3. CASE Grown
  BY <1>1, <1>2, <1>3 DEF Grown
<1>4. CASE Renewed
  BY <1>1, <1>2, <1>4 DEF Renewed
<1>5. CASE Stayed
  BY <1>1, <1>2, <1>5 DEF Stayed
<1>. QED  BY <1>3, <1>4, <1>5 DEF Rested

\* What becomes of the request and its reply: they stay, or are dropped, or the reply
\* is made.
LEMMA ReplyKinds ==
  ASSUME WayPart, TypePart, ReplyPart, [Next]_vars
  PROVE  /\ WayPart' /\ UNCHANGED <<engine, radix>> /\ (Grown \/ Rested)
         /\ log' = log \/ (Grown /\ log' = log \cup {NewEntry})
         /\ \/ reply' = reply /\ req' = req /\ (pc' = pc \/ (pc = "read" /\ pc' = "on"))
               /\ (hub' => hub)
            \/ reply' = NoReply /\ pc' = "joined" /\ log' = log
            \/ reply' = NoReply /\ pc' = "off" /\ ~hub' /\ log' = log
            \/ (Read \/ ReadFails) /\ req' = req /\ pc' = "read" /\ log' = log
<1>1. /\ WayPart' /\ UNCHANGED <<engine, radix>>
      /\ \/ Published
         \/ Rested /\ \E l : Handed(l)
         \/ Rested /\ Lossy /\ Served
  BY WayStep
<1>2. CASE Published
  BY <1>1, <1>2 DEF Published, connVars
<1>3. ASSUME NEW l, Handed(l)
      PROVE  log' = log /\ reply' = reply /\ req' = req /\ pc' = pc /\ (hub' => hub)
  BY <1>3, HandedIs
<1>4. CASE Rested /\ Lossy /\ Served
  <2>1. log' = log
    BY <1>4 DEF Lossy
  <2>2. CASE Join
    BY <1>1, <1>4, <2>1, <2>2 DEF Join, ReplyPart
  <2>3. CASE Read \/ ReadFails
    BY <1>1, <1>4, <2>1, <2>3 DEF Read, ReadFails
  <2>4. CASE Reply
    BY <1>1, <1>4, <2>1, <2>4 DEF Reply
  <2>5. CASE Disconnect
    BY <1>1, <1>4, <2>1, <2>5 DEF Disconnect
  <2>6. CASE Receive
    BY <1>1, <1>4, <2>1, <2>6 DEF Receive
  <2>7. CASE UNCHANGED <<connVars, clientVars>>
    BY <1>1, <1>4, <2>1, <2>7 DEF connVars
  <2>. QED  BY <1>4, <2>2, <2>3, <2>4, <2>5, <2>6, <2>7 DEF Served
<1>. QED  BY <1>1, <1>2, <1>3, <1>4

NoReplyIs == NoReply.pos.epoch = 0 /\ ~NoReply.recovered /\ NoReply.publications = {}

LEMMA NoReplyShows == NoReplyIs
BY DEF NoReplyIs, NoReply, Start

LEMMA ReplyPartStep ==
  ASSUME WayPart, TypePart, ReplyPart, [Next]_vars
  PROVE  ReplyPart'
<1>1. /\ WayPart' /\ UNCHANGED <<engine, radix>> /\ (Grown \/ Rested)
      /\ \/ reply' = reply /\ (pc' = pc \/ (pc = "read" /\ pc' = "on")) /\ (hub' => hub)
         \/ reply' = NoReply /\ pc' = "joined"
         \/ reply' = NoReply /\ pc' = "off" /\ ~hub'
         \/ (Read \/ ReadFails) /\ pc' = "read"
  BY ReplyKinds
<1>2. /\ Found.epoch \in Nat \ {0} /\ Found.epoch' \in Nat /\ Found.epoch <= Found.epoch'
      /\ Found.offset \in Nat /\ Found.offset' \in Nat
      /\ Found.epoch' = Found.epoch => Found.offset <= Found.offset'
  BY <1>1, FoundMoves DEF WayPart
<1>3. (pc \in {"off", "joined"} => reply = NoReply)' /\ (pc = "off" => ~hub)'
  BY <1>1 DEF ReplyPart
<1>4. Meant(reply.pos)' = Meant(reply'.pos)
  BY <1>1 DEF Meant
<1>t. reply'.pos.epoch \in Nat /\ Meant(reply'.pos) \in Nat
  <2>1. TypePart'
    BY TypeStep
  <2>2. reply' \in Result /\ radix \in Radixes
    BY <1>1, <2>1 DEF TypePart
  <2>3. reply'.pos \in Position
    BY <2>2 DEF Result
  <2>. QED  BY <2>2, <2>3, Packing DEF Position
<1>5. /\ reply'.pos.epoch <= Found.epoch
      /\ reply'.pos.epoch = Found.epoch => Meant(reply'.pos) <= Found.offset
  <2>1. CASE reply' = reply
    BY <2>1 DEF ReplyPart
  <2>2. CASE reply' = NoReply
    BY <1>2, <2>2, NoReplyShows DEF NoReplyIs
  <2>3. CASE Read \/ ReadFails
    BY <2>3, JustRead
  <2>. QED  BY <1>1, <2>1, <2>2, <2>3
<1>6. reply'.pos.epoch <= Found.epoch'
      /\ (reply'.pos.epoch = Found.epoch' => Meant(reply'.pos) <= Found.offset')
  BY <1>2, <1>5, <1>t
<1>. QED  BY <1>3, <1>4, <1>6 DEF ReplyPart

\* A new publication lies past every snapshot of its stream.
LEMMA NewIsPast ==
  ASSUME WayPart, TypePart, ReplyPart
  PROVE  /\ \A e : e = NewEntry => (e.epoch = reply.pos.epoch => e.offset > Meant(reply.pos))
         /\ \A e : e = NewEntry => \A l \in log : /\ l.id < e.id
                                                  /\ l.epoch = e.epoch => l.offset < e.offset
<1>e. PICK e : e = NewEntry
  OBVIOUS
<1>1. e.id = count + 1 /\ e.offset = Found.offset + 1 /\ e.epoch = Found.epoch
  BY <1>e, NewEntryIs DEF WayPart
<1>2. Found.offset \in Nat /\ count \in Nat
  BY FoundIs DEF WayPart
<1>3. Meant(reply.pos) \in Nat
  BY Packing DEF TypePart, Result
<1>4. e.epoch = reply.pos.epoch => e.offset > Meant(reply.pos)
  BY <1>1, <1>2, <1>3 DEF ReplyPart
<1>5. ASSUME NEW l \in log PROVE l.id < e.id /\ (l.epoch = e.epoch => l.offset < e.offset)
  <2>1. Placed(l) /\ l.offset \in Nat
    BY LogTypes DEF WayPart, LogPart
  <2>. QED  BY <1>1, <1>2, <2>1 DEF Placed
<1>. QED  BY <1>e, <1>4, <1>5

\* What was answered stays answered: a later publication lies past the reply.
LEMMA AnsweredStep ==
  ASSUME WayPart, TypePart, ReplyPart, Answered, RecoveredIsFresh, [Next]_vars
  PROVE  Answered' /\ RecoveredIsFresh'
<1>1. /\ UNCHANGED <<engine, radix>>
      /\ log' = log \/ log' = log \cup {NewEntry}
      /\ \/ reply' = reply /\ req' = req
         \/ reply' = NoReply
         \/ (Read \/ ReadFails) /\ req' = req /\ log' = log
  BY ReplyKinds
<1>2. /\ MetaMayGoFirst' <=> MetaMayGoFirst
      /\ Meant(reply.pos)' = Meant(reply'.pos) /\ Meant(req.pos)' = Meant(req'.pos)
  BY <1>1 DEF MetaMayGoFirst, Meant
<1>3. CASE reply' = reply /\ req' = req
  <2>1. RecoveredIsFresh'
    BY <1>1, <1>2, <1>3 DEF RecoveredIsFresh
  <2>2. RecoveredIsComplete' /\ reply'.publications \subseteq log'
    <3>1. RecoveredIsComplete /\ reply.publications \subseteq log
      BY DEF Answered
    <3>2. reply'.publications \subseteq log'
      BY <1>1, <1>3, <3>1
    <3>e. PICK e : e = NewEntry
      OBVIOUS
    <3>3. e.epoch = reply.pos.epoch => e.offset > Meant(reply.pos)
      BY <3>e, NewIsPast
    <3>4. e.offset \in Nat /\ Meant(reply.pos) \in Nat
      BY <3>e, NewEntryIs, Packing DEF WayPart, TypePart, Result, Publication
    <3>5. RecoveredIsComplete'
      BY <1>1, <1>2, <1>3, <3>1, <3>3, <3>4, <3>e DEF RecoveredIsComplete
    <3>. QED  BY <3>2, <3>5
  <2>. QED  BY <1>2, <2>1, <2>2 DEF Answered
<1>4. CASE reply' = NoReply
  BY <1>4, NoReplyShows DEF NoReplyIs, Answered, RecoveredIsComplete, RecoveredIsFresh
<1>5. CASE (Read \/ ReadFails) /\ req' = req /\ log' = log
  <2>1. RecoveredIsFresh'
    BY <1>1, <1>2, <1>5, JustRead DEF RecoveredIsFresh
  <2>2. RecoveredIsComplete' /\ reply'.publications \subseteq log'
    BY <1>1, <1>2, <1>5, JustRead, JustRecovered DEF RecoveredIsComplete
  <2>. QED  BY <1>2, <2>1, <2>2 DEF Answered
<1>. QED  BY <1>1, <1>3, <1>4, <1>5

\* What is still on its way was published after what has been pushed.
OrderPart == ~overtook => \A l \in pushed, k \in log : OnItsWay(k) => l.id < k.id

\* What a step of the subscriber's side does to what was pushed.
LEMMA ServedPushed ==
  ASSUME Served
  PROVE  /\ pushed' = pushed \/ pushed' = {}
         /\ \/ pc' \in {"off", "joined"}
            \/ Read \/ ReadFails
            \/ pc \in {"read", "on"} /\ reply' = reply /\ hub' = hub /\ pushed' = pushed
            \/ pc' = pc /\ reply' = reply /\ hub' = hub /\ pushed' = pushed
<1>1. CASE Join
  BY <1>1 DEF Join
<1>2. CASE Read \/ ReadFails
  BY <1>2 DEF Read, ReadFails
<1>3. CASE Reply
  BY <1>3 DEF Reply
<1>4. CASE Disconnect
  BY <1>4 DEF Disconnect
<1>5. CASE Receive
  BY <1>5 DEF Receive
<1>6. CASE UNCHANGED <<connVars, clientVars>>
  BY <1>6 DEF connVars
<1>. QED  BY <1>1, <1>2, <1>3, <1>4, <1>5, <1>6 DEF Served

LEMMA OrderStep ==
  ASSUME WayPart, TypePart, ReplyPart, OrderPart, [Next]_vars
  PROVE  OrderPart'
<1>0. pushed \subseteq log
  BY DEF TypePart
<1>1. \/ Published
      \/ Rested /\ \E l : Handed(l)
      \/ Rested /\ Lossy /\ Served
  BY WayStep
<1>2. CASE Published
  <2>e. PICK e : e = NewEntry
    OBVIOUS
  <2>1. /\ log' = log \cup {e} /\ overtook' = overtook /\ pushed' = pushed
        /\ \A k \in log : OnItsWay(k)' <=> OnItsWay(k)
    BY <1>2, <2>e DEF Published, connVars
  <2>2. \A l \in log : l.id < e.id
    BY <2>e, NewIsPast
  <2>. QED  BY <1>0, <2>1, <2>2 DEF OrderPart
<1>3. ASSUME NEW n, Handed(n) PROVE OrderPart'
  <2>1. /\ log' = log /\ pushed' \subseteq pushed \cup {n} /\ n \in log
        /\ \A k \in log : OnItsWay(k)' <=> OnItsWay(k) /\ k # n
        /\ ~overtook' => ~overtook /\ \A k \in log : OnItsWay(k) => k = n \/ n.id < k.id
    BY <1>3, HandedIs DEF Handed
  <2>. QED  BY <2>1 DEF OrderPart
<1>4. CASE Lossy /\ Served
  <2>1. log' = log /\ overtook' = overtook /\ \A k \in log : OnItsWay(k)' => OnItsWay(k)
    BY <1>4 DEF Lossy
  <2>2. pushed' \subseteq pushed
    BY <1>4, ServedPushed
  <2>. QED  BY <2>1, <2>2 DEF OrderPart
<1>. QED  BY <1>1, <1>2, <1>3, <1>4

\* On the hub since before the history was read: a publication past the snapshot comes
\* by, unless the connection to Redis loses it.
LEMMA JoinedStep ==
  ASSUME WayPart, TypePart, ReplyPart, JoinedIsComplete, [Next]_vars
  PROVE  JoinedIsComplete'
<1>1. /\ UNCHANGED <<engine, radix>>
      /\ \/ Published
         \/ Rested /\ \E l : Handed(l)
         \/ Rested /\ Lossy /\ Served
  BY WayStep
<1>2. Meant(reply.pos)' = Meant(reply'.pos)
  BY <1>1 DEF Meant
<1>3. CASE Published
  <2>e. PICK e : e = NewEntry
    OBVIOUS
  <2>1. /\ log' = log \cup {e} /\ lost \subseteq lost' /\ (OnItsWay(e)' \/ e \in lost')
        /\ \A k \in log : OnItsWay(k)' <=> OnItsWay(k)
        /\ pc' = pc /\ hub' = hub /\ reply' = reply /\ pushed' = pushed
    BY <1>3, <2>e DEF Published, connVars
  <2>2. Meant(reply.pos)' = Meant(reply.pos)
    BY <1>2, <2>1
  <2>. QED  BY <2>1, <2>2 DEF JoinedIsComplete
<1>4. ASSUME NEW n, Handed(n) PROVE JoinedIsComplete'
  <2>1. /\ log' = log /\ lost' = lost /\ pc' = pc /\ reply' = reply
        /\ \A k \in log : OnItsWay(k)' <=> OnItsWay(k) /\ k # n
        /\ hub' => hub /\ pushed' = pushed \cup {n}
    BY <1>4, HandedIs DEF Handed
  <2>2. Meant(reply.pos)' = Meant(reply.pos)
    BY <1>2, <2>1
  <2>. QED  BY <2>1, <2>2 DEF JoinedIsComplete
<1>5. CASE Lossy /\ Served
  <2>1. /\ log' = log /\ lost \subseteq lost'
        /\ \A k \in log : OnItsWay(k) => OnItsWay(k)' \/ k \in lost'
    BY <1>5 DEF Lossy
  <2>2. CASE pc' \in {"off", "joined"}
    BY <2>2 DEF JoinedIsComplete
  <2>3. CASE Read \/ ReadFails
    <3>1. \A l \in log : l.epoch = reply'.pos.epoch => l.offset <= Meant(reply'.pos)
      BY <2>3, JustRead
    <3>2. \A l \in log : l.offset \in Nat
      BY LogTypes DEF WayPart
    <3>3. Meant(reply'.pos) \in Nat
      <4>1. TypePart' /\ radix' = radix
        BY TypeStep, <1>1
      <4>2. reply' \in Result /\ radix \in Radixes
        BY <4>1 DEF TypePart
      <4>. QED  BY <4>2, Packing DEF Result
    <3>. QED  BY <1>2, <2>1, <3>1, <3>2, <3>3 DEF JoinedIsComplete
  <2>4. CASE /\ reply' = reply /\ hub' = hub /\ pushed' = pushed
             /\ pc \in {"read", "on"} \/ pc' = pc
    <3>1. Meant(reply.pos)' = Meant(reply.pos)
      BY <1>2, <2>4
    <3>. QED  BY <2>1, <2>4, <3>1 DEF JoinedIsComplete
  <2>. QED  BY <1>5, <2>2, <2>3, <2>4, ServedPushed
<1>. QED  BY <1>1, <1>3, <1>4, <1>5

\* A publication handed to the hub was the earliest on its way, so that all of its
\* stream before it was pushed already.
LEMMA PushStep ==
  ASSUME WayPart, TypePart, ReplyPart, JoinedIsComplete, PushPart, [Next]_vars
  PROVE  PushPart'
<1>0. /\ pushed \subseteq log
      /\ \A l \in log : l.id \in Nat /\ l.offset \in Nat
      /\ \A k, l \in log : Apart(k, l)
  BY LogTypes DEF TypePart, WayPart, LogPart
<1>1. /\ UNCHANGED <<engine, radix>>
      /\ \/ Published
         \/ Rested /\ \E l : Handed(l)
         \/ Rested /\ Lossy /\ Served
  BY WayStep
<1>2. Meant(reply.pos)' = Meant(reply'.pos)
  BY <1>1 DEF Meant
<1>3. CASE Published
  <2>e. PICK e : e = NewEntry
    OBVIOUS
  <2>1. /\ log' = log \cup {e} /\ lost \subseteq lost' /\ overtook' = overtook
        /\ pc' = pc /\ reply' = reply /\ pushed' = pushed
    BY <1>3, <2>e DEF Published, connVars
  <2>2. \A k, l : Behind(k, l)' <=> Behind(k, l)
    BY <1>2, <2>1 DEF Behind
  <2>3. ASSUME NEW l \in pushed PROVE ~Behind(e, l)
    <3>1. l.epoch = e.epoch => l.offset < e.offset
      BY <1>0, <2>e, NewIsPast
    <3>2. e.offset \in Nat /\ l.offset \in Nat
      BY <1>0, <2>e, NewEntryIs DEF WayPart, Publication
    <3>. QED  BY <3>1, <3>2 DEF Behind
  <2>. QED  BY <2>1, <2>2, <2>3 DEF PushPart
<1>4. ASSUME NEW n, Handed(n) PROVE PushPart'
  <2>1. /\ log' = log /\ lost' = lost /\ pc' = pc /\ reply' = reply /\ n \in log
        /\ ~overtook' => ~overtook /\ \A k \in log : OnItsWay(k) => k = n \/ n.id < k.id
        /\ (hub /\ pushed' = pushed \cup {n}) \/ pushed' = pushed
    BY <1>4, HandedIs DEF Handed
  <2>2. \A k, l : Behind(k, l)' <=> Behind(k, l)
    BY <1>2, <2>1 DEF Behind
  <2>3. CASE pushed' = pushed
    BY <2>1, <2>2, <2>3 DEF PushPart
  <2>4. CASE hub /\ pushed' = pushed \cup {n}
    <3>1. ASSUME pc \in {"read", "on"}, ~overtook', NEW k \in log, Behind(k, n)
          PROVE  k \in pushed \cup lost
      <4>1. k \in pushed \/ OnItsWay(k) \/ k \in lost
        <5>1. k.offset > Meant(reply.pos) /\ k.epoch = reply.pos.epoch
          BY <1>0, <3>1, Packing DEF Behind, TypePart, Result
        <5>. QED  BY <2>4, <3>1, <5>1 DEF JoinedIsComplete
      <4>2. ~OnItsWay(k)
        <5>1. k.epoch = n.epoch /\ k.offset < n.offset /\ k.id < n.id
          BY <1>0, <2>1, <3>1 DEF Behind, Apart
        <5>2. k # n /\ ~(n.id < k.id)
          BY <1>0, <2>1, <5>1
        <5>. QED  BY <2>1, <3>1, <5>2
      <4>. QED  BY <4>1, <4>2
    <3>. QED  BY <2>1, <2>2, <2>4, <3>1 DEF PushPart
  <2>. QED  BY <2>1, <2>3, <2>4
<1>5. CASE Lossy /\ Served
  <2>1. log' = log /\ lost \subseteq lost' /\ overtook' = overtook
    BY <1>5 DEF Lossy
  <2>2. CASE pc' \in {"off", "joined"}
    BY <2>2 DEF PushPart
  <2>3. CASE Read \/ ReadFails
    <3>1. \A l \in log : l.epoch = reply'.pos.epoch => l.offset <= Meant(reply'.pos)
      BY <2>3, JustRead
    <3>2. Meant(reply'.pos) \in Nat
      <4>1. TypePart' /\ radix' = radix
        BY TypeStep, <1>1
      <4>2. reply' \in Result /\ radix \in Radixes
        BY <4>1 DEF TypePart
      <4>. QED  BY <4>2, Packing DEF Result
    <3>3. \A k \in log : \A l : ~Behind(k, l)'
      BY <1>0, <1>2, <3>1, <3>2 DEF Behind
    <3>. QED  BY <2>1, <3>3 DEF PushPart
  <2>4. CASE reply' = reply /\ pushed' = pushed /\ (pc \in {"read", "on"} \/ pc' = pc)
    <3>1. \A k, l : Behind(k, l)' <=> Behind(k, l)
      BY <1>2, <2>4 DEF Behind
    <3>. QED  BY <2>1, <2>4, <3>1 DEF PushPart
  <2>. QED  BY <1>5, <2>2, <2>3, <2>4, ServedPushed
<1>. QED  BY <1>1, <1>3, <1>4, <1>5

-----------------------------------------------------------------------------
(* The queue and the client.                                               *)

IsPush(x) == "push" \in DOMAIN x

\* Pushes carry what was pushed; a reply that is not pushed is the one just made.
ItemsAre ==
  \A i \in 1..Len(queue) :
    IF IsPush(queue[i]) THEN queue[i].push \in pushed
    ELSE queue[i].reply = reply /\ pc = "on" /\ ~told

OneReply == \A i, j \in 1..Len(queue) : ~IsPush(queue[i]) /\ ~IsPush(queue[j]) => i = j

InOrder ==
  ~overtook =>
    \A i, j \in 1..Len(queue) :
      IsPush(queue[i]) /\ IsPush(queue[j]) /\ i < j => queue[i].push.id < queue[j].push.id

NoneDropped ==
  \A l \in pushed :
    l \in got \/ \E i \in 1..Len(queue) : IsPush(queue[i]) /\ queue[i].push = l

QueuePart == (told => pc = "on") /\ ItemsAre /\ OneReply /\ InOrder /\ NoneDropped

\* The two kinds of item.
LEMMA ItemKinds ==
  /\ \A l : IsPush([push |-> l]) /\ [push |-> l].push = l
  /\ \A r : ~IsPush([reply |-> r]) /\ [reply |-> r].reply = r
BY DEF IsPush

\* The client takes the first item.
LEMMA ReceiveIs ==
  ASSUME TypePart, Receive
  PROVE  /\ Len(queue) \in Nat /\ 1 \in 1..Len(queue) /\ Len(queue') = Len(queue) - 1
         /\ \A i \in 1..(Len(queue) - 1) : queue'[i] = queue[i + 1]
         /\ UNCHANGED <<hub, pc, req, reply, pushed, radix, log, overtook, lost>>
         /\ \/ /\ IsPush(queue[1]) /\ queue[1].push \in Publication
               /\ got' = got \cup {queue[1].push}
               /\ pos' = IF told THEN encode_position(pos.epoch, queue[1].push.offset) ELSE pos
               /\ told' = told /\ base' = base
            \/ /\ ~IsPush(queue[1]) /\ queue[1].reply \in Result
               /\ told' = TRUE /\ got' = got \cup queue[1].reply.publications
               /\ pos' = queue[1].reply.pos
               /\ base' = IF queue[1].reply.recovered THEN base ELSE queue[1].reply.pos
<1>1. queue \in Seq(Item) /\ queue # <<>> /\ queue' = Tail(queue)
  BY DEF TypePart, Receive
<1>2. Len(queue) \in Nat /\ 1 \in 1..Len(queue) /\ Len(queue') = Len(queue) - 1
      /\ \A i \in 1..(Len(queue) - 1) : queue'[i] = queue[i + 1]
  BY <1>1
<1>i. PICK item : item = queue[1]
  OBVIOUS
<1>3. item = Head(queue) /\ item \in Item
  BY <1>i, <1>1, <1>2
<1>4. UNCHANGED <<hub, pc, req, reply, pushed, radix, log, overtook, lost>>
  BY DEF Receive, routeVars
<1>5. CASE IsPush(item)
  <2>1. item \in [push : Publication]
    BY <1>3, <1>5 DEF Item, IsPush
  <2>2. item.push \in Publication
    BY <2>1
  <2>3. /\ got' = got \cup {item.push}
        /\ pos' = IF told THEN encode_position(pos.epoch, item.push.offset) ELSE pos
        /\ told' = told /\ base' = base
    BY <1>3, <1>5 DEF Receive, IsPush
  <2>. QED  BY <1>i, <1>2, <1>4, <1>5, <2>2, <2>3
<1>6. CASE ~IsPush(item)
  <2>1. item \in [reply : Result]
    BY <1>3, <1>6 DEF Item, IsPush
  <2>2. item.reply \in Result
    BY <2>1
  <2>3. /\ told' = TRUE /\ got' = got \cup item.reply.publications
        /\ pos' = item.reply.pos
        /\ base' = IF item.reply.recovered THEN base ELSE item.reply.pos
    BY <1>3, <1>6 DEF Receive, IsPush
  <2>. QED  BY <1>i, <1>2, <1>4, <1>6, <2>2, <2>3
<1>. QED  BY <1>5, <1>6

\* What is enqueued comes last, and the rest stays in its place.
LEMMA Enqueued ==
  ASSUME NEW x, queue \in Seq(Item), queue' = Append(queue, x)
  PROVE  /\ Len(queue) \in Nat /\ Len(queue') = Len(queue) + 1
         /\ queue'[Len(queue) + 1] = x
         /\ \A i \in 1..Len(queue) : queue'[i] = queue[i]
         /\ \A i \in 1..Len(queue') : i \in 1..Len(queue) \/ i = Len(queue) + 1
<1>1. Len(queue) \in Nat /\ Len(queue') = Len(queue) + 1 /\ queue'[Len(queue) + 1] = x
      /\ \A i \in 1..Len(queue) : queue'[i] = queue[i]
  OBVIOUS
<1>. QED  BY <1>1

LEMMA QueueHanded ==
  ASSUME WayPart, TypePart, OrderPart, QueuePart, NEW n, Handed(n)
  PROVE  QueuePart'
<1>1. /\ \/ /\ queue' = Append(queue, [push |-> n]) /\ pushed' = pushed \cup {n}
         \/ queue' = queue /\ pushed' = pushed
      /\ log' = log /\ pc' = pc /\ reply' = reply /\ told' = told /\ got' = got
      /\ n \in log /\ OnItsWay(n) /\ (~overtook' => ~overtook)
  BY HandedIs DEF Handed
<1>2. CASE queue' = queue /\ pushed' = pushed
  BY <1>1, <1>2 DEF QueuePart, ItemsAre, OneReply, InOrder, NoneDropped
<1>3. CASE queue' = Append(queue, [push |-> n]) /\ pushed' = pushed \cup {n}
  <2>x. PICK x : x = [push |-> n]
    OBVIOUS
  <2>1. IsPush(x) /\ x.push = n
    BY <2>x, ItemKinds
  <2>2. /\ Len(queue) \in Nat /\ Len(queue') = Len(queue) + 1 /\ queue'[Len(queue) + 1] = x
        /\ \A i \in 1..Len(queue) : queue'[i] = queue[i]
        /\ \A i \in 1..Len(queue') : i \in 1..Len(queue) \/ i = Len(queue) + 1
    BY <1>3, <2>x, Enqueued DEF TypePart
  <2>3. Len(queue) + 1 \in 1..Len(queue') /\ \A i \in 1..Len(queue) : i \in 1..Len(queue')
    BY <2>2
  <2>4. ItemsAre'
    BY <1>1, <1>3, <2>1, <2>2 DEF QueuePart, ItemsAre
  <2>5. OneReply'
    BY <2>1, <2>2 DEF QueuePart, OneReply
  <2>6. InOrder'
    <3>1. ASSUME ~overtook', NEW i \in 1..Len(queue'), NEW j \in 1..Len(queue'),
                 IsPush(queue'[i]), IsPush(queue'[j]), i < j
          PROVE  queue'[i].push.id < queue'[j].push.id
      <4>1. i \in 1..Len(queue) /\ queue'[i] = queue[i] /\ queue[i].push \in pushed
        BY <2>2, <3>1 DEF QueuePart, ItemsAre
      <4>2. CASE j \in 1..Len(queue)
        BY <1>1, <2>2, <3>1, <4>1, <4>2 DEF QueuePart, InOrder
      <4>3. CASE j = Len(queue) + 1
        BY <1>1, <2>1, <2>2, <3>1, <4>1, <4>3 DEF OrderPart
      <4>. QED  BY <2>2, <4>2, <4>3
    <3>. QED  BY <3>1 DEF InOrder
  <2>7. NoneDropped'
    BY <1>1, <1>3, <2>1, <2>2, <2>3 DEF QueuePart, NoneDropped
  <2>. QED  BY <1>1, <2>4, <2>5, <2>6, <2>7 DEF QueuePart
<1>. QED  BY <1>1, <1>2, <1>3

LEMMA QueueReply ==
  ASSUME TypePart, QueuePart, Reply, overtook' = overtook
  PROVE  QueuePart'
<1>1. /\ pc = "read" /\ pc' = "on" /\ queue' = Append(queue, [reply |-> reply])
      /\ reply' = reply /\ pushed' = pushed /\ told' = told /\ got' = got
  BY DEF Reply, clientVars
<1>x. PICK x : x = [reply |-> reply]
  OBVIOUS
<1>2. ~IsPush(x) /\ x.reply = reply
  BY <1>x, ItemKinds
<1>3. /\ Len(queue) \in Nat /\ Len(queue') = Len(queue) + 1 /\ queue'[Len(queue) + 1] = x
      /\ \A i \in 1..Len(queue) : queue'[i] = queue[i]
      /\ \A i \in 1..Len(queue') : i \in 1..Len(queue) \/ i = Len(queue) + 1
  BY <1>1, <1>x, Enqueued DEF TypePart
<1>4. ~told /\ \A i \in 1..Len(queue) : IsPush(queue[i])
  BY <1>1 DEF QueuePart, ItemsAre
<1>5. \A i \in 1..Len(queue) : i \in 1..Len(queue')
  BY <1>3
<1>6. ItemsAre'
  BY <1>1, <1>2, <1>3, <1>4 DEF QueuePart, ItemsAre
<1>7. OneReply'
  BY <1>3, <1>4 DEF OneReply
<1>8. InOrder'
  BY <1>2, <1>3 DEF QueuePart, InOrder
<1>9. NoneDropped'
  BY <1>1, <1>3, <1>5 DEF QueuePart, NoneDropped
<1>. QED  BY <1>1, <1>6, <1>7, <1>8, <1>9 DEF QueuePart

LEMMA QueueReceived ==
  ASSUME TypePart, QueuePart, Receive
  PROVE  QueuePart'
<1>1. /\ Len(queue) \in Nat /\ 1 \in 1..Len(queue) /\ Len(queue') = Len(queue) - 1
      /\ \A i \in 1..(Len(queue) - 1) : queue'[i] = queue[i + 1]
      /\ UNCHANGED <<hub, pc, req, reply, pushed, radix, log, overtook, lost>>
      /\ \/ IsPush(queue[1]) /\ got' = got \cup {queue[1].push} /\ told' = told
         \/ ~IsPush(queue[1]) /\ told' = TRUE /\ got' = got \cup queue[1].reply.publications
  BY ReceiveIs
<1>2. \A i \in 1..Len(queue') : /\ i + 1 \in 1..Len(queue) /\ queue'[i] = queue[i + 1]
                                /\ i + 1 # 1
  BY <1>1
<1>3. InOrder'
  <2>1. ASSUME ~overtook', NEW i \in 1..Len(queue'), NEW j \in 1..Len(queue'),
               IsPush(queue'[i]), IsPush(queue'[j]), i < j
        PROVE  queue'[i].push.id < queue'[j].push.id
    <3>1. i + 1 < j + 1
      BY <1>1, <2>1
    <3>. QED  BY <1>1, <1>2, <2>1, <3>1 DEF QueuePart, InOrder
  <2>. QED  BY <2>1 DEF InOrder
<1>4. OneReply'
  <2>1. ASSUME NEW i \in 1..Len(queue'), NEW j \in 1..Len(queue'),
               ~IsPush(queue'[i]), ~IsPush(queue'[j])
        PROVE  i = j
    <3>1. i + 1 = j + 1
      BY <1>2, <2>1 DEF QueuePart, OneReply
    <3>. QED  BY <1>1, <3>1
  <2>. QED  BY <2>1 DEF OneReply
<1>5. ItemsAre'
  <2>1. CASE IsPush(queue[1]) /\ told' = told
    BY <1>1, <1>2, <2>1 DEF QueuePart, ItemsAre
  <2>2. CASE ~IsPush(queue[1])
    <3>1. \A i \in 1..Len(queue') : IsPush(queue'[i])
      BY <1>1, <1>2, <2>2 DEF QueuePart, OneReply
    <3>. QED  BY <1>1, <1>2, <3>1 DEF QueuePart, ItemsAre
  <2>. QED  BY <1>1, <2>1, <2>2
<1>6. NoneDropped'
  <2>1. ASSUME NEW l \in pushed, l \notin got'
        PROVE  \E i \in 1..Len(queue') : IsPush(queue'[i]) /\ queue'[i].push = l
    <3>1. l \notin got
      BY <1>1, <2>1
    <3>2. PICK i \in 1..Len(queue) : IsPush(queue[i]) /\ queue[i].push = l
      BY <3>1 DEF QueuePart, NoneDropped
    <3>3. i # 1
      BY <1>1, <2>1, <3>2
    <3>4. i - 1 \in 1..Len(queue') /\ queue'[i - 1] = queue[(i - 1) + 1] /\ (i - 1) + 1 = i
      BY <1>1, <3>3
    <3>. QED  BY <3>2, <3>4
  <2>. QED  BY <1>1, <2>1 DEF NoneDropped
<1>7. (told => pc = "on")'
  BY <1>1 DEF QueuePart, ItemsAre
<1>. QED  BY <1>3, <1>4, <1>5, <1>6, <1>7 DEF QueuePart

LEMMA QueueStep ==
  ASSUME WayPart, TypePart, ReplyPart, OrderPart, QueuePart, [Next]_vars
  PROVE  QueuePart'
<1>1. \/ Published
      \/ Rested /\ \E l : Handed(l)
      \/ Rested /\ Lossy /\ Served
  BY WayStep
<1>a. ASSUME UNCHANGED <<queue, pushed, reply, told, got, overtook>>,
             pc' = pc \/ pc = "joined" \/ pc = "off"
      PROVE  QueuePart'
  BY <1>a DEF QueuePart, ItemsAre, OneReply, InOrder, NoneDropped
<1>2. CASE Published
  BY <1>2, <1>a DEF Published, connVars, clientVars
<1>3. ASSUME NEW l, Handed(l) PROVE QueuePart'
  BY <1>3, QueueHanded
<1>4. CASE Lossy /\ Served
  <2>0. overtook' = overtook
    BY <1>4 DEF Lossy
  <2>1. CASE Join
    BY <1>a, <2>0, <2>1 DEF Join, clientVars
  <2>2. CASE Read \/ ReadFails
    <3>1. /\ pc = "joined" /\ UNCHANGED <<queue, pushed, told, got>>
      BY <2>2 DEF Read, ReadFails, clientVars
    <3>2. ~told /\ \A i \in 1..Len(queue) : IsPush(queue[i])
      BY <3>1 DEF QueuePart, ItemsAre
    <3>. QED  BY <2>0, <3>1, <3>2 DEF QueuePart, ItemsAre, OneReply, InOrder, NoneDropped
  <2>3. CASE Reply
    BY <2>0, <2>3, QueueReply
  <2>4. CASE Disconnect
    <3>1. queue' = <<>> /\ pushed' = {} /\ told' = FALSE /\ Len(queue') = 0
      BY <2>4 DEF Disconnect
    <3>. QED  BY <3>1 DEF QueuePart, ItemsAre, OneReply, InOrder, NoneDropped
  <2>5. CASE Receive
    BY <2>5, QueueReceived
  <2>6. CASE UNCHANGED <<connVars, clientVars>>
    BY <1>a, <2>0, <2>6 DEF connVars, clientVars
  <2>. QED  BY <1>4, <2>1, <2>2, <2>3, <2>4, <2>5, <2>6 DEF Served
<1>. QED  BY <1>1, <1>2, <1>3, <1>4

\* The log is of one stream, and nothing was routed out of order.
OneStream == \A k, l \in log : k.epoch = l.epoch
Quiet == ~overtook /\ OneStream

\* The client asks with what it has; its position is in no stream that is yet to come,
\* nor beyond the top of its own.
ClientPart ==
  /\ pc # "off" /\ ~told => req.pos = pos /\ req.recover = (base # Nobody)
  /\ told => pos.epoch = reply.pos.epoch
  /\ pos.epoch <= Found.epoch
  /\ pos.epoch = Found.epoch /\ (\A l \in log : l.epoch = pos.epoch) =>
       Meant(pos) <= Found.offset
  /\ got \subseteq log

\* The client moves only as it takes an item from its queue.
LEMMA ClientMoves ==
  ASSUME WayPart, TypePart, QueuePart, [Next]_vars
  PROVE  /\ WayPart' /\ UNCHANGED <<engine, radix>> /\ (Grown \/ Rested)
         /\ log' = log \/ log' = log \cup {NewEntry}
         /\ \/ Receive /\ log' = log
            \/ /\ UNCHANGED <<base, pos, got>>
               /\ \/ told' = FALSE /\ pc' = "off"
                  \/ told' = FALSE /\ pc = "off" /\ req' = [recover |-> base # Nobody, pos |-> pos]
                  \/ told' = told /\ req' = req /\ (pc = "off" => pc' = "off")
                     /\ (told => reply' = reply)
<1>1. /\ WayPart' /\ UNCHANGED <<engine, radix>>
      /\ \/ Published
         \/ Rested /\ \E l : Handed(l)
         \/ Rested /\ Lossy /\ Served
  BY WayStep
<1>2. CASE Published
  BY <1>1, <1>2 DEF Published, connVars, clientVars
<1>3. ASSUME Rested, NEW l, Handed(l)
      PROVE  /\ log' = log /\ UNCHANGED <<base, pos, got>>
             /\ told' = told /\ req' = req /\ reply' = reply /\ pc' = pc
  BY <1>3, HandedIs
<1>4. CASE Rested /\ Lossy /\ Served
  <2>1. log' = log /\ (told => pc = "on")
    BY <1>4 DEF Lossy, QueuePart
  <2>2. CASE Join
    <3>1. pc = "off" /\ UNCHANGED clientVars /\ req' = [recover |-> base # Nobody, pos |-> pos]
      BY <2>2 DEF Join
    <3>2. told' = FALSE
      BY <2>1, <3>1 DEF clientVars, TypePart
    <3>. QED  BY <1>1, <1>4, <2>1, <3>1, <3>2 DEF clientVars
  <2>3. CASE Read \/ ReadFails
    <3>1. pc = "joined" /\ pc' = "read" /\ UNCHANGED clientVars /\ req' = req
      BY <2>3 DEF Read, ReadFails
    <3>. QED  BY <1>1, <1>4, <2>1, <3>1 DEF clientVars
  <2>4. CASE Reply
    <3>1. pc = "read" /\ pc' = "on" /\ UNCHANGED clientVars /\ req' = req
      BY <2>4 DEF Reply
    <3>. QED  BY <1>1, <1>4, <2>1, <3>1 DEF clientVars
  <2>5. CASE Disconnect
    BY <1>1, <1>4, <2>1, <2>5 DEF Disconnect
  <2>6. CASE Receive
    BY <1>1, <1>4, <2>1, <2>6
  <2>7. CASE UNCHANGED <<connVars, clientVars>>
    BY <1>1, <1>4, <2>1, <2>7 DEF connVars, clientVars
  <2>. QED  BY <1>4, <2>2, <2>3, <2>4, <2>5, <2>6, <2>7 DEF Served
<1>. QED  BY <1>1, <1>2, <1>3, <1>4

\* An item the client takes: a push of its stream moves it, the reply sets it.
LEMMA ReceiveMoves ==
  ASSUME WayPart, TypePart, QueuePart, Receive
  PROVE  /\ \/ /\ \E l \in pushed : /\ IsPush(queue[1]) /\ queue[1].push = l
                                    /\ l \in log /\ got' = got \cup {l}
                                    /\ \/ ~told /\ pos' = pos
                                       \/ told /\ pos'.epoch = pos.epoch
                                          /\ Meant(pos)' = l.offset
               /\ told' = told /\ base' = base
            \/ /\ ~told /\ told' = TRUE /\ pc = "on"
               /\ got' = got \cup reply.publications /\ pos' = reply.pos
               /\ base' = IF reply.recovered THEN base ELSE reply.pos
         /\ UNCHANGED <<pc, req, reply, radix, log, overtook, lost>>
<1>1. /\ 1 \in 1..Len(queue)
      /\ UNCHANGED <<pc, req, reply, radix, log, overtook, lost>>
      /\ \/ /\ IsPush(queue[1]) /\ got' = got \cup {queue[1].push}
            /\ pos' = IF told THEN encode_position(pos.epoch, queue[1].push.offset) ELSE pos
            /\ told' = told /\ base' = base
         \/ /\ ~IsPush(queue[1])
            /\ told' = TRUE /\ got' = got \cup queue[1].reply.publications
            /\ pos' = queue[1].reply.pos
            /\ base' = IF queue[1].reply.recovered THEN base ELSE queue[1].reply.pos
  BY ReceiveIs
<1>2. CASE IsPush(queue[1])
  <2>l. PICK l : l = queue[1].push
    OBVIOUS
  <2>1. l \in pushed /\ l \in log
    BY <1>1, <1>2, <2>l DEF QueuePart, ItemsAre, TypePart
  <2>2. l.offset \in 0..MaxPubs
    <3>1. l.offset \in 1..count /\ count \in Nat /\ count <= MaxPubs /\ MaxPubs \in Nat
      BY <2>1, FoundIs, StreamAssumption DEF WayPart, LogPart, Placed, EnginePart
    <3>. QED  BY <3>1
  <2>3. pos.epoch \in Nat /\ radix \in Radixes /\ told \in BOOLEAN
    BY DEF TypePart, Position
  <2>4. CASE told
    <3>p. PICK q : q = encode_position(pos.epoch, l.offset)
      OBVIOUS
    <3>1. q.epoch = pos.epoch /\ Meant(q) = l.offset
      BY <2>2, <2>3, <3>p, Unpacking
    <3>2. pos' = q
      BY <1>1, <1>2, <2>l, <2>4, <3>p
    <3>3. Meant(pos)' = Meant(q)
      BY <1>1, <3>2 DEF Meant
    <3>. QED  BY <1>1, <1>2, <2>l, <2>1, <2>4, <3>1, <3>2, <3>3
  <2>. QED  BY <1>1, <1>2, <2>l, <2>1, <2>3, <2>4
<1>3. CASE ~IsPush(queue[1])
  BY <1>1, <1>3 DEF QueuePart, ItemsAre
<1>. QED  BY <1>1, <1>2, <1>3

LEMMA ClientStep ==
  ASSUME WayPart, TypePart, ReplyPart, Answered, QueuePart, ClientPart, [Next]_vars
  PROVE  ClientPart'
<1>1. /\ WayPart' /\ UNCHANGED <<engine, radix>> /\ (Grown \/ Rested)
      /\ log' = log \/ log' = log \cup {NewEntry}
      /\ \/ Receive /\ log' = log
         \/ /\ UNCHANGED <<base, pos, got>>
            /\ \/ told' = FALSE /\ pc' = "off"
               \/ told' = FALSE /\ pc = "off" /\ req' = [recover |-> base # Nobody, pos |-> pos]
               \/ told' = told /\ req' = req /\ (pc = "off" => pc' = "off")
                  /\ (told => reply' = reply)
  BY ClientMoves
<1>2. /\ Found.epoch \in Nat \ {0} /\ Found.epoch' \in Nat /\ Found.epoch <= Found.epoch'
      /\ Found.offset \in Nat /\ Found.offset' \in Nat
      /\ Found.epoch' = Found.epoch => Found.offset <= Found.offset'
  BY <1>1, FoundMoves DEF WayPart
<1>3. log \subseteq log'
  BY <1>1
<1>4. CASE Receive /\ log' = log
  <2>1. /\ \/ /\ \E l \in pushed : /\ IsPush(queue[1]) /\ queue[1].push = l
                                   /\ l \in log /\ got' = got \cup {l}
                                   /\ \/ ~told /\ pos' = pos
                                      \/ told /\ pos'.epoch = pos.epoch
                                         /\ Meant(pos)' = l.offset
              /\ told' = told /\ base' = base
           \/ /\ ~told /\ told' = TRUE /\ pc = "on"
              /\ got' = got \cup reply.publications /\ pos' = reply.pos
              /\ base' = IF reply.recovered THEN base ELSE reply.pos
        /\ UNCHANGED <<pc, req, reply, radix, log, overtook, lost>>
    BY <1>4, ReceiveMoves
  <2>2. CASE told'
    <3>1. pos'.epoch = reply'.pos.epoch
      BY <2>1, <2>2 DEF ClientPart
    <3>2. pos'.epoch <= Found.epoch'
      <4>1. reply.pos.epoch <= Found.epoch /\ reply.pos.epoch \in Nat
        BY DEF ReplyPart, TypePart, Result, Position
      <4>. QED  BY <1>2, <2>1, <3>1, <4>1
    <3>3. ASSUME pos'.epoch = Found.epoch', \A l \in log' : l.epoch = pos'.epoch
          PROVE  Meant(pos)' <= Found.offset'
      <4>0. pos'.epoch = Found.epoch /\ Found.offset <= Found.offset'
        <5>1. reply.pos.epoch <= Found.epoch /\ reply.pos.epoch \in Nat
          BY DEF ReplyPart, TypePart, Result, Position
        <5>. QED  BY <1>2, <2>1, <3>1, <3>3, <5>1
      <4>1. CASE told
        <5>1. PICK l \in log : Meant(pos)' = l.offset
          BY <2>1, <4>1
        <5>2. Placed(l) /\ l.offset \in Nat /\ l.epoch = Found.epoch
          BY <1>4, <3>3, <4>0, LogTypes DEF WayPart, LogPart
        <5>. QED  BY <1>2, <4>0, <5>1, <5>2 DEF Placed
      <4>2. CASE ~told
        <5>1. pos' = reply.pos /\ radix' = radix
          BY <2>1, <2>2, <4>2
        <5>2. Meant(pos)' = Meant(reply.pos)
          BY <5>1 DEF Meant
        <5>3. Meant(reply.pos) <= Found.offset /\ Meant(reply.pos) \in Nat
          BY <4>0, <5>1, Packing DEF ReplyPart, TypePart, Result
        <5>. QED  BY <1>2, <4>0, <5>2, <5>3
      <4>. QED  BY <4>1, <4>2
    <3>4. got' \subseteq log'
      BY <1>3, <2>1 DEF ClientPart, Answered
    <3>. QED  BY <2>2, <3>1, <3>2, <3>3, <3>4 DEF ClientPart
  <2>3. CASE ~told'
    <3>1. ~told /\ pos' = pos /\ base' = base /\ UNCHANGED <<pc, req, log, radix>>
          /\ \E l \in log : got' = got \cup {l}
      BY <2>1, <2>3
    <3>2. Meant(pos)' = Meant(pos)
      BY <3>1 DEF Meant
    <3>3. pos.epoch \in Nat /\ Meant(pos) \in Nat
      BY Packing DEF TypePart, Position
    <3>. QED  BY <1>2, <1>3, <2>3, <3>1, <3>2, <3>3 DEF ClientPart
  <2>. QED  BY <2>2, <2>3
<1>5. CASE /\ UNCHANGED <<base, pos, got>>
           /\ \/ told' = FALSE /\ pc' = "off"
              \/ told' = FALSE /\ pc = "off" /\ req' = [recover |-> base # Nobody, pos |-> pos]
              \/ told' = told /\ req' = req /\ (pc = "off" => pc' = "off")
                 /\ (told => reply' = reply)
  <2>1. Meant(pos)' = Meant(pos)
    BY <1>1, <1>5 DEF Meant
  <2>2. pos.epoch \in Nat /\ Meant(pos) \in Nat
    BY Packing DEF TypePart, Position
  <2>3. (pc # "off" /\ ~told => req.pos = pos /\ req.recover = (base # Nobody))'
    <3>1. CASE told' = FALSE /\ pc = "off" /\ req' = [recover |-> base # Nobody, pos |-> pos]
      BY <1>5, <3>1
    <3>2. CASE told' = FALSE /\ pc' = "off"
      BY <3>2
    <3>3. CASE told' = told /\ req' = req /\ (pc = "off" => pc' = "off")
      BY <1>5, <3>3 DEF ClientPart
    <3>. QED  BY <1>5, <3>1, <3>2, <3>3
  <2>4. (told => pos.epoch = reply.pos.epoch)'
    BY <1>5 DEF ClientPart
  <2>5. pos'.epoch <= Found.epoch'
    BY <1>2, <1>5, <2>2 DEF ClientPart
  <2>6. ASSUME pos'.epoch = Found.epoch', \A l \in log' : l.epoch = pos'.epoch
        PROVE  Meant(pos)' <= Found.offset'
    <3>1. pos.epoch = Found.epoch /\ \A l \in log : l.epoch = pos.epoch
      BY <1>2, <1>3, <1>5, <2>2, <2>6 DEF ClientPart
    <3>2. Meant(pos) <= Found.offset /\ Found.offset <= Found.offset'
      BY <1>2, <1>5, <2>6, <3>1 DEF ClientPart
    <3>. QED  BY <1>2, <2>1, <2>2, <3>2
  <2>7. got' \subseteq log'
    BY <1>3, <1>5 DEF ClientPart
  <2>. QED  BY <2>3, <2>4, <2>5, <2>6, <2>7 DEF ClientPart
<1>. QED  BY <1>1, <1>4, <1>5

\* Up to its reply the client has what it asked for, whatever its position is now:
\* a push that was enqueued before the reply moves it back.
KnownUp ==
  told /\ Quiet /\ base # Nobody =>
    \A l \in log : l.epoch = base.epoch /\ base.epoch = pos.epoch
                   /\ Meant(base) < l.offset /\ l.offset <= Meant(reply.pos) => l \in got \cup lost

GapPart == NoGap /\ KnownUp

\* What was routed out of order or appended to another stream stays so.
LEMMA QuietBefore ==
  ASSUME WayPart, TypePart, [Next]_vars
  PROVE  (Quiet' => Quiet) /\ lost \subseteq lost'
<1>1. \/ Published
      \/ Rested /\ \E l : Handed(l)
      \/ Rested /\ Lossy /\ Served
  BY WayStep
<1>2. /\ log \subseteq log' /\ lost \subseteq lost' /\ (~overtook' => ~overtook)
  <2>1. CASE Published
    BY <2>1 DEF Published
  <2>2. ASSUME NEW l, Handed(l) PROVE log' = log /\ lost' = lost /\ (~overtook' => ~overtook)
    BY <2>2 DEF Handed
  <2>3. CASE Lossy
    BY <2>3 DEF Lossy
  <2>. QED  BY <1>1, <2>1, <2>2, <2>3
<1>. QED  BY <1>2 DEF Quiet, OneStream

\* A step that does not move the client: what is new lies past where it is.
LEMMA GapRests ==
  ASSUME WayPart, TypePart, ReplyPart, QueuePart, ClientPart, NoGap, KnownUp, [Next]_vars,
         UNCHANGED <<base, pos, got, radix>>, log' = log \/ log' = log \cup {NewEntry},
         told' => told /\ reply' = reply
  PROVE  NoGap' /\ KnownUp'
<1>0. (Quiet' => Quiet) /\ lost \subseteq lost'
  BY QuietBefore
<1>1. Meant(base)' = Meant(base) /\ Meant(pos)' = Meant(pos)
  BY DEF Meant
<1>2. told' => Meant(reply.pos)' = Meant(reply.pos)
  BY DEF Meant
<1>e. PICK e : e = NewEntry
  OBVIOUS
<1>3. e.epoch = Found.epoch /\ e.offset = Found.offset + 1 /\ Found.offset \in Nat
  BY <1>e, NewEntryIs, FoundIs DEF WayPart
<1>4. Meant(pos) \in Nat /\ Meant(reply.pos) \in Nat
  BY Packing DEF TypePart, Result
<1>5. NoGap'
  <2>1. ASSUME Quiet', base' # Nobody, NEW l \in log',
               l.epoch = base'.epoch, base'.epoch = pos'.epoch,
               Meant(base)' < l.offset, l.offset <= Meant(pos)'
        PROVE  l \in got' \cup lost'
    <3>1. CASE l \in log
      BY <1>0, <1>1, <2>1, <3>1 DEF NoGap, Quiet, OneStream
    <3>2. CASE l \notin log
      <4>1. l = e /\ log' = log \cup {e}
        BY <1>e, <2>1, <3>2
      <4>2. pos.epoch = Found.epoch /\ \A k \in log : k.epoch = pos.epoch
        BY <1>3, <2>1, <4>1 DEF Quiet, OneStream
      <4>3. Meant(pos) <= Found.offset
        BY <4>2 DEF ClientPart
      <4>. QED  BY <1>1, <1>3, <1>4, <2>1, <4>1, <4>3
    <3>. QED  BY <3>1, <3>2
  <2>. QED  BY <2>1 DEF NoGap, Quiet, OneStream
<1>6. KnownUp'
  <2>1. ASSUME told', Quiet', base' # Nobody, NEW l \in log',
               l.epoch = base'.epoch, base'.epoch = pos'.epoch,
               Meant(base)' < l.offset, l.offset <= Meant(reply.pos)'
        PROVE  l \in got' \cup lost'
    <3>1. CASE l \in log
      BY <1>0, <1>1, <1>2, <2>1, <3>1 DEF KnownUp
    <3>2. CASE l \notin log
      <4>1. l = e
        BY <1>e, <2>1, <3>2
      <4>2. e.epoch = reply.pos.epoch
        BY <2>1, <4>1 DEF ClientPart
      <4>3. e.offset > Meant(reply.pos)
        BY <1>e, <4>2, NewIsPast
      <4>. QED  BY <1>2, <1>3, <1>4, <2>1, <4>1, <4>3
    <3>. QED  BY <3>1, <3>2
  <2>. QED  BY <2>1 DEF KnownUp
<1>. QED  BY <1>5, <1>6

\* A push to a subscribed client: all of its stream between the reply and the push was
\* pushed before it, and was taken from the queue before it.
LEMMA GapPushed ==
  ASSUME WayPart, TypePart, PushPart, QueuePart, ClientPart, NoGap, KnownUp,
         NEW l \in pushed, l \in log, IsPush(queue[1]), queue[1].push = l, 1 \in 1..Len(queue),
         told, Quiet, base # Nobody,
         NEW k \in log, k.epoch = base.epoch, base.epoch = pos.epoch,
         Meant(base) < k.offset, k.offset <= l.offset
  PROVE  k \in got \cup {l} \cup lost
<1>0. /\ k.offset \in Nat /\ l.offset \in Nat /\ k.id \in Nat /\ l.id \in Nat
      /\ Apart(k, l) /\ Apart(l, k) /\ Meant(reply.pos) \in Nat /\ Len(queue) \in Nat
  BY LogTypes, Packing DEF WayPart, LogPart, TypePart, Result
<1>1. /\ pos.epoch = reply.pos.epoch /\ pc = "on" /\ ~overtook
      /\ k.epoch = reply.pos.epoch /\ l.epoch = k.epoch
  BY DEF ClientPart, QueuePart, Quiet, OneStream
<1>2. CASE k.offset <= Meant(reply.pos)
  BY <1>2 DEF KnownUp
<1>3. CASE k.offset > Meant(reply.pos) /\ k.offset < l.offset
  <2>1. k \in pushed \cup lost
    BY <1>0, <1>1, <1>3 DEF PushPart, Behind
  <2>2. ASSUME NEW i \in 1..Len(queue), IsPush(queue[i]), queue[i].push = k
        PROVE  FALSE
    <3>1. k.id < l.id /\ i # 1
      BY <1>0, <1>1, <1>3, <2>2 DEF Apart
    <3>2. 1 < i
      BY <1>0, <3>1
    <3>3. l.id < k.id
      BY <1>1, <2>2, <3>2 DEF QueuePart, InOrder
    <3>. QED  BY <1>0, <3>1, <3>3
  <2>3. k \in pushed => k \in got
    BY <2>2 DEF QueuePart, NoneDropped
  <2>. QED  BY <2>1, <2>3
<1>4. CASE k.offset = l.offset
  <2>1. k = l
    BY <1>0, <1>1, <1>4 DEF Apart
  <2>. QED  BY <2>1
<1>. QED  BY <1>0, <1>2, <1>3, <1>4

\* The reply: up to the position it asked with the client had everything, from there on
\* the reply brings it.
LEMMA GapReplied ==
  ASSUME TypePart, RecoveredIsComplete, ClientPart, NoGap, ~told, pc = "on",
         Quiet, base # Nobody, reply.recovered,
         NEW k \in log, k.epoch = base.epoch, base.epoch = reply.pos.epoch,
         Meant(base) < k.offset, k.offset <= Meant(reply.pos), k.offset \in Nat
  PROVE  k \in got \cup reply.publications \cup lost
<1>1. /\ req.pos = pos /\ reply.pos.epoch = req.pos.epoch
      /\ Meant(pos) \in Nat
  BY Packing DEF ClientPart, RecoveredIsComplete, TypePart
<1>2. CASE k.offset <= Meant(pos)
  BY <1>1, <1>2 DEF NoGap, Quiet, OneStream
<1>3. CASE Meant(pos) < k.offset
  BY <1>1, <1>3 DEF RecoveredIsComplete
<1>. QED  BY <1>1, <1>2, <1>3

LEMMA GapStep ==
  ASSUME WayPart, TypePart, ReplyPart, Answered, PushPart, QueuePart, ClientPart, GapPart,
         [Next]_vars
  PROVE  GapPart'
<1>1. /\ UNCHANGED <<engine, radix>>
      /\ log' = log \/ log' = log \cup {NewEntry}
      /\ \/ Receive /\ log' = log
         \/ /\ UNCHANGED <<base, pos, got>>
            /\ told' = FALSE \/ (told' = told /\ (told => reply' = reply))
  BY ClientMoves
<1>. SUFFICES NoGap' /\ KnownUp'
  BY DEF GapPart
<1>3. NoGap /\ KnownUp /\ RecoveredIsComplete
  BY DEF GapPart, Answered
<1>4. CASE /\ UNCHANGED <<base, pos, got>>
           /\ told' = FALSE \/ (told' = told /\ (told => reply' = reply))
  BY <1>1, <1>3, <1>4, GapRests
<1>5. CASE Receive /\ log' = log
  <2>1. /\ \/ /\ \E l \in pushed : /\ IsPush(queue[1]) /\ queue[1].push = l
                                   /\ l \in log /\ got' = got \cup {l}
                                   /\ \/ ~told /\ pos' = pos
                                      \/ told /\ pos'.epoch = pos.epoch
                                         /\ Meant(pos)' = l.offset
              /\ told' = told /\ base' = base
           \/ /\ ~told /\ told' = TRUE /\ pc = "on"
              /\ got' = got \cup reply.publications /\ pos' = reply.pos
              /\ base' = IF reply.recovered THEN base ELSE reply.pos
        /\ UNCHANGED <<pc, req, reply, radix, log, overtook, lost>>
    BY <1>5, ReceiveMoves
  <2>2. (Quiet' <=> Quiet) /\ Meant(reply.pos)' = Meant(reply.pos) /\ 1 \in 1..Len(queue)
    BY <1>5, <2>1, ReceiveIs DEF Quiet, OneStream, Meant
  <2>3. ASSUME NEW l \in pushed, IsPush(queue[1]), queue[1].push = l, l \in log,
               got' = got \cup {l}, told' = told, base' = base,
               \/ ~told /\ pos' = pos
               \/ told /\ pos'.epoch = pos.epoch /\ Meant(pos)' = l.offset
        PROVE  NoGap' /\ KnownUp'
    <3>1. Meant(base)' = Meant(base)
      BY <2>1, <2>3 DEF Meant
    <3>2. KnownUp'
      BY <1>3, <2>1, <2>2, <2>3, <3>1 DEF KnownUp
    <3>3. CASE ~told /\ pos' = pos
      <4>1. Meant(pos)' = Meant(pos)
        BY <2>1, <3>3 DEF Meant
      <4>. QED  BY <1>3, <2>1, <2>3, <3>1, <3>2, <3>3, <4>1 DEF NoGap
    <3>4. CASE told /\ pos'.epoch = pos.epoch /\ Meant(pos)' = l.offset
      <4>1. ASSUME Quiet, base # Nobody, NEW k \in log, k.epoch = base.epoch,
                   base.epoch = pos.epoch, Meant(base) < k.offset, k.offset <= l.offset
            PROVE  k \in got \cup {l} \cup lost
        BY <1>3, <2>2, <2>3, <3>4, <4>1, GapPushed
      <4>2. NoGap'
        BY <2>1, <2>2, <2>3, <3>1, <3>4, <4>1 DEF NoGap, Quiet, OneStream
      <4>. QED  BY <3>2, <4>2
    <3>. QED  BY <2>3, <3>3, <3>4
  <2>4. CASE /\ ~told /\ told' = TRUE /\ pc = "on"
             /\ got' = got \cup reply.publications /\ pos' = reply.pos
             /\ base' = IF reply.recovered THEN base ELSE reply.pos
    <3>0. /\ Meant(pos)' = Meant(reply.pos) /\ Meant(reply.pos) \in Nat
          /\ \A k \in log : k.offset \in Nat
      <4>1. Meant(reply.pos) \in Nat /\ \A k \in log : k.offset \in Nat
        BY LogTypes, Packing DEF WayPart, TypePart, Result
      <4>. QED  BY <2>1, <2>4, <4>1 DEF Meant
    <3>1. CASE reply.recovered
      <4>1. base' = base /\ Meant(base)' = Meant(base)
        BY <2>1, <2>4, <3>1 DEF Meant
      <4>2. ASSUME Quiet, base # Nobody, NEW k \in log, k.epoch = base.epoch,
                   base.epoch = reply.pos.epoch, Meant(base) < k.offset,
                   k.offset <= Meant(reply.pos)
            PROVE  k \in got' \cup lost
        BY <1>3, <2>4, <3>0, <3>1, <4>2, GapReplied
      <4>3. NoGap'
        BY <2>1, <2>2, <2>4, <3>0, <4>1, <4>2 DEF NoGap, Quiet, OneStream
      <4>4. KnownUp'
        BY <2>1, <2>2, <2>4, <3>0, <4>1, <4>2 DEF KnownUp
      <4>. QED  BY <4>3, <4>4
    <3>2. CASE ~reply.recovered
      <4>1. Meant(base)' = Meant(reply.pos)
        BY <2>1, <2>4, <3>2 DEF Meant
      <4>2. NoGap'
        BY <2>1, <3>0, <4>1 DEF NoGap
      <4>3. KnownUp'
        BY <2>1, <2>2, <3>0, <4>1 DEF KnownUp
      <4>. QED  BY <4>2, <4>3
    <3>. QED  BY <3>1, <3>2
  <2>. QED  BY <2>1, <2>3, <2>4
<1>. QED  BY <1>1, <1>4, <1>5

-----------------------------------------------------------------------------
(* The inductive invariant and what follows from it.                       *)

RecoveryInv ==
  /\ WayPart /\ TypePart
  /\ ReplyPart /\ Answered /\ RecoveredIsFresh
  /\ OrderPart /\ JoinedIsComplete /\ PushPart
  /\ QueuePart /\ ClientPart /\ GapPart

LEMMA RecoveryStart == Init => RecoveryInv
<1>. SUFFICES ASSUME Init PROVE RecoveryInv
  OBVIOUS
<1>1. EnginePart /\ count = 0
  BY EngineStart DEF Init, EnginesInit, StreamInit
<1>2. /\ log = {} /\ routing = [p \in Publishers |-> Nobody] /\ overtook = FALSE
      /\ inbox = <<>> /\ linked = (engine = "redis") /\ lost = {}
      /\ hub = FALSE /\ pc = "off" /\ req = NoRequest /\ reply = NoReply
      /\ pushed = {} /\ queue = <<>> /\ told = FALSE /\ base = Nobody /\ pos = Start
      /\ got = {} /\ radix \in Radixes
  BY DEF Init
<1>3. Found.epoch \in Nat \ {0} /\ Found.offset \in Nat /\ Len(Found.pubs) = 0
  <2>1. Found.epoch \in Nat \ {0} /\ Found.offset \in Nat
    BY <1>1, FoundIs
  <2>2. Found.pubs = <<>>
    <3>1. List = <<>> /\ stream = NewStream(0)
      BY DEF Init, EnginesInit, RedisInit, List, StreamInit, NoStream
    <3>2. Touched.pubs = <<>>
      <4>1. evict_if_expired(stream) = NewStream(0) /\ NewStream(0).epoch = 0
        BY <3>1 DEF evict_if_expired, NewStream, NoStream, Expired
      <4>. QED  BY <4>1 DEF Touched, NewStream
    <3>. QED  BY <3>1, <3>2 DEF Found
  <2>. QED  BY <2>1, <2>2
<1>4. WayPart
  <2>1. LogPart
    BY <1>2 DEF LogPart
  <2>2. RingPart
    BY <1>3 DEF RingPart
  <2>3. ShapePart
    <3>1. routing \in [Publishers -> log \cup {Nobody}] /\ inbox \in Seq(log) /\ Len(inbox) = 0
      BY <1>2
    <3>. QED  BY <1>2, <3>1 DEF ShapePart
  <2>. QED  BY <1>1, <2>1, <2>2, <2>3 DEF WayPart
<1>5. Start \in Position /\ Start.epoch = 0
  BY DEF Start, Position
<1>6. TypePart
  <2>1. NoRequest \in Request /\ NoReply \in Result
    BY <1>5 DEF NoRequest, NoReply, Request, Result
  <2>2. queue \in Seq(Item) /\ Len(queue) <= QueueCap
    BY <1>2, RecoveryAssumption
  <2>3. linked \in BOOLEAN
    BY <1>2
  <2>. QED  BY <1>2, <1>5, <2>1, <2>2, <2>3 DEF TypePart
<1>7. ReplyPart /\ Answered /\ RecoveredIsFresh
  BY <1>2, <1>3, NoReplyShows
     DEF NoReplyIs, ReplyPart, Answered, RecoveredIsComplete, RecoveredIsFresh
<1>8. OrderPart /\ JoinedIsComplete /\ PushPart
  BY <1>2 DEF OrderPart, JoinedIsComplete, PushPart
<1>9. QueuePart
  <2>1. Len(queue) = 0
    BY <1>2
  <2>. QED  BY <1>2, <2>1 DEF QueuePart, ItemsAre, OneReply, InOrder, NoneDropped
<1>10. ClientPart /\ GapPart
  BY <1>2, <1>3, <1>5 DEF ClientPart, GapPart, NoGap, KnownUp
<1>. QED  BY <1>4, <1>6, <1>7, <1>8, <1>9, <1>10 DEF RecoveryInv

LEMMA RecoveryStep == RecoveryInv /\ [Next]_vars => RecoveryInv'
<1>. SUFFICES ASSUME RecoveryInv, [Next]_vars PROVE RecoveryInv'
  OBVIOUS
<1>1. WayPart' /\ TypePart'
  BY WayStep, TypeStep DEF RecoveryInv
<1>2. ReplyPart' /\ Answered' /\ RecoveredIsFresh'
  BY ReplyPartStep, AnsweredStep DEF RecoveryInv
<1>3. OrderPart' /\ JoinedIsComplete' /\ PushPart'
  BY OrderStep, JoinedStep, PushStep DEF RecoveryInv
<1>4. QueuePart' /\ ClientPart' /\ GapPart'
  BY QueueStep, ClientStep, GapStep DEF RecoveryInv
<1>. QED  BY <1>1, <1>2, <1>3, <1>4 DEF RecoveryInv

\* The engine, the log, the way to the hub, the reply, the queue and the client keep
\* their relations through every step of publish, on_subscribe, the fan-out, the pub/sub
\* connection and the client.
THEOREM RecoveryInvariance == Spec => []RecoveryInv
<1>1. Init => RecoveryInv
  BY RecoveryStart
<1>2. RecoveryInv /\ [Next]_vars => RecoveryInv'
  BY RecoveryStep
<1>. QED  BY <1>1, <1>2, PTL DEF Spec

LEMMA TypesHold == RecoveryInv => RecoveryTypeOK
<1>. SUFFICES ASSUME RecoveryInv PROVE RecoveryTypeOK
  OBVIOUS
<1>0. WayPart /\ TypePart /\ ClientPart
  BY DEF RecoveryInv
<1>1. EnginesTypeOK /\ log \subseteq Publication /\ inbox \in Seq(log) /\ lost \subseteq log
      /\ routing \in [Publishers -> log \cup {Nobody}]
  BY <1>0 DEF WayPart, EnginePart, LogPart, ShapePart
<1>2. routing \in [Publishers -> Publication \cup {Nobody}]
  BY <1>1
<1>3. queue \in Seq([push : Publication] \cup [reply : Result]) /\ got \subseteq log
  BY <1>0 DEF TypePart, Item, ClientPart
<1>. QED  BY <1>0, <1>1, <1>2, <1>3 DEF TypePart, RecoveryTypeOK

\* Every variable keeps its type, and the client was handed publications of the channel
\* and nothing else.
THEOREM TypeTheorem == Spec => []RecoveryTypeOK
BY RecoveryInvariance, TypesHold, PTL

\* on_subscribe joins the hub before it reads the history: what is published after the
\* snapshot was pushed, is on its way, or was lost by the connection to Redis.
THEOREM JoinedTheorem == Spec => []JoinedIsComplete
<1>1. RecoveryInv => JoinedIsComplete
  BY DEF RecoveryInv
<1>. QED  BY <1>1, RecoveryInvariance, PTL

\* What expired, was removed or renewed under the engine's keys does not come back: a
\* recovery brings publications of the stream asked for and none beyond the position in
\* the reply, but where on Redis the hash may go before the list.
THEOREM FreshTheorem == Spec => []RecoveredIsFresh
<1>1. RecoveryInv => RecoveredIsFresh
  BY DEF RecoveryInv
<1>. QED  BY <1>1, RecoveryInvariance, PTL

\* A client that is told "recovered" is sent all it asked for: the gap check of
\* on_subscribe is sound although positions are packed too small from offset 2^32 on, and
\* although a list of Redis may begin with publications of an earlier stream.
THEOREM CompleteTheorem == Spec => []RecoveredIsComplete
<1>1. RecoveryInv => RecoveredIsComplete
  BY DEF RecoveryInv, Answered
<1>. QED  BY <1>1, RecoveryInvariance, PTL

\* One script appends and publishes, one task routes: on Redis no subscriber is pushed
\* past a publication that the connection has not lost.
THEOREM OrderTheorem == Spec => []InOrderOnRedis
<1>1. ASSUME RecoveryInv PROVE InOrderOnRedis
  <2>1. PushPart /\ (engine = "redis" => ~overtook)
    BY <1>1 DEF RecoveryInv, WayPart, ShapePart
  <2>2. ASSUME engine = "redis", NEW k \in log, PushedPast(k) PROVE k \in lost
    <3>1. pc = "on" /\ k \notin pushed /\ ~overtook
      BY <2>1, <2>2 DEF PushedPast
    <3>2. PICK l \in pushed : Behind(k, l)
      BY <2>2 DEF PushedPast, Behind
    <3>. QED  BY <2>1, <2>2, <3>1, <3>2 DEF PushPart
  <2>. QED  BY <2>2 DEF InOrderOnRedis
<1>. QED  BY <1>1, RecoveryInvariance, PTL

\* Over any number of lost connections the client never skips a publication between the
\* state it loaded and its position, whichever key of Redis expires first, as long as
\* publications are routed in order, the stream is not lost and but for what the pub/sub
\* connection lost.
THEOREM GapTheorem == Spec => []NoGap
<1>1. RecoveryInv => NoGap
  BY DEF RecoveryInv, GapPart
<1>. QED  BY <1>1, RecoveryInvariance, PTL
=============================================================================
