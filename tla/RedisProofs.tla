----------------------------- MODULE RedisProofs -----------------------------
(***************************************************************************)
(* The Redis stream for every history size, lifetime and meta TTL, the     *)
(* hash living as long as the list or not: it keeps the promise of         *)
(* StreamSpec.                                                             *)
(***************************************************************************)
EXTENDS RedisStream, SequenceTheorems, TLAPS

\* A hash is older than its deadline, and never from the future.
LiveMeta ==
  /\ meta.epoch <= now
  /\ metaGone # Never => meta.epoch < metaGone
  /\ meta.epoch = 0 => meta.offset = 0

\* The keys belong together even when they have expired: the list ends at the
\* hash's top offset, and before the hash's first publication lie earlier epochs.
RInv == LiveMeta /\ EndsAt(list, meta.epoch, meta.offset)

\* What a reader of the channel finds: the publications of the current stream are
\* the last ones of the list and have no holes; any before its first one are of
\* earlier epochs (redis lib.rs ADD_HISTORY, read_history).
ListTellsStreams == EndsAt(List, RedisEpoch, RedisOffset)

\* Without a hash the whole list is of earlier streams than the next one.
LEMMA NoHash ==
  ASSUME RedisTypeOK, RInv, ~(Meta = meta /\ meta.epoch # 0)
  PROVE  RedisEpoch = now /\ Meta.offset = 0 /\ EndsAt(list, now, 0)
<1>1. RedisEpoch = now /\ Meta.offset = 0 /\ (meta.epoch = 0 \/ meta.epoch < now)
  BY DEF RedisEpoch, Meta, NoMeta, RInv, LiveMeta, Gone, RedisTypeOK, Never
<1>2. ASSUME NEW i \in 1..Len(list) PROVE list[i].epoch < now /\ ~(Len(list) < 0 + i)
  <2>1. list[i] \in Publication /\ Len(list) \in Nat
    BY DEF RedisTypeOK
  <2>2. list[i].epoch \in Nat /\ list[i].epoch <= meta.epoch
    BY <2>1 DEF Publication, RInv, EndsAt, RedisTypeOK
  <2>3. meta.epoch = 0 => ~(Len(list) < meta.offset + i) /\ list[i].epoch < 0
    BY <2>1 DEF RInv, LiveMeta, EndsAt
  <2>. QED  BY <1>1, <2>1, <2>2, <2>3 DEF RedisTypeOK
<1>. QED  BY <1>1, <1>2 DEF EndsAt

\* What a command finds, whichever of the two keys has expired.
LEMMA FoundKeys ==
  ASSUME RedisTypeOK, RInv
  PROVE  /\ List \in Seq(Publication) /\ Len(List) <= HistorySize
         /\ ListTellsStreams
         /\ Meta \in [epoch : Nat, offset : Nat] /\ Meta.epoch <= now
         /\ Meta.epoch = 0 => Meta.offset = 0
         /\ Meta \in {NoMeta, meta} /\ List \in {<<>>, list}
         /\ RedisEpoch = WithEpoch(Meta).epoch /\ RedisEpoch \in Nat \ {0}
<1>1. Meta \in [epoch : Nat, offset : Nat] /\ Meta.epoch <= now
      /\ (Meta.epoch = 0 => Meta.offset = 0)
  BY DEF RedisTypeOK, RInv, LiveMeta, Meta, NoMeta
<1>2. List \in Seq(Publication) /\ Len(List) <= HistorySize
  BY StreamAssumption DEF RedisTypeOK, List
<1>3. RedisEpoch = WithEpoch(Meta).epoch /\ RedisEpoch \in Nat \ {0}
  BY <1>1 DEF RedisEpoch, WithEpoch, RedisTypeOK
<1>4. ListTellsStreams
  <2>1. CASE List = <<>>
    BY <2>1 DEF ListTellsStreams, EndsAt
  <2>2. CASE List # <<>>
    <3>1. List = list
      BY <2>2 DEF List
    <3>2. CASE Meta = meta /\ meta.epoch # 0
      BY <3>1, <3>2 DEF RInv, ListTellsStreams, RedisEpoch, RedisOffset
    <3>3. CASE ~(Meta = meta /\ meta.epoch # 0)
      BY <3>1, <3>3, NoHash DEF ListTellsStreams, RedisOffset
    <3>. QED  BY <3>2, <3>3
  <2>. QED  BY <2>1, <2>2
<1>. QED  BY <1>1, <1>2, <1>3, <1>4 DEF Meta, List

\* A list with one more publication, the oldest k gone.
Grew(l, r, p, k) ==
  /\ Len(r) = Len(l) - k + 1 /\ r[Len(r)] = p
  /\ \A i \in 1..(Len(l) - k) : r[i] = l[k + i]

\* A push drops the oldest element only, and that of a full list.
LEMMA PushedGrows ==
  ASSUME NEW l \in Seq(Publication), NEW p \in Publication, Len(l) <= HistorySize
  PROVE  /\ Pushed(l, p) \in Seq(Publication) /\ Len(Pushed(l, p)) <= HistorySize
         /\ \E k \in 0..Len(l) : Grew(l, Pushed(l, p), p, k)
<1>. USE StreamAssumption
<1>1. CASE Len(l) < HistorySize
  <2>. DEFINE r == Append(l, p)
  <2>1. Pushed(l, p) = r
    BY <1>1 DEF Pushed
  <2>2. r \in Seq(Publication) /\ Len(r) = Len(l) + 1 /\ r[Len(l) + 1] = p
        /\ \A i \in 1..Len(l) : r[i] = l[i]
    OBVIOUS
  <2>. HIDE DEF r
  <2>3. ASSUME NEW k, k = 0 PROVE k \in 0..Len(l) /\ Grew(l, r, p, k)
    BY <2>2, <2>3 DEF Grew
  <2>. QED  BY <1>1, <2>1, <2>2, <2>3
<1>2. CASE Len(l) = HistorySize
  <2>. DEFINE a == SubSeq(l, 2, Len(l))
              r == Append(a, p)
  <2>1. Pushed(l, p) = r
    BY <1>2 DEF Pushed
  <2>2. a \in Seq(Publication) /\ Len(a) = Len(l) - 1
        /\ \A i \in 1..(Len(l) - 1) : a[i] = l[1 + i]
    BY <1>2
  <2>. HIDE DEF a
  <2>3. r \in Seq(Publication) /\ Len(r) = Len(l) /\ r[Len(l)] = p
        /\ \A i \in 1..(Len(l) - 1) : r[i] = l[1 + i]
    BY <1>2, <2>2
  <2>. HIDE DEF r
  <2>4. ASSUME NEW k, k = 1 PROVE k \in 0..Len(l) /\ Grew(l, r, p, k)
    BY <1>2, <2>3, <2>4 DEF Grew
  <2>. QED  BY <1>2, <2>1, <2>3, <2>4
<1>. QED  BY <1>1, <1>2

\* A list that tells its streams does so with the next publication of the last one.
LEMMA GrewTells ==
  ASSUME NEW l \in Seq(Publication), NEW r \in Seq(Publication), NEW p \in Publication,
         NEW e \in Nat, NEW top \in Nat, NEW k \in 0..Len(l),
         EndsAt(l, e, top), Grew(l, r, p, k), p.epoch = e, p.offset = top + 1
  PROVE  EndsAt(r, e, top + 1)
<1>1. ASSUME NEW i \in 1..Len(r)
      PROVE  IF Len(r) < (top + 1) + i THEN r[i].epoch = e /\ r[i].offset + Len(r) = (top + 1) + i
             ELSE r[i].epoch < e
  <2>0. Len(l) \in Nat /\ Len(r) \in Nat /\ Len(r) = Len(l) - k + 1 /\ k \in Nat /\ i \in Nat
    BY DEF Grew
  <2>1. CASE i = Len(r)
    <3>1. r[i] = p
      BY <2>1 DEF Grew
    <3>. QED  BY <2>0, <2>1, <3>1
  <2>2. CASE i # Len(r)
    <3>1. i \in 1..(Len(l) - k) /\ k + i \in 1..Len(l)
      BY <2>0, <2>2
    <3>2. r[i] = l[k + i]
      BY <3>1 DEF Grew
    <3>3. IF Len(l) < top + (k + i)
          THEN l[k + i].epoch = e /\ l[k + i].offset + Len(l) = top + (k + i)
          ELSE l[k + i].epoch < e
      BY <3>1 DEF EndsAt
    <3>4. l[k + i] \in Publication
      BY <3>1
    <3>. DEFINE o == l[k + i].offset
                n == Len(l)
                m == Len(r)
    <3>5. o \in Nat /\ n \in Nat /\ m \in Nat /\ m = n - k + 1 /\ k \in Nat /\ i \in Nat
      BY <2>0, <3>4 DEF Publication
    <3>6. /\ m < (top + 1) + i <=> n < top + (k + i)
          /\ o + n = top + (k + i) => o + m = (top + 1) + i
      <4>. HIDE DEF o, n, m
      <4>. QED  BY <3>5
    <3>. QED  BY <3>2, <3>3, <3>6
  <2>. QED  BY <2>1, <2>2
<1>. QED  BY <1>1 DEF EndsAt

LEMMA RedisStart == RedisInit => RedisTypeOK /\ RInv
BY StreamAssumption
   DEF RedisInit, RedisTypeOK, RInv, LiveMeta, EndsAt, NoMeta, Never

\* The publication the script appends.
Added == [epoch |-> WithEpoch(Meta).epoch, offset |-> Meta.offset + 1, id |-> count + 1]

\* What the script leaves.
LEMMA AddMakes ==
  ASSUME RedisTypeOK, RInv, ADD_HISTORY
  PROVE  /\ now' = now /\ count' = count + 1 /\ count < MaxPubs
         /\ meta' \in [epoch : Nat, offset : Nat] /\ metaGone' \in Nat /\ listGone' \in Nat
         /\ meta'.epoch = RedisEpoch /\ meta'.offset = Meta.offset + 1
         /\ metaGone' # Never => metaGone' > now
         /\ Added \in Publication /\ list' \in Seq(Publication) /\ Len(list') <= HistorySize
         /\ EndsAt(list', RedisEpoch, Meta.offset + 1)
         /\ \E k \in 0..Len(List) : Grew(List, list', Added, k)
         /\ List' = list' /\ Meta' = meta'
<1>1. /\ List \in Seq(Publication) /\ Len(List) <= HistorySize
      /\ EndsAt(List, RedisEpoch, Meta.offset)
      /\ Meta \in [epoch : Nat, offset : Nat]
      /\ RedisEpoch = WithEpoch(Meta).epoch /\ RedisEpoch \in Nat \ {0}
      /\ now \in Nat \ {0} /\ count \in Nat
  BY FoundKeys DEF RedisTypeOK, ListTellsStreams, RedisOffset
<1>2. Added \in Publication /\ Added.epoch = RedisEpoch /\ Added.offset = Meta.offset + 1
  BY <1>1 DEF Publication, Added
<1>3. /\ now' = now /\ count' = count + 1 /\ count < MaxPubs
      /\ list' = Pushed(List, Added) /\ listGone' = now + Lifetime
      /\ metaGone' = IF RedisMetaTTL > 0 THEN now + RedisMetaTTL ELSE Never
      /\ meta' = [WithEpoch(Meta) EXCEPT !.offset = Meta.offset + 1]
  BY DEF ADD_HISTORY, Numbered, MetaDeadline, Added
<1>4. /\ meta' \in [epoch : Nat, offset : Nat]
      /\ meta'.epoch = RedisEpoch /\ meta'.offset = Meta.offset + 1
  BY <1>1, <1>3 DEF WithEpoch
<1>5. metaGone' \in Nat /\ listGone' \in Nat /\ (metaGone' # Never => metaGone' > now)
      /\ List' = list' /\ Meta' = meta'
  <2>1. metaGone' \in Nat /\ (metaGone' # Never => metaGone' > now)
    BY <1>1, <1>3, StreamAssumption DEF Never
  <2>2. listGone' \in Nat /\ listGone' > now
    BY <1>1, <1>3, StreamAssumption
  <2>. QED  BY <1>1, <1>3, <2>1, <2>2 DEF List, Meta, Gone
<1>6. PICK k \in 0..Len(List) : Grew(List, list', Added, k)
  BY <1>1, <1>2, <1>3, PushedGrows
<1>7. list' \in Seq(Publication) /\ Len(list') <= HistorySize
  BY <1>1, <1>2, <1>3, PushedGrows
<1>8. EndsAt(list', RedisEpoch, Meta.offset + 1)
  BY <1>1, <1>2, <1>6, <1>7, GrewTells
<1>. QED  BY <1>2, <1>3, <1>4, <1>5, <1>6, <1>7, <1>8

\* The scripts and DEL.
LEMMA AddKeeps ==
  ASSUME RedisTypeOK, RInv, ADD_HISTORY
  PROVE  RedisTypeOK' /\ RInv'
<1>1. RedisEpoch \in Nat \ {0} /\ RedisEpoch <= now /\ now \in Nat \ {0} /\ count \in Nat
  BY FoundKeys DEF RedisTypeOK, RedisEpoch
<1>2. RedisTypeOK'
  BY <1>1, AddMakes DEF RedisTypeOK
<1>3. LiveMeta'
  BY <1>1, AddMakes DEF LiveMeta
<1>4. EndsAt(list, meta.epoch, meta.offset)'
  BY AddMakes DEF EndsAt
<1>. QED  BY <1>2, <1>3, <1>4 DEF RInv

\* A list that says nothing of the hash's stream says nothing of a new one either.
LEMMA LookMakes ==
  ASSUME RedisTypeOK, RInv, HISTORY
  PROVE  /\ now' = now /\ count' = count /\ list' = list /\ listGone' = listGone
         /\ meta' \in [epoch : Nat, offset : Nat] /\ metaGone' \in Nat
         /\ meta'.epoch = RedisEpoch /\ meta'.offset = Meta.offset
         /\ metaGone' # Never => metaGone' > now
         /\ List' = List /\ Meta' = meta'
<1>1. Meta \in [epoch : Nat, offset : Nat] /\ RedisEpoch = WithEpoch(Meta).epoch
      /\ RedisEpoch \in Nat \ {0} /\ now \in Nat \ {0}
  BY FoundKeys DEF RedisTypeOK
<1>2. /\ now' = now /\ count' = count /\ list' = list /\ listGone' = listGone
      /\ metaGone' = IF RedisMetaTTL > 0 THEN now + RedisMetaTTL ELSE Never
      /\ meta' = WithEpoch(Meta)
  BY DEF HISTORY, MetaDeadline
<1>3. meta' \in [epoch : Nat, offset : Nat] /\ meta'.epoch = RedisEpoch
      /\ meta'.offset = Meta.offset
  BY <1>1, <1>2 DEF WithEpoch
<1>. QED  BY <1>1, <1>2, <1>3, StreamAssumption DEF List, Meta, Gone, Never

LEMMA LookKeeps ==
  ASSUME RedisTypeOK, RInv, HISTORY
  PROVE  RedisTypeOK' /\ RInv'
<1>1. /\ RedisEpoch \in Nat \ {0} /\ RedisEpoch <= now /\ now \in Nat \ {0}
      /\ (Meta.epoch = 0 => Meta.offset = 0) /\ Meta \in [epoch : Nat, offset : Nat]
  BY FoundKeys DEF RedisTypeOK, RedisEpoch
<1>2. RedisTypeOK'
  BY LookMakes DEF RedisTypeOK
<1>3. LiveMeta'
  BY <1>1, LookMakes DEF LiveMeta
<1>4. EndsAt(list, RedisEpoch, Meta.offset)
  <2>1. CASE Meta = meta /\ meta.epoch # 0
    BY <2>1 DEF RInv, RedisEpoch
  <2>2. CASE ~(Meta = meta /\ meta.epoch # 0)
    BY <2>2, NoHash
  <2>. QED  BY <2>1, <2>2
<1>5. EndsAt(list, meta.epoch, meta.offset)'
  BY <1>4, LookMakes DEF EndsAt
<1>. QED  BY <1>2, <1>3, <1>5 DEF RInv

LEMMA RestKeeps ==
  ASSUME RedisTypeOK, RInv, DeleteHistory \/ RedisTick \/ UNCHANGED redisVars
  PROVE  RedisTypeOK' /\ RInv'
<1>1. CASE DeleteHistory
  BY <1>1, StreamAssumption
     DEF DeleteHistory, RedisTypeOK, RInv, LiveMeta, EndsAt, Never
<1>2. CASE RedisTick
  <2>1. /\ now' = now + 1 /\ count' = count /\ list' = list /\ listGone' = listGone
        /\ meta' = meta /\ metaGone' = metaGone /\ now \in Nat \ {0}
    BY <1>2 DEF RedisTick, Clock, RedisTypeOK
  <2>. QED  BY <2>1 DEF RInv, LiveMeta, EndsAt, RedisTypeOK
<1>3. CASE UNCHANGED redisVars
  BY <1>3 DEF redisVars, RedisTypeOK, RInv, LiveMeta, EndsAt
<1>. QED  BY <1>1, <1>2, <1>3

\* A list that has not expired lies within the life of its hash and holds nothing
\* but publications of its stream.
OwnList ==
  /\ listGone <= now + Lifetime
  /\ list # <<>> /\ ~Gone(listGone) =>
       /\ listGone # Never
       /\ metaGone = Never \/ listGone <= metaGone
       /\ Len(list) <= meta.offset

\* Then no reader finds a publication of an earlier stream.
LEMMA OwnListFound ==
  ASSUME RedisTypeOK, RInv, OwnList
  PROVE  /\ Len(List) <= Meta.offset
         /\ list # <<>> /\ ~Gone(listGone) => Meta = meta
<1>1. ASSUME list # <<>>, ~Gone(listGone) PROVE Meta = meta /\ List = list
  BY <1>1 DEF List, Meta, OwnList, Gone, RedisTypeOK
<1>2. CASE List = <<>>
  BY <1>1, <1>2, FoundKeys
<1>3. CASE List # <<>>
  <2>1. list # <<>> /\ ~Gone(listGone)
    BY <1>3 DEF List
  <2>. QED  BY <1>1, <2>1 DEF OwnList
<1>. QED  BY <1>1, <1>2, <1>3

\* It stays so where the hash outlives the list.
LEMMA OwnListKeeps ==
  ASSUME RedisTypeOK, RInv, OwnList, ~MetaMayGoFirst,
         ADD_HISTORY \/ HISTORY \/ DeleteHistory \/ RedisTick \/ UNCHANGED redisVars
  PROVE  OwnList'
<1>0. /\ now \in Nat \ {0} /\ listGone \in Nat /\ metaGone \in Nat /\ Len(List) \in Nat
      /\ RedisMetaTTL = 0 \/ RedisMetaTTL >= Lifetime
      /\ Lifetime \in Nat \ {0} /\ RedisMetaTTL \in Nat /\ listGone <= now + Lifetime
      /\ Len(List) <= Meta.offset /\ Meta.offset \in Nat
  BY OwnListFound, FoundKeys, StreamAssumption DEF RedisTypeOK, OwnList, MetaMayGoFirst
<1>1. CASE ADD_HISTORY
  <2>1. /\ listGone' = now + Lifetime
        /\ metaGone' = IF RedisMetaTTL > 0 THEN now + RedisMetaTTL ELSE Never
    BY <1>1 DEF ADD_HISTORY, MetaDeadline
  <2>2. now' = now /\ meta'.offset = Meta.offset + 1
    BY <1>1, AddMakes
  <2>3. Len(list') <= Len(List) + 1 /\ Len(list') \in Nat
    BY <1>0, <1>1, AddMakes DEF Grew
  <2>. QED  BY <1>0, <2>1, <2>2, <2>3 DEF OwnList, Never
<1>2. CASE HISTORY
  <2>1. metaGone' = IF RedisMetaTTL > 0 THEN now + RedisMetaTTL ELSE Never
    BY <1>2 DEF HISTORY, MetaDeadline
  <2>2. now' = now /\ list' = list /\ listGone' = listGone /\ meta'.offset = Meta.offset
    BY <1>2, LookMakes
  <2>3. list # <<>> /\ ~Gone(listGone) => Meta = meta /\ listGone # Never /\ Len(list) <= meta.offset
    BY OwnListFound DEF OwnList
  <2>4. Gone(listGone)' <=> Gone(listGone)
    BY <2>2 DEF Gone
  <2>5. metaGone' = Never \/ listGone <= metaGone'
    BY <1>0, <2>1
  <2>. QED  BY <1>0, <2>2, <2>3, <2>4, <2>5 DEF OwnList
<1>3. CASE DeleteHistory
  BY <1>0, <1>3 DEF DeleteHistory, OwnList, Never
<1>4. CASE RedisTick
  <2>1. /\ now' = now + 1 /\ list' = list /\ listGone' = listGone
        /\ meta' = meta /\ metaGone' = metaGone
    BY <1>4 DEF RedisTick, Clock
  <2>2. ~Gone(listGone)' => ~Gone(listGone)
    BY <1>0, <2>1 DEF Gone, Never
  <2>. QED  BY <1>0, <2>1, <2>2 DEF OwnList
<1>5. CASE UNCHANGED redisVars
  BY <1>5 DEF redisVars, OwnList, Gone
<1>. QED  BY <1>1, <1>2, <1>3, <1>4, <1>5

\* Whichever key expires first: what is found of the current stream is its
\* contiguous tail, and nothing of an earlier stream lies behind its first
\* publication (lib.rs ADD_HISTORY, HISTORY, remove_history).
THEOREM RedisInvariance == RedisSpecification => [](RedisTypeOK /\ ListTellsStreams)
<1>1. RedisTypeOK /\ RInv /\ [RedisNext]_redisVars => RedisTypeOK' /\ RInv'
  BY AddKeeps, LookKeeps, RestKeeps DEF RedisNext
<1>2. RedisTypeOK /\ RInv => ListTellsStreams
  BY FoundKeys
<1>. QED  BY <1>1, <1>2, RedisStart, PTL DEF RedisSpecification

-----------------------------------------------------------------------------
(* The refinement.                                                         *)

\* What the ids of the current stream's publications are.
IdsFacts ==
  /\ Stale \in 0..Len(List) /\ Len(List) \in Nat /\ RedisOffset \in Nat
  /\ RedisIds \in Seq(Nat) /\ Len(RedisIds) = Len(List) - Stale
  /\ \A i \in 1..(Len(List) - Stale) : RedisIds[i] = List[Stale + i].id

LEMMA IdsOfList ==
  ASSUME RedisTypeOK, RInv
  PROVE  IdsFacts
<1>1. List \in Seq(Publication) /\ Len(List) \in Nat /\ RedisOffset \in Nat
  BY FoundKeys DEF RedisOffset
<1>2. Stale \in 0..Len(List)
  BY <1>1 DEF Stale
<1>3. ASSUME NEW i \in 1..(Len(List) - Stale) PROVE List[Stale + i].id \in Nat
  <2>1. Stale + i \in 1..Len(List)
    BY <1>1, <1>2
  <2>2. List[Stale + i] \in Publication
    BY <1>1, <2>1
  <2>. QED  BY <2>2 DEF Publication
<1>4. Len(List) - Stale \in Nat
  BY <1>1, <1>2
<1>. QED  BY <1>1, <1>2, <1>3, <1>4 DEF IdsFacts, RedisIds

LEMMA IdsOfListNext == (RedisTypeOK /\ RInv)' => IdsFacts'
<1>1. RedisTypeOK /\ RInv => IdsFacts
  BY IdsOfList DEF IdsFacts
<1>. QED  BY <1>1, PTL

\* Dropping the k oldest of a window and adding one is a Slide.
LEMMA ListSlides ==
  ASSUME NEW w \in Seq(Nat), NEW v \in Seq(Nat), NEW k \in 0..Len(w),
         Len(v) = Len(w) - k + 1,
         \A i \in 1..(Len(w) - k) : v[i] = w[k + i]
  PROVE  v = RedisStreamSpec!Slide(w, k, v)
<1>. DEFINE a == SubSeq(w, k + 1, Len(w))
            z == v[Len(v)]
            b == a \o <<z>>
<1>1. a \in Seq(Nat) /\ Len(a) = Len(w) - k
      /\ \A i \in 1..(Len(w) - k) : a[i] = w[k + i]
  OBVIOUS
<1>2. z \in Nat
  OBVIOUS
<1>3. z = v[Len(v)]
  OBVIOUS
<1>. HIDE DEF a, z
<1>4. /\ b \in Seq(Nat) /\ Len(b) = Len(v)
      /\ \A i \in 1..Len(a) : b[i] = a[i]
      /\ b[Len(a) + 1] = z
  BY <1>1, <1>2
<1>. HIDE DEF b
<1>5. ASSUME NEW i \in 1..Len(v) PROVE v[i] = b[i]
  <2>1. CASE i = Len(v)
    BY <1>1, <1>3, <1>4, <2>1
  <2>2. CASE i # Len(v)
    <3>1. i \in 1..(Len(w) - k) /\ i \in 1..Len(a)
      BY <1>1, <2>2
    <3>. QED  BY <1>1, <1>4, <3>1
  <2>. QED  BY <2>1, <2>2
<1>6. v = b
  BY <1>4, <1>5, SeqEqual
<1>. QED  BY <1>6 DEF RedisStreamSpec!Slide, a, z, b

\* The script adds one publication to those of the stream.
LEMMA AddIsPublish ==
  ASSUME RedisTypeOK, RInv, ADD_HISTORY
  PROVE  RedisStreamSpec!SPublish
<1>1. (RedisTypeOK /\ RInv)'
  BY AddKeeps
<1>2. /\ RedisEpoch' = RedisEpoch /\ RedisOffset' = RedisOffset + 1
  <2>1. Meta'.epoch = RedisEpoch /\ Meta'.offset = Meta.offset + 1 /\ RedisEpoch # 0
    BY AddMakes, FoundKeys
  <2>. QED  BY <2>1 DEF RedisEpoch, RedisOffset
<1>k. PICK k \in 0..Len(List) : Grew(List, List', Added, k)
  BY AddMakes
<1>. DEFINE n == Len(List)
            m == Len(List')
            s == Stale
            t == Stale'
            top == RedisOffset
            d == (n - s) + 1 - (m - t)
<1>3. /\ n \in Nat /\ m \in Nat /\ s \in 0..n /\ t \in 0..m /\ top \in Nat /\ k \in 0..n
      /\ m = n - k + 1 /\ s = (IF top < n THEN n - top ELSE 0)
      /\ t = (IF top + 1 < m THEN m - (top + 1) ELSE 0)
  BY <1>1, <1>2, <1>k, IdsOfList, IdsOfListNext DEF IdsFacts, Stale, Grew
<1>4. /\ RedisIds \in Seq(Nat) /\ Len(RedisIds) = n - s
      /\ \A i \in 1..(n - s) : RedisIds[i] = List[s + i].id
      /\ RedisIds' \in Seq(Nat) /\ Len(RedisIds') = m - t
      /\ \A i \in 1..(m - t) : RedisIds'[i] = List'[t + i].id
      /\ \A i \in 1..(n - k) : List'[i] = List[k + i]
  BY <1>1, <1>k, IdsOfList, IdsOfListNext DEF IdsFacts, Grew
<1>5. d \in 0..(n - s) /\ s + d = k + t /\ m - t = (n - s) - d + 1
      /\ \A i \in 1..((n - s) - d) :
            i \in 1..(m - t) /\ t + i \in 1..(n - k) /\ k + (t + i) = s + (d + i)
            /\ d + i \in 1..(n - s)
  <2>. HIDE DEF n, m, s, t, top
  <2>. QED  BY <1>3
<1>6. ASSUME NEW i \in 1..((n - s) - d) PROVE RedisIds'[i] = RedisIds[d + i]
  <2>1. /\ i \in 1..(m - t) /\ t + i \in 1..(n - k) /\ k + (t + i) = s + (d + i)
        /\ d + i \in 1..(n - s)
    BY <1>5
  <2>2. RedisIds'[i] = List'[t + i].id /\ List'[t + i] = List[k + (t + i)]
        /\ RedisIds[d + i] = List[s + (d + i)].id
    <3>. HIDE DEF n, m, s, t, d
    <3>. QED  BY <1>4, <2>1
  <2>. QED  BY <2>1, <2>2
<1>. HIDE DEF n, m, s, t, top, d
<1>7. /\ d \in 0..Len(RedisIds) /\ Len(RedisIds') = Len(RedisIds) - d + 1
      /\ \A i \in 1..(Len(RedisIds) - d) : RedisIds'[i] = RedisIds[d + i]
  BY <1>4, <1>5, <1>6
<1>8. RedisIds' = RedisStreamSpec!Slide(RedisIds, d, RedisIds')
  BY <1>4, <1>7, ListSlides
<1>. QED  BY <1>2, <1>7, <1>8 DEF RedisStreamSpec!SPublish

\* Creating a hash changes nothing that is found.
LEMMA LookIsStutter ==
  ASSUME RedisTypeOK, RInv, HISTORY
  PROVE  UNCHANGED RedisStreamSpec!svars
<1>1. RedisEpoch' = RedisEpoch /\ RedisOffset' = RedisOffset
  <2>1. Meta'.epoch = RedisEpoch /\ Meta'.offset = Meta.offset /\ RedisEpoch # 0
    BY LookMakes, FoundKeys
  <2>. QED  BY <2>1 DEF RedisEpoch, RedisOffset
<1>2. List' = List
  BY LookMakes
<1>. QED  BY <1>1, <1>2 DEF RedisStreamSpec!svars, RedisIds, Stale

\* With time the list expires, or the hash and with it the stream.
LEMMA TimeForgets ==
  ASSUME RedisTypeOK, RInv, RedisTick
  PROVE  [RedisStreamSpec!SNext]_(RedisStreamSpec!svars)
<1>1. /\ now' = now + 1 /\ list' = list /\ listGone' = listGone
      /\ meta' = meta /\ metaGone' = metaGone /\ now \in Nat \ {0}
  BY DEF RedisTick, Clock, RedisTypeOK
<1>2. /\ Meta \in [epoch : Nat, offset : Nat] /\ Meta.epoch <= now
      /\ (meta.epoch = 0 => meta.offset = 0)
  BY FoundKeys DEF RInv, LiveMeta
<1>3. (RedisTypeOK /\ RInv)'
  BY RestKeeps
<1>4. List' = List \/ List' = <<>>
  BY <1>1 DEF List, Gone, RedisTypeOK, Never
<1>5. ASSUME RedisOffset' = 0 \/ List' = <<>> PROVE RedisIds' = <<>>
  <2>1. Stale' = Len(List') /\ Len(List') \in Nat
    BY <1>3, <1>5, IdsOfListNext DEF IdsFacts, Stale
  <2>2. RedisIds' \in Seq(Nat) /\ Len(RedisIds') = 0
    BY <1>3, <2>1, IdsOfListNext DEF IdsFacts
  <2>. QED  BY <2>2
<1>6. CASE Meta'.epoch = 0
  <2>1. RedisEpoch' = now + 1 /\ RedisOffset' = 0
    BY <1>1, <1>2, <1>6 DEF RedisEpoch, RedisOffset, Meta, NoMeta
  <2>2. RedisEpoch <= now /\ now + 1 \in Nat /\ RedisEpoch \in Nat
    BY <1>1, <1>2 DEF RedisEpoch
  <2>3. RedisEpoch' \in Nat /\ RedisEpoch' > RedisEpoch
    BY <1>1, <2>1, <2>2
  <2>. QED  BY <1>5, <2>1, <2>3 DEF RedisStreamSpec!SNext, RedisStreamSpec!SRenew
<1>7. CASE Meta'.epoch # 0
  <2>1. Meta' = Meta
    BY <1>1, <1>7 DEF Meta, Gone, RedisTypeOK, Never, NoMeta
  <2>2. RedisEpoch' = RedisEpoch /\ RedisOffset' = RedisOffset
    BY <1>7, <2>1 DEF RedisEpoch, RedisOffset
  <2>3. CASE List' = List
    <3>1. RedisIds' = RedisIds
      BY <2>2, <2>3 DEF RedisIds, Stale
    <3>. QED  BY <2>2, <3>1 DEF RedisStreamSpec!svars
  <2>4. CASE List' = <<>>
    BY <1>5, <2>2, <2>4 DEF RedisStreamSpec!SNext, RedisStreamSpec!SForget
  <2>. QED  BY <1>4, <2>3, <2>4
<1>. QED  BY <1>6, <1>7

LEMMA DeleteForgets ==
  ASSUME RedisTypeOK, RInv, DeleteHistory
  PROVE  RedisStreamSpec!SForget
<1>1. List' = <<>> /\ Meta' = Meta /\ now' = now
  BY DEF DeleteHistory, List, Meta, Gone, Never, NoMeta
<1>2. (RedisTypeOK /\ RInv)'
  BY RestKeeps
<1>3. RedisIds' \in Seq(Nat) /\ Len(RedisIds') = 0
  <2>1. Stale' \in 0..0 /\ Len(RedisIds') = 0 - Stale' /\ RedisIds' \in Seq(Nat)
    BY <1>1, <1>2, IdsOfListNext DEF IdsFacts
  <2>. QED  BY <2>1
<1>. QED  BY <1>1, <1>3 DEF RedisStreamSpec!SForget, RedisEpoch, RedisOffset

\* The Redis engine implements the abstract stream, whichever of the two keys
\* expires first (lib.rs ADD_HISTORY, HISTORY, remove_history).
THEOREM RedisRefinement == RedisSpecification => RedisPromise
<1>1. RedisInit => RedisStreamSpec!SInit
  <2>1. ASSUME RedisInit PROVE List = <<>> /\ Meta = NoMeta /\ now = 1
    BY <2>1 DEF RedisInit, List, Meta
  <2>2. ASSUME RedisInit PROVE RedisIds = <<>>
    <3>1. RedisIds \in Seq(Nat) /\ Stale \in 0..0 /\ Len(RedisIds) = 0 - Stale
      BY <2>1, <2>2, RedisStart, IdsOfList DEF IdsFacts
    <3>. QED  BY <3>1
  <2>. QED  BY <2>1, <2>2 DEF RedisStreamSpec!SInit, RedisEpoch, RedisOffset, NoMeta
<1>2. ASSUME RedisTypeOK, RInv, [RedisNext]_redisVars
      PROVE  [RedisStreamSpec!SNext]_(RedisStreamSpec!svars)
  <2>1. CASE ADD_HISTORY
    BY <1>2, <2>1, AddIsPublish DEF RedisStreamSpec!SNext
  <2>2. CASE HISTORY
    BY <1>2, <2>2, LookIsStutter
  <2>3. CASE DeleteHistory
    BY <1>2, <2>3, DeleteForgets DEF RedisStreamSpec!SNext
  <2>4. CASE RedisTick
    BY <1>2, <2>4, TimeForgets
  <2>5. CASE UNCHANGED redisVars
    BY <2>5 DEF redisVars, RedisStreamSpec!svars, RedisEpoch, RedisOffset, RedisIds, Stale, List,
                Meta, Gone
  <2>. QED  BY <1>2, <2>1, <2>2, <2>3, <2>4, <2>5 DEF RedisNext
<1>3. RedisSpecification => [](RedisTypeOK /\ RInv)
  <2>1. RedisTypeOK /\ RInv /\ [RedisNext]_redisVars => RedisTypeOK' /\ RInv'
    BY AddKeeps, LookKeeps, RestKeeps DEF RedisNext
  <2>. QED  BY <2>1, RedisStart, PTL DEF RedisSpecification
<1>. QED
  BY <1>1, <1>2, <1>3, PTL DEF RedisSpecification, RedisPromise, RedisStreamSpec!SSpec
=============================================================================
