---------------------------- MODULE StreamProofs ----------------------------
(***************************************************************************)
(* The memory engine's stream for every history size, lifetime and meta    *)
(* TTL: its ring is contiguous, and it keeps the promise of StreamSpec.    *)
(***************************************************************************)
EXTENDS MemoryStream, SequenceTheorems, TLAPS

Good(s) ==
  /\ s \in Stream
  /\ EndsAt(s.pubs, s.epoch, s.offset)
  /\ Len(s.pubs) <= s.offset /\ Len(s.pubs) <= HistorySize

LEMMA FreshIsGood ==
  ASSUME NEW e \in Nat
  PROVE  Good(NewStream(e)) /\ NewStream(e).epoch = e /\ NewStream(e).offset = 0
         /\ NewStream(e).pubs = <<>>
BY StreamAssumption DEF Good, NewStream, Stream, EndsAt, Never

\* Popping the oldest publications keeps the ring contiguous.
LEMMA KeptIsTail ==
  ASSUME NEW ring \in Seq(Publication), NEW e \in Nat, NEW top \in Nat,
         EndsAt(ring, e, top)
  PROVE  /\ Kept(ring) \in Seq(Publication)
         /\ EndsAt(Kept(ring), e, top)
         /\ Len(Kept(ring)) <= HistorySize /\ Len(Kept(ring)) <= Len(ring)
         /\ \E k \in 0..Len(ring) : Kept(ring) = SubSeq(ring, k + 1, Len(ring))
<1>. USE StreamAssumption
<1>1. CASE Len(ring) > HistorySize
  <2>. DEFINE k == Len(ring) - HistorySize
              r == SubSeq(ring, k + 1, Len(ring))
  <2>1. k \in 1..Len(ring) /\ Kept(ring) = r
    BY <1>1 DEF Kept
  <2>2. r \in Seq(Publication) /\ Len(r) = HistorySize
        /\ \A i \in 1..HistorySize : r[i] = ring[k + i]
    BY <1>1, <2>1
  <2>3. EndsAt(r, e, top)
    <3>1. ASSUME NEW i \in 1..Len(r)
          PROVE  IF Len(r) < top + i THEN r[i].epoch = e /\ r[i].offset + Len(r) = top + i
                 ELSE r[i].epoch < e
      <4>1. k + i \in 1..Len(ring) /\ r[i] = ring[k + i] /\ Len(r) = Len(ring) - k
        BY <1>1, <2>1, <2>2
      <4>2. r[i] \in Publication
        BY <2>2
      <4>3. r[i].offset \in Nat
        BY <4>2 DEF Publication
      <4>4. IF Len(ring) < top + (k + i)
            THEN r[i].epoch = e /\ r[i].offset + Len(ring) = top + (k + i)
            ELSE r[i].epoch < e
        BY <4>1 DEF EndsAt
      <4>5. Len(ring) \in Nat /\ k \in Nat /\ Len(r) = Len(ring) - k /\ i \in Nat
        BY <2>1, <4>1
      <4>. HIDE DEF k, r
      <4>6. Len(r) < top + i <=> Len(ring) < top + (k + i)
        BY <4>5
      <4>7. r[i].offset + Len(ring) = top + (k + i) => r[i].offset + Len(r) = top + i
        BY <4>3, <4>5
      <4>. QED  BY <4>4, <4>6, <4>7
    <3>. QED  BY <3>1 DEF EndsAt
  <2>4. EndsAt(Kept(ring), e, top) /\ Kept(ring) \in Seq(Publication)
        /\ Len(Kept(ring)) <= HistorySize /\ Len(Kept(ring)) <= Len(ring)
    BY <1>1, <2>1, <2>2, <2>3
  <2>5. \E j \in 0..Len(ring) : Kept(ring) = SubSeq(ring, j + 1, Len(ring))
    <3>1. k \in 0..Len(ring)
      BY <2>1
    <3>2. Kept(ring) = SubSeq(ring, k + 1, Len(ring))
      BY <2>1
    <3>. HIDE DEF k
    <3>. QED  BY <3>1, <3>2
  <2>. QED  BY <2>4, <2>5
<1>2. CASE Len(ring) <= HistorySize
  <2>1. Kept(ring) = ring /\ ring = SubSeq(ring, 0 + 1, Len(ring))
    BY <1>2 DEF Kept
  <2>. QED  BY <1>2, <2>1
<1>. QED  BY <1>1, <1>2

LEMMA TouchedIsGood ==
  ASSUME StreamTypeOK, StreamInv
  PROVE  /\ Good(Touched) /\ Touched.epoch \in 1..(epochs + 1)
         /\ NewEpochs \in Nat /\ Touched.epoch <= NewEpochs /\ epochs <= NewEpochs
         /\ \/ Touched = stream
            \/ /\ Touched.epoch = stream.epoch /\ Touched.offset = stream.offset
               /\ Touched.pubs = <<>>
            \/ Touched = NewStream(epochs + 1)
<1>. USE StreamAssumption DEF StreamTypeOK, StreamInv, RingContiguous, EpochKnown
<1>1. Good(stream)
  BY DEF Good
<1>2. CASE Expired(stream.metaExpireAt) \/ stream.epoch = 0
  <2>1. Touched = NewStream(epochs + 1)
    BY <1>2 DEF Touched, evict_if_expired, NoStream, NewStream, Expired
  <2>. QED  BY <2>1, FreshIsGood DEF NewEpochs
<1>3. CASE ~Expired(stream.metaExpireAt) /\ stream.epoch # 0 /\ Expired(stream.expireAt)
  <2>1. Touched = Cleared(stream)
    BY <1>3 DEF Touched, evict_if_expired, Cleared
  <2>2. /\ Touched \in Stream /\ Touched.pubs = <<>>
        /\ Touched.epoch = stream.epoch /\ Touched.offset = stream.offset
    BY <2>1 DEF Cleared, Stream, Never
  <2>3. /\ EndsAt(Touched.pubs, Touched.epoch, Touched.offset)
        /\ Len(Touched.pubs) <= HistorySize /\ Len(Touched.pubs) <= Touched.offset
    BY <2>2 DEF EndsAt, Stream
  <2>4. Touched.epoch \in 1..(epochs + 1) /\ NewEpochs = epochs
    BY <1>3, <2>2 DEF NewEpochs, Stream
  <2>. QED  BY <2>2, <2>3, <2>4 DEF Good
<1>4. CASE ~Expired(stream.metaExpireAt) /\ stream.epoch # 0 /\ ~Expired(stream.expireAt)
  <2>1. Touched = stream
    BY <1>4 DEF Touched, evict_if_expired
  <2>. QED  BY <1>1, <1>4, <2>1 DEF NewEpochs, Stream
<1>. QED  BY <1>2, <1>3, <1>4

LEMMA AppendedIsGood ==
  ASSUME NEW s, Good(s), NEW p \in Nat, now \in Nat
  PROVE  /\ Good(Appended(s, p))
         /\ Appended(s, p).epoch = s.epoch /\ Appended(s, p).offset = s.offset + 1
         /\ LET ring == Append(s.pubs, [epoch |-> s.epoch, offset |-> s.offset + 1, id |-> p])
            IN  /\ ring \in Seq(Publication)
                /\ Appended(s, p).pubs = Kept(ring)
<1>. USE StreamAssumption DEF Good
<1>. DEFINE pub == [epoch |-> s.epoch, offset |-> s.offset + 1, id |-> p]
            ring == Append(s.pubs, pub)
<1>1. s.pubs \in Seq(Publication) /\ s.epoch \in Nat /\ s.offset \in Nat /\ pub \in Publication
  BY DEF Stream, Publication
<1>2. ring \in Seq(Publication) /\ EndsAt(ring, s.epoch, s.offset + 1) /\ s.offset + 1 \in Nat
      /\ Len(ring) <= s.offset + 1
  <2>1. /\ ring \in Seq(Publication) /\ Len(ring) = Len(s.pubs) + 1
        /\ ring[Len(ring)] = pub
        /\ \A i \in 1..Len(s.pubs) : ring[i] = s.pubs[i]
    BY <1>1
  <2>2. pub.offset = s.offset + 1 /\ pub.epoch = s.epoch
    OBVIOUS
  <2>. HIDE DEF ring, pub
  <2>3. ASSUME NEW i \in 1..Len(ring)
        PROVE  IF Len(ring) < (s.offset + 1) + i
               THEN ring[i].epoch = s.epoch /\ ring[i].offset + Len(ring) = (s.offset + 1) + i
               ELSE ring[i].epoch < s.epoch
    <3>1. CASE i = Len(ring)
      BY <1>1, <2>1, <2>2, <3>1
    <3>2. CASE i # Len(ring)
      <4>1. i \in 1..Len(s.pubs) /\ ring[i] = s.pubs[i]
        BY <1>1, <2>1, <3>2
      <4>2. IF Len(s.pubs) < s.offset + i
            THEN s.pubs[i].epoch = s.epoch /\ s.pubs[i].offset + Len(s.pubs) = s.offset + i
            ELSE s.pubs[i].epoch < s.epoch
        BY <4>1 DEF EndsAt
      <4>3. s.pubs[i] \in Publication
        BY <1>1, <4>1
      <4>4. s.pubs[i].offset \in Nat
        BY <4>3 DEF Publication
      <4>5. /\ Len(s.pubs) \in Nat /\ Len(ring) = Len(s.pubs) + 1 /\ i \in Nat
            /\ s.offset \in Nat
        BY <1>1, <2>1
      <4>6. Len(ring) < (s.offset + 1) + i <=> Len(s.pubs) < s.offset + i
        BY <4>5
      <4>7. s.pubs[i].offset + Len(s.pubs) = s.offset + i
            => s.pubs[i].offset + Len(ring) = (s.offset + 1) + i
        <5>. DEFINE o == s.pubs[i].offset
                    n == Len(s.pubs)
                    m == Len(ring)
                    top == s.offset
        <5>1. o \in Nat /\ n \in Nat /\ m = n + 1 /\ i \in Nat /\ top \in Nat
          BY <4>4, <4>5
        <5>. SUFFICES o + n = top + i => o + m = (top + 1) + i
          OBVIOUS
        <5>. HIDE DEF o, n, m, top
        <5>. QED  BY <5>1
      <4>. QED  BY <4>1, <4>2, <4>6, <4>7
    <3>. QED  BY <3>1, <3>2
  <2>4. Len(ring) <= s.offset + 1
    BY <1>1, <2>1
  <2>. QED  BY <1>1, <2>1, <2>3, <2>4 DEF EndsAt
<1>. HIDE DEF ring
<1>3. /\ Kept(ring) \in Seq(Publication) /\ EndsAt(Kept(ring), s.epoch, s.offset + 1)
      /\ Len(Kept(ring)) <= HistorySize /\ Len(Kept(ring)) <= s.offset + 1
  <2>1. Kept(ring) \in Seq(Publication) /\ Len(Kept(ring)) <= Len(ring)
        /\ EndsAt(Kept(ring), s.epoch, s.offset + 1) /\ Len(Kept(ring)) <= HistorySize
    BY <1>1, <1>2, KeptIsTail
  <2>. QED  BY <1>2, <2>1
<1>4. /\ Appended(s, p) \in Stream /\ Appended(s, p).pubs = Kept(ring)
      /\ Appended(s, p).epoch = s.epoch /\ Appended(s, p).offset = s.offset + 1
  <2>1. s.epoch \in Nat /\ s.offset + 1 \in Nat /\ now + Lifetime \in Nat
        /\ (IF MemoryMetaTTL > 0 THEN now + MemoryMetaTTL ELSE Never) \in Nat
    BY <1>2 DEF Never, Stream
  <2>. QED  BY <1>3, <2>1 DEF Appended, Stream, ring
<1>. QED  BY <1>2, <1>3, <1>4 DEF ring

\* One step of the engine, by operation: used for the stream alone and for the
\* modules that build on it.
LEMMA StreamStep ==
  ASSUME StreamTypeOK, StreamInv, StreamNext \/ UNCHANGED streamVars
  PROVE  StreamTypeOK' /\ StreamInv'
<1>. USE StreamAssumption
<1>1. CASE add_to_history
  <2>1. Good(stream') /\ stream'.epoch = Touched.epoch
    <3>1. Good(Touched) /\ count + 1 \in Nat /\ now \in Nat
      BY TouchedIsGood DEF StreamTypeOK
    <3>2. stream' = Appended(Touched, count + 1)
      BY <1>1 DEF add_to_history, Numbered
    <3>. QED  BY <3>1, <3>2, AppendedIsGood
  <2>2. stream'.epoch # 0 /\ stream'.epoch <= epochs'
    BY <1>1, <2>1, TouchedIsGood DEF add_to_history, Numbered
  <2>. QED
    BY <1>1, <2>1, <2>2, TouchedIsGood
       DEF add_to_history, Numbered, Good, StreamTypeOK, StreamInv, RingContiguous, EpochKnown
<1>2. CASE history
  BY <1>2, TouchedIsGood
     DEF history, Good, StreamTypeOK, StreamInv, RingContiguous, EpochKnown
<1>3. CASE remove_history
  BY <1>3, FreshIsGood
     DEF remove_history, NoStream, Good, StreamTypeOK, StreamInv, RingContiguous, EpochKnown
<1>4. CASE Tick \/ UNCHANGED streamVars
  BY <1>4 DEF Tick, Clock, streamVars, StreamTypeOK, StreamInv, RingContiguous, EpochKnown
<1>. QED  BY <1>1, <1>2, <1>3, <1>4 DEF StreamNext

LEMMA StreamStart == StreamInit => StreamTypeOK /\ StreamInv
BY FreshIsGood DEF StreamInit, NoStream, Good, StreamTypeOK, StreamInv, RingContiguous,
   EpochKnown

\* The stream keeps its type, within history_size, and the ring is the contiguous tail of the
\* stream (memory.rs add_to_history, evict_if_expired).
THEOREM StreamInvariance == StreamSpecification => [](StreamTypeOK /\ RingContiguous)
<1>1. StreamSpecification => [](StreamTypeOK /\ StreamInv)
  BY StreamStart, StreamStep, PTL DEF StreamSpecification
<1>2. StreamInv => RingContiguous
  BY DEF StreamInv
<1>. QED  BY <1>1, <1>2, PTL

-----------------------------------------------------------------------------
(* The refinement.                                                         *)

\* What the ids of a ring are.
LEMMA IdsOfRing ==
  ASSUME stream.pubs \in Seq(Publication)
  PROVE  /\ FoundIds \in Seq(Nat) /\ Len(FoundIds) = Len(stream.pubs)
         /\ \A i \in 1..Len(stream.pubs) : FoundIds[i] = stream.pubs[i].id
<1>. DEFINE q == stream.pubs
<1>1. ASSUME NEW i \in 1..Len(q) PROVE q[i].id \in Nat
  <2>1. q[i] \in Publication
    OBVIOUS
  <2>. QED  BY <2>1 DEF Publication
<1>2. Len(q) \in Nat
  OBVIOUS
<1>. HIDE DEF q
<1>3. FoundIds = [i \in 1..Len(q) |-> q[i].id]
  BY DEF FoundIds, q
<1>. QED  BY <1>1, <1>2, <1>3 DEF q

\* Dropping the k oldest of a window and adding one is a Slide.
LEMMA SlideByIndex ==
  ASSUME NEW w \in Seq(Nat), NEW v \in Seq(Nat), NEW k \in 0..Len(w),
         Len(v) = Len(w) - k + 1,
         \A i \in 1..(Len(w) - k) : v[i] = w[k + i]
  PROVE  v = Promise!Slide(w, k, v)
<1>. DEFINE a == SubSeq(w, k + 1, Len(w))
            z == v[Len(v)]
            b == a \o <<z>>
<1>1. a \in Seq(Nat) /\ Len(a) = Len(w) - k
      /\ \A i \in 1..(Len(w) - k) : a[i] = w[k + i]
  OBVIOUS
<1>2. z \in Nat
  OBVIOUS
<1>3. z = v[Len(v)]
  OBVIOUS
<1>. HIDE DEF a, z
<1>4. /\ b \in Seq(Nat) /\ Len(b) = Len(v)
      /\ \A i \in 1..Len(a) : b[i] = a[i]
      /\ b[Len(a) + 1] = z
  BY <1>1, <1>2
<1>. HIDE DEF b
<1>5. ASSUME NEW i \in 1..Len(v) PROVE v[i] = b[i]
  <2>1. CASE i = Len(v)
    BY <1>1, <1>3, <1>4, <2>1
  <2>2. CASE i # Len(v)
    <3>1. i \in 1..(Len(w) - k) /\ i \in 1..Len(a)
      BY <1>1, <2>2
    <3>. QED  BY <1>1, <1>4, <3>1
  <2>. QED  BY <2>1, <2>2
<1>6. v = b
  BY <1>4, <1>5, SeqEqual
<1>. QED  BY <1>6 DEF Promise!Slide, a, z, b

\* What an append leaves of a ring.
LEMMA AppendSlides ==
  ASSUME NEW q \in Seq(Publication), NEW pub \in Publication, NEW r,
         r = Kept(Append(q, pub))
  PROVE  /\ Len(r) \in 1..(Len(q) + 1)
         /\ \A i \in 1..(Len(r) - 1) : r[i] = q[Len(q) + 1 - Len(r) + i]
<1>. DEFINE g == Append(q, pub)
<1>1. g \in Seq(Publication) /\ Len(g) = Len(q) + 1
      /\ \A i \in 1..Len(q) : g[i] = q[i]
  OBVIOUS
<1>. HIDE DEF g
<1>2. CASE Len(g) > HistorySize
  <2>1. Kept(g) = SubSeq(g, Len(g) - HistorySize + 1, Len(g))
    BY <1>2 DEF Kept
  <2>2. Len(Kept(g)) = HistorySize
        /\ \A i \in 1..HistorySize : Kept(g)[i] = g[Len(g) - HistorySize + i]
    BY <1>1, <1>2, <2>1, StreamAssumption
  <2>. QED  BY <1>1, <1>2, <2>2, StreamAssumption DEF g
<1>3. CASE ~(Len(g) > HistorySize)
  <2>1. Kept(g) = g
    BY <1>3 DEF Kept
  <2>. QED  BY <1>1, <2>1 DEF g
<1>. QED  BY <1>2, <1>3

\* What is found, before and after a step.
FoundFacts ==
  /\ FoundOffset = stream.offset /\ FoundEpoch \in Nat /\ FoundOffset \in Nat
  /\ FoundEpoch <= epochs + 1
  /\ (stream.epoch # 0 => FoundEpoch = stream.epoch /\ FoundEpoch <= epochs)
  /\ (stream.epoch = 0 => FoundEpoch = epochs + 1 /\ FoundOffset = 0 /\ FoundIds = <<>>)
  /\ FoundIds \in Seq(Nat) /\ Len(FoundIds) = Len(stream.pubs)
  /\ \A i \in 1..Len(stream.pubs) : FoundIds[i] = stream.pubs[i].id
  /\ (stream.pubs = <<>> => FoundIds = <<>>)

LEMMA FoundHolds == StreamTypeOK /\ StreamInv => FoundFacts
<1>. SUFFICES ASSUME StreamTypeOK, StreamInv PROVE FoundFacts
  OBVIOUS
<1>1. /\ stream.epoch \in Nat /\ stream.offset \in Nat /\ stream.pubs \in Seq(Publication)
      /\ epochs \in Nat
  BY DEF StreamTypeOK, Stream
<1>2. /\ FoundIds \in Seq(Nat) /\ Len(FoundIds) = Len(stream.pubs)
      /\ \A i \in 1..Len(stream.pubs) : FoundIds[i] = stream.pubs[i].id
  BY <1>1, IdsOfRing
<1>3. stream.pubs = <<>> => FoundIds = <<>>
  BY <1>2
<1>4. stream.epoch = 0 => stream.offset = 0 /\ stream.pubs = <<>>
  BY DEF StreamInv, EpochKnown, NoStream, NewStream
<1>. QED
  BY <1>1, <1>2, <1>3, <1>4 DEF FoundFacts, FoundEpoch, FoundOffset, StreamInv, EpochKnown

LEMMA FoundNext == StreamTypeOK' /\ StreamInv' => FoundFacts'
BY FoundHolds, PTL

\* An append is a publication of the promise.
LEMMA AppendRefines ==
  ASSUME StreamTypeOK, StreamInv, StreamTypeOK', StreamInv', add_to_history
  PROVE  Promise!SPublish
<1>. DEFINE t == Touched
            pub == [epoch |-> t.epoch, offset |-> t.offset + 1, id |-> count + 1]
            r == stream'.pubs
<1>1. stream' = Appended(t, count + 1) /\ epochs' = NewEpochs
  BY DEF add_to_history, Numbered
<1>2. Good(t) /\ count + 1 \in Nat /\ now \in Nat /\ t.epoch # 0
  BY TouchedIsGood DEF StreamTypeOK
<1>3. /\ stream'.epoch = t.epoch /\ stream'.offset = t.offset + 1
      /\ r = Kept(Append(t.pubs, pub))
  BY <1>1, <1>2, AppendedIsGood
<1>4. t.pubs \in Seq(Publication) /\ pub \in Publication /\ t.offset \in Nat
      /\ stream.pubs \in Seq(Publication) /\ r \in Seq(Publication) /\ epochs \in Nat
  BY <1>2 DEF Good, Stream, Publication, StreamTypeOK
<1>. HIDE DEF pub, t, r
<1>5. Len(r) \in 1..(Len(t.pubs) + 1)
      /\ \A i \in 1..(Len(r) - 1) : r[i] = t.pubs[Len(t.pubs) + 1 - Len(r) + i]
  <2>. DEFINE q == t.pubs
  <2>1. q \in Seq(Publication) /\ r = Kept(Append(q, pub)) /\ pub \in Publication
    BY <1>3, <1>4
  <2>. HIDE DEF q
  <2>2. Len(r) \in 1..(Len(q) + 1)
        /\ \A i \in 1..(Len(r) - 1) : r[i] = q[Len(q) + 1 - Len(r) + i]
    BY <2>1, AppendSlides
  <2>. QED  BY <2>2 DEF q
<1>6. /\ FoundEpoch' = t.epoch /\ FoundOffset' = t.offset + 1
      /\ FoundIds' \in Seq(Nat) /\ Len(FoundIds') = Len(r)
      /\ \A i \in 1..Len(r) : FoundIds'[i] = r[i].id
      /\ FoundEpoch' \in Nat
  BY <1>2, <1>3, FoundNext DEF FoundFacts, r
<1>7. CASE t = NewStream(epochs + 1) /\ stream.epoch # 0
  <2>1. t.epoch = epochs + 1 /\ t.offset = 0 /\ t.pubs = <<>>
    BY <1>4, <1>7, FreshIsGood
  <2>2. FoundEpoch' > FoundEpoch
    BY <1>4, <1>6, <1>7, <2>1, FoundHolds DEF FoundFacts
  <2>. QED  BY <1>5, <1>6, <2>1, <2>2 DEF Promise!SPublish
<1>8. CASE ~(t = NewStream(epochs + 1) /\ stream.epoch # 0)
  <2>1. FoundEpoch = t.epoch /\ FoundOffset = t.offset /\ Len(t.pubs) <= Len(FoundIds)
        /\ (t.pubs = <<>> \/ \A i \in 1..Len(FoundIds) : FoundIds[i] = t.pubs[i].id)
        /\ FoundIds \in Seq(Nat) /\ (t.pubs # <<>> => Len(FoundIds) = Len(t.pubs))
    <3>1. CASE stream.epoch = 0
      <4>1. t = NewStream(epochs + 1)
        BY <1>2, <3>1, TouchedIsGood, FreshIsGood
           DEF t, Touched, evict_if_expired, NoStream, NewStream, StreamInv, EpochKnown,
               Expired, Never
      <4>. QED  BY <1>4, <3>1, <4>1, FoundHolds, FreshIsGood DEF FoundFacts
    <3>2. CASE stream.epoch # 0
      <4>1. \/ t = stream
            \/ t.epoch = stream.epoch /\ t.offset = stream.offset /\ t.pubs = <<>>
        BY <1>8, <3>2, TouchedIsGood DEF t
      <4>2. /\ FoundEpoch = stream.epoch /\ FoundOffset = stream.offset
            /\ FoundIds \in Seq(Nat) /\ Len(FoundIds) = Len(stream.pubs)
            /\ \A i \in 1..Len(stream.pubs) : FoundIds[i] = stream.pubs[i].id
        BY <3>2, FoundHolds DEF FoundFacts
      <4>3. CASE t = stream
        BY <4>2, <4>3
      <4>4. CASE t.epoch = stream.epoch /\ t.offset = stream.offset /\ t.pubs = <<>>
        <5>1. Len(t.pubs) = 0 /\ Len(FoundIds) \in Nat
          BY <4>2, <4>4
        <5>. QED  BY <4>2, <4>4, <5>1
      <4>. QED  BY <4>1, <4>3, <4>4
    <3>. QED  BY <3>1, <3>2
  <2>. DEFINE k == Len(FoundIds) + 1 - Len(r)
  <2>2. k \in 0..Len(FoundIds) /\ Len(FoundIds') = Len(FoundIds) - k + 1
        /\ \A i \in 1..(Len(FoundIds) - k) : FoundIds'[i] = FoundIds[k + i]
    <3>1. CASE t.pubs = <<>>
      <4>1. Len(t.pubs) = 0
        BY <3>1
      <4>2. Len(r) = 1
        BY <1>5, <4>1
      <4>. QED  BY <1>6, <2>1, <4>2
    <3>2. CASE t.pubs # <<>>
      <4>1. /\ Len(FoundIds) = Len(t.pubs)
            /\ \A i \in 1..Len(FoundIds) : FoundIds[i] = t.pubs[i].id
        BY <2>1, <3>2
      <4>2. k \in 0..Len(FoundIds) /\ Len(FoundIds') = Len(FoundIds) - k + 1
        BY <1>4, <1>5, <1>6, <2>1, <4>1
      <4>3. ASSUME NEW i \in 1..(Len(FoundIds) - k) PROVE FoundIds'[i] = FoundIds[k + i]
        <5>1. /\ Len(r) \in Nat /\ Len(t.pubs) \in Nat /\ Len(FoundIds) = Len(t.pubs)
              /\ Len(r) >= 1 /\ Len(r) <= Len(t.pubs) + 1 /\ i \in Int /\ 1 <= i
              /\ i <= Len(FoundIds) - k /\ k = Len(FoundIds) + 1 - Len(r)
          BY <1>4, <1>5, <4>1
        <5>2. /\ i \in 1..(Len(r) - 1) /\ i \in 1..Len(r) /\ k + i \in 1..Len(FoundIds)
              /\ k + i = Len(t.pubs) + 1 - Len(r) + i
          <6>. DEFINE a == Len(r)
                      b == Len(t.pubs)
                      c == Len(FoundIds)
          <6>. SUFFICES i \in 1..(a - 1) /\ i \in 1..a /\ k + i \in 1..c /\ k + i = b + 1 - a + i
            OBVIOUS
          <6>1. /\ a \in Nat /\ b \in Nat /\ c = b /\ a >= 1 /\ a <= b + 1
                /\ i \in Int /\ 1 <= i /\ i <= c - k /\ k = c + 1 - a
            BY <5>1
          <6>. HIDE DEF a, b, c, k
          <6>. QED  BY <6>1
        <5>. QED  BY <1>5, <1>6, <4>1, <5>2
      <4>. QED  BY <4>2, <4>3
    <3>. QED  BY <3>1, <3>2
  <2>. HIDE DEF k
  <2>3. FoundIds' = Promise!Slide(FoundIds, k, FoundIds')
    BY <1>6, <2>1, <2>2, SlideByIndex
  <2>. QED  BY <1>6, <2>1, <2>2, <2>3 DEF Promise!SPublish
<1>. QED  BY <1>7, <1>8

\* A look at the stream renews it, forgets its publications or changes nothing.
LEMMA LookRefines ==
  ASSUME StreamTypeOK, StreamInv, StreamTypeOK', StreamInv', history
  PROVE  [Promise!SNext]_(Promise!svars)
<1>. DEFINE t == Touched
<1>1. stream' = t /\ epochs' = NewEpochs /\ epochs \in Nat
  BY DEF history, StreamTypeOK
<1>2. t.epoch # 0 /\ t.epoch \in Nat
  BY <1>1, TouchedIsGood
<1>3. /\ FoundEpoch' = t.epoch /\ FoundOffset' = t.offset
      /\ (t.pubs = <<>> => FoundIds' = <<>>)
  BY <1>1, <1>2, FoundNext DEF FoundFacts
<1>4. CASE stream.epoch = 0
  <2>1. t = NewStream(epochs + 1)
    BY <1>4 DEF t, Touched, evict_if_expired, NoStream, NewStream, StreamInv, EpochKnown,
                Expired, Never
  <2>2. t.epoch = epochs + 1 /\ t.offset = 0 /\ t.pubs = <<>>
    BY <1>1, <2>1, FreshIsGood
  <2>. QED  BY <1>3, <1>4, <2>2, FoundHolds DEF FoundFacts, Promise!svars
<1>5. CASE stream.epoch # 0 /\ t = NewStream(epochs + 1)
  <2>1. t.epoch = epochs + 1 /\ t.offset = 0 /\ t.pubs = <<>>
    BY <1>1, <1>5, FreshIsGood
  <2>2. FoundEpoch' > FoundEpoch /\ FoundEpoch' \in Nat
    BY <1>1, <1>3, <1>5, <2>1, FoundHolds DEF FoundFacts
  <2>. QED  BY <1>3, <2>1, <2>2 DEF Promise!SNext, Promise!SRenew
<1>6. CASE stream.epoch # 0 /\ t = stream
  <2>1. FoundEpoch' = FoundEpoch /\ FoundOffset' = FoundOffset
    BY <1>3, <1>6, FoundHolds DEF FoundFacts
  <2>2. FoundIds' = FoundIds
    BY <1>1, <1>6 DEF FoundIds
  <2>. QED  BY <2>1, <2>2 DEF Promise!svars
<1>7. CASE /\ stream.epoch # 0 /\ t.epoch = stream.epoch /\ t.offset = stream.offset
           /\ t.pubs = <<>>
  BY <1>3, <1>7, FoundHolds DEF FoundFacts, Promise!SNext, Promise!SForget
<1>. QED  BY <1>4, <1>5, <1>6, <1>7, TouchedIsGood

\* The memory engine implements the abstract stream: within an epoch offsets are
\* handed out one by one and the latest publications are retained, and a stream
\* that is lost is never continued under its epoch (memory.rs add_to_history,
\* evict_if_expired, history, remove_history).
THEOREM Refinement == StreamSpecification => StreamPromise
<1>1. StreamInit => Promise!SInit
  <2>1. ASSUME StreamInit PROVE FoundEpoch = 1 /\ FoundOffset = 0 /\ FoundIds = <<>>
    <3>1. StreamTypeOK /\ StreamInv /\ stream.epoch = 0 /\ epochs = 0
      BY <2>1, StreamStart DEF StreamInit, NoStream, NewStream
    <3>. QED  BY <3>1, FoundHolds DEF FoundFacts
  <2>. QED  BY <2>1 DEF Promise!SInit
<1>2. ASSUME StreamTypeOK, StreamInv, StreamTypeOK', StreamInv', [StreamNext]_streamVars
      PROVE  [Promise!SNext]_(Promise!svars)
  <2>1. CASE add_to_history
    BY <1>2, <2>1, AppendRefines DEF Promise!SNext
  <2>2. CASE history
    BY <1>2, <2>2, LookRefines
  <2>3. CASE remove_history
    <3>1. stream' = NoStream /\ stream.epoch # 0 /\ epochs' = epochs
      BY <2>3 DEF remove_history
    <3>2. stream'.epoch = 0 /\ epochs \in Nat
      BY <1>2, <3>1 DEF NoStream, NewStream, StreamTypeOK
    <3>3. /\ FoundEpoch' = epochs + 1 /\ FoundOffset' = 0 /\ FoundIds' = <<>>
          /\ FoundEpoch <= epochs /\ FoundEpoch \in Nat
      BY <1>2, <3>1, <3>2, FoundHolds, FoundNext DEF FoundFacts
    <3>. QED  BY <3>2, <3>3 DEF Promise!SNext, Promise!SRenew
  <2>4. CASE Tick \/ UNCHANGED streamVars
    BY <2>4 DEF Tick, Clock, streamVars, Promise!svars, FoundEpoch, FoundOffset, FoundIds
  <2>. QED  BY <1>2, <2>1, <2>2, <2>3, <2>4 DEF StreamNext
<1>3. StreamSpecification => [](StreamTypeOK /\ StreamInv)
  BY StreamStart, StreamStep, PTL DEF StreamSpecification
<1>. QED  BY <1>1, <1>2, <1>3, PTL DEF StreamSpecification, StreamPromise, Promise!SSpec

-----------------------------------------------------------------------------
(* Positions with memory_history_meta_ttl 0.                               *)

\* No deadline is ever set on a stream that is kept for ever.
NoDeadline == MemoryMetaTTL = 0 => stream.metaExpireAt = Never

LEMMA TouchedNoDeadline ==
  ASSUME StreamTypeOK, StreamInv, NoDeadline, MemoryMetaTTL = 0
  PROVE  Touched.metaExpireAt = Never
BY DEF NoDeadline, Touched, evict_if_expired, Cleared, NewStream, NoStream, Expired, Never,
       StreamInv, EpochKnown

LEMMA TouchedKeepsPosition ==
  ASSUME StreamTypeOK, ~Expired(stream.metaExpireAt), stream.epoch # 0
  PROVE  Touched.epoch = stream.epoch /\ Touched.offset = stream.offset
BY DEF Touched, evict_if_expired, Cleared

\* Before its meta deadline, and for ever with memory_history_meta_ttl 0, neither
\* a publication nor a reader moves the position of a stream back or changes its
\* epoch, however long its publications have been gone (memory.rs
\* evict_if_expired).
THEOREM PositionTheorem == StreamSpecification => PositionSurvives
<1>1. StreamInit => NoDeadline
  BY DEF StreamInit, NoDeadline, NoStream, NewStream
<1>2. ASSUME StreamTypeOK, StreamInv, NoDeadline, [StreamNext]_streamVars
      PROVE  NoDeadline'
  <2>1. CASE add_to_history
    BY <2>1 DEF add_to_history, Numbered, Appended, NoDeadline
  <2>2. CASE history
    BY <1>2, <2>2, TouchedNoDeadline DEF history, NoDeadline
  <2>3. CASE remove_history
    BY <2>3 DEF remove_history, NoDeadline, NoStream, NewStream
  <2>4. CASE Tick \/ UNCHANGED streamVars
    BY <1>2, <2>4 DEF Tick, Clock, streamVars, NoDeadline
  <2>. QED  BY <1>2, <2>1, <2>2, <2>3, <2>4 DEF StreamNext
<1>3. ASSUME StreamTypeOK, StreamInv, NoDeadline, [StreamNext]_streamVars
      PROVE  [(MemoryMetaTTL = 0 \/ ~Expired(stream.metaExpireAt)) /\ ~remove_history
              /\ stream.epoch # 0 =>
                stream'.epoch = stream.epoch /\ stream'.offset >= stream.offset]_streamVars
  <2>. SUFFICES ASSUME MemoryMetaTTL = 0 \/ ~Expired(stream.metaExpireAt),
                       ~remove_history, stream.epoch # 0
                PROVE  stream'.epoch = stream.epoch /\ stream'.offset >= stream.offset
    OBVIOUS
  <2>1. ~Expired(stream.metaExpireAt)
    BY <1>3 DEF NoDeadline, Expired, Never
  <2>2. stream.offset \in Nat /\ Touched.epoch = stream.epoch
        /\ Touched.offset = stream.offset
    BY <1>3, <2>1, TouchedKeepsPosition DEF StreamTypeOK, Stream
  <2>3. CASE add_to_history
    BY <2>2, <2>3 DEF add_to_history, Numbered, Appended
  <2>4. CASE history
    BY <2>2, <2>4 DEF history
  <2>5. CASE Tick \/ UNCHANGED streamVars
    BY <2>2, <2>5 DEF Tick, Clock, streamVars
  <2>. QED  BY <1>3, <2>3, <2>4, <2>5 DEF StreamNext
<1>4. StreamSpecification => [](StreamTypeOK /\ StreamInv)
  BY StreamStart, StreamStep, PTL DEF StreamSpecification
<1>5. StreamSpecification => []NoDeadline
  BY <1>1, <1>2, <1>4, PTL DEF StreamSpecification
<1>. QED  BY <1>3, <1>4, <1>5, PTL DEF StreamSpecification, PositionSurvives
=============================================================================
