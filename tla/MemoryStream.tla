---------------------------- MODULE MemoryStream ----------------------------
(***************************************************************************)
(* The history stream of one channel in the memory engine                  *)
(* (centrifugo-core/src/memory.rs).  Every operation runs under the engine *)
(* lock, so each is one step; streams of different channels do not touch   *)
(* each other.  A stream is created by whoever looks at it first, publisher*)
(* or reader, and expires lazily: the two deadlines are looked at only when*)
(* an operation comes by.                                                  *)
(*                                                                         *)
(* The random epoch of a new stream is abstracted to a number never used   *)
(* before, a publication to its number in the order of appending.          *)
(***************************************************************************)
EXTENDS StreamBase

VARIABLES
  stream,   \* the channel's entry in MemoryEngine.history
  epochs    \* epochs ever generated

streamVars == <<now, stream, epochs, count>>

\* A deadline that never comes is i64::MAX in the code.
Expired(t) == t # Never /\ now > t

Stream == [epoch : Nat, offset : Nat, pubs : Seq(Publication),
           expireAt : Nat, metaExpireAt : Nat]

NewStream(e) ==
  [epoch |-> e, offset |-> 0, pubs |-> <<>>, expireAt |-> Never, metaExpireAt |-> Never]

\* No entry: epochs start at 1.
NoStream == NewStream(0)

StreamTypeOK ==
  /\ now \in Nat \ {0}
  /\ stream \in Stream /\ Len(stream.pubs) <= HistorySize
  /\ epochs \in Nat
  /\ count \in Nat

StreamInit ==
  /\ now = 1
  /\ stream = NoStream
  /\ epochs = 0
  /\ count = 0

-----------------------------------------------------------------------------

\* Slips: a stream whose meta expired starts again under its old epoch; the
\* history deadline is taken for the meta deadline.
EvictKeepsEpoch(s) ==
  IF Expired(s.metaExpireAt) THEN NewStream(s.epoch)
  ELSE IF Expired(s.expireAt) THEN [s EXCEPT !.pubs = <<>>] ELSE s
EvictWhole(s) ==
  IF Expired(s.metaExpireAt) \/ Expired(s.expireAt) THEN NoStream ELSE s

\* The publications are forgotten, the position is not.
Cleared(s) == [epoch |-> s.epoch, offset |-> s.offset, pubs |-> <<>>,
               expireAt |-> Never, metaExpireAt |-> s.metaExpireAt]

evict_if_expired(s) ==
  IF Expired(s.metaExpireAt) THEN NoStream
  ELSE IF Expired(s.expireAt) THEN Cleared(s)
  ELSE s

\* What every operation works on: the entry after eviction, created if absent.
Touched ==
  LET s == evict_if_expired(stream)
  IN  IF s.epoch = 0 THEN NewStream(epochs + 1) ELSE s

\* The ring after its oldest publications were popped down to history_size.
Kept(ring) ==
  IF Len(ring) > HistorySize
  THEN SubSeq(ring, Len(ring) - HistorySize + 1, Len(ring)) ELSE ring

Appended(s, p) ==
  [epoch |-> s.epoch,
   offset |-> s.offset + 1,
   pubs |-> Kept(Append(s.pubs, [epoch |-> s.epoch, offset |-> s.offset + 1, id |-> p])),
   expireAt |-> now + Lifetime,
   metaExpireAt |-> IF MemoryMetaTTL > 0 THEN now + MemoryMetaTTL ELSE Never]

\* Positions in the ring of what history_since returns.
Since(s, offset, epoch) ==
  IF s.offset = offset /\ s.epoch = epoch THEN {}
  ELSE {i \in 1..Len(s.pubs) : s.pubs[i].offset > offset}

NewEpochs == IF Touched.epoch > epochs THEN Touched.epoch ELSE epochs

add_to_history ==
  /\ Numbered
  /\ stream' = Appended(Touched, count + 1)
  /\ epochs' = NewEpochs

\* history and history_since leave the same entry behind.
history ==
  /\ stream' = Touched
  /\ epochs' = NewEpochs
  /\ UNCHANGED <<now, count>>

\* Removing an absent entry changes nothing.
remove_history ==
  /\ epochs <= MaxEpochs
  /\ stream.epoch # 0
  /\ stream' = NoStream
  /\ UNCHANGED <<now, epochs, count>>

Tick == Clock /\ UNCHANGED <<stream, epochs>>

StreamNext == add_to_history \/ history \/ remove_history \/ Tick

StreamSpecification == StreamInit /\ [][StreamNext]_streamVars

-----------------------------------------------------------------------------
(* Properties.                                                             *)

\* The ring is the tail of the stream, whatever was evicted in between: it holds
\* nothing of an earlier stream, its offsets end at the top and have no holes, so
\* the first publication after a position tells whether anything was lost
\* (memory.rs Stream, client.rs on_subscribe).
RingContiguous ==
  /\ Len(stream.pubs) <= stream.offset
  /\ EndsAt(stream.pubs, stream.epoch, stream.offset)

\* No epoch is served before it is generated, and an absent entry is empty.
EpochKnown == stream.epoch <= epochs /\ (stream.epoch = 0 => stream = NoStream)

StreamInv == RingContiguous /\ EpochKnown

\* The stream a reader would find: an absent entry stands for the stream its
\* next visitor creates.
FoundEpoch == IF stream.epoch = 0 THEN epochs + 1 ELSE stream.epoch
FoundOffset == stream.offset
FoundIds == [i \in 1..Len(stream.pubs) |-> stream.pubs[i].id]

\* The memory engine keeps the promise of StreamSpec.
Promise == INSTANCE StreamSpec WITH
  epoch <- FoundEpoch, top <- FoundOffset, window <- FoundIds

\* Every step of the memory engine is a step of the promise or none: offsets of
\* an epoch are handed out once, in order, and a lost stream is never continued
\* under its old epoch (memory.rs add_to_history, evict_if_expired).
StreamPromise == Promise!SSpec

\* The position of a stream is never lost or moved back while its meta lives,
\* for ever when memory_history_meta_ttl is 0, however long its publications
\* have been gone; only history_remove does that (memory.rs evict_if_expired, the
\* README's "History meta-TTL is decoupled from history_lifetime").
PositionSurvives ==
  [][(MemoryMetaTTL = 0 \/ ~Expired(stream.metaExpireAt)) /\ ~remove_history /\ stream.epoch # 0 =>
       stream'.epoch = stream.epoch /\ stream'.offset >= stream.offset]_streamVars
=============================================================================
