----------------------------- MODULE StreamSpec -----------------------------
(***************************************************************************)
(* What a channel's history stream promises to those who read it, engine   *)
(* aside: a position (epoch, offset) names one publication for ever.       *)
(* Within an epoch the top offset grows by one per publication and the     *)
(* retained publications are the latest ones, without holes; when a stream *)
(* is lost it starts again at 0 under an epoch never used before.          *)
(***************************************************************************)
EXTENDS Naturals, Sequences

VARIABLES
  epoch,    \* the name of the current stream
  top,      \* the offset of its latest publication, 0 if it has none
  window    \* the publications retained, oldest first; the last one is at top

svars == <<epoch, top, window>>

SInit == epoch = 1 /\ top = 0 /\ window = <<>>

\* w with its oldest k publications gone and one more, the last of v.
Slide(w, k, v) == SubSeq(w, k + 1, Len(w)) \o <<v[Len(v)]>>

\* One more publication, on this stream or as the first one of a new stream.
SPublish ==
  \/ /\ epoch' = epoch
     /\ top' = top + 1
     /\ \E k \in 0..Len(window) : window' = Slide(window, k, window')
  \/ /\ epoch' \in Nat /\ epoch' > epoch
     /\ top' = 1
     /\ Len(window') = 1

\* Retained publications expire; the position stays.
SForget == window' = <<>> /\ UNCHANGED <<epoch, top>>

\* The stream is lost.
SRenew ==
  /\ epoch' \in Nat /\ epoch' > epoch
  /\ top' = 0
  /\ window' = <<>>

SNext == SPublish \/ SForget \/ SRenew

SSpec == SInit /\ [][SNext]_svars
=============================================================================
