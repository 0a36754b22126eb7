--------------------------- MODULE ServicesProofs ---------------------------
(***************************************************************************)
(* What the parts of Services promise, for any values of their constants:  *)
(* KeysFollow of the key set, GlobAgrees of the check of origins and       *)
(* BatchIsPlanned of the API.                                              *)
(*                                                                         *)
(* The keys: fetches follow one another, so a document that is under way   *)
(* can be out of date about a key only by a change that came after it was  *)
(* made, and such a change is younger than the fetch.  From there each     *)
(* phase adds its own length to the age of a change that did not arrive.   *)
(*                                                                         *)
(* The origins: every reading of the text by the pattern gives the last    *)
(* star the loop met at least what the loop gives it, and where the loop   *)
(* is stuck it gives it more, so going back to that star loses none.       *)
(*                                                                         *)
(* The API: the calls made are what the commands taken ask for, but for    *)
(* what is left of the last one.                                           *)
(***************************************************************************)
EXTENDS Tokens, Api, Origin, SequenceTheorems, WellFoundedInduction, TLAPS

-----------------------------------------------------------------------------
(* Induction.                                                              *)

\* Over a range, for a set in place of a predicate.
LEMMA RangeInduction ==
  ASSUME NEW a \in Nat, NEW b \in Nat, NEW S, a \in S,
         \A n \in a..b : n \in S /\ n + 1 \in a..b => n + 1 \in S
  PROVE  a..b \subseteq S
<1>. DEFINE R == OpToRel(<, Nat)
            T == {n \in a..b : n \notin S}
<1>. SUFFICES ASSUME T # {} PROVE FALSE
  OBVIOUS
<1>1. IsWellFoundedOn(R, Nat)
  BY NatLessThanWellFounded, Zenon
<1>2. T \subseteq Nat
  OBVIOUS
<1>. HIDE DEF R, T
<1>3. PICK x \in T : \A y \in T : ~ (<<y, x>> \in R)
  BY <1>1, <1>2, WFMin
<1>4. x \in a..b /\ x \notin S /\ x # a
  BY DEF T
<1>5. x - 1 \in a..b /\ x - 1 \in Nat /\ (x - 1) + 1 = x /\ x - 1 < x
  BY <1>4
<1>6. x - 1 \notin S
  BY <1>4, <1>5
<1>7. x - 1 \in T
  BY <1>5, <1>6 DEF T
<1>8. <<x - 1, x>> \in R
  BY <1>4, <1>5 DEF R, OpToRel
<1>. QED  BY <1>3, <1>7, <1>8

\* f begins with b, and g makes each of its values of the one before.
Iteration(f, n, S, b, g) ==
  f \in [0..n -> S] /\ f[0] = b /\ \A i \in 1..n : f[i] = g[<<i, f[i - 1]>>]
StepOn(g, n, S) == g \in [(1..n) \X S -> S]

\* A function may be defined step by step.
LEMMA Iterates ==
  ASSUME NEW n \in Nat, NEW S, NEW b \in S, NEW g, StepOn(g, n, S)
  PROVE  \E f : Iteration(f, n, S, b, g)
<1>. USE DEF StepOn
<1>. DEFINE T == {k \in 0..n : \E f : Iteration(f, k, S, b, g)}
<1>1. 0 \in T
  <2>f. PICK f : f = [i \in 0..0 |-> b]
    OBVIOUS
  <2>1. f \in [0..0 -> S] /\ f[0] = b /\ 1..0 = {}
    BY <2>f
  <2>2. Iteration(f, 0, S, b, g)
    BY <2>1 DEF Iteration
  <2>. QED  BY <2>2
<1>2. ASSUME NEW k \in 0..n, k \in T, k + 1 \in 0..n PROVE k + 1 \in T
  <2>1. PICK f : Iteration(f, k, S, b, g)
    BY <1>2
  <2>. DEFINE v == g[<<k + 1, f[k]>>]
              h == [i \in 0..(k + 1) |-> IF i = k + 1 THEN v ELSE f[i]]
  <2>i. f \in [0..k -> S] /\ f[0] = b /\ \A i \in 1..k : f[i] = g[<<i, f[i - 1]>>]
    BY <2>1 DEF Iteration
  <2>2. f[k] \in S /\ k + 1 \in 1..n
    BY <1>2, <2>i
  <2>3. v \in S
    BY <2>2
  <2>4. h \in [0..(k + 1) -> S] /\ h[k + 1] = v /\ \A i \in 0..k : h[i] = f[i]
    BY <2>i, <2>3
  <2>. HIDE DEF h
  <2>5. ASSUME NEW i \in 1..(k + 1) PROVE h[i] = g[<<i, h[i - 1]>>]
    <3>1. i - 1 \in 0..k /\ (i \in 1..k \/ i = k + 1)
      OBVIOUS
    <3>2. CASE i = k + 1
      BY <2>4, <3>1, <3>2
    <3>3. CASE i \in 1..k
      BY <2>i, <2>4, <3>1, <3>3
    <3>. QED  BY <3>1, <3>2, <3>3
  <2>6. h[0] = b
    BY <2>i, <2>4
  <2>. HIDE DEF v
  <2>7. Iteration(h, k + 1, S, b, g)
    BY <2>4, <2>5, <2>6 DEF Iteration
  <2>. QED  BY <1>2, <2>7
<1>3. 0..n \subseteq T
  <2>. HIDE DEF T
  <2>. QED  BY <1>1, <1>2, RangeInduction
<1>. QED  BY <1>3

-----------------------------------------------------------------------------
(* The key set.                                                            *)

TokensSpec == TokensInit /\ [][TokensNext]_tokenVars

\* The document under way says of k what the endpoint says now.
Agrees(k) == (k \in body.keys) = (k \in served)

\* A request that is not answered counts as failed, and holds up the task.
Hanging == hung => fetch = "asking" /\ \A k \in Keys : failed[k]

\* Timers run out where the phase ends.
Timely ==
  /\ fetch = "sleeping" => timer <= Refresh
  /\ fetch \in {"asking", "answered"} => timer <= Latency

\* What was installed is in effect, and not about to be undone.
InEffect(k) ==
  applied[k] =>
    /\ k \in Usable => (k \in jwks <=> k \in served)
    /\ fetch = "answered" /\ body.valid => Agrees(k)

\* The age of a change that has not arrived, phase by phase.
Young(k) ==
  ~failed[k] /\ ~applied[k] =>
    /\ fetch = "sleeping" => since[k] <= Latency + timer
    /\ fetch \in {"asking", "answered"} => since[k] <= Latency + Refresh + timer
    /\ fetch = "answered" /\ body.valid /\ ~Agrees(k) => since[k] <= timer

TInv ==
  /\ TokensTypeOK
  /\ Hanging /\ Timely
  /\ \A k \in Keys : InEffect(k) /\ Young(k)

-----------------------------------------------------------------------------

LEMMA TokensStart == TokensInit => TInv
<1> USE TokensAssumption
<1> SUFFICES ASSUME TokensInit PROVE TInv
  OBVIOUS
<1>1. TokensTypeOK
  <2>1. body \in [keys : SUBSET Keys, valid : BOOLEAN]
    BY DEF TokensInit, Garbage
  <2>2. since \in [Keys -> 0..Bound + 1] /\ timer \in 0..Refresh + Latency
    BY DEF TokensInit, Bound
  <2> QED BY <2>1, <2>2 DEF TokensInit, TokensTypeOK
<1>2. Hanging /\ Timely
  BY DEF TokensInit, Hanging, Timely
<1>3. ASSUME NEW k \in Keys PROVE InEffect(k) /\ Young(k)
  BY <1>3 DEF TokensInit, Garbage, InEffect, Young
<1> QED BY <1>1, <1>2, <1>3 DEF TInv

\* The endpoint's steps: a change is new, an answer is true.
LEMMA EndpointStep ==
  ASSUME TInv, (\E k \in Keys : Rotate(k)) \/ Respond \/ RespondBadly \/ Hang
  PROVE  TInv'
<1> USE TokensAssumption
<1>1. ASSUME NEW k \in Keys, Rotate(k) PROVE TInv'
  <2>1. TokensTypeOK'
    BY <1>1 DEF TInv, TokensTypeOK, Rotate, Bound
  <2>2. Hanging' /\ Timely'
    BY <1>1 DEF TInv, TokensTypeOK, Rotate, Hanging, Timely
  <2>3. ASSUME NEW m \in Keys PROVE InEffect(m)' /\ Young(m)'
    <3>1. InEffect(m) /\ Young(m) /\ TokensTypeOK
      BY <2>3 DEF TInv
    <3>2. CASE m = k
      <4>1. since'[m] = 0 /\ timer' \in Nat
        BY <1>1, <3>1, <3>2 DEF Rotate, TokensTypeOK
      <4>2. ~applied'[m]
        BY <1>1, <3>1, <3>2 DEF Rotate, TokensTypeOK
      <4>3. InEffect(m)'
        BY <4>2, Zenon DEF InEffect
      <4>4. Young(m)'
        <5>1. /\ since'[m] <= timer' /\ since'[m] <= Latency + timer'
              /\ since'[m] <= Latency + Refresh + timer'
          <6>1. \A n, a, b \in Nat : 0 <= n /\ 0 <= a + n /\ 0 <= a + b + n
            OBVIOUS
          <6> QED BY <4>1, <6>1, Zenon
        <5> QED BY <1>1, <5>1, Zenon DEF Young, Rotate
      <4> QED BY <4>3, <4>4
    <3>3. CASE m # k
      <4>1. since'[m] = since[m] /\ applied'[m] = applied[m] /\ failed'[m] = failed[m]
        BY <1>1, <2>3, <3>1, <3>3 DEF Rotate, TokensTypeOK
      <4>2. m \in served' <=> m \in served
        BY <1>1, <3>3 DEF Rotate
      <4>3. UNCHANGED <<jwks, fetch, body, timer>>
        BY <1>1 DEF Rotate
      <4>4. Agrees(m)' <=> Agrees(m)
        BY <4>2, <4>3 DEF Agrees
      <4>5. InEffect(m)'
        BY <3>1, <4>1, <4>2, <4>3, <4>4, Zenon DEF InEffect
      <4>6. Young(m)'
        BY <3>1, <4>1, <4>3, <4>4, Zenon DEF Young
      <4> QED BY <4>5, <4>6
    <3> QED BY <3>2, <3>3
  <2> QED BY <2>1, <2>2, <2>3 DEF TInv
<1>2. CASE Respond \/ RespondBadly
  <2>1. TokensTypeOK'
    <3>1. body' \in [keys : SUBSET Keys, valid : BOOLEAN]
      <4>1. served \in SUBSET Keys /\ Keys \in SUBSET Keys
        BY DEF TInv, TokensTypeOK
      <4>2. body' = [keys |-> served, valid |-> TRUE] \/ body' = [keys |-> Keys, valid |-> FALSE]
        BY <1>2 DEF Respond, RespondBadly, AnswerWith, Document, Garbage
      <4>3. CASE body' = [keys |-> served, valid |-> TRUE]
        BY <4>1, <4>3, Zenon
      <4>4. CASE body' = [keys |-> Keys, valid |-> FALSE]
        BY <4>1, <4>4, Zenon
      <4> QED BY <4>2, <4>3, <4>4
    <3> QED BY <1>2, <3>1 DEF TInv, TokensTypeOK, Respond, RespondBadly, AnswerWith
  <2>2. Hanging' /\ Timely'
    BY <1>2 DEF TInv, Respond, RespondBadly, AnswerWith, Hanging, Timely
  <2>3. ASSUME NEW m \in Keys PROVE InEffect(m)' /\ Young(m)'
    BY <1>2, <2>3
       DEF TInv, Respond, RespondBadly, AnswerWith, Document, Garbage, InEffect, Young, Agrees
  <2> QED BY <2>1, <2>2, <2>3 DEF TInv
<1>3. CASE Hang
  BY <1>3 DEF TInv, TokensTypeOK, Hang, Hanging, Timely, InEffect, Young, Agrees
<1> QED BY <1>1, <1>2, <1>3

\* The task's steps: a document that agrees is in effect, one that does not was
\* overtaken by a change no older than the fetch.
LEMMA TaskStep ==
  ASSUME TInv, Install \/ FetchFails \/ WakeUp
  PROVE  TInv'
<1> USE TokensAssumption
<1>1. CASE Install
  <2>1. jwks' = IF body.valid THEN body.keys \cap Usable ELSE jwks
    BY <1>1 DEF Install, set_jwks_from_json
  <2>2. fetch = "answered" /\ fetch' = "sleeping" /\ timer' = 0 /\ up' = TRUE
    BY <1>1 DEF Install, BackToSleep
  <2>3. TokensTypeOK'
    <3>1. TokensTypeOK
      BY DEF TInv
    <3>2. jwks' \subseteq Usable
      BY <2>1, <3>1 DEF TokensTypeOK
    <3>3. failed' \in [Keys -> BOOLEAN]
      <4>1. \A k \in Keys : (failed[k] \/ ~body.valid) \in BOOLEAN
        OBVIOUS
      <4> QED BY <1>1, <4>1, Zenon DEF Install
    <3>4. applied' \in [Keys -> BOOLEAN]
      <4>1. \A k \in Keys :
              (applied[k] \/ (body.valid /\ (k \in body.keys) = (k \in served))) \in BOOLEAN
        OBVIOUS
      <4> QED BY <1>1, <4>1, Zenon DEF Install
    <3> QED BY <1>1, <2>2, <3>1, <3>2, <3>3, <3>4 DEF Install, TokensTypeOK
  <2>4. Hanging' /\ Timely'
    BY <1>1, <2>2 DEF TInv, Install, Hanging, Timely
  <2>5. ASSUME NEW k \in Keys PROVE InEffect(k)' /\ Young(k)'
    <3>1. InEffect(k) /\ Young(k) /\ Timely /\ TokensTypeOK
      BY <2>5 DEF TInv
    <3>2. InEffect(k)'
      BY <1>1, <2>1, <2>2, <3>1 DEF Install, InEffect, Agrees, TokensTypeOK
    <3>3. Young(k)'
      <4>1. failed'[k] <=> failed[k] \/ ~body.valid
        BY <1>1, <2>5, Zenon DEF Install
      <4>2. applied'[k] <=> applied[k] \/ (body.valid /\ Agrees(k))
        <5>1. applied'[k] = (applied[k] \/ (body.valid /\ (k \in body.keys) = (k \in served)))
          BY <1>1, <2>5, Zenon DEF Install
        <5> QED BY <5>1, Zenon DEF Agrees
      <4>3. since' = since
        BY <1>1 DEF Install
      <4>4. ~failed'[k] /\ ~applied'[k] => since[k] <= Latency
        BY <2>2, <2>5, <3>1, <4>1, <4>2 DEF Young, Timely, TokensTypeOK
      <4> QED BY <2>2, <4>3, <4>4 DEF Young
    <3> QED BY <3>2, <3>3
  <2> QED BY <2>3, <2>4, <2>5 DEF TInv
<1>2. CASE FetchFails
  BY <1>2 DEF TInv, TokensTypeOK, FetchFails, AfterError, BackToSleep, Hanging, Timely,
              InEffect, Young
<1>3. CASE WakeUp
  BY <1>3 DEF TInv, TokensTypeOK, WakeUp, Hanging, Timely, InEffect, Young
<1> QED BY <1>1, <1>2, <1>3

\* A unit of time: the timer keeps up with the age of a change.
LEMMA TimeStep ==
  ASSUME TInv, Elapse
  PROVE  TInv'
<1> USE TokensAssumption
<1>1. Hanging /\ Timely /\ TokensTypeOK
  BY DEF TInv
<1>2. TokensTypeOK'
  BY <1>1 DEF TokensTypeOK, Elapse, Timely, Bound
<1>3. Hanging' /\ Timely'
  BY <1>1 DEF Elapse, Hanging, Timely, TokensTypeOK
<1>4. ASSUME NEW k \in Keys PROVE InEffect(k)' /\ Young(k)'
  <2>1. InEffect(k) /\ Young(k)
    BY <1>4 DEF TInv
  <2>2. since'[k] \in Nat /\ since'[k] <= since[k] + 1
    BY <1>1, <1>4 DEF Elapse, TokensTypeOK, Bound
  <2> QED BY <1>1, <1>4, <2>1, <2>2 DEF Elapse, InEffect, Young, Agrees, Hanging, TokensTypeOK
<1> QED BY <1>2, <1>3, <1>4 DEF TInv

LEMMA StutterStep ==
  ASSUME TInv, UNCHANGED tokenVars
  PROVE  TInv'
BY DEF TInv, tokenVars, TokensTypeOK, Hanging, Timely, InEffect, Young, Agrees

LEMMA TInvImplies == TInv => KeysFollow
<1> USE TokensAssumption
<1> SUFFICES ASSUME TInv, NEW k \in Usable
             PROVE  /\ applied[k] => (k \in jwks <=> k \in served)
                    /\ since[k] > Bound /\ ~failed[k] => applied[k]
  BY DEF KeysFollow
<1>1. k \in Keys /\ InEffect(k) /\ Young(k) /\ Timely /\ TokensTypeOK
  BY DEF TInv
<1> QED BY <1>1 DEF InEffect, Young, Timely, TokensTypeOK, Bound

\* The copy of the keys: every state has its type, a request that hangs is the
\* only one under way, and no change is older than its phase allows (main.rs
\* spawn_jwks_refresh, verifier.rs set_jwks).
THEOREM TokensInvariance == TokensSpec => []TInv
<1>1. TInv /\ [TokensNext]_tokenVars => TInv'
  BY EndpointStep, TaskStep, TimeStep, StutterStep DEF TokensNext
<1> QED BY TokensStart, <1>1, PTL DEF TokensSpec

\* For any keys and times: the keys tokens are accepted with follow the endpoint
\* within a refresh and two answers, unless a fetch fails (main.rs
\* spawn_jwks_refresh, verifier.rs set_jwks_from_json).
THEOREM KeysTheorem == TokensSpec => []KeysFollow
BY TokensInvariance, TInvImplies, PTL

-----------------------------------------------------------------------------
(* glob_match.                                                             *)

GlobSpec == GlobInit(Seq(Letters \cup {"*", "?"}), Seq(Letters)) /\ [][GlobNext]_globVars

GlobTypeOK ==
  /\ pat \in Seq(Letters \cup {"*", "?"}) /\ text \in Seq(Letters)
  /\ p \in 1..(Len(pat) + 1) /\ t \in 1..(Len(text) + 1)
  /\ star \in 0..Len(pat) /\ mark \in 1..t
  /\ match \in {"running", "yes", "no"}

\* The definition of Reach is one.
LEMMA ReachIs ==
  ASSUME GlobTypeOK
  PROVE  /\ Reach[0] = {0}
         /\ \A i \in 1..Len(pat) : Reach[i] = Extend(Reach[i - 1], pat[i])
         /\ \A i \in 0..Len(pat) : Reach[i] \subseteq 0..Len(text)
<1>. DEFINE S == SUBSET (0..Len(text))
            g == [x \in (1..Len(pat)) \X S |-> Extend(x[2], pat[x[1]])]
            Def(f) == f = [i \in 0..Len(pat) |-> IF i = 0 THEN {0}
                                                 ELSE Extend(f[i - 1], pat[i])]
<1>1. Len(pat) \in Nat /\ Len(text) \in Nat
  BY DEF GlobTypeOK
<1>2. \A l, c : Extend(l, c) \in S
  BY <1>1 DEF Extend
<1>3. {0} \in S
  BY <1>1
<1>4. StepOn(g, Len(pat), S)
  BY <1>2 DEF StepOn
<1>5. \A i \in 1..Len(pat), s \in S : g[<<i, s>>] = Extend(s, pat[i])
  OBVIOUS
<1>. HIDE DEF g, S
<1>6. PICK f : Iteration(f, Len(pat), S, {0}, g)
  BY <1>1, <1>3, <1>4, Iterates
<1>i. f \in [0..Len(pat) -> S] /\ f[0] = {0}
      /\ \A i \in 1..Len(pat) : f[i] = g[<<i, f[i - 1]>>]
  BY <1>6 DEF Iteration
<1>7. ASSUME NEW i \in 1..Len(pat) PROVE f[i] = Extend(f[i - 1], pat[i])
  <2>1. f[i - 1] \in S
    BY <1>1, <1>i
  <2>. QED  BY <1>5, <1>i, <2>1
<1>8. Def(f)
  <2>1. \A i \in 0..Len(pat) : f[i] = IF i = 0 THEN {0} ELSE Extend(f[i - 1], pat[i])
    BY <1>1, <1>i, <1>7
  <2>2. f = [i \in 0..Len(pat) |-> f[i]]
    BY <1>i
  <2>. QED  BY <2>1, <2>2
<1>. HIDE DEF Def
<1>9. Def(Reach)
  BY <1>8 DEF Reach, Def
<1>10. /\ Reach[0] = {0}
       /\ \A i \in 1..Len(pat) : Reach[i] = Extend(Reach[i - 1], pat[i])
  <2>r. PICK r : r = Reach
    OBVIOUS
  <2>1. r = [i \in 0..Len(pat) |-> IF i = 0 THEN {0} ELSE Extend(r[i - 1], pat[i])]
    BY <1>9, <2>r DEF Def
  <2>2. 0 \in 0..Len(pat) /\ \A i \in 1..Len(pat) : i \in 0..Len(pat) /\ i # 0
    BY <1>1
  <2>3. r[0] = {0} /\ \A i \in 1..Len(pat) : r[i] = Extend(r[i - 1], pat[i])
    BY <2>1, <2>2
  <2>. QED  BY <2>3, <2>r
<1>. QED  BY <1>1, <1>2, <1>3, <1>10 DEF S

\* A reading of the text: f[i] says how much of it the first i characters of the
\* pattern stand for.
Fits(f) ==
  /\ f \in [0..Len(pat) -> 0..Len(text)] /\ f[0] = 0 /\ f[Len(pat)] = Len(text)
  /\ \A i \in 1..Len(pat) :
       IF pat[i] = "*" THEN f[i - 1] <= f[i]
       ELSE f[i] = f[i - 1] + 1 /\ (pat[i] = "?" \/ text[f[i]] = pat[i])

\* A star reaches further than what it follows, and whatever lies beyond.
LEMMA StarReach ==
  ASSUME GlobTypeOK, NEW i \in 1..Len(pat), pat[i] = "*"
  PROVE  /\ Reach[i - 1] \subseteq Reach[i]
         /\ \A m \in Reach[i], n \in 0..Len(text) : m <= n => n \in Reach[i]
<1>1. Reach[i] = {n \in 0..Len(text) : \E m \in Reach[i - 1] : m <= n}
  BY ReachIs DEF Extend
<1>2. Reach[i - 1] \subseteq 0..Len(text) /\ Len(text) \in Nat
  <2>1. i - 1 \in 0..Len(pat)
    BY DEF GlobTypeOK
  <2>. QED  BY <2>1, ReachIs DEF GlobTypeOK
<1>. QED  BY <1>1, <1>2

\* Another character takes exactly one.
LEMMA LetterReach ==
  ASSUME GlobTypeOK, NEW i \in 1..Len(pat), pat[i] # "*"
  PROVE  Reach[i] = {n \in 1..Len(text) : n - 1 \in Reach[i - 1]
                                          /\ (pat[i] = "?" \/ text[n] = pat[i])}
BY ReachIs DEF Extend

\* What can be reached can be read step by step.
LEMMA ReachFits ==
  ASSUME GlobTypeOK, Matches
  PROVE  \E f : Fits(f)
<1>. DEFINE Upto(f, k, n) ==
              /\ f \in [0..k -> 0..Len(text)] /\ f[0] = 0 /\ f[k] = n
              /\ \A i \in 1..k :
                   IF pat[i] = "*" THEN f[i - 1] <= f[i]
                   ELSE f[i] = f[i - 1] + 1 /\ (pat[i] = "?" \/ text[f[i]] = pat[i])
            T == {k \in 0..Len(pat) : \A n \in Reach[k] : \E f : Upto(f, k, n)}
<1>0. Len(pat) \in Nat /\ Len(text) \in Nat
  BY DEF GlobTypeOK
<1>1. 0 \in T
  <2>f. PICK f : f = [i \in 0..0 |-> 0]
    OBVIOUS
  <2>1. Upto(f, 0, 0)
    BY <1>0, <2>f
  <2>2. Reach[0] = {0} /\ 0 \in 0..Len(pat)
    BY <1>0, ReachIs
  <2>. HIDE DEF Upto
  <2>. QED  BY <2>1, <2>2
<1>2. ASSUME NEW k \in 0..Len(pat), k \in T, k + 1 \in 0..Len(pat) PROVE k + 1 \in T
  <2>1. k + 1 \in 1..Len(pat) /\ (k + 1) - 1 = k /\ k \in Nat
    BY <1>0, <1>2
  <2>2. ASSUME NEW n \in Reach[k + 1] PROVE \E f : Upto(f, k + 1, n)
    <3>1. \E m \in Reach[k] : IF pat[k + 1] = "*" THEN m <= n
                              ELSE n = m + 1 /\ (pat[k + 1] = "?" \/ text[n] = pat[k + 1])
      <4>1. CASE pat[k + 1] = "*"
        BY <2>1, <2>2, <4>1, ReachIs DEF Extend
      <4>2. CASE pat[k + 1] # "*"
        <5>1. n \in 1..Len(text) /\ n - 1 \in Reach[k]
              /\ (pat[k + 1] = "?" \/ text[n] = pat[k + 1])
          BY <2>1, <2>2, <4>2, LetterReach
        <5>. QED  BY <1>0, <4>2, <5>1
      <4>. QED  BY <4>1, <4>2
    <3>2. PICK m \in Reach[k] : IF pat[k + 1] = "*" THEN m <= n
                                ELSE n = m + 1 /\ (pat[k + 1] = "?" \/ text[n] = pat[k + 1])
      BY <3>1
    <3>3. n \in 0..Len(text)
      BY <2>1, <2>2, ReachIs
    <3>4. PICK f : Upto(f, k, m)
      <4>. HIDE DEF Upto
      <4>. QED  BY <1>2, <3>2
    <3>h. PICK h : h = [i \in 0..(k + 1) |-> IF i = k + 1 THEN n ELSE f[i]]
      OBVIOUS
    <3>5. h \in [0..(k + 1) -> 0..Len(text)] /\ h[k + 1] = n /\ \A i \in 0..k : h[i] = f[i]
      BY <2>1, <3>3, <3>4, <3>h
    <3>6. \A i \in 1..(k + 1) : i - 1 \in 0..k /\ (i \in 1..k \/ i = k + 1)
      BY <2>1
    <3>7. Upto(h, k + 1, n)
      BY <2>1, <3>2, <3>4, <3>5, <3>6
    <3>. HIDE DEF Upto
    <3>. QED  BY <3>7
  <2>. QED  BY <1>2, <2>2
<1>3. Len(pat) \in T
  <2>. HIDE DEF T
  <2>1. 0..Len(pat) \subseteq T
    BY <1>0, <1>1, <1>2, RangeInduction
  <2>. QED  BY <1>0, <2>1
<1>4. PICK f : Upto(f, Len(pat), Len(text))
  <2>. HIDE DEF Upto
  <2>. QED  BY <1>3 DEF Matches
<1>5. Fits(f)
  BY <1>4 DEF Fits
<1>. QED  BY <1>5

\* A reading never goes back.
LEMMA FitsAscends ==
  ASSUME GlobTypeOK, NEW f, Fits(f), NEW a \in 0..Len(pat), NEW b \in a..Len(pat)
  PROVE  f[a] <= f[b]
<1>. DEFINE T == {i \in a..b : f[a] <= f[i]}
<1>0. Len(pat) \in Nat /\ f \in [0..Len(pat) -> 0..Len(text)] /\ Len(text) \in Nat
      /\ a \in Nat /\ b \in Nat
  BY DEF GlobTypeOK, Fits
<1>1. a \in T
  BY <1>0
<1>2. ASSUME NEW i \in a..b, i \in T, i + 1 \in a..b PROVE i + 1 \in T
  <2>1. i + 1 \in 1..Len(pat) /\ (i + 1) - 1 = i /\ i \in 0..Len(pat) /\ i + 1 \in 0..Len(pat)
    BY <1>0, <1>2
  <2>2. f[i] <= f[i + 1]
    <3>1. f[i] <= f[i + 1] \/ f[i + 1] = f[i] + 1
      BY <2>1 DEF Fits
    <3>2. f[i] \in Nat /\ f[i + 1] \in Nat
      BY <1>0, <2>1
    <3>. QED  BY <3>1, <3>2
  <2>3. f[a] \in Nat /\ f[i] \in Nat /\ f[i + 1] \in Nat
    BY <1>0, <2>1
  <2>4. f[a] <= f[i + 1]
    BY <1>2, <2>2, <2>3
  <2>. QED  BY <1>2, <2>4
<1>3. b \in T
  <2>. HIDE DEF T
  <2>1. a..b \subseteq T
    BY <1>0, <1>1, <1>2, RangeInduction
  <2>. QED  BY <1>0, <2>1
<1>. QED  BY <1>3

\* Stars at the end may stand for nothing.
LEMMA StarsEnd ==
  ASSUME GlobTypeOK, StarsLeft, Len(text) \in Reach[p - 1]
  PROVE  Matches
<1>. DEFINE T == {i \in (p - 1)..Len(pat) : Len(text) \in Reach[i]}
<1>0. Len(pat) \in Nat /\ p - 1 \in 0..Len(pat) /\ p - 1 \in Nat
  BY DEF GlobTypeOK
<1>1. p - 1 \in T
  BY <1>0
<1>2. ASSUME NEW i \in (p - 1)..Len(pat), i \in T, i + 1 \in (p - 1)..Len(pat)
      PROVE  i + 1 \in T
  <2>1. i + 1 \in 1..Len(pat) /\ (i + 1) - 1 = i /\ i + 1 \in p..Len(pat)
    BY <1>0, <1>2 DEF GlobTypeOK
  <2>2. Reach[i] \subseteq Reach[i + 1]
    BY <2>1, StarReach DEF StarsLeft
  <2>. QED  BY <1>2, <2>2
<1>3. Len(pat) \in T
  <2>. HIDE DEF T
  <2>1. (p - 1)..Len(pat) \subseteq T
    BY <1>0, <1>1, <1>2, RangeInduction
  <2>. QED  BY <1>0, <2>1
<1>. QED  BY <1>3 DEF Matches

\* Where the loop stands: what it has read can be read, the last star is behind it, and
\* a reading gives that star no less than the loop does and the rest as much.
GlobInv ==
  /\ GlobTypeOK
  /\ match = "running" =>
       /\ t - 1 \in Reach[p - 1] /\ mark - 1 \in Reach[star]
       /\ star < p /\ IF star = 0 THEN mark = 1 ELSE pat[star] = "*"
       /\ \A f : Fits(f) => mark - 1 <= f[star] /\ f[p - 1] - f[star] = t - mark
  /\ match = "yes" => Matches
  /\ match = "no" => ~ Matches

\* The arguments decide what can be read.
LEMMA Arguments ==
  ASSUME UNCHANGED <<pat, text>>
  PROVE  Reach' = Reach /\ Matches' = Matches /\ \A f : Fits(f)' = Fits(f)
<1>1. Reach' = Reach
  BY DEF Reach, Extend
<1>2. Matches' = Matches
  BY <1>1 DEF Matches
<1>3. \A f : Fits(f)' = Fits(f)
  BY DEF Fits
<1>. QED  BY <1>1, <1>2, <1>3

\* The numbers a reading is about.
LEMMA FitsNumbers ==
  ASSUME GlobInv, match = "running", NEW f, Fits(f)
  PROVE  /\ f[star] \in Nat /\ f[p - 1] \in Nat /\ f[star] <= Len(text)
         /\ mark - 1 <= f[star] /\ f[p - 1] - f[star] = t - mark
         /\ p <= Len(pat) => f[p] \in Nat
         /\ f[Len(pat)] = Len(text) /\ f[0] = 0
<1>1. Len(pat) \in Nat /\ Len(text) \in Nat /\ star \in 0..Len(pat) /\ p - 1 \in 0..Len(pat)
      /\ (p <= Len(pat) => p \in 0..Len(pat))
  BY DEF GlobInv, GlobTypeOK
<1>2. f \in [0..Len(pat) -> 0..Len(text)] /\ f[Len(pat)] = Len(text) /\ f[0] = 0
  BY DEF Fits
<1>. QED  BY <1>1, <1>2 DEF GlobInv

\* Where the loop is stuck, every reading gives the star more.
LEMMA StuckMisses ==
  ASSUME GlobInv, Stuck, NEW f, Fits(f)
  PROVE  star # 0 /\ mark <= f[star]
<1>1. match = "running" /\ t <= Len(text) /\ p \in Nat /\ t \in Nat /\ mark \in Nat
      /\ p >= 1 /\ p <= Len(pat) + 1 /\ Len(pat) \in Nat /\ Len(text) \in Nat
  BY DEF Stuck, InLoop, GlobInv, GlobTypeOK
<1>2. /\ f[star] \in Nat /\ f[p - 1] \in Nat
      /\ mark - 1 <= f[star] /\ f[p - 1] - f[star] = t - mark
      /\ f[Len(pat)] = Len(text) /\ f[0] = 0
  BY <1>1, FitsNumbers
<1>3. f[star] # mark - 1
  <2>. SUFFICES ASSUME f[star] = mark - 1 PROVE FALSE
    OBVIOUS
  <2>1. f[p - 1] = t - 1
    BY <1>1, <1>2
  <2>2. CASE p <= Len(pat)
    <3>1. p \in 1..Len(pat) /\ pat[p] # "*" /\ pat[p] # "?" /\ pat[p] # text[t]
      BY <1>1, <2>2 DEF Stuck, Takes
    <3>2. f[p] = f[p - 1] + 1 /\ (pat[p] = "?" \/ text[f[p]] = pat[p])
      BY <3>1 DEF Fits
    <3>3. f[p] = t
      BY <1>1, <2>1, <3>2
    <3>. QED  BY <3>1, <3>2, <3>3
  <2>3. CASE p = Len(pat) + 1
    BY <1>1, <1>2, <2>1, <2>3
  <2>. QED  BY <1>1, <2>2, <2>3
<1>4. mark <= f[star]
  BY <1>1, <1>2, <1>3
<1>5. star # 0
  BY <1>1, <1>2, <1>3 DEF GlobInv
<1>. QED  BY <1>4, <1>5

\* How the loop begins.
LEMMA GlobStarts ==
  ASSUME GlobInit(Seq(Letters \cup {"*", "?"}), Seq(Letters))
  PROVE  GlobInv
<1>1. GlobTypeOK /\ match = "running"
  <2>1. Len(pat) \in Nat /\ Len(text) \in Nat
    BY DEF GlobInit
  <2>. QED  BY <2>1 DEF GlobInit, GlobTypeOK
<1>2. Reach[0] = {0}
  BY <1>1, ReachIs
<1>3. \A f : Fits(f) => f[0] = 0
  BY DEF Fits
<1>. QED  BY <1>1, <1>2, <1>3 DEF GlobInit, GlobInv

\* No step of the loop breaks it.
LEMMA LiteralKeeps ==
  ASSUME GlobInv, Literal
  PROVE  GlobInv'
<1>1. /\ GlobTypeOK /\ match = "running" /\ t <= Len(text) /\ p \in 1..Len(pat)
      /\ p' = p + 1 /\ t' = t + 1 /\ UNCHANGED <<pat, text, star, mark, match>>
      /\ pat[p] = "?" \/ pat[p] = text[t]
  BY DEF GlobInv, GlobTypeOK, Literal, InLoop, Takes
<1>2. t \in 1..Len(text) /\ text[t] \in Letters /\ p - 1 \in 0..Len(pat) /\ Len(text) \in Nat
      /\ Len(pat) \in Nat /\ star \in Nat /\ mark \in 1..t
  BY <1>1 DEF GlobTypeOK
<1>3. pat[p] # "*"
  BY <1>1, <1>2, OriginAssumption
<1>4. GlobTypeOK'
  BY <1>1, <1>2 DEF GlobTypeOK
<1>5. t' - 1 \in Reach[p' - 1]
  <2>1. t - 1 \in Reach[p - 1]
    BY <1>1 DEF GlobInv
  <2>2. t \in Reach[p]
    BY <1>1, <1>2, <1>3, <2>1, LetterReach
  <2>. QED  BY <1>1, <1>2, <2>2
<1>6. ASSUME NEW f, Fits(f)
      PROVE  mark - 1 <= f[star] /\ f[p' - 1] - f[star] = t' - mark
  <2>1. f[star] \in Nat /\ f[p - 1] \in Nat /\ mark - 1 <= f[star]
        /\ f[p - 1] - f[star] = t - mark
    BY <1>1, <1>6, FitsNumbers
  <2>2. f[p] = f[p - 1] + 1
    BY <1>1, <1>3, <1>6 DEF Fits
  <2>3. p' - 1 = p
    BY <1>1
  <2>. QED  BY <1>1, <1>2, <2>1, <2>2, <2>3
<1>7. star < p' /\ mark - 1 \in Reach[star] /\ (IF star = 0 THEN mark = 1 ELSE pat[star] = "*")
  BY <1>1, <1>2 DEF GlobInv
<1>. QED  BY <1>1, <1>4, <1>5, <1>6, <1>7, Arguments DEF GlobInv

LEMMA AtStarKeeps ==
  ASSUME GlobInv, AtStar
  PROVE  GlobInv'
<1>1. /\ GlobTypeOK /\ match = "running" /\ t <= Len(text) /\ p \in 1..Len(pat)
      /\ p' = p + 1 /\ star' = p /\ mark' = t /\ UNCHANGED <<pat, text, t, match>>
      /\ pat[p] = "*"
  BY DEF GlobInv, GlobTypeOK, AtStar, InLoop, Takes
<1>2. t \in 1..Len(text) /\ p - 1 \in 0..Len(pat) /\ Len(text) \in Nat /\ Len(pat) \in Nat
      /\ mark \in 1..t
  BY <1>1 DEF GlobTypeOK
<1>3. GlobTypeOK'
  BY <1>1, <1>2 DEF GlobTypeOK
<1>4. t - 1 \in Reach[p]
  <2>1. t - 1 \in Reach[p - 1]
    BY <1>1 DEF GlobInv
  <2>. QED  BY <1>1, <2>1, StarReach
<1>5. ASSUME NEW f, Fits(f) PROVE t - 1 <= f[p] /\ f[p] - f[p] = 0
  <2>1. f[star] \in Nat /\ f[p - 1] \in Nat /\ mark - 1 <= f[star] /\ f[p] \in Nat
        /\ f[p - 1] - f[star] = t - mark
    BY <1>1, <1>5, FitsNumbers
  <2>2. f[p - 1] <= f[p]
    BY <1>1, <1>5 DEF Fits
  <2>. QED  BY <1>1, <1>2, <2>1, <2>2
<1>6. p' - 1 = p /\ t' - 1 = t - 1 /\ star' < p' /\ t' - mark' = 0 /\ star' # 0
  BY <1>1, <1>2
<1>7. ASSUME NEW f, Fits(f)
      PROVE  mark' - 1 <= f[star'] /\ f[p' - 1] - f[star'] = t' - mark'
  BY <1>1, <1>5, <1>6, <1>7
<1>. QED  BY <1>1, <1>3, <1>4, <1>6, <1>7, Arguments DEF GlobInv

LEMMA BacktrackKeeps ==
  ASSUME GlobInv, Backtrack
  PROVE  GlobInv'
<1>1. /\ GlobTypeOK /\ match = "running" /\ t <= Len(text) /\ Stuck /\ star # 0
      /\ p' = star + 1 /\ mark' = mark + 1 /\ t' = mark + 1
      /\ UNCHANGED <<pat, text, star, match>>
  BY DEF GlobInv, Backtrack, Stuck, InLoop
<1>2. t \in 1..Len(text) /\ star \in 1..Len(pat) /\ Len(text) \in Nat /\ Len(pat) \in Nat
      /\ mark \in 1..t /\ mark \in Nat /\ mark - 1 \in Reach[star] /\ pat[star] = "*"
  BY <1>1 DEF GlobTypeOK, GlobInv
<1>3. GlobTypeOK'
  BY <1>1, <1>2 DEF GlobTypeOK
<1>4. mark \in Reach[star]
  <2>1. mark \in 0..Len(text) /\ mark - 1 <= mark
    BY <1>2
  <2>. QED  BY <1>1, <1>2, <2>1, StarReach
<1>5. p' - 1 = star /\ t' - 1 = mark /\ mark' - 1 = mark /\ star' < p' /\ t' - mark' = 0
  BY <1>1, <1>2
<1>6. ASSUME NEW f, Fits(f)
      PROVE  mark' - 1 <= f[star'] /\ f[p' - 1] - f[star'] = t' - mark'
  <2>1. mark <= f[star] /\ f[star] \in Nat
    BY <1>1, <1>6, StuckMisses, FitsNumbers
  <2>. QED  BY <1>1, <1>5, <2>1
<1>. QED  BY <1>1, <1>2, <1>3, <1>4, <1>5, <1>6, Arguments DEF GlobInv

LEMMA FailKeeps ==
  ASSUME GlobInv, Fail
  PROVE  GlobInv'
<1>1. GlobTypeOK /\ Stuck /\ star = 0 /\ match' = "no"
      /\ UNCHANGED <<pat, text, p, t, star, mark>>
  BY DEF GlobInv, Fail
<1>2. ~ Matches
  BY <1>1, StuckMisses, ReachFits
<1>3. GlobTypeOK'
  BY <1>1 DEF GlobTypeOK
<1>. QED  BY <1>1, <1>2, <1>3, Arguments DEF GlobInv

LEMMA EndKeeps ==
  ASSUME GlobInv, End
  PROVE  GlobInv'
<1>1. /\ GlobTypeOK /\ match = "running" /\ t > Len(text)
      /\ match' = (IF StarsLeft THEN "yes" ELSE "no")
      /\ UNCHANGED <<pat, text, p, t, star, mark>>
  BY DEF GlobInv, End
<1>2. t - 1 = Len(text) /\ Len(text) \in Nat /\ Len(pat) \in Nat /\ p \in 1..(Len(pat) + 1)
      /\ mark \in Nat
  BY <1>1 DEF GlobTypeOK
<1>3. GlobTypeOK'
  BY <1>1 DEF GlobTypeOK
<1>4. CASE StarsLeft
  <2>1. Matches
    BY <1>1, <1>2, <1>4, StarsEnd DEF GlobInv
  <2>. QED  BY <1>1, <1>3, <1>4, <2>1, Arguments DEF GlobInv
<1>5. CASE ~ StarsLeft
  <2>1. PICK i \in p..Len(pat) : pat[i] # "*"
    BY <1>5 DEF StarsLeft
  <2>2. i \in 1..Len(pat) /\ i - 1 \in 0..Len(pat) /\ i - 1 \in (p - 1)..Len(pat)
        /\ p - 1 \in 0..Len(pat) /\ i \in 0..Len(pat)
    BY <1>2, <2>1
  <2>3. ASSUME NEW f, Fits(f) PROVE FALSE
    <3>1. f[p - 1] >= Len(text)
      <4>1. f[star] \in Nat /\ f[p - 1] \in Nat /\ mark - 1 <= f[star]
            /\ f[p - 1] - f[star] = t - mark
        BY <1>1, <2>3, FitsNumbers
      <4>2. t \in Nat
        BY <1>1 DEF GlobTypeOK
      <4>. QED  BY <1>2, <4>1, <4>2
    <3>2. f[p - 1] <= f[i - 1]
      BY <1>1, <2>2, <2>3, FitsAscends
    <3>3. f[i] = f[i - 1] + 1
      BY <2>1, <2>2, <2>3 DEF Fits
    <3>4. f \in [0..Len(pat) -> 0..Len(text)]
      BY <2>3 DEF Fits
    <3>5. f[i] \in 0..Len(text) /\ f[i - 1] \in Nat /\ f[p - 1] \in Nat
      BY <1>2, <2>2, <3>4
    <3>. QED  BY <1>2, <3>1, <3>2, <3>3, <3>5
  <2>4. ~ Matches
    BY <1>1, <2>3, ReachFits
  <2>. QED  BY <1>1, <1>3, <1>5, <2>4, Arguments DEF GlobInv
<1>. QED  BY <1>4, <1>5

\* origin.rs glob_match, for every pattern and every origin of characters other than '*'
\* and '?': an answer is "yes" just where the pattern matches, though the loop only ever
\* goes back to the last '*'.
THEOREM GlobTheorem == GlobSpec => []GlobAgrees
<1>1. GlobInit(Seq(Letters \cup {"*", "?"}), Seq(Letters)) => GlobInv
  BY GlobStarts
<1>2. ASSUME GlobInv, [GlobNext]_globVars PROVE GlobInv'
  <2>1. CASE Literal
    BY <1>2, <2>1, LiteralKeeps
  <2>2. CASE AtStar
    BY <1>2, <2>2, AtStarKeeps
  <2>3. CASE Backtrack
    BY <1>2, <2>3, BacktrackKeeps
  <2>4. CASE Fail
    BY <1>2, <2>4, FailKeeps
  <2>5. CASE End
    BY <1>2, <2>5, EndKeeps
  <2>6. CASE UNCHANGED globVars
    <3>1. UNCHANGED <<pat, text, p, t, star, mark, match>>
      BY <2>6 DEF globVars
    <3>2. GlobTypeOK'
      BY <1>2, <3>1 DEF GlobInv, GlobTypeOK
    <3>. QED  BY <1>2, <3>1, <3>2, Arguments DEF GlobInv
  <2>. QED  BY <1>2, <2>1, <2>2, <2>3, <2>4, <2>5, <2>6 DEF GlobNext
<1>3. GlobInv => GlobAgrees
  <2>1. Matches \in BOOLEAN
    BY DEF Matches
  <2>2. GlobInv => match = "running" \/ (match = "yes" /\ Matches) \/ (match = "no" /\ ~ Matches)
    BY DEF GlobInv, GlobTypeOK
  <2>. QED  BY <2>1, <2>2 DEF GlobAgrees
<1>. QED  BY <1>1, <1>2, <1>3, PTL DEF GlobSpec

-----------------------------------------------------------------------------
(* The commands of a request.                                              *)

Sendable == {cmd \in Command : Reads(cmd)} \cup {Malformed}
CallSet == (ChannelMethods \cup {"disconnect"}) \X Names

ApiSpec == ApiInit(Seq(Sendable)) /\ [][ApiNext]_apiVars

LEMMA ChannelErrors ==
  ASSUME NEW c \in Names
  PROVE  channel_caps(c) \in Nat /\ (channel_caps(c) = 0 <=> c \in Channels)
BY ApiAssumption DEF channel_caps, Names

\* first_error finds an error where there is one.
LEMMA FirstError ==
  ASSUME NEW n \in Nat, NEW channels \in [1..n -> Names]
  PROVE  /\ first_error(channels) \in Nat
         /\ first_error(channels) = 0 <=> \A i \in 1..n : channels[i] \in Channels
<1>. DEFINE wrong == {i \in 1..n : channel_caps(channels[i]) # 0}
<1>1. DOMAIN channels = 1..n
  OBVIOUS
<1>2. \A i \in 1..n : channel_caps(channels[i]) \in Nat
                      /\ (channel_caps(channels[i]) = 0 <=> channels[i] \in Channels)
  BY ChannelErrors
<1>3. CASE wrong = {}
  <2>1. first_error(channels) = 0
    BY <1>1, <1>3 DEF first_error
  <2>. QED  BY <1>2, <1>3, <2>1
<1>4. CASE wrong # {}
  <2>1. \E i \in wrong : \A j \in wrong : i <= j
    <3>. SUFFICES ASSUME \A i \in wrong : \E j \in wrong : ~ (i <= j) PROVE FALSE
      OBVIOUS
    <3>. DEFINE S == {k \in 0..n : \A i \in wrong : k < i}
    <3>1. 0 \in S
      OBVIOUS
    <3>2. ASSUME NEW k \in 0..n, k \in S, k + 1 \in 0..n PROVE k + 1 \in S
      <4>1. k + 1 \notin wrong
        BY <3>2
      <4>. QED  BY <3>2, <4>1
    <3>3. n \in S
      <4>. HIDE DEF S
      <4>1. 0..n \subseteq S
        BY <3>1, <3>2, RangeInduction
      <4>. QED  BY <4>1
    <3>. QED  BY <1>4, <3>3
  <2>2. PICK i \in wrong : i = CHOOSE k \in wrong : \A j \in wrong : k <= j
    BY <2>1
  <2>3. first_error(channels) = channel_caps(channels[i])
    BY <1>1, <1>4, <2>2 DEF first_error
  <2>. QED  BY <1>2, <2>2, <2>3
<1>. QED  BY <1>3, <1>4

\* A command is refused just where something it needs is missing.
LEMMA Validation ==
  ASSUME NEW cmd \in Sendable, cmd # Malformed
  PROVE  validate(cmd) \in Nat /\ (validate(cmd) = 0 <=> Proper(cmd))
<1>1. cmd \in Command /\ Reads(cmd)
  BY DEF Sendable
<1>2. CASE cmd \in [method : ChannelMethods, channels : {<<c>> : c \in Names},
                    data : BOOLEAN, name : BOOLEAN, params : BOOLEAN]
  <2>1. PICK c \in Names : cmd.channels = <<c>>
    BY <1>2
  <2>2. cmd.channels[1] = c /\ DOMAIN cmd.channels = {1} /\ cmd.method \in ChannelMethods
        /\ cmd.method # "broadcast" /\ cmd.method # "disconnect" /\ cmd.method # "rpc"
    BY <1>2, <2>1 DEF ChannelMethods
  <2>3. (cmd.method # "publish" => cmd.data) /\ (cmd.method # "unsubscribe" => cmd.name)
    BY <1>1, <2>2 DEF Reads
  <2>4. channel_caps(c) \in Nat /\ (channel_caps(c) = 0 <=> c \in Channels)
    BY ChannelErrors
  <2>5. Proper(cmd) <=> /\ cmd.params /\ cmd.data /\ cmd.name
                        /\ c \in Channels \/ (cmd.method = "unsubscribe" /\ c = NoChannel)
                        /\ cmd.method \in {"presence", "presence_stats"} => c \in WithPresence
                        /\ cmd.method \in {"history", "history_remove"} => c \in WithHistory
    BY <2>2 DEF Proper, ChannelMethods
  <2>6. CASE ~ cmd.params
    BY <2>2, <2>5, <2>6 DEF validate
  <2>7. CASE cmd.params /\ cmd.method = "publish"
    BY <2>2, <2>3, <2>4, <2>5, <2>7 DEF validate
  <2>8. CASE cmd.params /\ cmd.method = "unsubscribe"
    BY <2>2, <2>3, <2>4, <2>5, <2>8 DEF validate
  <2>9. CASE cmd.params /\ cmd.method \in {"presence", "presence_stats"}
    <3>1. validate(cmd) = in_channel(c, WithPresence)
      BY <2>2, <2>9 DEF validate
    <3>. QED  BY <2>2, <2>3, <2>4, <2>5, <2>9, <3>1, ApiAssumption DEF in_channel
  <2>10. CASE cmd.params /\ cmd.method \in {"history", "history_remove"}
    <3>1. validate(cmd) = in_channel(c, WithHistory)
      BY <2>2, <2>10 DEF validate
    <3>. QED  BY <2>2, <2>3, <2>4, <2>5, <2>10, <3>1, ApiAssumption DEF in_channel
  <2>. QED  BY <2>2, <2>6, <2>7, <2>8, <2>9, <2>10 DEF ChannelMethods
<1>3. CASE cmd \in [method : {"broadcast"},
                    channels : UNION {[1..n -> Names] : n \in 0..MaxBroadcast},
                    data : BOOLEAN, name : {TRUE}, params : BOOLEAN]
  <2>1. PICK n \in Nat : cmd.channels \in [1..n -> Names]
    <3>1. 0..MaxBroadcast \subseteq Nat
      BY ApiAssumption
    <3>. QED  BY <1>3, <3>1
  <2>2. cmd.method = "broadcast" /\ cmd.name /\ DOMAIN cmd.channels = 1..n
    BY <1>3, <2>1
  <2>3. /\ first_error(cmd.channels) \in Nat
        /\ first_error(cmd.channels) = 0 <=> \A i \in 1..n : cmd.channels[i] \in Channels
    BY <2>1, FirstError
  <2>4. Proper(cmd) <=> cmd.params /\ cmd.data /\ cmd.channels # <<>>
                        /\ \A i \in 1..n : cmd.channels[i] \in Channels
    BY <2>2 DEF Proper
  <2>5. validate(cmd) = IF ~cmd.params \/ cmd.channels = <<>> \/ ~cmd.data THEN 107
                        ELSE first_error(cmd.channels)
    BY <2>2 DEF validate
  <2>. QED  BY <2>3, <2>4, <2>5
<1>4. CASE cmd \in [method : {"disconnect", "rpc", "channels", "info", "none"},
                    channels : {<<>>}, data : {TRUE}, name : BOOLEAN, params : BOOLEAN]
  <2>1. cmd.channels = <<>> /\ cmd.data
        /\ cmd.method \in {"disconnect", "rpc", "channels", "info", "none"}
    BY <1>4
  <2>2. cmd.method \in {"channels", "info", "none"} => cmd.name /\ cmd.params
    BY <1>1, <2>1 DEF Reads
  <2>3. validate(cmd) \in Nat /\ (validate(cmd) = 0 <=>
                (cmd.method \in {"channels", "info"}
                 \/ (cmd.method = "disconnect" /\ cmd.params /\ cmd.name)))
    BY <2>1, <2>2 DEF validate
  <2>4. Proper(cmd) <=> (cmd.method \in {"channels", "info"}
                         \/ (cmd.method = "disconnect" /\ cmd.params /\ cmd.name))
    BY <2>1, <2>2 DEF Proper
  <2>. QED  BY <2>3, <2>4
<1>. QED  BY <1>1, <1>2, <1>3, <1>4 DEF Command

LEMMA CallsTyped ==
  ASSUME NEW cmd \in Sendable
  PROVE  Asked(cmd) \in Seq(CallSet) /\ (~ Proper(cmd) => Asked(cmd) = <<>>)
         /\ (Proper(cmd) => Asked(cmd) = Calls(cmd))
<1>1. CASE ~ Proper(cmd)
  BY <1>1 DEF Asked
<1>2. CASE Proper(cmd)
  <2>1. cmd # Malformed /\ cmd \in Command /\ Asked(cmd) = Calls(cmd)
    BY <1>2 DEF Asked, Sendable, Malformed, Proper
  <2>2. CASE cmd \in [method : ChannelMethods, channels : {<<c>> : c \in Names},
                      data : BOOLEAN, name : BOOLEAN, params : BOOLEAN]
    <3>1. PICK c \in Names : cmd.channels = <<c>>
      BY <2>2
    <3>2. cmd.channels[1] = c /\ cmd.method \in ChannelMethods
          /\ cmd.method # "broadcast" /\ cmd.method # "disconnect"
      BY <2>2, <3>1 DEF ChannelMethods
    <3>3. Calls(cmd) = << <<cmd.method, c>> >>
      BY <3>2 DEF Calls
    <3>4. <<cmd.method, c>> \in CallSet
      BY <3>2 DEF CallSet
    <3>. QED  BY <1>2, <2>1, <3>3, <3>4
  <2>3. CASE cmd \in [method : {"broadcast"},
                      channels : UNION {[1..n -> Names] : n \in 0..MaxBroadcast},
                      data : BOOLEAN, name : {TRUE}, params : BOOLEAN]
    <3>1. PICK n \in Nat : cmd.channels \in [1..n -> Names]
      <4>1. 0..MaxBroadcast \subseteq Nat
        BY ApiAssumption
      <4>. QED  BY <2>3, <4>1
    <3>2. Calls(cmd) = [i \in 1..n |-> <<"publish", cmd.channels[i]>>]
      BY <2>3, <3>1 DEF Calls
    <3>3. \A i \in 1..n : <<"publish", cmd.channels[i]>> \in CallSet
      BY <3>1 DEF CallSet, ChannelMethods
    <3>4. [i \in 1..n |-> <<"publish", cmd.channels[i]>>] \in [1..n -> CallSet]
      BY <3>3
    <3>5. [i \in 1..n |-> <<"publish", cmd.channels[i]>>] \in Seq(CallSet)
      BY <3>1, <3>4, SeqDef
    <3>. QED  BY <1>2, <2>1, <3>2, <3>5
  <2>4. CASE cmd \in [method : {"disconnect", "rpc", "channels", "info", "none"},
                      channels : {<<>>}, data : {TRUE}, name : BOOLEAN, params : BOOLEAN]
    <3>1. Calls(cmd) = << <<"disconnect", NoChannel>> >> \/ Calls(cmd) = <<>>
      BY <2>4 DEF Calls, ChannelMethods
    <3>2. <<"disconnect", NoChannel>> \in CallSet
      BY DEF CallSet, Names
    <3>3. << <<"disconnect", NoChannel>> >> \in Seq(CallSet) /\ <<>> \in Seq(CallSet)
      BY <3>2
    <3>. QED  BY <1>2, <2>1, <3>1, <3>3
  <2>. QED  BY <2>1, <2>2, <2>3, <2>4 DEF Command
<1>. QED  BY <1>1, <1>2

-----------------------------------------------------------------------------
(* The handler.                                                            *)

ApiTypeOK ==
  /\ readable \in BOOLEAN
  /\ batch \in Seq(Sendable) /\ todo \in Seq(Sendable) /\ Len(todo) <= Len(batch)
  /\ busy \in BOOLEAN /\ doing \in Seq(CallSet) /\ calls \in Seq(CallSet)
  /\ replies \in Seq(Nat)
  /\ status \in {"open", "200", "400", "gone"}

\* The definition of Plan is one.
LEMMA PlanIs ==
  ASSUME batch \in Seq(Sendable)
  PROVE  /\ Plan[0] = <<>>
         /\ \A i \in 1..Len(batch) : Plan[i] = Plan[i - 1] \o Asked(batch[i])
         /\ \A i \in 0..Len(batch) : Plan[i] \in Seq(CallSet)
<1>. DEFINE S == Seq(CallSet)
            g == [x \in (1..Len(batch)) \X S |-> x[2] \o Asked(batch[x[1]])]
            Def(f) == f = [i \in 0..Len(batch) |-> IF i = 0 THEN <<>>
                                                   ELSE f[i - 1] \o Asked(batch[i])]
<1>1. Len(batch) \in Nat
  OBVIOUS
<1>2. \A i \in 1..Len(batch) : Asked(batch[i]) \in S
  BY CallsTyped
<1>3. <<>> \in S
  OBVIOUS
<1>4. StepOn(g, Len(batch), S)
  BY <1>2 DEF StepOn
<1>5. \A i \in 1..Len(batch), s \in S : g[<<i, s>>] = s \o Asked(batch[i])
  OBVIOUS
<1>. HIDE DEF g, S
<1>6. PICK f : Iteration(f, Len(batch), S, <<>>, g)
  BY <1>1, <1>3, <1>4, Iterates
<1>i. f \in [0..Len(batch) -> S] /\ f[0] = <<>>
      /\ \A i \in 1..Len(batch) : f[i] = g[<<i, f[i - 1]>>]
  BY <1>6 DEF Iteration
<1>7. ASSUME NEW i \in 1..Len(batch) PROVE f[i] = f[i - 1] \o Asked(batch[i])
  <2>1. f[i - 1] \in S
    BY <1>1, <1>i
  <2>. QED  BY <1>5, <1>i, <2>1
<1>8. Def(f)
  <2>1. \A i \in 0..Len(batch) : f[i] = IF i = 0 THEN <<>> ELSE f[i - 1] \o Asked(batch[i])
    BY <1>1, <1>i, <1>7
  <2>2. f = [i \in 0..Len(batch) |-> f[i]]
    BY <1>i
  <2>. QED  BY <2>1, <2>2
<1>. HIDE DEF Def
<1>9. Def(Plan)
  BY <1>8 DEF Plan, Def
<1>10. /\ Plan[0] = <<>>
       /\ \A i \in 1..Len(batch) : Plan[i] = Plan[i - 1] \o Asked(batch[i])
  <2>r. PICK r : r = Plan
    OBVIOUS
  <2>1. r = [i \in 0..Len(batch) |-> IF i = 0 THEN <<>> ELSE r[i - 1] \o Asked(batch[i])]
    BY <1>9, <2>r DEF Def
  <2>2. 0 \in 0..Len(batch) /\ \A i \in 1..Len(batch) : i \in 0..Len(batch) /\ i # 0
    BY <1>1
  <2>3. r[0] = <<>> /\ \A i \in 1..Len(batch) : r[i] = r[i - 1] \o Asked(batch[i])
    BY <2>1, <2>2
  <2>. QED  BY <2>3, <2>r
<1>11. 0..Len(batch) \subseteq {i \in 0..Len(batch) : Plan[i] \in S}
  <2>. DEFINE T == {i \in 0..Len(batch) : Plan[i] \in S}
  <2>1. 0 \in T
    BY <1>1, <1>3, <1>10
  <2>2. ASSUME NEW i \in 0..Len(batch), i \in T, i + 1 \in 0..Len(batch) PROVE i + 1 \in T
    <3>1. i + 1 \in 1..Len(batch) /\ (i + 1) - 1 = i
      BY <2>2
    <3>2. Plan[i + 1] = Plan[i] \o Asked(batch[i + 1])
      BY <1>10, <3>1
    <3>3. Plan[i] \in S /\ Asked(batch[i + 1]) \in S
      BY <1>2, <2>2, <3>1
    <3>4. Plan[i] \o Asked(batch[i + 1]) \in S
      BY <3>3 DEF S
    <3>. QED  BY <2>2, <3>2, <3>4
  <2>. HIDE DEF T
  <2>3. 0..Len(batch) \subseteq T
    BY <1>1, <2>1, <2>2, RangeInduction
  <2>. QED  BY <2>3 DEF T
<1>. QED  BY <1>10, <1>11 DEF S

\* A sequence begins with another.
LEMMA PrefixOfJoin ==
  ASSUME NEW S, NEW a \in Seq(S), NEW b \in Seq(S)
  PROVE  IsPrefix(a, a \o b)
<1>1. SubSeq(a \o b, 1, Len(a)) = SubSeq(a, 1, Len(a))
  OBVIOUS
<1>. QED  BY <1>1 DEF IsPrefix

LEMMA PrefixOfLonger ==
  ASSUME NEW S, NEW a \in Seq(S), NEW b \in Seq(S), NEW c \in Seq(S), IsPrefix(a, b)
  PROVE  IsPrefix(a, b \o c)
<1>1. Len(a) <= Len(b) /\ SubSeq(a, 1, Len(a)) = SubSeq(b, 1, Len(a))
  BY DEF IsPrefix
<1>2. SubSeq(b \o c, 1, Len(a)) = SubSeq(b, 1, Len(a))
  BY <1>1
<1>. QED  BY <1>1, <1>2 DEF IsPrefix

LEMMA PlanGrows ==
  ASSUME batch \in Seq(Sendable), NEW a \in Seq(CallSet),
         NEW k \in 0..Len(batch), NEW n \in k..Len(batch), IsPrefix(a, Plan[k])
  PROVE  IsPrefix(a, Plan[n])
<1>. DEFINE T == {i \in k..n : IsPrefix(a, Plan[i])}
<1>0. Len(batch) \in Nat /\ k \in Nat /\ n \in Nat
  OBVIOUS
<1>1. k \in T
  BY <1>0
<1>2. ASSUME NEW i \in k..n, i \in T, i + 1 \in k..n PROVE i + 1 \in T
  <2>1. i + 1 \in 1..Len(batch) /\ (i + 1) - 1 = i /\ i \in 0..Len(batch)
    BY <1>0, <1>2
  <2>2. Plan[i + 1] = Plan[i] \o Asked(batch[i + 1]) /\ Plan[i] \in Seq(CallSet)
    BY <2>1, PlanIs
  <2>3. Asked(batch[i + 1]) \in Seq(CallSet)
    BY <2>1, CallsTyped
  <2>4. IsPrefix(a, Plan[i + 1])
    BY <1>2, <2>2, <2>3, PrefixOfLonger
  <2>. QED  BY <1>2, <2>4
<1>. HIDE DEF T
<1>3. k..n \subseteq T
  BY <1>0, <1>1, <1>2, RangeInduction
<1>. QED  BY <1>0, <1>3 DEF T

\* There are commands before the first malformed one, none or all of them it may be.
LEMMA DecodableIs ==
  ASSUME batch \in Seq(Sendable)
  PROVE  /\ Decodable \in 0..Len(batch) /\ \A i \in 1..Decodable : batch[i] # Malformed
         /\ readable /\ Decodable < Len(batch) => batch[Decodable + 1] = Malformed
         /\ ~readable => Decodable = 0
<1>. DEFINE T == {n \in 0..Len(batch) : \A i \in 1..n : batch[i] # Malformed}
            Ends(n) == n < Len(batch) => batch[n + 1] = Malformed
<1>0. Len(batch) \in Nat
  OBVIOUS
<1>1. \E n \in T : Ends(n)
  <2>. SUFFICES ASSUME \A n \in T : ~ Ends(n) PROVE FALSE
    OBVIOUS
  <2>1. 0 \in T
    BY <1>0
  <2>2. ASSUME NEW n \in 0..Len(batch), n \in T, n + 1 \in 0..Len(batch) PROVE n + 1 \in T
    <3>1. batch[n + 1] # Malformed
      BY <2>2
    <3>. QED  BY <2>2, <3>1
  <2>3. Len(batch) \in T
    <3>. HIDE DEF T
    <3>1. 0..Len(batch) \subseteq T
      BY <1>0, <2>1, <2>2, RangeInduction
    <3>. QED  BY <1>0, <3>1
  <2>. QED  BY <1>0, <2>3
<1>2. \E n \in 0..Len(batch) : /\ \A i \in 1..n : batch[i] # Malformed
                               /\ n < Len(batch) => batch[n + 1] = Malformed
  BY <1>1
<1>. DEFINE P(n) == /\ \A i \in 1..n : batch[i] # Malformed
                    /\ n < Len(batch) => batch[n + 1] = Malformed
<1>3. readable => Decodable = CHOOSE n \in 0..Len(batch) : P(n)
  BY DEF Decodable
<1>4. \E n \in 0..Len(batch) : P(n)
  BY <1>2
<1>5. readable => Decodable \in 0..Len(batch) /\ P(Decodable)
  <2>. HIDE DEF P
  <2>. QED  BY <1>3, <1>4
<1>6. ~readable => Decodable = 0
  BY DEF Decodable
<1>. QED  BY <1>0, <1>5, <1>6

\* The commands taken so far.
Taken == Len(batch) - Len(todo)

\* Where the handler stands: what was called is what the commands taken ask for, but for
\* what is left of the last one, and they were answered, but for the last one.
ApiInv ==
  /\ ApiTypeOK
  /\ ~ readable => Taken = 0 /\ ~ busy
  /\ \A i \in 1..Len(todo) : todo[i] = batch[Taken + i]
  /\ \A i \in 1..Taken : batch[i] # Malformed
  /\ \A i \in 1..Len(replies) : replies[i] = 0 <=> Proper(batch[i])
  /\ IsPrefix(calls, Plan[Taken])
  /\ busy => /\ status = "open" /\ Taken >= 1 /\ Proper(batch[Taken])
             /\ calls \o doing = Plan[Taken] /\ Len(replies) = Taken - 1
  /\ ~ busy /\ status # "gone" => calls = Plan[Taken] /\ Len(replies) = Taken
  /\ status = "200" => Len(todo) = 0
  /\ status = "400" => ~ readable \/ Len(batch) = 0 \/ (Len(todo) > 0 /\ todo[1] = Malformed)

LEMMA PlanStays == UNCHANGED batch => Plan' = Plan
BY DEF Plan

LEMMA ApiStarts ==
  ASSUME ApiInit(Seq(Sendable))
  PROVE  ApiInv
<1>1. ApiTypeOK /\ Taken = 0
  <2>1. batch \in Seq(Sendable) /\ todo \in Seq(Sendable) /\ Len(todo) = Len(batch)
        /\ Len(batch) \in Nat
    BY DEF ApiInit
  <2>2. doing \in Seq(CallSet) /\ calls \in Seq(CallSet) /\ replies \in Seq(Nat)
    BY DEF ApiInit
  <2>3. busy \in BOOLEAN /\ status \in {"open", "200", "400", "gone"}
    BY DEF ApiInit
  <2>4. readable \in BOOLEAN
    BY DEF ApiInit
  <2>. QED  BY <2>1, <2>2, <2>3, <2>4 DEF ApiTypeOK, Taken
<1>2. Plan[0] = <<>>
  BY <1>1, PlanIs DEF ApiTypeOK
<1>3. IsPrefix(<<>>, <<>>)
  BY DEF IsPrefix
<1>. QED  BY <1>1, <1>2, <1>3 DEF ApiInit, ApiInv

\* The numbers of the sequences.
LEMMA ApiNumbers ==
  ASSUME ApiTypeOK
  PROVE  /\ Len(batch) \in Nat /\ Len(todo) \in Nat /\ Taken \in 0..Len(batch)
         /\ Len(replies) \in Nat /\ Taken = Len(batch) - Len(todo)
         /\ todo # <<>> => /\ Len(todo) >= 1 /\ Head(todo) = todo[1] /\ todo[1] \in Sendable
                           /\ Tail(todo) \in Seq(Sendable)
                           /\ Len(Tail(todo)) = Len(todo) - 1
                           /\ \A i \in 1..(Len(todo) - 1) : Tail(todo)[i] = todo[i + 1]
         /\ todo = <<>> => Len(todo) = 0
         /\ batch = <<>> => Len(batch) = 0
BY DEF ApiTypeOK, Taken

LEMMA RejectBodyKeeps ==
  ASSUME ApiInv, RejectBody
  PROVE  ApiInv'
<1>1. /\ ~ readable /\ ~ busy /\ status = "open" /\ status' = "400" /\ Taken' = Taken
      /\ UNCHANGED <<readable, batch, todo, busy, doing, calls, replies>>
  BY DEF RejectBody, ApiInv, Taken
<1>2. ApiTypeOK'
  BY <1>1 DEF ApiInv, ApiTypeOK
<1>. QED  BY <1>1, <1>2, PlanStays DEF ApiInv

LEMMA RejectKeeps ==
  ASSUME ApiInv, Reject
  PROVE  ApiInv'
<1>1. /\ ~ busy /\ status = "open" /\ status' = "400" /\ Taken' = Taken
      /\ UNCHANGED <<readable, batch, todo, busy, doing, calls, replies>>
  BY DEF Reject, Ready, Taken
<1>2. Len(batch) = 0 \/ (Len(todo) > 0 /\ todo[1] = Malformed)
  BY ApiNumbers DEF Reject, ApiInv
<1>3. ApiTypeOK'
  BY <1>1 DEF ApiInv, ApiTypeOK
<1>. QED  BY <1>1, <1>2, <1>3, PlanStays DEF ApiInv

LEMMA TakeKeeps ==
  ASSUME ApiInv, todo # <<>>, Head(todo) # Malformed, UNCHANGED batch, todo' = Tail(todo)
  PROVE  /\ Taken' = Taken + 1 /\ Taken' \in 1..Len(batch) /\ todo' \in Seq(Sendable)
         /\ Len(todo') = Len(todo) - 1
         /\ Head(todo) = batch[Taken']
         /\ \A i \in 1..Len(todo') : todo'[i] = batch[Taken' + i]
         /\ \A i \in 1..Taken' : batch[i] # Malformed
         /\ Plan'[Taken'] = Plan[Taken] \o Asked(Head(todo))
         /\ Plan[Taken] \in Seq(CallSet) /\ Asked(Head(todo)) \in Seq(CallSet)
<1>. DEFINE cmd == Head(todo)
<1>0. ApiTypeOK /\ batch \in Seq(Sendable)
  BY DEF ApiInv, ApiTypeOK
<1>1. /\ Len(batch) \in Nat /\ Len(todo) \in Nat /\ Taken \in 0..Len(batch)
      /\ Len(todo) >= 1 /\ cmd = todo[1] /\ cmd \in Sendable
      /\ Tail(todo) \in Seq(Sendable) /\ Len(Tail(todo)) = Len(todo) - 1
      /\ Taken = Len(batch) - Len(todo)
      /\ \A i \in 1..(Len(todo) - 1) : Tail(todo)[i] = todo[i + 1]
  BY <1>0, ApiNumbers
<1>2. Taken' = Taken + 1 /\ Taken' \in 1..Len(batch) /\ Len(todo') = Len(todo) - 1
  BY <1>1 DEF Taken
<1>3. \A i \in 1..Len(todo) : todo[i] = batch[Taken + i]
  BY DEF ApiInv
<1>4. cmd = batch[Taken']
  BY <1>1, <1>2, <1>3
<1>5. ASSUME NEW i \in 1..Len(todo') PROVE todo'[i] = batch[Taken' + i]
  <2>1. i + 1 \in 1..Len(todo) /\ i \in 1..(Len(todo) - 1) /\ Taken + (i + 1) = Taken' + i
    BY <1>1, <1>2
  <2>. QED  BY <1>1, <1>3, <2>1
<1>6. ASSUME NEW i \in 1..Taken' PROVE batch[i] # Malformed
  <2>1. i \in 1..Taken \/ i = Taken'
    BY <1>1, <1>2
  <2>. QED  BY <1>4, <2>1 DEF ApiInv
<1>7. Plan'[Taken'] = Plan[Taken] \o Asked(cmd)
  <2>1. Plan[Taken'] = Plan[Taken' - 1] \o Asked(batch[Taken'])
    BY <1>0, <1>2, PlanIs
  <2>2. Taken' - 1 = Taken
    BY <1>1, <1>2
  <2>. QED  BY <1>4, <2>1, <2>2, PlanStays
<1>8. Plan[Taken] \in Seq(CallSet) /\ Asked(cmd) \in Seq(CallSet)
  BY <1>0, <1>1, PlanIs, CallsTyped
<1>. QED  BY <1>1, <1>2, <1>4, <1>5, <1>6, <1>7, <1>8

LEMMA RefuseKeeps ==
  ASSUME ApiInv, Refuse
  PROVE  ApiInv'
<1>1. /\ ~ busy /\ status = "open" /\ todo # <<>> /\ Head(todo) # Malformed
      /\ validate(Head(todo)) # 0 /\ todo' = Tail(todo)
      /\ replies' = Append(replies, validate(Head(todo)))
      /\ readable /\ UNCHANGED <<readable, batch, busy, doing, calls, status>>
  BY DEF Refuse, Ready
<1>2. /\ Taken' = Taken + 1 /\ Taken' \in 1..Len(batch) /\ todo' \in Seq(Sendable)
      /\ Len(todo') = Len(todo) - 1
      /\ Head(todo) = batch[Taken']
      /\ \A i \in 1..Len(todo') : todo'[i] = batch[Taken' + i]
      /\ \A i \in 1..Taken' : batch[i] # Malformed
      /\ Plan'[Taken'] = Plan[Taken] \o Asked(Head(todo))
      /\ Plan[Taken] \in Seq(CallSet)
  BY <1>1, TakeKeeps
<1>3. ApiTypeOK /\ calls = Plan[Taken] /\ Len(replies) = Taken /\ replies \in Seq(Nat)
      /\ \A i \in 1..Len(replies) : replies[i] = 0 <=> Proper(batch[i])
  BY <1>1 DEF ApiInv, ApiTypeOK
<1>4. validate(Head(todo)) \in Nat /\ ~ Proper(Head(todo)) /\ Asked(Head(todo)) = <<>>
  <2>1. Head(todo) \in Sendable
    BY <1>1, <1>3, ApiNumbers
  <2>. QED  BY <1>1, <2>1, Validation, CallsTyped
<1>5. ApiTypeOK'
  BY <1>1, <1>2, <1>3, <1>4 DEF ApiTypeOK
<1>6. calls' = Plan'[Taken'] /\ Len(replies') = Taken'
  <2>1. Plan[Taken] \o <<>> = Plan[Taken]
    BY <1>2
  <2>2. Len(replies') = Len(replies) + 1
    BY <1>1, <1>3, <1>4
  <2>. QED  BY <1>1, <1>2, <1>3, <1>4, <2>1, <2>2
<1>7. ASSUME NEW i \in 1..Len(replies') PROVE replies'[i] = 0 <=> Proper(batch[i])
  <2>1. i \in 1..Len(replies) \/ i = Taken'
    BY <1>2, <1>3, <1>6
  <2>2. CASE i \in 1..Len(replies)
    BY <1>1, <1>3, <1>4, <2>2
  <2>3. CASE i = Taken'
    BY <1>1, <1>2, <1>3, <1>4, <2>3
  <2>. QED  BY <2>1, <2>2, <2>3
<1>8. IsPrefix(calls', Plan'[Taken'])
  <2>. QED  BY <1>1, <1>3, <1>6 DEF IsPrefix
<1>. QED  BY <1>1, <1>2, <1>5, <1>6, <1>7, <1>8 DEF ApiInv

LEMMA ExecuteKeeps ==
  ASSUME ApiInv, Execute
  PROVE  ApiInv'
<1>1. /\ ~ busy /\ status = "open" /\ todo # <<>> /\ Head(todo) # Malformed
      /\ validate(Head(todo)) = 0 /\ todo' = Tail(todo)
      /\ busy' = TRUE /\ doing' = Calls(Head(todo))
      /\ readable /\ UNCHANGED <<readable, batch, calls, replies, status>>
  BY DEF Execute, Ready
<1>2. /\ Taken' = Taken + 1 /\ Taken' \in 1..Len(batch) /\ todo' \in Seq(Sendable)
      /\ Len(todo') = Len(todo) - 1
      /\ Head(todo) = batch[Taken']
      /\ \A i \in 1..Len(todo') : todo'[i] = batch[Taken' + i]
      /\ \A i \in 1..Taken' : batch[i] # Malformed
      /\ Plan'[Taken'] = Plan[Taken] \o Asked(Head(todo))
      /\ Plan[Taken] \in Seq(CallSet) /\ Asked(Head(todo)) \in Seq(CallSet)
  BY <1>1, TakeKeeps
<1>3. ApiTypeOK /\ calls = Plan[Taken] /\ Len(replies) = Taken
      /\ \A i \in 1..Len(replies) : replies[i] = 0 <=> Proper(batch[i])
  BY <1>1 DEF ApiInv
<1>4. Proper(Head(todo)) /\ Asked(Head(todo)) = Calls(Head(todo))
  <2>1. Head(todo) \in Sendable
    BY <1>1, <1>3, ApiNumbers
  <2>. QED  BY <1>1, <2>1, Validation, CallsTyped
<1>5. ApiTypeOK'
  <2>1. doing' \in Seq(CallSet) /\ busy' \in BOOLEAN
    BY <1>1, <1>2, <1>4
  <2>2. Len(todo') <= Len(batch)
    BY <1>2, <1>3, ApiNumbers
  <2>. QED  BY <1>1, <1>2, <1>3, <2>1, <2>2 DEF ApiTypeOK
<1>6. calls' \o doing' = Plan'[Taken']
  BY <1>1, <1>2, <1>3, <1>4
<1>7. IsPrefix(calls', Plan'[Taken'])
  <2>1. IsPrefix(Plan[Taken], Plan[Taken] \o Asked(Head(todo)))
    BY <1>2, PrefixOfJoin
  <2>. QED  BY <1>1, <1>2, <1>3, <2>1
<1>8. Len(replies') = Taken' - 1 /\ Taken' >= 1
  BY <1>1, <1>2, <1>3, ApiNumbers
<1>9. Proper(batch'[Taken'])
  BY <1>1, <1>2, <1>4
<1>. QED  BY <1>1, <1>2, <1>3, <1>5, <1>6, <1>7, <1>8, <1>9 DEF ApiInv

\* The commands taken stay the same ones where none is taken.
LEMMA SameTaken ==
  ASSUME ApiInv, UNCHANGED <<batch, todo>>
  PROVE  /\ Taken' = Taken /\ Plan' = Plan
         /\ \A i \in 1..Len(todo') : todo'[i] = batch'[Taken' + i]
         /\ \A i \in 1..Taken' : batch'[i] # Malformed
BY PlanStays DEF ApiInv, Taken

LEMMA CallKeeps ==
  ASSUME ApiInv, Call
  PROVE  ApiInv'
<1>1. /\ busy /\ status = "open" /\ doing # <<>> /\ doing' = Tail(doing)
      /\ calls' = Append(calls, Head(doing))
      /\ UNCHANGED <<readable, batch, todo, busy, replies, status>>
  BY DEF Call, ApiInv
<1>2. ApiTypeOK /\ calls \o doing = Plan[Taken] /\ Taken >= 1 /\ Len(replies) = Taken - 1
      /\ calls \in Seq(CallSet) /\ doing \in Seq(CallSet) /\ Proper(batch[Taken])
      /\ \A i \in 1..Len(replies) : replies[i] = 0 <=> Proper(batch[i])
  BY <1>1 DEF ApiInv, ApiTypeOK
<1>3. doing' \in Seq(CallSet) /\ calls' \in Seq(CallSet)
  BY <1>1, <1>2
<1>4. calls' \o doing' = calls \o doing
  <2>1. PICK c, d, e \in Seq(CallSet) : c = calls /\ d = doing /\ e = Tail(doing)
    BY <1>1, <1>2, <1>3
  <2>2. Append(c, Head(d)) \o Tail(d) = c \o d
    BY <1>1, <2>1
  <2>. QED  BY <1>1, <2>1, <2>2
<1>5. ApiTypeOK'
  BY <1>1, <1>2, <1>3 DEF ApiTypeOK
<1>6. IsPrefix(calls', Plan[Taken])
  <2>1. IsPrefix(calls', calls' \o doing')
    BY <1>3, PrefixOfJoin
  <2>. QED  BY <1>2, <1>4, <2>1
<1>. QED  BY <1>1, <1>2, <1>4, <1>5, <1>6, SameTaken DEF ApiInv

LEMMA FinishKeeps ==
  ASSUME ApiInv, Finish
  PROVE  ApiInv'
<1>1. /\ busy /\ status = "open" /\ doing = <<>> /\ busy' = FALSE
      /\ replies' = Append(replies, 0)
      /\ UNCHANGED <<readable, batch, todo, doing, calls, status>>
  BY DEF Finish, ApiInv
<1>2. ApiTypeOK /\ calls \o doing = Plan[Taken] /\ Taken >= 1 /\ Len(replies) = Taken - 1
      /\ calls \in Seq(CallSet) /\ replies \in Seq(Nat) /\ Proper(batch[Taken])
      /\ IsPrefix(calls, Plan[Taken])
      /\ \A i \in 1..Len(replies) : replies[i] = 0 <=> Proper(batch[i])
  BY <1>1 DEF ApiInv, ApiTypeOK
<1>3. calls = Plan[Taken]
  BY <1>1, <1>2
<1>4. replies' \in Seq(Nat) /\ Len(replies') = Taken /\ Taken \in Nat
  BY <1>1, <1>2, ApiNumbers
<1>5. ASSUME NEW i \in 1..Len(replies') PROVE replies'[i] = 0 <=> Proper(batch[i])
  <2>1. i \in 1..Len(replies) \/ i = Taken
    BY <1>2, <1>4
  <2>2. CASE i \in 1..Len(replies)
    BY <1>1, <1>2, <2>2
  <2>3. CASE i = Taken
    BY <1>1, <1>2, <1>4, <2>3
  <2>. QED  BY <2>1, <2>2, <2>3
<1>6. ApiTypeOK'
  BY <1>1, <1>2, <1>4 DEF ApiTypeOK
<1>. QED  BY <1>1, <1>2, <1>3, <1>4, <1>5, <1>6, SameTaken DEF ApiInv

LEMMA RespondKeeps ==
  ASSUME ApiInv, Respond200
  PROVE  ApiInv'
<1>1. /\ ~ busy /\ status = "open" /\ todo = <<>> /\ status' = "200"
      /\ UNCHANGED <<readable, batch, todo, busy, doing, calls, replies>>
  BY DEF Respond200, Ready
<1>2. Len(todo) = 0 /\ ApiTypeOK'
  BY <1>1 DEF ApiInv, ApiTypeOK
<1>. QED  BY <1>1, <1>2, SameTaken DEF ApiInv

LEMMA HangUpKeeps ==
  ASSUME ApiInv, HangUp
  PROVE  ApiInv'
<1>1. /\ busy' = FALSE /\ doing' = <<>> /\ status' = "gone"
      /\ UNCHANGED <<readable, batch, todo, calls, replies>>
  BY DEF HangUp
<1>2. ApiTypeOK'
  <2>1. <<>> \in Seq(CallSet)
    OBVIOUS
  <2>. QED  BY <1>1, <2>1 DEF ApiInv, ApiTypeOK
<1>. QED  BY <1>1, <1>2, SameTaken DEF ApiInv

\* The commands taken are among the decodable ones, and they are those where the request
\* was answered.
LEMMA TakenDecodable ==
  ASSUME ApiInv
  PROVE  /\ Taken \in 0..Len(batch) /\ Decodable \in Taken..Len(batch)
         /\ status \in {"200", "400"} => Decodable = Taken
<1>0. batch \in Seq(Sendable) /\ ApiTypeOK
  BY DEF ApiInv, ApiTypeOK
<1>1. /\ Decodable \in 0..Len(batch) /\ \A i \in 1..Decodable : batch[i] # Malformed
      /\ readable /\ Decodable < Len(batch) => batch[Decodable + 1] = Malformed
      /\ ~ readable => Decodable = 0
  BY <1>0, DecodableIs
<1>2. Len(batch) \in Nat /\ Len(todo) \in Nat /\ Taken \in 0..Len(batch)
      /\ Taken = Len(batch) - Len(todo)
  BY <1>0, ApiNumbers
<1>r. ~ readable => Taken = 0
  BY DEF ApiInv
<1>3. Decodable >= Taken
  <2>. SUFFICES ASSUME readable, Decodable < Taken PROVE FALSE
    BY <1>1, <1>2, <1>r
  <2>1. Decodable + 1 \in 1..Taken /\ Decodable < Len(batch)
    BY <1>1, <1>2
  <2>. QED  BY <1>1, <2>1 DEF ApiInv
<1>u. CASE ~ readable
  BY <1>1, <1>2, <1>r, <1>u
<1>4. CASE readable /\ status = "200"
  BY <1>1, <1>2, <1>3, <1>4 DEF ApiInv
<1>5. CASE readable /\ status = "400" /\ Len(batch) = 0
  BY <1>1, <1>2, <1>3, <1>5
<1>6. CASE readable /\ status = "400" /\ Len(batch) # 0
  <2>1. Len(todo) > 0 /\ todo[1] = Malformed
    BY <1>6 DEF ApiInv
  <2>2. batch[Taken + 1] = Malformed
    BY <1>2, <2>1 DEF ApiInv
  <2>3. ~ (Taken + 1 <= Decodable)
    BY <1>1, <1>2, <2>2
  <2>. QED  BY <1>1, <1>2, <1>3, <2>3
<1>. QED  BY <1>1, <1>2, <1>3, <1>4, <1>5, <1>6, <1>u

\* api.rs run_api, run_commands and run_protobuf, for every request, whatever channels
\* exist and whatever they offer: at any time the calls made are a prefix of those its
\* proper commands ask for, all of them where it was answered, and an error is answered
\* just to the commands that are not proper.
THEOREM ApiTheorem == ApiSpec => []BatchIsPlanned
<1>1. ApiInit(Seq(Sendable)) => ApiInv
  BY ApiStarts
<1>2. ASSUME ApiInv, [ApiNext]_apiVars PROVE ApiInv'
  <2>0. CASE RejectBody
    BY <1>2, <2>0, RejectBodyKeeps
  <2>1. CASE Reject
    BY <1>2, <2>1, RejectKeeps
  <2>2. CASE Refuse
    BY <1>2, <2>2, RefuseKeeps
  <2>3. CASE Execute
    BY <1>2, <2>3, ExecuteKeeps
  <2>4. CASE Call
    BY <1>2, <2>4, CallKeeps
  <2>5. CASE Finish
    BY <1>2, <2>5, FinishKeeps
  <2>6. CASE Respond200
    BY <1>2, <2>6, RespondKeeps
  <2>7. CASE HangUp
    BY <1>2, <2>7, HangUpKeeps
  <2>8. CASE UNCHANGED apiVars
    <3>1. UNCHANGED <<readable, batch, todo, busy, doing, calls, replies, status>>
      BY <2>8 DEF apiVars
    <3>2. ApiTypeOK'
      BY <1>2, <3>1 DEF ApiInv, ApiTypeOK
    <3>. QED  BY <1>2, <3>1, <3>2, SameTaken DEF ApiInv
  <2>. QED  BY <1>2, <2>0, <2>1, <2>2, <2>3, <2>4, <2>5, <2>6, <2>7, <2>8 DEF ApiNext
<1>3. ApiInv => BatchIsPlanned
  <2>. SUFFICES ASSUME ApiInv PROVE BatchIsPlanned
    OBVIOUS
  <2>1. batch \in Seq(Sendable) /\ calls \in Seq(CallSet) /\ replies \in Seq(Nat)
        /\ IsPrefix(calls, Plan[Taken])
    BY DEF ApiInv, ApiTypeOK
  <2>2. /\ Taken \in 0..Len(batch) /\ Decodable \in Taken..Len(batch)
        /\ status \in {"200", "400"} => Decodable = Taken
    BY TakenDecodable
  <2>3. IsPrefix(calls, Plan[Decodable])
    BY <2>1, <2>2, PlanGrows
  <2>4. status \in {"200", "400"} => calls = Plan[Decodable] /\ Len(replies) = Decodable
    BY <2>2 DEF ApiInv
  <2>5. \A i \in 1..Len(replies) : replies[i] = 0 <=> Proper(batch[i])
    BY DEF ApiInv
  <2>6. \A i \in DOMAIN replies : (replies[i] = 0) = Proper(batch[i])
    <3>1. DOMAIN replies = 1..Len(replies)
      BY <2>1
    <3>2. \A i : Proper(batch[i]) \in BOOLEAN
      BY DEF Proper
    <3>. QED  BY <2>5, <3>1, <3>2
  <2>. QED  BY <2>3, <2>4, <2>6 DEF BatchIsPlanned
<1>. QED  BY <1>1, <1>2, <1>3, PTL DEF ApiSpec
=============================================================================
