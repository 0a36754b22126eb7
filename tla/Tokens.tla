------------------------------- MODULE Tokens -------------------------------
(***************************************************************************)
(* The key set tokens are verified with when a JWKS endpoint is configured *)
(* (TokenVerifier in centrifugo-auth/src/verifier.rs, fetched by           *)
(* centrifugo-server/src/main.rs): a copy of the endpoint's document, read *)
(* once before the server starts and again an hour after each read.        *)
(*                                                                         *)
(* The endpoint publishes and withdraws keys, answers late, badly or not   *)
(* at all; the fetch has no timeout.  What a document says may be out of   *)
(* date by the time it arrives.  A key stands for its kid: a token finds   *)
(* the key it was signed with, or none (there are no static keys then).    *)
(***************************************************************************)
EXTENDS Naturals

CONSTANTS
  Keys,      \* keys the endpoint may publish
  Usable,    \* the RSA keys for signing that have a kid
  Refresh,   \* REFRESH, in units
  Latency    \* units within which the endpoint answers, if it does

ASSUME TokensAssumption ==
  /\ Usable \subseteq Keys
  /\ Refresh \in Nat \ {0} /\ Latency \in Nat

VARIABLES
  served,   \* the keys in the endpoint's document
  jwks,     \* the verifier's map
  up,       \* whether the server serves connections
  fetch,    \* "asking" the endpoint, "answered", "sleeping"
  body,     \* the answer: a document, or Garbage
  timer,    \* units since the fetch or the sleep began
  hung,     \* the endpoint will not answer the request in hand
  since,    \* units since the endpoint last changed its mind about a key
  failed,   \* whether a fetch went wrong since then
  applied   \* whether a document that agrees with it was installed since

tokenVars == <<served, jwks, up, fetch, body, timer, hung, since, failed, applied>>

Garbage == [keys |-> Keys, valid |-> FALSE]
Document(set) == [keys |-> set, valid |-> TRUE]

\* The longest a change can take to arrive: a document that just missed it is
\* under way, the task sleeps, and asks again.
Bound == Refresh + 2 * Latency

TokensTypeOK ==
  /\ served \subseteq Keys /\ jwks \subseteq Usable
  /\ up \in BOOLEAN /\ hung \in BOOLEAN
  /\ fetch \in {"asking", "answered", "sleeping"}
  /\ body \in [keys : SUBSET Keys, valid : BOOLEAN]
  /\ timer \in 0..Refresh + Latency
  /\ since \in [Keys -> 0..Bound + 1]
  /\ failed \in [Keys -> BOOLEAN] /\ applied \in [Keys -> BOOLEAN]

\* run_server fetches before it listens.
TokensInit ==
  /\ served = {} /\ jwks = {}
  /\ up = FALSE /\ fetch = "asking" /\ body = Garbage /\ timer = 0 /\ hung = FALSE
  /\ since = [k \in Keys |-> 0]
  /\ failed = [k \in Keys |-> FALSE] /\ applied = [k \in Keys |-> FALSE]

-----------------------------------------------------------------------------
(* The endpoint, external to the repository.                               *)

\* A key is published or withdrawn.
Rotate(k) ==
  /\ served' = IF k \in served THEN served \ {k} ELSE served \cup {k}
  /\ since' = [since EXCEPT ![k] = 0]
  /\ failed' = [failed EXCEPT ![k] = hung]
  /\ applied' = [applied EXCEPT ![k] = FALSE]
  /\ UNCHANGED <<jwks, up, fetch, body, timer, hung>>

AnswerWith(b) ==
  /\ fetch = "asking" /\ ~hung
  /\ fetch' = "answered"
  /\ body' = b
  /\ UNCHANGED <<served, jwks, up, timer, hung, since, failed, applied>>

\* The document as it is now, or something that is none.
Respond == AnswerWith(Document(served))
RespondBadly == AnswerWith(Garbage)

\* The request is never answered.
Hang ==
  /\ fetch = "asking" /\ ~hung
  /\ hung' = TRUE
  /\ failed' = [k \in Keys |-> TRUE]
  /\ UNCHANGED <<served, jwks, up, fetch, body, timer, since, applied>>

-----------------------------------------------------------------------------
(* The server.                                                             *)

\* Slip: keys are added and never dropped.
jwks_merged(b) == IF b.valid THEN jwks \cup (b.keys \cap Usable) ELSE jwks

\* set_jwks: a document replaces the whole map, anything else leaves it alone.
set_jwks_from_json(b) == IF b.valid THEN b.keys \cap Usable ELSE jwks

\* After a fetch the server is up, if it was not, and the task sleeps.
BackToSleep == up' = TRUE /\ fetch' = "sleeping" /\ timer' = 0

Install ==
  /\ fetch = "answered"
  /\ jwks' = set_jwks_from_json(body)
  /\ failed' = [k \in Keys |-> failed[k] \/ ~body.valid]
  /\ applied' = [k \in Keys |->
                   applied[k] \/ (body.valid /\ (k \in body.keys) = (k \in served))]
  /\ BackToSleep
  /\ UNCHANGED <<served, body, hung, since>>

\* Slip: the refresh task returns on an error: a sleep that is past its end.
GiveUp == up' = TRUE /\ fetch' = "sleeping" /\ timer' = Refresh + 1

\* After an error: the task only logs it.
AfterError == BackToSleep

\* No connection, an error status, a body cut short: logged and forgotten.
FetchFails ==
  /\ fetch = "asking" /\ ~hung
  /\ failed' = [k \in Keys |-> TRUE]
  /\ AfterError
  /\ UNCHANGED <<served, jwks, body, hung, since, applied>>

WakeUp ==
  /\ fetch = "sleeping" /\ timer = Refresh
  /\ fetch' = "asking" /\ timer' = 0
  /\ UNCHANGED <<served, jwks, up, body, hung, since, failed, applied>>

\* A unit of time; sleeps end and answers arrive when they are due.
Elapse ==
  /\ fetch = "sleeping" => timer < Refresh
  /\ fetch \in {"asking", "answered"} => hung \/ timer < Latency
  /\ timer' = IF hung THEN timer ELSE timer + 1
  /\ since' = [k \in Keys |-> IF since[k] > Bound THEN since[k] ELSE since[k] + 1]
  /\ UNCHANGED <<served, jwks, up, fetch, body, hung, failed, applied>>

TokensNext ==
  \/ \E k \in Keys : Rotate(k)
  \/ Respond \/ RespondBadly \/ Hang
  \/ Install \/ FetchFails \/ WakeUp
  \/ Elapse

\* Time passes, the task runs, and an endpoint asked again and again answers
\* properly some time unless it hangs.
TokensFair ==
  /\ WF_tokenVars(Elapse) /\ WF_tokenVars(WakeUp) /\ WF_tokenVars(Install)
  /\ SF_tokenVars(Respond)

-----------------------------------------------------------------------------
(* Properties.                                                             *)

\* The keys tokens are accepted with follow the endpoint: once a document
\* that has a key's last change was installed, tokens of the key are accepted if and
\* only if it is published, whatever fetches fail later; and that takes no longer
\* than Bound after the change unless a fetch fails or hangs (main.rs
\* spawn_jwks_refresh, verifier.rs set_jwks).
KeysFollow ==
  \A k \in Usable :
    /\ applied[k] => (k \in jwks <=> k \in served)
    /\ since[k] > Bound /\ ~failed[k] => applied[k]

\* A key that stays published is accepted in the end, however often fetches
\* fail, unless one of them hangs: main.rs, "Periodically refetch the JWKS so
\* rotated keys are picked up without a restart".
PublishedIsAccepted ==
  \A k \in Usable : <>[](k \in served) => <>[](k \in jwks) \/ <>[]hung
=============================================================================
