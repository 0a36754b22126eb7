------------------------------ MODULE Services ------------------------------
(***************************************************************************)
(* Parts of a server that share no state: the history streams of its       *)
(* engine, the keys it verifies tokens with, its API and its check of      *)
(* origins.  As no step of one depends on another, a behaviour is about    *)
(* one of them.                                                            *)
(***************************************************************************)
EXTENDS Engines, Tokens, Api, Origin

VARIABLE part

Parts == {"streams", "tokens", "api", "origin"}

vars == <<part, engineVars, tokenVars, apiVars, globVars>>

\* What a part that is not looked at is left with.
OnlyIf(name, inputs) == IF part = name THEN inputs ELSE {<<>>}

Init ==
  /\ part \in Parts
  /\ EnginesInit /\ (part # "streams" => engine = "memory")
  /\ TokensInit
  /\ ApiInit(OnlyIf("api", Batches))
  /\ GlobInit(OnlyIf("origin", Patterns), OnlyIf("origin", Texts))

\* The history half of the engine, whoever calls it.
EngineNext ==
  EnginePublish \/ EngineHistory \/ EngineRemoveHistory \/ EngineTick

Next ==
  /\ UNCHANGED part
  /\ \/ part = "streams" /\ EngineNext /\ UNCHANGED <<tokenVars, apiVars, globVars>>
     \/ part = "tokens" /\ TokensNext /\ UNCHANGED <<engineVars, apiVars, globVars>>
     \/ part = "api" /\ ApiNext /\ UNCHANGED <<engineVars, tokenVars, globVars>>
     \/ part = "origin" /\ GlobNext /\ UNCHANGED <<engineVars, tokenVars, apiVars>>

\* Nothing is asked of the parts without a liveness property.
Spec == Init /\ [][Next]_vars /\ (part = "tokens" => TokensFair)
=============================================================================
