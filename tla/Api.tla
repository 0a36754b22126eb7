--------------------------------- MODULE Api ---------------------------------
(***************************************************************************)
(* The server API: a request is a batch of commands, one per line or one   *)
(* protobuf message after the other (centrifugo-server/src/api.rs), or one *)
(* gRPC call (grpc.rs).  The commands are decoded, validated and executed  *)
(* one after the other; each await of an engine or node call lets others   *)
(* run, lets the caller hang up, which drops the handler where it stands,  *)
(* and may fail, which is only logged.                                     *)
(*                                                                         *)
(* The three surfaces validate in the same order and differ in the coding  *)
(* of commands, which is left out but for one thing: a JSON body is text   *)
(* as a whole or it is not.                                                *)
(***************************************************************************)
EXTENDS Naturals, Sequences, SequencesExt

CONSTANTS
  Channels,      \* channels whose namespace exists
  WithPresence,  \* those with presence
  WithHistory,   \* those with history
  Unknown,       \* a channel whose namespace does not exist
  NoChannel,     \* the empty channel
  MaxBroadcast,  \* bound: channels of a broadcast
  MaxBatch       \* bound: commands of a request

ASSUME ApiAssumption ==
  /\ WithPresence \subseteq Channels /\ WithHistory \subseteq Channels
  /\ {Unknown, NoChannel} \cap Channels = {} /\ Unknown # NoChannel
  /\ MaxBroadcast \in Nat

VARIABLES
  readable, \* whether the body is UTF-8, which only that of JSON has to be
  batch,    \* the commands of the request as it was sent
  todo,     \* its commands not yet decoded
  busy,     \* whether a command is being executed
  doing,    \* the calls it still has to make
  calls,    \* the calls made, in order
  replies,  \* their error codes, 0 for none
  status    \* "open"; answered 200 or 400; the caller is "gone"

apiVars == <<readable, batch, todo, busy, doing, calls, replies, status>>

Names == Channels \cup {Unknown, NoChannel}
ChannelMethods ==
  {"publish", "unsubscribe", "presence", "presence_stats", "history", "history_remove"}

\* A command: data and name tell whether its data, and its user or its inner
\* method, are there; params whether they could be decoded.  One that could not
\* be decoded itself is Malformed.
Command == [method : ChannelMethods, channels : {<<c>> : c \in Names},
            data : BOOLEAN, name : BOOLEAN, params : BOOLEAN]
  \cup [method : {"broadcast"}, channels : UNION {[1..n -> Names] : n \in 0..MaxBroadcast},
        data : BOOLEAN, name : {TRUE}, params : BOOLEAN]
  \cup [method : {"disconnect", "rpc", "channels", "info", "none"}, channels : {<<>>},
        data : {TRUE}, name : BOOLEAN, params : BOOLEAN]
Malformed == [method |-> "malformed", channels |-> <<>>, data |-> FALSE, name |-> FALSE,
              params |-> FALSE]

\* A field that a method does not read has one value.
Reads(cmd) ==
  /\ cmd.method \notin {"publish", "broadcast"} => cmd.data
  /\ cmd.method \notin {"unsubscribe", "disconnect", "rpc"} => cmd.name
  /\ cmd.method \in {"channels", "info", "none"} => cmd.params
  /\ ~cmd.params => cmd.data /\ cmd.name /\ cmd.channels \in {<<>>, <<NoChannel>>}

Batches == UNION {[1..n -> {cmd \in Command : Reads(cmd)} \cup {Malformed}] : n \in 0..MaxBatch}

ApiInit(requests) ==
  /\ batch \in requests /\ todo = batch
  /\ readable \in BOOLEAN /\ (batch = <<>> => readable)
  /\ busy = FALSE /\ doing = <<>>
  /\ calls = <<>> /\ replies = <<>>
  /\ status = "open"

-----------------------------------------------------------------------------
(* Validation.                                                             *)

channel_caps(c) == IF c = NoChannel THEN 107 ELSE IF c = Unknown THEN 102 ELSE 0

\* Slip: only the first channel of a broadcast is looked at.
first_only(channels) == channel_caps(channels[1])

\* The first error among the channels of a broadcast.
first_error(channels) ==
  LET wrong == {i \in DOMAIN channels : channel_caps(channels[i]) # 0}
  IN  IF wrong = {} THEN 0
      ELSE channel_caps(channels[CHOOSE i \in wrong : \A j \in wrong : i <= j])

\* The channel, then what the method needs of it.
in_channel(c, set) ==
  IF channel_caps(c) # 0 THEN channel_caps(c) ELSE IF c \in set THEN 0 ELSE 108

\* The error code a command is answered with before anything was done, or 0.
validate(cmd) ==
  LET c == cmd.channels[1] IN
  IF ~cmd.params THEN 107 ELSE
  CASE cmd.method = "publish" -> IF cmd.data THEN channel_caps(c) ELSE 107
    [] cmd.method = "broadcast" ->
         IF cmd.channels = <<>> \/ ~cmd.data THEN 107 ELSE first_error(cmd.channels)
    [] cmd.method = "unsubscribe" ->
         IF ~cmd.name THEN 107 ELSE IF c = NoChannel THEN 0 ELSE channel_caps(c)
    [] cmd.method = "disconnect" -> IF cmd.name THEN 0 ELSE 107
    [] cmd.method \in {"presence", "presence_stats"} -> in_channel(c, WithPresence)
    [] cmd.method \in {"history", "history_remove"} -> in_channel(c, WithHistory)
    [] cmd.method = "rpc" -> IF cmd.name THEN 104 ELSE 107
    [] cmd.method \in {"channels", "info"} -> 0
    [] OTHER -> 104

\* The calls a valid command makes; channels and info only read the hub.
Calls(cmd) ==
  IF cmd.method = "broadcast"
  THEN [i \in DOMAIN cmd.channels |-> <<"publish", cmd.channels[i]>>]
  ELSE IF cmd.method = "disconnect" THEN <<<<"disconnect", NoChannel>>>>
  ELSE IF cmd.method \in ChannelMethods THEN <<<<cmd.method, cmd.channels[1]>>>>
  ELSE <<>>

-----------------------------------------------------------------------------
(* The handler.                                                            *)

\* Text that is not UTF-8 is rejected before any command of it is looked at.
RejectBody ==
  /\ status = "open" /\ ~readable
  /\ status' = "400"
  /\ UNCHANGED <<readable, batch, todo, busy, doing, calls, replies>>

Ready == status = "open" /\ ~busy /\ readable

\* A command that cannot be decoded ends the request.
Reject ==
  /\ Ready
  /\ batch = <<>> \/ (todo # <<>> /\ Head(todo) = Malformed)
  /\ status' = "400"
  /\ UNCHANGED <<readable, batch, todo, busy, doing, calls, replies>>

Refuse ==
  /\ Ready /\ todo # <<>> /\ Head(todo) # Malformed /\ validate(Head(todo)) # 0
  /\ todo' = Tail(todo)
  /\ replies' = Append(replies, validate(Head(todo)))
  /\ UNCHANGED <<readable, batch, busy, doing, calls, status>>

Execute ==
  /\ Ready /\ todo # <<>> /\ Head(todo) # Malformed /\ validate(Head(todo)) = 0
  /\ todo' = Tail(todo)
  /\ busy' = TRUE
  /\ doing' = Calls(Head(todo))
  /\ UNCHANGED <<readable, batch, calls, replies, status>>

\* A call that fails is logged by the node: the command goes on.
Call ==
  /\ busy /\ doing # <<>>
  /\ doing' = Tail(doing)
  /\ calls' = Append(calls, Head(doing))
  /\ UNCHANGED <<readable, batch, todo, busy, replies, status>>

Finish ==
  /\ busy /\ doing = <<>>
  /\ busy' = FALSE
  /\ replies' = Append(replies, 0)
  /\ UNCHANGED <<readable, batch, todo, doing, calls, status>>

Respond200 ==
  /\ Ready /\ batch # <<>> /\ todo = <<>>
  /\ status' = "200"
  /\ UNCHANGED <<readable, batch, todo, busy, doing, calls, replies>>

\* The command being executed.
Current == batch[Len(batch) - Len(todo)]

\* The caller hangs up: the handler is dropped while it waits for a call, made
\* or not.
HangUp ==
  /\ busy /\ Calls(Current) # <<>>
  /\ status' = "gone"
  /\ busy' = FALSE /\ doing' = <<>>
  /\ UNCHANGED <<readable, batch, todo, calls, replies>>

ApiNext == RejectBody \/ Reject \/ Refuse \/ Execute \/ Call \/ Finish \/ Respond200 \/ HangUp

-----------------------------------------------------------------------------
(* Properties.                                                             *)

\* What a caller may expect of a command, in no order: it names channels that
\* exist, it has what its method needs, and its channel offers it.
Proper(cmd) ==
  /\ cmd.params /\ cmd.data /\ cmd.name
  /\ cmd.method \notin {"rpc", "none", "malformed"}
  /\ \A i \in DOMAIN cmd.channels :
       cmd.channels[i] \in Channels \/ (cmd.method = "unsubscribe" /\ cmd.channels[i] = NoChannel)
  /\ cmd.method = "broadcast" => cmd.channels # <<>>
  /\ cmd.method \in {"presence", "presence_stats"} => cmd.channels[1] \in WithPresence
  /\ cmd.method \in {"history", "history_remove"} => cmd.channels[1] \in WithHistory

Asked(cmd) == IF Proper(cmd) THEN Calls(cmd) ELSE <<>>

\* The calls of the proper ones among the first n commands, in order.
Plan[n \in 0..Len(batch)] == IF n = 0 THEN <<>> ELSE Plan[n - 1] \o Asked(batch[n])

\* The commands before the first malformed one, if the body can be read.
Decodable ==
  IF ~readable THEN 0
  ELSE CHOOSE n \in 0..Len(batch) :
         /\ \A i \in 1..n : batch[i] # Malformed
         /\ n < Len(batch) => batch[n + 1] = Malformed

\* A request does what its proper commands ask for, in their order and nothing
\* else: at any time a prefix of it, all of it when it was answered, however many
\* calls fail.  A command answered with an error did nothing, a broadcast to one
\* wrong channel included; a 400 comes after all that precedes the command it is
\* about was done, or instead of everything where the body is not even text (api.rs
\* run_api, run_commands, run_protobuf, dispatch; grpc.rs).
BatchIsPlanned ==
  /\ IsPrefix(calls, Plan[Decodable])
  /\ status \in {"200", "400"} => calls = Plan[Decodable] /\ Len(replies) = Decodable
  /\ \A i \in DOMAIN replies : (replies[i] = 0) = Proper(batch[i])
=============================================================================
