--------------------------- MODULE SessionProofs ---------------------------
(***************************************************************************)
(* What Session promises, proved for any channels, users, token lists,     *)
(* limits and periods.                                                     *)
(*                                                                         *)
(* The inductive invariant has one part per promise.  Each part relates    *)
(* what the properties compare to where the reader is: a property about    *)
(* the idle reader says nothing of a batch half way, the part does.        *)
(***************************************************************************)
EXTENDS Session, FiniteSetTheorems, WellFoundedInduction, TLAPS

\* What the hub and presence have of the connection at every step.  Only
\* on_disconnect takes subscriptions away while the hub still routes them.
Wired ==
  /\ ~authenticated => subs = {} /\ ~registered
  /\ presence = subs \cap PresenceOn
  /\ registered /\ pc # "leaving" => routed = subs
  /\ pc = "gone" => subs = {} /\ routed = {} /\ ~registered

Bounded ==
  /\ IsFiniteSet(subs)
  /\ LimitHolds

\* The reader is never later than its timer, and the timer never further ahead
\* than one period of anything that has lapsed.
Running == {"idle", "batch", "flush", "joins"}
Checked(e) == e > 0 => nextCheck <= e + Grace + Period
Timely ==
  /\ \A ch \in Channels \ subs : subExpire[ch] = 0
  /\ pc # "gone" => now <= nextCheck /\ nextCheck <= now + Period
  /\ authenticated /\ pc \in Running =>
       /\ Checked(expireAt)
       /\ \A ch \in subs : Checked(subExpire[ch])

\* A deferred Join belongs to a channel the replies of its frame subscribe.
Behind(chs) == \A i \in 1..Len(pendingJoins) : pendingJoins[i] \in chs
ReplyLeads ==
  /\ order # <<>> /\ "reply" \in DOMAIN order[1]
  /\ Behind(order[1].reply)
  /\ \A j \in 1..Len(order) : "join" \in DOMAIN order[j] => order[j].join \in order[1].reply
Ordered ==
  /\ pc \in {"idle", "close"} => pendingJoins = <<>>
  /\ pc \in {"batch", "flush"} => Behind(Subscribed(replies))
  /\ pc # "joins" => order = <<>>
  /\ pc = "joins" => ReplyLeads \/ (order = <<>> /\ pendingJoins = <<>>)

\* With one command per frame nothing is unsubscribed while its Join waits.
Waiting(ch) == \E i \in 1..Len(pendingJoins) : pendingJoins[i] = ch
Announced ==
  /\ \A ch \in JoinLeave : seen[ch] = "join" => ch \in subs
  /\ pc \in Running \cup {"close"} =>
       \A ch \in subs \cap JoinLeave : seen[ch] = "join" \/ Waiting(ch)
  /\ pc \in Running => Behind(subs \cap JoinLeave)
  /\ pc = "batch" /\ handled = 0 => pendingJoins = <<>>

-----------------------------------------------------------------------------
(* The operators of the model.                                             *)

\* Induction over the naturals, for a set in place of a predicate.
LEMMA SetInduction ==
  ASSUME NEW S, 0 \in S, \A n \in Nat : n \in S => n + 1 \in S
  PROVE  Nat \subseteq S
<1> DEFINE R == OpToRel(<, Nat)
           T == Nat \ S
<1> SUFFICES ASSUME T # {} PROVE FALSE
  OBVIOUS
<1>1. IsWellFoundedOn(R, Nat)
  BY NatLessThanWellFounded, Zenon
<1>2. T \subseteq Nat
  OBVIOUS
<1> HIDE DEF R, T
<1>3. PICK x \in T : \A y \in T : ~ (<<y, x>> \in R)
  BY <1>1, <1>2, WFMin
<1>4. x \in Nat /\ x # 0
  BY DEF T
<1>5. x - 1 \in Nat /\ x - 1 \notin T
  <2>1. x - 1 \in Nat /\ x - 1 < x
    BY <1>4
  <2>2. <<x - 1, x>> \in R
    BY <2>1, <1>4 DEF R, OpToRel
  <2> QED BY <2>1, <2>2, <1>3
<1> QED BY <1>3, <1>4, <1>5 DEF T

\* Deferred holds the channels of a list that have join_leave, and no other
\* channel (client.rs server_side_subscribe).
LEMMA DeferredJoins ==
  ASSUME NEW s \in Seq(Channels)
  PROVE  /\ Deferred(s) \in Seq(Channels)
         /\ \A i \in 1..Len(Deferred(s)) : Deferred(s)[i] \in ToSet(s) \cap JoinLeave
         /\ \A ch \in ToSet(s) \cap JoinLeave :
              \E i \in 1..Len(Deferred(s)) : Deferred(s)[i] = ch
<1> DEFINE Value(f, i) == IF i = 0 THEN <<>>
                          ELSE IF s[i] \in JoinLeave THEN Append(f[i - 1], s[i]) ELSE f[i - 1]
           IsUpTo(f, n) == f = [i \in 0..n |-> Value(f, i)]
           Defined == {n \in Nat : n <= Len(s) => \E f : IsUpTo(f, n)}
           upTo == CHOOSE f : IsUpTo(f, Len(s))
           Right(t, n) == /\ t \in Seq(Channels)
                          /\ \A i \in 1..Len(t) : t[i] \in JoinLeave /\ \E k \in 1..n : t[i] = s[k]
                          /\ \A k \in 1..n : s[k] \in JoinLeave => \E i \in 1..Len(t) : t[i] = s[k]
           Correct == {n \in Nat : n <= Len(s) => Right(upTo[n], n)}
<1>1. \E f : IsUpTo(f, Len(s))
  <2>1. 0 \in Defined
    <3>1. IsUpTo([i \in 0..0 |-> <<>>], 0)
      OBVIOUS
    <3> QED BY <3>1
  <2>2. ASSUME NEW n \in Nat, n \in Defined PROVE n + 1 \in Defined
    <3> SUFFICES ASSUME n + 1 <= Len(s) PROVE \E f : IsUpTo(f, n + 1)
      OBVIOUS
    <3>1. PICK g : IsUpTo(g, n)
      <4>1. n <= Len(s)
        OBVIOUS
      <4> HIDE DEF IsUpTo
      <4> QED BY <2>2, <4>1
    <3> DEFINE h == [i \in 0..(n + 1) |-> IF i = n + 1 THEN Value(g, i) ELSE g[i]]
    <3>2. \A i \in 0..n : g[i] = Value(g, i)
      BY <3>1
    <3>3. ASSUME NEW i \in 0..(n + 1) PROVE h[i] = Value(h, i)
      <4>1. i = 0 \/ h[i - 1] = g[i - 1]
        OBVIOUS
      <4>2. Value(h, i) = Value(g, i)
        BY <4>1
      <4>3. h[i] = Value(g, i)
        BY <3>2
      <4> QED BY <4>2, <4>3
    <3>4. h = [i \in 0..(n + 1) |-> h[i]]
      OBVIOUS
    <3> HIDE DEF h, Value
    <3>5. IsUpTo(h, n + 1)
      BY <3>3, <3>4
    <3> QED BY <3>5
  <2>3. Nat \subseteq Defined
    BY <2>1, <2>2, SetInduction
  <2>4. Len(s) \in Nat
    OBVIOUS
  <2>5. Len(s) \in Defined
    <3> HIDE DEF Defined
    <3> QED BY <2>3, <2>4
  <2> HIDE DEF IsUpTo
  <2> QED BY <2>4, <2>5
<1>2. IsUpTo(upTo, Len(s))
  BY <1>1
<1>3. \A i \in 0..Len(s) : upTo[i] = Value(upTo, i)
  <2> HIDE DEF upTo, Value
  <2> QED BY <1>2
<1>4. Deferred(s) = upTo[Len(s)]
  BY Zenon DEF Deferred
<1>5. Nat \subseteq Correct
  <2> HIDE DEF upTo
  <2>1. 0 \in Correct
    <3>1. upTo[0] = <<>>
      <4>1. 0 \in 0..Len(s)
        OBVIOUS
      <4> QED BY <4>1, <1>3
    <3>2. Right(<<>>, 0)
      OBVIOUS
    <3> HIDE DEF Right
    <3> QED BY <3>1, <3>2
  <2>2. ASSUME NEW n \in Nat, n \in Correct PROVE n + 1 \in Correct
    <3> SUFFICES ASSUME n + 1 <= Len(s) PROVE Right(upTo[n + 1], n + 1)
      OBVIOUS
    <3> DEFINE t == upTo[n]
    <3>1. Right(t, n)
      BY <2>2
    <3>2. upTo[n + 1] = IF s[n + 1] \in JoinLeave THEN Append(t, s[n + 1]) ELSE t
      BY <1>3
    <3>3. s[n + 1] \in Channels
      OBVIOUS
    <3> HIDE DEF t
    <3>4. CASE s[n + 1] \notin JoinLeave
      BY <3>1, <3>2, <3>4
    <3>5. CASE s[n + 1] \in JoinLeave
      <4> DEFINE u == Append(t, s[n + 1])
      <4>1. u \in Seq(Channels) /\ Len(u) = Len(t) + 1
        BY <3>1, <3>3
      <4>2. u[Len(t) + 1] = s[n + 1] /\ \A i \in 1..Len(t) : u[i] = t[i]
        BY <3>1, <3>3
      <4>3. upTo[n + 1] = u
        BY <3>2, <3>5
      <4>4. Len(t) \in Nat
        BY <3>1
      <4> HIDE DEF u
      <4>5. \A i \in 1..Len(u) : u[i] \in JoinLeave /\ \E k \in 1..(n + 1) : u[i] = s[k]
        <5> TAKE i \in 1..Len(u)
        <5>1. CASE i = Len(t) + 1
          BY <3>5, <4>2, <5>1
        <5>2. CASE i \in 1..Len(t)
          BY <3>1, <4>2, <5>2
        <5> QED BY <4>1, <4>4, <5>1, <5>2
      <4>6. \A k \in 1..(n + 1) : s[k] \in JoinLeave => \E i \in 1..Len(u) : u[i] = s[k]
        <5> TAKE k \in 1..(n + 1)
        <5> HAVE s[k] \in JoinLeave
        <5>1. CASE k = n + 1
          BY <4>1, <4>2, <4>4, <5>1
        <5>2. CASE k \in 1..n
          BY <3>1, <4>1, <4>2, <4>4, <5>2
        <5> QED BY <5>1, <5>2
      <4> QED BY <4>1, <4>3, <4>5, <4>6
    <3> QED BY <3>4, <3>5
  <2> QED BY <2>1, <2>2, SetInduction
<1>6. Right(Deferred(s), Len(s))
  <2> HIDE DEF upTo, Right
  <2>1. Len(s) \in Nat
    OBVIOUS
  <2>2. Len(s) \in Correct
    BY <2>1, <1>5
  <2> QED BY <2>1, <2>2, <1>4
<1> QED BY <1>6 DEF ToSet

\* A further reply adds the channels it subscribes to those of the frame
\* (ws.rs collects the replies of a batch).
LEMMA SubscribedAppend ==
  ASSUME NEW rs \in Seq(SUBSET Channels), NEW chs \in SUBSET Channels
  PROVE  /\ Append(rs, chs) \in Seq(SUBSET Channels)
         /\ Subscribed(Append(rs, chs)) = Subscribed(rs) \cup chs
         /\ Subscribed(rs) \subseteq Channels
<1> DEFINE u == Append(rs, chs)
<1>1. u \in Seq(SUBSET Channels) /\ Len(u) = Len(rs) + 1
  OBVIOUS
<1>2. u[Len(rs) + 1] = chs /\ \A i \in 1..Len(rs) : u[i] = rs[i]
  OBVIOUS
<1>3. Len(rs) \in Nat /\ \A i \in 1..Len(rs) : rs[i] \subseteq Channels
  OBVIOUS
<1> HIDE DEF u
<1>4. Subscribed(u) \subseteq Subscribed(rs) \cup chs
  BY <1>1, <1>2, <1>3 DEF Subscribed
<1>5. chs \subseteq Subscribed(u)
  <2>1. Len(rs) + 1 \in 1..Len(u)
    BY <1>1, <1>3
  <2> QED BY <2>1, <1>2 DEF Subscribed
<1>6. Subscribed(rs) \subseteq Subscribed(u)
  <2>1. ASSUME NEW ch, NEW i \in 1..Len(rs), ch \in rs[i] PROVE ch \in Subscribed(u)
    <3>1. i \in 1..Len(u)
      BY <1>1, <1>3
    <3> QED BY <3>1, <2>1, <1>2 DEF Subscribed
  <2> QED BY <2>1 DEF Subscribed
<1>7. Subscribed(rs) \subseteq Channels
  BY <1>3 DEF Subscribed
<1> QED BY <1>1, <1>4, <1>5, <1>6, <1>7 DEF u

\* A token's list names finitely many channels (client.rs on_connect).
LEMMA ListIsFinite ==
  ASSUME NEW s \in Seq(Channels)
  PROVE  IsFiniteSet(ToSet(s))
<1> DEFINE f == [i \in 1..Len(s) |-> s[i]]
<1>1. IsFiniteSet(1..Len(s))
  BY FS_Interval
<1>2. f \in Surjection(1..Len(s), ToSet(s))
  BY DEF Surjection, ToSet
<1> QED BY <1>1, <1>2, FS_Surjection

-----------------------------------------------------------------------------
(* One lemma for each part of the invariant, one step for each handler.    *)

\* A new Client has the types (client.rs Client::new).
LEMMA TypeInit == Init => SessionTypeOK
<1> SUFFICES ASSUME Init PROVE SessionTypeOK
  OBVIOUS
<1>1. /\ pendingJoins \in Seq(Channels) /\ replies \in Seq(SUBSET Channels)
      /\ order \in Seq(Item) /\ ctrl \in Seq(Signals) /\ Len(ctrl) = 0
  BY DEF Init
<1>2. /\ now \in Nat \ {0} /\ nextCheck \in Nat /\ handled \in 0..MaxBatch /\ 0 <= CtrlQueue
      /\ expireAt \in Nat /\ subExpire \in [Channels -> Nat]
  BY SessionAssumption DEF Init
<1> QED BY <1>1, <1>2, SessionAssumption DEF Init, SessionTypeOK

\* unsubscribe_channel keeps the types of what it writes.
LEMMA UnsubscribeType ==
  ASSUME SessionTypeOK, NEW ch \in Channels, unsubscribe_channel(ch)
  PROVE  /\ subs' \subseteq Channels /\ serverSubs' \subseteq subs'
         /\ subExpire' \in [Channels -> Nat]
         /\ routed' \subseteq Channels /\ presence' \subseteq Channels
         /\ seen' \in [Channels -> {"nothing", "join", "leave"}]
         /\ registered' = registered /\ indexedAs' = indexedAs
<1>1. seen' \in [Channels -> {"nothing", "join", "leave"}]
  BY DEF unsubscribe_channel, SessionTypeOK
<1>2. subExpire' \in [Channels -> Nat]
  BY DEF unsubscribe_channel, SessionTypeOK
<1> QED BY <1>1, <1>2 DEF unsubscribe_channel, SessionTypeOK

\* Every handler keeps the types (client.rs handle_command, ws.rs handle_socket).
LEMMA TypeStep == SessionTypeOK /\ [Next]_vars => SessionTypeOK'
<1> SUFFICES ASSUME SessionTypeOK, [Next]_vars PROVE SessionTypeOK'
  OBVIOUS
<1> USE SessionAssumption DEF SessionTypeOK, identity, subscriptions, batch, node, wire, outside,
        Handling
<1>a. Refuse => replies' \in Seq(SUBSET Channels) /\ disconnect' = disconnect
  BY SubscribedAppend DEF Refuse, Answer
<1>b. \A code : Drop(code) => replies' = replies /\ disconnect' = code
  BY DEF Drop
<1>c. ASSUME NEW s \in Signals, SendSignal(s)
      PROVE  ctrl' \in Seq(Signals) /\ Len(ctrl') <= CtrlQueue
  <2>1. /\ Append(ctrl, s) \in Seq(Signals)
        /\ Len(Append(ctrl, s)) = Len(ctrl) + 1 /\ Len(ctrl) \in Nat
    OBVIOUS
  <2>2. CASE pc # "gone" /\ Len(ctrl) < CtrlQueue
    <3>1. ctrl' = Append(ctrl, s)
      BY <1>c, <2>2 DEF SendSignal
    <3> QED BY <2>1, <2>2, <3>1
  <2>3. CASE ~(pc # "gone" /\ Len(ctrl) < CtrlQueue)
    BY <1>c, <2>3 DEF SendSignal
  <2> QED BY <2>2, <2>3
<1>1. CASE UNCHANGED vars
  BY <1>1 DEF vars
<1>2. CASE BadCommand
  BY <1>a, <1>b, <1>2 DEF BadCommand, Codes
<1>3. CASE connect_rejected
  BY <1>a, <1>b, <1>3 DEF connect_rejected, Codes
<1>4. CASE connect_over_limit
  <2>1. \A c \in Credentials : c.user \in Users /\ c.expireAt \in Nat
    BY DEF Credentials, Expiries
  <2> QED BY <1>b, <1>4, <2>1 DEF connect_over_limit, Codes
<1>5. CASE connect_ok
  <2>1. PICK c \in Credentials :
          /\ ToSet(c.channels) \subseteq Known
          /\ authenticated' = TRUE /\ user' = c.user /\ expireAt' = c.expireAt
          /\ registered' = TRUE /\ indexedAs' = c.user
          /\ subs' = ToSet(c.channels) /\ serverSubs' = ToSet(c.channels)
          /\ subExpire' = subExpire
          /\ routed' = ToSet(c.channels)
          /\ presence' = ToSet(c.channels) \cap PresenceOn
          /\ pendingJoins' = Deferred(c.channels)
          /\ replies' = Append(replies, ToSet(c.channels)) /\ disconnect' = disconnect
    BY <1>5 DEF connect_ok, Answer
  <2>2. c.user \in Users /\ c.expireAt \in Nat /\ c.channels \in Seq(Channels)
    BY DEF Credentials, Expiries
  <2>3. Deferred(c.channels) \in Seq(Channels)
    BY <2>2, DeferredJoins
  <2>4. Append(replies, ToSet(c.channels)) \in Seq(SUBSET Channels)
    BY <2>1
  <2> QED BY <1>5, <2>1, <2>2, <2>3, <2>4 DEF connect_ok
<1>6. CASE subscribe_rejected
  BY <1>a, <1>b, <1>6 DEF subscribe_rejected, Codes
<1>7. CASE on_refresh
  <2>1. \A c \in Credentials : c.user \in Users /\ c.expireAt \in Nat
    BY DEF Credentials, Expiries
  <2> DEFINE Typed == /\ authenticated' \in BOOLEAN /\ user' \in Users /\ expireAt' \in Nat
                      /\ replies' \in Seq(SUBSET Channels) /\ disconnect' \in Codes \cup {0}
  <2>2. Typed
    <3>1. CASE RefreshProxy /\ Drop(BadRequest) /\ UNCHANGED identity
      BY <1>b, <3>1 DEF Codes
    <3>2. ASSUME NEW code \in {ExpiredCode, InvalidToken}, Drop(code), UNCHANGED identity
          PROVE  Typed
      BY <1>b, <3>2 DEF Codes
    <3>3. ASSUME NEW c \in Credentials, expireAt' = c.expireAt, Refuse, UNCHANGED authenticated,
                 user' = IF c.user # Anonymous THEN c.user ELSE user
          PROVE  Typed
      BY <1>a, <2>1, <3>3
    <3> HIDE DEF Typed
    <3> QED BY <1>7, <3>1, <3>2, <3>3 DEF on_refresh
  <2>3. /\ UNCHANGED <<subscriptions, pendingJoins, node, pc, wire, outside>>
        /\ handled' \in 0..MaxBatch
    BY <1>7 DEF on_refresh
  <2> QED BY <2>2, <2>3
<1>8. CASE query
  BY <1>a, <1>b, <1>8 DEF query, Codes
<1>9. ASSUME NEW ch \in Channels, on_subscribe(ch) PROVE SessionTypeOK'
  <2>1. Expiries \subseteq Nat
    BY DEF Expiries
  <2>2. replies' \in Seq(SUBSET Channels) /\ disconnect' = disconnect
    BY <1>9, SubscribedAppend DEF on_subscribe, Answer
  <2> QED BY <1>9, <2>1, <2>2 DEF on_subscribe
<1>10. ASSUME NEW ch \in Channels, on_unsubscribe(ch) PROVE SessionTypeOK'
  <2>1. replies' \in Seq(SUBSET Channels) /\ disconnect' = disconnect /\ handled' \in 0..MaxBatch
    BY <1>a, <1>10 DEF on_unsubscribe
  <2>2. CASE ch \in subs
    BY <1>10, <2>1, <2>2, UnsubscribeType DEF on_unsubscribe
  <2>3. CASE ch \notin subs
    BY <1>10, <2>1, <2>3 DEF on_unsubscribe
  <2> QED BY <2>2, <2>3
<1>11. ASSUME NEW ch \in Channels, on_sub_refresh(ch) PROVE SessionTypeOK'
  <2>1. Expiries \subseteq Nat
    BY DEF Expiries
  <2> QED BY <1>a, <1>b, <1>11, <2>1 DEF on_sub_refresh, Codes
<1>12. CASE Frame
  BY <1>12 DEF Frame
<1>13. CASE StreamEnds
  BY <1>13 DEF StreamEnds
<1>14. CASE BadFrame
  BY <1>14 DEF BadFrame, Codes
<1>15. CASE BatchDone
  BY <1>15 DEF BatchDone
<1>16. CASE Flush
  <2>1. [reply |-> Subscribed(replies)] \in Item
    BY SubscribedAppend DEF Item
  <2>2. order' \in Seq(Item)
    <3>1. \/ order' = order
          \/ order' = Append(order, [reply |-> Subscribed(replies)])
      BY <1>16 DEF Flush
    <3> DEFINE item == [reply |-> Subscribed(replies)]
    <3> HIDE DEF item
    <3>2. item \in Item => Append(order, item) \in Seq(Item)
      OBVIOUS
    <3> QED BY <2>1, <3>1, <3>2 DEF item
  <2>3. <<>> \in Seq(SUBSET Channels) /\ 0 \in 0..MaxBatch
    OBVIOUS
  <2> QED BY <1>16, <2>2, <2>3 DEF Flush
<1>17. CASE flush_pending_joins
  <2>1. Head(pendingJoins) \in Channels /\ Tail(pendingJoins) \in Seq(Channels)
    BY <1>17 DEF flush_pending_joins
  <2>2. [join |-> Head(pendingJoins)] \in Item
    BY <2>1 DEF Item
  <2>3. order' \in Seq(Item)
    BY <1>17, <2>2 DEF flush_pending_joins
  <2> QED BY <1>17, <2>1, <2>3 DEF flush_pending_joins
<1>18. CASE JoinsDone
  BY <1>18 DEF JoinsDone
<1>19. CASE Close
  BY <1>19 DEF Close
<1>20. CASE ExpiryTick
  <2>1. check_expired(expireAt') \in Codes \cup {0}
    BY DEF check_expired, Codes
  <2>2. disconnect' \in Codes \cup {0} /\ expireAt' \in Nat
    BY <1>20, <2>1 DEF ExpiryTick, Codes
  <2> QED BY <1>20, <2>2 DEF ExpiryTick
<1>21. CASE PresenceTick
  BY <1>21 DEF PresenceTick
<1>22. CASE SignalUnsubscribe
  <2>1. Tail(ctrl) \in Seq(Signals) /\ Len(Tail(ctrl)) <= CtrlQueue
    BY <1>22 DEF SignalUnsubscribe
  <2>2. Head(ctrl) \in Signals
    BY <1>22 DEF SignalUnsubscribe
  <2>3. Head(ctrl).unsubscribe \in Channels \cup {AllChannels}
    BY <1>22, <2>2 DEF SignalUnsubscribe, Signals
  <2> DEFINE ch == Head(ctrl).unsubscribe
  <2>4. CASE ch # AllChannels /\ ch \in subs
    <3>1. unsubscribe_channel(ch) /\ ch \in Channels
      BY <1>22, <2>3, <2>4 DEF SignalUnsubscribe
    <3> HIDE DEF ch
    <3> QED BY <1>22, <2>1, <3>1, UnsubscribeType DEF SignalUnsubscribe
  <2>5. CASE ch # AllChannels /\ ch \notin subs
    BY <1>22, <2>1, <2>3, <2>5 DEF SignalUnsubscribe
  <2>6. CASE ch = AllChannels
    BY <1>22, <2>1, <2>6 DEF SignalUnsubscribe
  <2> QED BY <2>4, <2>5, <2>6
<1>23. CASE SignalDisconnect
  <2>1. Tail(ctrl) \in Seq(Signals) /\ Len(Tail(ctrl)) <= CtrlQueue
    BY <1>23 DEF SignalDisconnect
  <2>2. Head(ctrl).disconnect \in Codes
    BY <1>23 DEF SignalDisconnect, Signals, Codes
  <2> QED BY <1>23, <2>1, <2>2 DEF SignalDisconnect
<1>24. ASSUME NEW ch \in Channels, DisconnectChannel(ch) PROVE SessionTypeOK'
  BY <1>24 DEF DisconnectChannel
<1>25. CASE DisconnectDone
  BY <1>25 DEF DisconnectDone
<1>26. CASE DroppedAsSlow
  BY <1>26 DEF DroppedAsSlow
<1>27. CASE WriterEnds
  BY <1>27 DEF WriterEnds
<1>28. CASE Tick
  BY <1>28 DEF Tick
<1>29. ASSUME NEW u \in Users, DisconnectUser(u) PROVE SessionTypeOK'
  <2>1. [disconnect |-> Forced] \in Signals
    BY DEF Signals, Forced
  <2>2. ctrl' \in Seq(Signals) /\ Len(ctrl') <= CtrlQueue
    BY <1>29, <2>1, <1>c DEF DisconnectUser
  <2> QED BY <1>29, <2>2 DEF DisconnectUser
<1>30. ASSUME NEW u \in Users, NEW ch \in Channels \cup {AllChannels}, UnsubscribeUser(u, ch)
       PROVE  SessionTypeOK'
  <2>1. [unsubscribe |-> ch] \in Signals
    BY DEF Signals, Forced
  <2>2. ctrl' \in Seq(Signals) /\ Len(ctrl') <= CtrlQueue
    BY <1>30, <2>1, <1>c DEF UnsubscribeUser
  <2> QED BY <1>30, <2>2 DEF UnsubscribeUser
<1> HIDE DEF SessionTypeOK
<1> QED
  BY <1>1, <1>2, <1>3, <1>4, <1>5, <1>6, <1>7, <1>8, <1>9, <1>10, <1>11, <1>12, <1>13, <1>14,
     <1>15, <1>16, <1>17, <1>18, <1>19, <1>20, <1>21, <1>22, <1>23, <1>24, <1>25, <1>26, <1>27,
     <1>28, <1>29, <1>30
  DEF Next, Reader, Environment, Command, Proceed, Signal

\* Subscriptions, hub and presence change together: a handler that touches one
\* of them touches the others, on_disconnect in two stages (client.rs
\* on_connect, on_subscribe, unsubscribe_channel, on_disconnect).
LEMMA WiredStep == SessionTypeOK /\ Wired /\ [Next]_vars => Wired'
<1> SUFFICES ASSUME SessionTypeOK, Wired, [Next]_vars PROVE Wired'
  OBVIOUS
<1> USE DEF identity, subscriptions, node, Handling
<1> DEFINE Wires == <<subs, presence, routed, registered>>
<1>a. ASSUME UNCHANGED Wires, authenticated => authenticated',
             pc' = "gone" => pc = "gone", pc = "leaving" => pc' = "leaving"
      PROVE  Wired'
  BY <1>a DEF Wired
<1>b. ASSUME NEW ch \in Channels, unsubscribe_channel(ch), pc' = pc, authenticated' = authenticated
      PROVE  Wired'
  <2>1. presence' = subs' \cap PresenceOn
    BY <1>b DEF Wired, unsubscribe_channel
  <2>2. registered' /\ pc' # "leaving" => routed' = subs'
    BY <1>b DEF Wired, unsubscribe_channel
  <2> QED BY <1>b, <2>1, <2>2 DEF Wired, unsubscribe_channel
<1>1. CASE UNCHANGED vars
  BY <1>1, <1>a DEF vars
<1>2. CASE BadCommand \/ connect_rejected \/ connect_over_limit \/ subscribe_rejected \/ query
  BY <1>2, <1>a
  DEF BadCommand, connect_rejected, connect_over_limit, subscribe_rejected, query
<1>3. CASE connect_ok
  BY <1>3 DEF connect_ok, Wired
<1>4. CASE on_refresh
  BY <1>4, <1>a DEF on_refresh
<1>5. ASSUME NEW ch \in Channels, on_subscribe(ch) PROVE Wired'
  <2>1. presence' = subs' \cap PresenceOn
    BY <1>5 DEF Wired, on_subscribe
  <2>2. registered' => routed' = subs'
    BY <1>5 DEF Wired, on_subscribe
  <2>3. pc' = "batch" /\ authenticated'
    BY <1>5 DEF on_subscribe
  <2> QED BY <2>1, <2>2, <2>3 DEF Wired
<1>6. ASSUME NEW ch \in Channels, on_unsubscribe(ch) PROVE Wired'
  BY <1>6, <1>a, <1>b DEF on_unsubscribe
<1>7. ASSUME NEW ch \in Channels, on_sub_refresh(ch) PROVE Wired'
  BY <1>7, <1>a DEF on_sub_refresh
<1>8. CASE Frame \/ BadFrame \/ StreamEnds \/ BatchDone \/ Flush \/ flush_pending_joins
           \/ JoinsDone \/ Close
  BY <1>8, <1>a DEF Frame, BadFrame, StreamEnds, BatchDone, Flush, flush_pending_joins,
                    JoinsDone, Close
<1>9. CASE ExpiryTick \/ SignalDisconnect \/ WriterEnds \/ Tick
  BY <1>9, <1>a DEF ExpiryTick, SignalDisconnect, WriterEnds, Tick
<1>10. CASE PresenceTick
  BY <1>10 DEF PresenceTick, Wired
<1>11. CASE SignalUnsubscribe
  <2> DEFINE ch == Head(ctrl).unsubscribe
  <2>1. pc' = pc /\ pc = "idle" /\ authenticated' = authenticated
    BY <1>11 DEF SignalUnsubscribe
  <2>2. CASE ch # AllChannels /\ ch \in subs
    BY <1>11, <2>1, <2>2, <1>b DEF SignalUnsubscribe, SessionTypeOK
  <2>3. CASE ch # AllChannels /\ ch \notin subs
    BY <1>11, <2>1, <2>3, <1>a DEF SignalUnsubscribe
  <2>4. CASE ch = AllChannels
    <3>1. /\ subs' = {} /\ registered' = registered
          /\ presence' = presence \ subs /\ routed' = routed \ subs
      BY <1>11, <2>4 DEF SignalUnsubscribe
    <3>2. presence' = {} /\ (registered' => routed' = {})
      BY <2>1, <3>1 DEF Wired
    <3> QED BY <2>1, <3>1, <3>2 DEF Wired
  <2> QED BY <2>2, <2>3, <2>4
<1>12. ASSUME NEW ch \in Channels, DisconnectChannel(ch) PROVE Wired'
  BY <1>12 DEF DisconnectChannel, Wired
<1>13. CASE DisconnectDone
  BY <1>13 DEF DisconnectDone, Wired
<1>14. CASE DroppedAsSlow
  BY <1>14 DEF DroppedAsSlow, Wired
<1>15. ASSUME NEW u \in Users, DisconnectUser(u) PROVE Wired'
  BY <1>15, <1>a DEF DisconnectUser
<1>16. ASSUME NEW u \in Users, NEW ch \in Channels \cup {AllChannels}, UnsubscribeUser(u, ch)
       PROVE  Wired'
  BY <1>16, <1>a DEF UnsubscribeUser
<1> QED
  BY <1>1, <1>2, <1>3, <1>4, <1>5, <1>6, <1>7, <1>8, <1>9, <1>10, <1>11, <1>12, <1>13, <1>14,
     <1>15, <1>16
  DEF Next, Reader, Environment, Command, Proceed, Signal

\* Only on_subscribe adds a subscription to existing ones, and it looks at the
\* limit; what takes one away takes it from both sets (client.rs on_subscribe).
LEMMA BoundedStep == SessionTypeOK /\ Wired /\ Bounded /\ [Next]_vars => Bounded'
<1> SUFFICES ASSUME SessionTypeOK, Wired, Bounded, [Next]_vars PROVE Bounded'
  OBVIOUS
<1> USE DEF subscriptions, Handling
<1>a. ASSUME UNCHANGED <<subs, serverSubs>> PROVE Bounded'
  BY <1>a DEF Bounded, LimitHolds
<1>b. ASSUME NEW ch, subs' = subs \ {ch}, serverSubs' = serverSubs \ {ch} PROVE Bounded'
  <2>1. IsFiniteSet(subs') /\ Cardinality(subs') <= Cardinality(subs) /\ Cardinality(subs) \in Nat
        /\ Cardinality(subs') \in Nat
    BY <1>b, FS_Subset, FS_CardinalityType DEF Bounded
  <2>2. ChannelLimit > 0 /\ subs' # serverSubs' => Cardinality(subs) <= ChannelLimit
    BY <1>b DEF Bounded, LimitHolds
  <2> QED BY <2>1, <2>2, SessionAssumption DEF Bounded, LimitHolds
<1>1. CASE UNCHANGED vars
  BY <1>1, <1>a DEF vars
<1>2. CASE BadCommand \/ connect_rejected \/ connect_over_limit \/ subscribe_rejected
           \/ on_refresh \/ query
  BY <1>2, <1>a
  DEF BadCommand, connect_rejected, connect_over_limit, subscribe_rejected, on_refresh, query
<1>3. CASE connect_ok
  <2>1. PICK c \in Credentials : subs' = ToSet(c.channels) /\ serverSubs' = ToSet(c.channels)
    BY <1>3 DEF connect_ok
  <2>2. c.channels \in Seq(Channels)
    BY SessionAssumption DEF Credentials
  <2>3. IsFiniteSet(ToSet(c.channels))
    BY <2>2, ListIsFinite
  <2> QED BY <2>1, <2>3 DEF Bounded, LimitHolds
<1>4. ASSUME NEW ch \in Channels, on_subscribe(ch) PROVE Bounded'
  <2>1. subs' = subs \cup {ch} /\ ~LimitReached
    BY <1>4 DEF on_subscribe
  <2>2. /\ IsFiniteSet(subs') /\ Cardinality(subs) \in Nat /\ Cardinality(subs') \in Nat
        /\ Cardinality(subs') <= Cardinality(subs) + 1
    <3>1. IsFiniteSet(subs) /\ IsFiniteSet(subs')
      BY <2>1, FS_AddElement DEF Bounded
    <3>2. Cardinality(subs) \in Nat /\ Cardinality(subs') \in Nat
      BY <3>1, FS_CardinalityType
    <3>3. Cardinality(subs') \in {Cardinality(subs), Cardinality(subs) + 1}
      BY <2>1, <3>1, FS_AddElement
    <3> QED BY <3>1, <3>2, <3>3
  <2> QED BY <2>1, <2>2, SessionAssumption DEF Bounded, LimitHolds, LimitReached
<1>5. ASSUME NEW ch \in Channels, on_unsubscribe(ch) PROVE Bounded'
  BY <1>5, <1>a, <1>b DEF on_unsubscribe, unsubscribe_channel
<1>6. ASSUME NEW ch \in Channels, on_sub_refresh(ch) PROVE Bounded'
  BY <1>6, <1>a DEF on_sub_refresh
<1>7. CASE Frame \/ BadFrame \/ StreamEnds \/ BatchDone \/ Flush \/ flush_pending_joins
           \/ JoinsDone \/ Close \/ ExpiryTick \/ SignalDisconnect \/ PresenceTick
  BY <1>7, <1>a DEF Frame, BadFrame, StreamEnds, BatchDone, Flush, flush_pending_joins,
                    JoinsDone, Close, ExpiryTick, SignalDisconnect, PresenceTick
<1>8. CASE SignalUnsubscribe
  <2>1. CASE subs' = {} /\ serverSubs' = {}
    BY <2>1, FS_EmptySet DEF Bounded, LimitHolds
  <2> QED BY <1>8, <2>1, <1>a, <1>b DEF SignalUnsubscribe, unsubscribe_channel
<1>9. ASSUME NEW ch \in Channels, DisconnectChannel(ch) PROVE Bounded'
  BY <1>9, <1>b DEF DisconnectChannel
<1>10. CASE DisconnectDone \/ DroppedAsSlow \/ WriterEnds \/ Tick
  BY <1>10, <1>a DEF DisconnectDone, DroppedAsSlow, WriterEnds, Tick
<1>11. ASSUME NEW u \in Users, DisconnectUser(u) PROVE Bounded'
  BY <1>11, <1>a DEF DisconnectUser
<1>12. ASSUME NEW u \in Users, NEW ch \in Channels \cup {AllChannels}, UnsubscribeUser(u, ch)
       PROVE  Bounded'
  BY <1>12, <1>a DEF UnsubscribeUser
<1> QED
  BY <1>1, <1>2, <1>3, <1>4, <1>5, <1>6, <1>7, <1>8, <1>9, <1>10, <1>11, <1>12
  DEF Next, Reader, Environment, Command, Proceed, Signal

\* A new expiry lies ahead, an old one has passed the last check, and the next
\* check is one period after that (client.rs check_expired).
LEMMA TimelyStep == SessionTypeOK /\ Wired /\ Timely /\ [Next]_vars => Timely'
<1> SUFFICES ASSUME SessionTypeOK, Wired, Timely, [Next]_vars PROVE Timely'
  OBVIOUS
<1> USE DEF identity, subscriptions, outside, Handling
<1>t. /\ now \in Nat \ {0} /\ nextCheck \in Nat /\ Grace \in Nat /\ Period \in Nat \ {0}
      /\ expireAt \in Nat /\ subExpire \in [Channels -> Nat] /\ subs \subseteq Channels
  BY SessionAssumption DEF SessionTypeOK
<1>e. ASSUME NEW e \in Expiries, pc # "gone", nextCheck' = nextCheck PROVE Checked(e)'
  BY <1>e, <1>t, SessionAssumption DEF Expiries, Checked, Timely
<1>z. Checked(0)'
  BY DEF Checked
<1>a. ASSUME UNCHANGED <<now, nextCheck>>, pc' = "gone" \/ pc # "gone",
             \A ch \in Channels \ subs' : subExpire'[ch] = 0,
             authenticated' /\ pc' \in Running =>
               Checked(expireAt)' /\ \A ch \in subs' : Checked(subExpire[ch])'
      PROVE  Timely'
  BY <1>a DEF Timely
<1>b. ASSUME UNCHANGED <<now, nextCheck, expireAt, subExpire, subs>>, pc' = "gone" \/ pc # "gone",
             pc' \in Running /\ authenticated' => pc \in Running /\ authenticated
      PROVE  Timely'
  BY <1>b DEF Timely, Checked
<1>c. ASSUME NEW ch \in Channels, unsubscribe_channel(ch),
             UNCHANGED <<now, nextCheck, expireAt, authenticated, pc>>
      PROVE  Timely'
  <2>1. \A c \in Channels : subExpire'[c] = IF c = ch THEN 0 ELSE subExpire[c]
    BY <1>c, <1>t DEF unsubscribe_channel
  <2>2. subs' = subs \ {ch}
    BY <1>c DEF unsubscribe_channel
  <2>3. \A c \in Channels \ subs' : subExpire'[c] = 0
    BY <2>1, <2>2 DEF Timely
  <2>4. \A c \in subs' : subExpire'[c] = subExpire[c]
    BY <2>1, <2>2, <1>t
  <2> QED BY <1>c, <2>2, <2>3, <2>4 DEF Timely, Checked
<1>1. CASE UNCHANGED vars
  BY <1>1, <1>b DEF vars
<1>2. CASE BadCommand \/ connect_rejected \/ subscribe_rejected \/ query
  BY <1>2, <1>b DEF BadCommand, connect_rejected, subscribe_rejected, query
<1>3. CASE connect_over_limit \/ connect_ok
  <2>1. /\ ~authenticated /\ pc = "batch" /\ UNCHANGED <<now, nextCheck, subExpire>>
        /\ expireAt' \in Expiries
    BY <1>3 DEF connect_over_limit, connect_ok, Credentials
  <2>2. subs = {} /\ \A ch \in Channels : subExpire'[ch] = 0
    BY <2>1 DEF Wired, Timely
  <2>3. subs' \subseteq Channels
    BY <1>3, <1>t, SessionAssumption DEF connect_over_limit, connect_ok
  <2>4. \A ch \in subs' : Checked(subExpire[ch])'
    BY <2>2, <2>3 DEF Checked
  <2> QED BY <2>1, <2>2, <2>4, <1>a, <1>e
<1>4. CASE on_refresh
  <2>1. /\ authenticated /\ pc = "batch" /\ pc' = pc
        /\ UNCHANGED <<now, nextCheck, subExpire, subs, authenticated>>
        /\ expireAt' = expireAt \/ expireAt' \in Expiries
    BY <1>4 DEF on_refresh, Credentials
  <2>2. Checked(expireAt)'
    BY <2>1, <1>e DEF Timely, Checked, Running
  <2>3. \A ch \in subs' : Checked(subExpire[ch])'
    BY <2>1 DEF Timely, Checked, Running
  <2>4. \A ch \in Channels \ subs' : subExpire'[ch] = 0
    BY <2>1 DEF Timely
  <2> QED BY <2>1, <2>2, <2>3, <2>4, <1>a
<1>5. ASSUME NEW ch \in Channels, on_subscribe(ch) \/ on_sub_refresh(ch) PROVE Timely'
  <2>1. /\ authenticated /\ pc = "batch" /\ pc' = pc
        /\ UNCHANGED <<now, nextCheck, expireAt, authenticated>>
    BY <1>5 DEF on_subscribe, on_sub_refresh
  <2>2. CASE subExpire' = subExpire /\ subs' = subs
    BY <2>1, <2>2, <1>b
  <2>3. CASE /\ \E e \in Expiries : subExpire' = [subExpire EXCEPT ![ch] = e]
             /\ subs' = subs \cup {ch}
    <3>1. PICK e \in Expiries : subExpire' = [subExpire EXCEPT ![ch] = e]
      BY <2>3
    <3>2. \A c \in Channels : subExpire'[c] = IF c = ch THEN e ELSE subExpire[c]
      BY <3>1, <1>t
    <3>3. subs' \subseteq subs \cup {ch} /\ subs \subseteq subs' /\ ch \in subs'
      BY <2>3
    <3>4. \A c \in subs' : Checked(subExpire[c])'
      <4>1. Checked(e)'
        BY <2>1, <1>e
      <4>2. \A c \in subs : Checked(subExpire[c])
        BY <2>1 DEF Timely, Running
      <4>3. TAKE c \in subs'
      <4>4. CASE c = ch
        BY <4>1, <4>4, <3>2 DEF Checked
      <4>5. CASE c # ch
        BY <4>2, <4>5, <3>2, <3>3, <2>1, <1>t DEF Checked
      <4> QED BY <4>4, <4>5
    <3>5. \A c \in Channels \ subs' : subExpire'[c] = 0
      BY <3>2, <3>3 DEF Timely
    <3>6. Checked(expireAt)'
      BY <2>1 DEF Timely, Checked, Running
    <3> QED BY <2>1, <3>4, <3>5, <3>6, <1>a
  <2>4. \/ subExpire' = subExpire /\ subs' = subs
        \/ /\ \E e \in Expiries : subExpire' = [subExpire EXCEPT ![ch] = e]
           /\ subs' = subs \cup {ch}
    BY <1>5 DEF on_subscribe, on_sub_refresh, Expiries
  <2> QED BY <2>2, <2>3, <2>4
<1>6. ASSUME NEW ch \in Channels, on_unsubscribe(ch) PROVE Timely'
  BY <1>6, <1>b, <1>c DEF on_unsubscribe
<1>7. CASE Frame \/ BadFrame \/ StreamEnds \/ BatchDone \/ Flush \/ flush_pending_joins
           \/ JoinsDone \/ Close \/ DisconnectDone
  BY <1>7, <1>b DEF Frame, BadFrame, StreamEnds, BatchDone, Flush, flush_pending_joins,
                    JoinsDone, Close, DisconnectDone, Running
<1>8. CASE ExpiryTick
  <2>1. /\ pc = "idle" /\ now = nextCheck /\ nextCheck' = now + Period
        /\ UNCHANGED <<now, authenticated, subs, subExpire>>
        /\ pc' = IF disconnect' = 0 THEN "idle" ELSE "close"
    BY <1>8, <1>t DEF ExpiryTick, Timely
  <2>2. authenticated /\ disconnect' = 0 =>
          /\ expireAt' \in Nat /\ ~Lapsed(expireAt')
          /\ \A ch \in subs : ~Lapsed(subExpire[ch])
    <3>1. SUFFICES ASSUME authenticated, disconnect' = 0
                   PROVE  <2>2!2
      OBVIOUS
    <3>2. PICK e \in IF RefreshDue THEN {now + t : t \in TTLs} ELSE {expireAt} :
            expireAt' = e /\ disconnect' = check_expired(e)
      BY <1>8, <3>1 DEF ExpiryTick, ExpiredCode, ProxyCode, ServerError
    <3>3. check_expired(e) = 0
      BY <3>1, <3>2
    <3>4. ~Lapsed(e) /\ \A ch \in subs : ~Lapsed(subExpire[ch])
      BY <3>1, <3>3 DEF check_expired, ExpiredCode, SubExpired
    <3>5. e \in Nat
      BY <1>t, SessionAssumption
    <3> QED BY <3>2, <3>4, <3>5
  <2>3. authenticated' /\ pc' \in Running =>
          Checked(expireAt)' /\ \A ch \in subs' : Checked(subExpire[ch])'
    <3>1. SUFFICES ASSUME authenticated', pc' \in Running
                   PROVE  Checked(expireAt)' /\ \A ch \in subs' : Checked(subExpire[ch])'
      OBVIOUS
    <3>2. authenticated /\ disconnect' = 0
      BY <2>1, <3>1 DEF Running
    <3>3. Checked(expireAt)'
      BY <2>1, <2>2, <3>2, <1>t DEF Checked, Lapsed
    <3>4. ASSUME NEW ch \in subs' PROVE Checked(subExpire[ch])'
      <4>1. subExpire'[ch] = subExpire[ch] /\ subExpire[ch] \in Nat /\ ~Lapsed(subExpire[ch])
        BY <2>1, <2>2, <3>2, <1>t
      <4> QED BY <4>1, <2>1, <1>t DEF Checked, Lapsed
    <3> QED BY <3>3, <3>4
  <2>4. now' <= nextCheck' /\ nextCheck' <= now' + Period
    BY <2>1, <1>t
  <2>5. \A ch \in Channels \ subs' : subExpire'[ch] = 0
    BY <2>1 DEF Timely
  <2> QED BY <2>3, <2>4, <2>5 DEF Timely
<1>9. CASE PresenceTick \/ SignalDisconnect \/ DroppedAsSlow \/ WriterEnds
  BY <1>9, <1>b DEF PresenceTick, SignalDisconnect, DroppedAsSlow, WriterEnds, Running
<1>10. CASE SignalUnsubscribe
  <2> DEFINE ch == Head(ctrl).unsubscribe
  <2>1. pc' = pc /\ pc = "idle" /\ UNCHANGED <<authenticated, expireAt, now, nextCheck>>
    BY <1>10 DEF SignalUnsubscribe
  <2>2. CASE ch # AllChannels /\ ch \in subs
    BY <1>10, <2>1, <2>2, <1>c, <1>t DEF SignalUnsubscribe
  <2>3. CASE ch # AllChannels /\ ch \notin subs
    BY <1>10, <2>1, <2>3, <1>b DEF SignalUnsubscribe
  <2>4. CASE ch = AllChannels
    <3>1. subs' = {} /\ subExpire' = [c \in Channels |-> 0]
      BY <1>10, <2>4 DEF SignalUnsubscribe
    <3>2. authenticated' => Checked(expireAt)'
      BY <2>1 DEF Timely, Checked, Running
    <3> QED BY <2>1, <3>1, <3>2, <1>a
  <2> QED BY <2>2, <2>3, <2>4
<1>11. ASSUME NEW ch \in Channels, DisconnectChannel(ch) PROVE Timely'
  <2>1. /\ pc = "leaving" /\ pc' = pc /\ UNCHANGED <<now, nextCheck>> /\ subs' = subs \ {ch}
        /\ \A c \in Channels : subExpire'[c] = IF c = ch THEN 0 ELSE subExpire[c]
    BY <1>11, <1>t DEF DisconnectChannel
  <2>2. \A c \in Channels \ subs' : subExpire'[c] = 0
    BY <2>1 DEF Timely
  <2> QED BY <2>1, <2>2, <1>a DEF Running
<1>12. CASE Tick
  BY <1>12, <1>t DEF Tick, Timely, Checked
<1>13. ASSUME NEW u \in Users, DisconnectUser(u) PROVE Timely'
  BY <1>13, <1>b DEF DisconnectUser
<1>14. ASSUME NEW u \in Users, NEW ch \in Channels \cup {AllChannels}, UnsubscribeUser(u, ch)
       PROVE  Timely'
  BY <1>14, <1>b DEF UnsubscribeUser
<1> QED
  BY <1>1, <1>2, <1>3, <1>4, <1>5, <1>6, <1>7, <1>8, <1>9, <1>10, <1>11, <1>12, <1>13, <1>14
  DEF Next, Reader, Environment, Command, Proceed, Signal

\* A Join is deferred together with the reply that subscribes its channel, and
\* goes out after the frame of replies or not at all (ws.rs handle_socket).
LEMMA OrderedStep == SessionTypeOK /\ Ordered /\ [Next]_vars => Ordered'
<1> SUFFICES ASSUME SessionTypeOK, Ordered, [Next]_vars PROVE Ordered'
  OBVIOUS
<1> USE DEF batch, wire, Handling
<1>t. /\ pendingJoins \in Seq(Channels) /\ replies \in Seq(SUBSET Channels) /\ order \in Seq(Item)
  BY DEF SessionTypeOK
<1>a. ASSUME UNCHANGED <<pendingJoins, order, replies, pc>>
      PROVE  Ordered'
  BY <1>a DEF Ordered, Behind, ReplyLeads
<1>b. ASSUME pc = "batch", pc' = "batch", UNCHANGED <<pendingJoins, order>>,
             replies' = replies \/ Refuse
      PROVE  Ordered'
  <2>1. Subscribed(replies) \subseteq Subscribed(replies')
    BY <1>b, <1>t, SubscribedAppend DEF Refuse, Answer
  <2> QED BY <1>b, <2>1 DEF Ordered, Behind
<1>c. ASSUME pc # "joins", pc' \in {"idle", "close", "leaving", "gone"}, order' = order,
             pendingJoins' = pendingJoins, pendingJoins = <<>> \/ pc' \in {"leaving", "gone"}
      PROVE  Ordered'
  BY <1>c DEF Ordered
<1>1. CASE UNCHANGED vars
  BY <1>1, <1>a DEF vars
<1>2. CASE BadCommand \/ connect_rejected \/ connect_over_limit \/ subscribe_rejected
           \/ on_refresh \/ query
  BY <1>2, <1>b
  DEF BadCommand, connect_rejected, connect_over_limit, subscribe_rejected, on_refresh, query, Drop
<1>3. CASE connect_ok
  <2>1. PICK c \in Credentials :
          /\ ToSet(c.channels) \subseteq Known
          /\ pendingJoins' = Deferred(c.channels)
          /\ replies' = Append(replies, ToSet(c.channels))
    BY <1>3 DEF connect_ok, Answer
  <2>2. c.channels \in Seq(Channels) /\ ToSet(c.channels) \subseteq Channels
    BY <2>1, SessionAssumption DEF Credentials
  <2>3. ToSet(c.channels) \subseteq Subscribed(replies')
    BY <2>1, <2>2, <1>t, SubscribedAppend
  <2>4. \A i \in 1..Len(pendingJoins') : pendingJoins'[i] \in ToSet(c.channels)
    BY <2>1, <2>2, DeferredJoins
  <2>5. pc' = "batch" /\ order' = <<>>
    BY <1>3 DEF connect_ok, Ordered
  <2> QED BY <2>3, <2>4, <2>5 DEF Ordered, Behind
<1>4. ASSUME NEW ch \in Channels, on_subscribe(ch) PROVE Ordered'
  <2>1. Subscribed(replies') = Subscribed(replies) \cup {ch}
    BY <1>4, <1>t, SubscribedAppend DEF on_subscribe, Answer
  <2>2. pendingJoins' = pendingJoins \/ pendingJoins' = Append(pendingJoins, ch)
    BY <1>4 DEF on_subscribe
  <2>3. \A i \in 1..Len(pendingJoins') : pendingJoins'[i] \in Subscribed(replies')
    <3>1. \A i \in 1..Len(pendingJoins) : pendingJoins[i] \in Subscribed(replies)
      BY <1>4 DEF on_subscribe, Ordered, Behind
    <3>2. CASE pendingJoins' = pendingJoins
      BY <2>1, <3>1, <3>2
    <3>3. CASE pendingJoins' = Append(pendingJoins, ch)
      <4>1. TAKE i \in 1..Len(pendingJoins')
      <4>2. \/ pendingJoins'[i] = ch
            \/ i \in 1..Len(pendingJoins) /\ pendingJoins'[i] = pendingJoins[i]
        BY <3>3, <1>t
      <4> QED BY <2>1, <3>1, <4>2
    <3> QED BY <2>2, <3>2, <3>3
  <2>4. pc' = "batch" /\ order' = <<>>
    BY <1>4 DEF on_subscribe, Ordered
  <2> QED BY <2>3, <2>4 DEF Ordered, Behind
<1>5. ASSUME NEW ch \in Channels, on_unsubscribe(ch) PROVE Ordered'
  BY <1>5, <1>b DEF on_unsubscribe
<1>6. ASSUME NEW ch \in Channels, on_sub_refresh(ch) PROVE Ordered'
  BY <1>6, <1>b DEF on_sub_refresh, Drop
<1>7. CASE Frame \/ BatchDone
  BY <1>7 DEF Frame, BatchDone, Ordered, Behind
<1>8. CASE BadFrame \/ StreamEnds \/ Close \/ DisconnectDone
  BY <1>8, <1>c DEF BadFrame, StreamEnds, Close, DisconnectDone, Ordered
<1>9. CASE Flush
  <2>1. pc = "flush" /\ pendingJoins' = pendingJoins /\ order = <<>>
    BY <1>9 DEF Flush, Ordered
  <2>2. CASE pc' = "leaving"
    BY <1>9, <2>1, <2>2, <1>c DEF Flush
  <2>3. CASE pc' = "joins" /\ replies = <<>>
    <3>1. Len(pendingJoins) = 0
      <4>1. Subscribed(replies) = {}
        BY <2>3 DEF Subscribed
      <4> QED BY <4>1, <2>1, <1>t DEF Ordered, Behind
    <3>2. pendingJoins = <<>>
      BY <3>1, <1>t
    <3> QED BY <1>9, <2>1, <2>3, <3>2 DEF Flush, Ordered
  <2>4. CASE pc' = "joins" /\ replies # <<>>
    <3> DEFINE first == [reply |-> Subscribed(replies)]
    <3>1. order' = Append(<<>>, first)
      BY <1>9, <2>1, <2>4 DEF Flush
    <3>2. Len(order') = 1 /\ order'[1] = first /\ order' # <<>>
      BY <3>1
    <3>3. "reply" \in DOMAIN first /\ "join" \notin DOMAIN first
          /\ first.reply = Subscribed(replies)
      OBVIOUS
    <3> HIDE DEF first
    <3>4. \A i \in 1..Len(pendingJoins') : pendingJoins'[i] \in first.reply
      BY <2>1, <3>3 DEF Ordered, Behind
    <3> QED BY <2>4, <3>2, <3>3, <3>4 DEF Ordered, ReplyLeads, Behind
  <2> QED BY <1>9, <2>2, <2>3, <2>4 DEF Flush
<1>10. CASE flush_pending_joins
  <2> DEFINE ch == Head(pendingJoins)
             own == [join |-> ch]
  <2>1. pc = "joins" /\ pc' = pc /\ pendingJoins # <<>> /\ pendingJoins' = Tail(pendingJoins)
    BY <1>10 DEF flush_pending_joins
  <2>2. order' = order \/ order' = Append(order, own)
    BY <1>10 DEF flush_pending_joins
  <2>3. ReplyLeads
    BY <2>1 DEF Ordered
  <2>4. /\ Len(order) \in Nat \ {0} /\ order' # <<>> /\ order'[1] = order[1]
        /\ \A j \in 1..Len(order') :
             order'[j] = own \/ (j \in 1..Len(order) /\ order'[j] = order[j])
    <3>1. Len(order) \in Nat \ {0}
      BY <2>3, <1>t DEF ReplyLeads
    <3>2. CASE order' = order
      BY <3>1, <3>2
    <3>3. CASE order' = Append(order, own)
      <4> HIDE DEF own
      <4> QED BY <3>1, <3>3, <1>t
    <3> QED BY <2>2, <3>1, <3>2, <3>3
  <2>5. \A i \in 1..Len(pendingJoins') : pendingJoins'[i] \in order'[1].reply
    BY <2>1, <2>3, <2>4, <1>t DEF ReplyLeads, Behind
  <2>6. ch \in order[1].reply /\ own.join = ch
    <3>1. Len(pendingJoins) \in Nat \ {0} /\ ch = pendingJoins[1]
      BY <2>1, <1>t
    <3> QED BY <2>3, <3>1 DEF ReplyLeads, Behind
  <2>7. \A j \in 1..Len(order') : "join" \in DOMAIN order'[j] => order'[j].join \in order'[1].reply
    <3> HIDE DEF own, ch
    <3> QED BY <2>3, <2>4, <2>6 DEF ReplyLeads
  <2>8. ReplyLeads'
    BY <2>3, <2>4, <2>5, <2>7 DEF ReplyLeads, Behind
  <2> QED BY <2>1, <2>8 DEF Ordered
<1>11. CASE JoinsDone
  BY <1>11 DEF JoinsDone, Ordered
<1>12. CASE ExpiryTick \/ SignalDisconnect
  BY <1>12, <1>c DEF ExpiryTick, SignalDisconnect, Ordered
<1>13. CASE PresenceTick \/ SignalUnsubscribe \/ DroppedAsSlow \/ WriterEnds \/ Tick
  BY <1>13, <1>a DEF PresenceTick, SignalUnsubscribe, DroppedAsSlow, WriterEnds, Tick
<1>14. ASSUME NEW ch \in Channels, DisconnectChannel(ch) PROVE Ordered'
  BY <1>14, <1>a DEF DisconnectChannel
<1>15. ASSUME NEW u \in Users, DisconnectUser(u) PROVE Ordered'
  BY <1>15, <1>a DEF DisconnectUser
<1>16. ASSUME NEW u \in Users, NEW ch \in Channels \cup {AllChannels}, UnsubscribeUser(u, ch)
       PROVE  Ordered'
  BY <1>16, <1>a DEF UnsubscribeUser
<1> QED
  BY <1>1, <1>2, <1>3, <1>4, <1>5, <1>6, <1>7, <1>8, <1>9, <1>10, <1>11, <1>12, <1>13, <1>14,
     <1>15, <1>16
  DEF Next, Reader, Environment, Command, Proceed, Signal

\* With one command per frame every handler keeps what others saw in line with
\* the subscriptions and the deferred Joins (client.rs unsubscribe_channel).
LEMMA AnnouncedStep ==
  MaxBatch = 1 /\ SessionTypeOK /\ Wired /\ Ordered /\ Announced /\ [Next]_vars => Announced'
<1> SUFFICES ASSUME MaxBatch = 1, SessionTypeOK, Wired, Ordered, Announced, [Next]_vars
             PROVE  Announced'
  OBVIOUS
<1> USE DEF subscriptions, Handling
<1>t. /\ pendingJoins \in Seq(Channels) /\ subs \subseteq Channels /\ JoinLeave \subseteq Channels
      /\ seen \in [Channels -> {"nothing", "join", "leave"}]
  BY SessionAssumption DEF SessionTypeOK
<1>a. ASSUME UNCHANGED <<subs, seen, pendingJoins>>,
             pc' \in Running \cup {"close"} => pc \in Running \cup {"close"},
             pc' \in Running => pc \in Running,
             pc' = "batch" => handled' # 0 \/ pendingJoins = <<>>
      PROVE  Announced'
  BY <1>a DEF Announced, Behind, Waiting
<1>h. pc = "batch" /\ handled < MaxBatch /\ handled' = handled + 1 =>
        handled' # 0 /\ pendingJoins = <<>> /\ Len(pendingJoins) = 0
  BY DEF Announced, SessionTypeOK
<1>b. ASSUME NEW ch \in Channels, unsubscribe_channel(ch), pendingJoins = <<>>,
             UNCHANGED <<pc, pendingJoins>>
      PROVE  Announced'
  <2>1. /\ subs' = subs \ {ch}
        /\ \A c \in Channels : seen'[c] = IF c = ch /\ c \in JoinLeave THEN "leave" ELSE seen[c]
    BY <1>b, <1>t DEF unsubscribe_channel
  <2>2. \A c \in JoinLeave : seen'[c] = "join" => c \in subs'
    BY <2>1, <1>t DEF Announced
  <2>3. pc \in Running \cup {"close"} =>
          \A c \in subs' \cap JoinLeave : seen'[c] = "join"
    <3>1. \A c : ~Waiting(c)
      BY <1>b DEF Waiting
    <3> QED BY <2>1, <3>1, <1>t DEF Announced
  <2> QED BY <1>b, <2>2, <2>3 DEF Announced, Behind
<1>1. CASE UNCHANGED vars
  BY <1>1, <1>a DEF vars, batch, wire, Announced
<1>2. CASE BadCommand \/ connect_rejected \/ connect_over_limit \/ subscribe_rejected
           \/ on_refresh \/ query
  BY <1>2, <1>a, <1>h
  DEF BadCommand, connect_rejected, connect_over_limit, subscribe_rejected, on_refresh, query,
      wire, Running
<1>3. CASE connect_ok
  <2>1. PICK c \in Credentials :
          /\ ToSet(c.channels) \subseteq Known
          /\ pendingJoins' = Deferred(c.channels)
          /\ subs' = ToSet(c.channels)
    BY <1>3 DEF connect_ok
  <2>2. c.channels \in Seq(Channels)
    BY SessionAssumption DEF Credentials
  <2>3. /\ \A i \in 1..Len(pendingJoins') : pendingJoins'[i] \in subs' \cap JoinLeave
        /\ \A ch \in subs' \cap JoinLeave : \E i \in 1..Len(pendingJoins') : pendingJoins'[i] = ch
    BY <2>1, <2>2, DeferredJoins
  <2>4. \A ch \in JoinLeave : seen'[ch] # "join"
    BY <1>3, <1>t DEF connect_ok, Wired, Announced, wire
  <2>5. handled' # 0
    BY <1>3, <1>h DEF connect_ok
  <2> QED BY <2>3, <2>4, <2>5 DEF Announced, Behind, Waiting
<1>4. ASSUME NEW ch \in Channels, on_subscribe(ch) PROVE Announced'
  <2>1. /\ subs' = subs \cup {ch} /\ seen' = seen /\ pc = "batch" /\ pc' = "batch" /\ handled' # 0
        /\ pendingJoins = <<>>
        /\ pendingJoins' = IF ch \in JoinLeave THEN Append(<<>>, ch) ELSE <<>>
    BY <1>4, <1>h DEF on_subscribe, wire
  <2>2. \A c : ~Waiting(c)
    BY <2>1 DEF Waiting
  <2>3. \A c \in subs \cap JoinLeave : seen[c] = "join"
    BY <2>1, <2>2 DEF Announced, Running
  <2>4. CASE ch \in JoinLeave
    <3>1. pendingJoins' = <<ch>> /\ Len(pendingJoins') = 1
      BY <2>1, <2>4
    <3>2. Waiting(ch)'
      BY <3>1 DEF Waiting
    <3>3. Behind(subs \cap JoinLeave)'
      BY <2>1, <2>4, <3>1 DEF Behind
    <3> QED BY <2>1, <2>3, <3>2, <3>3 DEF Announced
  <2>5. CASE ch \notin JoinLeave
    BY <2>1, <2>3, <2>5 DEF Announced, Behind
  <2> QED BY <2>4, <2>5
<1>5. ASSUME NEW ch \in Channels, on_unsubscribe(ch) PROVE Announced'
  <2>1. /\ pc = "batch" /\ pc' = pc /\ handled' # 0
        /\ pendingJoins = <<>> /\ pendingJoins' = pendingJoins
    BY <1>5, <1>h DEF on_unsubscribe
  <2> QED BY <1>5, <2>1, <1>a, <1>b DEF on_unsubscribe, Running
<1>6. ASSUME NEW ch \in Channels, on_sub_refresh(ch) PROVE Announced'
  BY <1>6, <1>a, <1>h DEF on_sub_refresh, wire, Running
<1>7. CASE Frame \/ BadFrame \/ StreamEnds \/ BatchDone \/ Flush \/ Close \/ DisconnectDone
  <2>1. pc' = "batch" => pendingJoins = <<>>
    BY <1>7 DEF Frame, BadFrame, StreamEnds, BatchDone, Flush, Close, DisconnectDone, Ordered
  <2> QED BY <1>7, <2>1, <1>a DEF Frame, BadFrame, StreamEnds, BatchDone, Flush, Close,
                                   DisconnectDone, wire, Running
<1>8. CASE flush_pending_joins
  <2> DEFINE ch == Head(pendingJoins)
  <2>1. /\ pc = "joins" /\ pc' = pc /\ pendingJoins' = Tail(pendingJoins) /\ subs' = subs
        /\ seen' = [seen EXCEPT ![ch] = "join"]
    BY <1>8 DEF flush_pending_joins
  <2>2. /\ Len(pendingJoins) \in Nat \ {0} /\ ch = pendingJoins[1]
        /\ Len(pendingJoins') = Len(pendingJoins) - 1
        /\ \A i \in 1..Len(pendingJoins') : pendingJoins'[i] = pendingJoins[i + 1]
    BY <1>8, <1>t DEF flush_pending_joins
  <2>3. ch \in subs \cap JoinLeave
    BY <2>1, <2>2 DEF Announced, Behind, Running
  <2> HIDE DEF ch
  <2>4. \A c \in Channels : seen'[c] = IF c = ch THEN "join" ELSE seen[c]
    BY <2>1, <1>t
  <2>5. \A c \in JoinLeave : seen'[c] = "join" => c \in subs'
    BY <2>1, <2>3, <2>4, <1>t DEF Announced
  <2>6. ASSUME NEW c \in subs' \cap JoinLeave PROVE seen'[c] = "join" \/ Waiting(c)'
    <3>1. CASE c = ch
      BY <2>4, <3>1, <1>t
    <3>2. CASE c # ch
      <4>1. seen[c] = "join" \/ Waiting(c)
        BY <2>1 DEF Announced, Running
      <4>2. CASE Waiting(c)
        <5>1. PICK i \in 1..Len(pendingJoins) : pendingJoins[i] = c
          BY <4>2 DEF Waiting
        <5>2. i # 1
          BY <5>1, <3>2, <2>2
        <5>3. i - 1 \in 1..Len(pendingJoins') /\ pendingJoins'[i - 1] = c
          BY <5>1, <5>2, <2>2
        <5> QED BY <5>3 DEF Waiting
      <4> QED BY <4>1, <4>2, <3>2, <2>4, <1>t
    <3> QED BY <3>1, <3>2
  <2>7. Behind(subs \cap JoinLeave)'
    BY <2>1, <2>2 DEF Announced, Behind, Running
  <2> QED BY <2>1, <2>5, <2>6, <2>7 DEF Announced
<1>9. CASE JoinsDone
  BY <1>9, <1>a DEF JoinsDone, Running
<1>10. CASE ExpiryTick \/ SignalDisconnect \/ PresenceTick
  <2>1. pc = "idle" /\ pc' \in {"idle", "close"} /\ UNCHANGED <<subs, seen, pendingJoins>>
    BY <1>10 DEF ExpiryTick, SignalDisconnect, PresenceTick, wire
  <2> QED BY <2>1, <1>a DEF Running
<1>11. CASE SignalUnsubscribe
  <2> DEFINE ch == Head(ctrl).unsubscribe
  <2>1. pc' = pc /\ pc = "idle" /\ pendingJoins' = pendingJoins /\ pendingJoins = <<>>
    BY <1>11 DEF SignalUnsubscribe, Ordered
  <2>2. CASE ch # AllChannels /\ ch \in subs
    BY <1>11, <2>1, <2>2, <1>b, <1>t DEF SignalUnsubscribe
  <2>3. CASE ch # AllChannels /\ ch \notin subs
    BY <1>11, <2>1, <2>3, <1>a DEF SignalUnsubscribe
  <2>4. CASE ch = AllChannels
    <3>1. /\ subs' = {}
          /\ seen' = [c \in Channels |-> IF c \in subs \cap JoinLeave THEN "leave" ELSE seen[c]]
      BY <1>11, <2>4 DEF SignalUnsubscribe
    <3>2. \A c \in JoinLeave : seen'[c] # "join"
      BY <3>1, <1>t DEF Announced
    <3> QED BY <2>1, <3>1, <3>2 DEF Announced, Behind
  <2> QED BY <2>2, <2>3, <2>4
<1>12. ASSUME NEW ch \in Channels, DisconnectChannel(ch) PROVE Announced'
  <2>1. /\ pc = "leaving" /\ pc' = pc /\ subs' = subs \ {ch}
        /\ \A c \in Channels : seen'[c] = IF c = ch /\ c \in JoinLeave THEN "leave" ELSE seen[c]
    BY <1>12, <1>t DEF DisconnectChannel
  <2>2. \A c \in JoinLeave : seen'[c] = "join" => c \in subs'
    BY <2>1, <1>t DEF Announced
  <2> QED BY <2>1, <2>2 DEF Announced, Running
<1>13. CASE DroppedAsSlow \/ WriterEnds \/ Tick
  BY <1>13, <1>a DEF DroppedAsSlow, WriterEnds, Tick, batch, wire, Announced
<1>14. ASSUME NEW u \in Users, DisconnectUser(u) PROVE Announced'
  BY <1>14, <1>a DEF DisconnectUser, batch, wire, Announced
<1>15. ASSUME NEW u \in Users, NEW ch \in Channels \cup {AllChannels}, UnsubscribeUser(u, ch)
       PROVE  Announced'
  BY <1>15, <1>a DEF UnsubscribeUser, batch, wire, Announced
<1> QED
  BY <1>1, <1>2, <1>3, <1>4, <1>5, <1>6, <1>7, <1>8, <1>9, <1>10, <1>11, <1>12, <1>13, <1>14,
     <1>15
  DEF Next, Reader, Environment, Command, Proceed, Signal

-----------------------------------------------------------------------------
(* What follows for every session.                                         *)

\* Every state of a session has its type, the control queue within its capacity.
THEOREM TypeCorrect == Spec => []SessionTypeOK
  BY TypeInit, TypeStep, PTL DEF Spec

SessionInv == SessionTypeOK /\ Wired /\ Bounded /\ Timely /\ Ordered

\* The inductive invariant: every part but Announced, which needs one command
\* per frame.
THEOREM Invariance == Spec => []SessionInv
<1>1. Init => SessionInv
  <2> SUFFICES ASSUME Init PROVE SessionInv
    OBVIOUS
  <2>1. SessionTypeOK
    BY TypeInit
  <2>2. Wired
    BY DEF Init, Wired
  <2>3. Bounded
    BY FS_EmptySet DEF Init, Bounded, LimitHolds
  <2>4. Timely
    BY SessionAssumption DEF Init, Timely, Checked
  <2>5. Ordered
    BY DEF Init, Ordered
  <2> QED BY <2>1, <2>2, <2>3, <2>4, <2>5 DEF SessionInv
<1>2. SessionInv /\ [Next]_vars => SessionInv'
  BY TypeStep, WiredStep, BoundedStep, TimelyStep, OrderedStep DEF SessionInv
<1> QED BY <1>1, <1>2, PTL DEF Spec

\* Between frames hub, presence and subscriptions agree, and a session that is
\* gone left nothing behind (client.rs on_disconnect).
THEOREM SettledTheorem == Spec => []Settled
<1>1. SessionInv => Settled
  BY DEF SessionInv, Wired, Settled
<1> QED BY <1>1, Invariance, PTL

\* No sequence of commands, signals and expiries gets a client past
\* client_channel_limit (client.rs on_subscribe).
THEOREM LimitTheorem == Spec => []LimitHolds
<1>1. SessionInv => LimitHolds
  BY DEF SessionInv, Bounded
<1> QED BY <1>1, Invariance, PTL

\* Nothing that lapsed outlives its grace period by more than one check
\* (client.rs check_expired, proactive_refresh).
THEOREM LapsedTheorem == Spec => []LapsedIsClosed
<1>1. SessionInv => LapsedIsClosed
  <2> SUFFICES ASSUME SessionInv, pc = "idle", authenticated,
                      NEW e \in {expireAt} \cup {subExpire[ch] : ch \in subs}, e > 0
               PROVE  now <= e + Grace + Period
    BY DEF LapsedIsClosed
  <2>1. e \in Nat /\ now \in Nat /\ nextCheck \in Nat
    BY DEF SessionInv, SessionTypeOK
  <2>2. Checked(e) /\ now <= nextCheck
    BY DEF SessionInv, Timely, Running
  <2> QED BY <2>1, <2>2, SessionAssumption DEF Checked
<1> QED BY <1>1, Invariance, PTL

\* No Join overtakes the reply of its own channel (client.rs flush_pending_joins).
THEOREM ReplyFirstTheorem == Spec => []ReplyFirst
<1>1. SessionInv => ReplyFirst
  <2> SUFFICES ASSUME SessionInv, NEW j \in 1..Len(order), "join" \in DOMAIN order[j]
               PROVE  \E i \in 1..(j - 1) :
                        "reply" \in DOMAIN order[i] /\ order[j].join \in order[i].reply
    BY DEF ReplyFirst
  <2>1. order \in Seq(Item)
    BY DEF SessionInv, SessionTypeOK
  <2>2. ReplyLeads
    <3>1. order # <<>>
      BY <2>1
    <3> QED BY <3>1 DEF SessionInv, Ordered
  <2>3. Len(order) \in Nat \ {0} /\ order[1] \in Item
    BY <2>1, <2>2 DEF ReplyLeads
  <2>4. "join" \notin DOMAIN order[1]
    BY <2>2, <2>3 DEF ReplyLeads, Item
  <2>5. 1 \in 1..(j - 1)
    BY <2>3, <2>4
  <2> QED BY <2>2, <2>5 DEF ReplyLeads
<1> QED BY <1>1, Invariance, PTL

\* For a client that sends one command per frame the last event others saw of it
\* is the truth.  With two the statement is false: the frame that subscribes and
\* unsubscribes has its Join published last (client.rs flush_pending_joins).
THEOREM MembersTheorem == ASSUME MaxBatch = 1 PROVE Spec => []MembersAgree
<1>1. Init => Announced
  BY SessionAssumption DEF Init, Announced, Behind
<1>2. SessionInv /\ Announced /\ [Next]_vars => Announced'
  BY AnnouncedStep DEF SessionInv
<1>3. SessionInv /\ Announced => MembersAgree
  <2> SUFFICES ASSUME SessionInv, Announced, pc \in {"idle", "gone"}, NEW ch \in JoinLeave
               PROVE  (ch \in subs) <=> (seen[ch] = "join")
    BY DEF MembersAgree
  <2>1. CASE pc = "gone"
    BY <2>1 DEF SessionInv, Wired, Announced
  <2>2. CASE pc = "idle"
    <3>1. ~Waiting(ch)
      BY <2>2 DEF SessionInv, Ordered, Waiting
    <3> QED BY <2>2, <3>1 DEF Announced, Running
  <2> QED BY <2>1, <2>2
<1> QED BY <1>1, <1>2, <1>3, Invariance, PTL DEF Spec
=============================================================================
