--------------------------- MODULE RedisBusProofs ---------------------------
(***************************************************************************)
(* What the Redis event bus promises for any instances, events,            *)
(* environments and seen-set capacity, and any number of outages,           *)
(* silences and errors.                                                    *)
(***************************************************************************)
EXTENDS RedisBus, TLAPS

(* The members of a queue or of the seen set.                               *)
LEMMA MembersOfAppend ==
    ASSUME NEW s \in Seq(Ids), NEW e \in Ids
    PROVE  /\ Append(s, e) \in Seq(Ids)
           /\ Members(Append(s, e)) = Members(s) \cup {e}
<1>1. /\ Append(s, e) \in Seq(Ids)
      /\ Len(Append(s, e)) = Len(s) + 1
      /\ Append(s, e)[Len(s) + 1] = e
      /\ \A k \in 1..Len(s) : Append(s, e)[k] = s[k]
  OBVIOUS
<1>2. DOMAIN s = 1..Len(s) /\ DOMAIN Append(s, e) = 1..(Len(s) + 1) /\ Len(s) \in Nat
  BY <1>1
<1>3. ASSUME NEW x PROVE x \in Members(Append(s, e)) <=> x \in Members(s) \cup {e}
  BY <1>1, <1>2 DEF Members
<1>. QED  BY <1>1, <1>3

LEMMA MembersOfTail ==
    ASSUME NEW s \in Seq(Ids), s # <<>>
    PROVE  /\ Tail(s) \in Seq(Ids) /\ Head(s) \in Ids
           /\ Len(Tail(s)) = Len(s) - 1
           /\ Members(s) = Members(Tail(s)) \cup {Head(s)}
<1>1. /\ Tail(s) \in Seq(Ids) /\ Head(s) = s[1] /\ Head(s) \in Ids
      /\ Len(Tail(s)) = Len(s) - 1 /\ Len(s) \in Nat /\ Len(s) > 0
      /\ \A k \in 1..(Len(s) - 1) : Tail(s)[k] = s[k + 1]
  OBVIOUS
<1>2. DOMAIN s = 1..Len(s) /\ DOMAIN Tail(s) = 1..(Len(s) - 1)
  BY <1>1
<1>3. Members(Tail(s)) \cup {Head(s)} \subseteq Members(s)
  BY <1>1, <1>2 DEF Members
<1>4. ASSUME NEW k \in 1..Len(s) PROVE s[k] \in Members(Tail(s)) \cup {Head(s)}
  <2>1. CASE k = 1
    BY <1>1, <2>1
  <2>2. CASE k # 1
    <3>1. k - 1 \in 1..(Len(s) - 1) /\ Tail(s)[k - 1] = s[k]
      BY <1>1, <2>2
    <3>. QED  BY <1>2, <3>1 DEF Members
  <2>. QED  BY <2>1, <2>2
<1>. QED  BY <1>1, <1>2, <1>3, <1>4 DEF Members

(* The seen set keeps what it had or reports it dropped, and gains e.       *)
LEMMA Remembered ==
    ASSUME TypeOK, NEW i \in Instances, NEW e \in Ids, Remember(i, e)
    PROVE  /\ seen' \in [Instances -> Seq(Ids)]
           /\ \A j \in Instances : Len(seen'[j]) <= Cap
           /\ evicted' \in [Instances -> SUBSET Ids]
           /\ e \in Members(seen'[i])
           /\ \A j \in Instances :
                 /\ evicted[j] \subseteq evicted'[j]
                 /\ Members(seen[j]) \cup evicted[j]
                       \subseteq Members(seen'[j]) \cup evicted'[j]
<1>. USE RedisBusAssumption DEF TypeOK
<1>0. seen[i] \in Seq(Ids) /\ Len(seen[i]) \in Nat /\ Len(seen[i]) <= Cap
  OBVIOUS
<1>1. CASE e \in Members(seen[i])
  BY <1>1 DEF Remember
<1>2. CASE e \notin Members(seen[i]) /\ Len(seen[i]) < Cap
  <2>1. /\ Append(seen[i], e) \in Seq(Ids)
        /\ Members(Append(seen[i], e)) = Members(seen[i]) \cup {e}
    BY <1>0, MembersOfAppend
  <2>2. Len(Append(seen[i], e)) <= Cap
    BY <1>0, <1>2
  <2>3. evicted' = evicted /\ seen' = [seen EXCEPT ![i] = Append(seen[i], e)]
    BY <1>2 DEF Remember
  <2>. QED  BY <2>1, <2>2, <2>3
<1>3. CASE e \notin Members(seen[i]) /\ ~(Len(seen[i]) < Cap)
  <2>. DEFINE rest == Tail(seen[i])
  <2>1. seen[i] # <<>>
    BY <1>0, <1>3
  <2>2. /\ rest \in Seq(Ids) /\ Head(seen[i]) \in Ids
        /\ Len(rest) = Len(seen[i]) - 1
        /\ Members(seen[i]) = Members(rest) \cup {Head(seen[i])}
    BY <1>0, <2>1, MembersOfTail
  <2>3. /\ Append(rest, e) \in Seq(Ids)
        /\ Members(Append(rest, e)) = Members(rest) \cup {e}
    BY <2>2, MembersOfAppend
  <2>4. Len(Append(rest, e)) <= Cap
    <3>1. Len(Append(rest, e)) = Len(rest) + 1
      BY <2>2
    <3>. QED  BY <1>0, <2>2, <3>1
  <2>5. /\ seen' = [seen EXCEPT ![i] = Append(rest, e)]
        /\ evicted' = [evicted EXCEPT ![i] = @ \cup {Head(seen[i])}]
    BY <1>3 DEF Remember
  <2>. HIDE DEF rest
  <2>6. /\ seen' \in [Instances -> Seq(Ids)]
        /\ \A j \in Instances : Len(seen'[j]) <= Cap
        /\ evicted' \in [Instances -> SUBSET Ids]
    BY <2>2, <2>3, <2>4, <2>5
  <2>7. ASSUME NEW j \in Instances
        PROVE  /\ evicted[j] \subseteq evicted'[j]
               /\ Members(seen[j]) \cup evicted[j]
                       \subseteq Members(seen'[j]) \cup evicted'[j]
    <3>1. CASE j = i
      BY <2>2, <2>3, <2>5, <3>1
    <3>2. CASE j # i
      BY <2>5, <3>2
    <3>. QED  BY <3>1, <3>2
  <2>8. e \in Members(seen'[i])
    BY <2>3, <2>5
  <2>. QED  BY <2>6, <2>7, <2>8
<1>. QED  BY <1>1, <1>2, <1>3

-----------------------------------------------------------------------------
LEMMA TypeInit == Init => TypeOK
<1>. SUFFICES ASSUME Init PROVE TypeOK
  OBVIOUS
<1>1. <<>> \in Seq(Ids) /\ Len(<<>>) = 0
  OBVIOUS
<1>. QED  BY <1>1, RedisBusAssumption DEF Init, TypeOK

LEMMA DeliverType ==
    ASSUME TypeOK, NEW i \in Instances, NEW e \in Ids, DeliverLocal(i, e)
    PROVE  /\ delivered' \in [Instances -> [Ids -> Nat]]
           /\ \A j \in Instances, d \in Ids :
                 delivered'[j][d] = IF j = i /\ d = e THEN delivered[j][d] + 1
                                                    ELSE delivered[j][d]
  BY DEF TypeOK, DeliverLocal

LEMMA PushType ==
    ASSUME TypeOK, NEW e \in Ids, Push(e)
    PROVE  /\ inbox' \in [Instances -> Seq(Ids)]
           /\ \A j \in Instances : Members(inbox'[j]) \subseteq Members(inbox[j]) \cup {e}
<1>1. ASSUME NEW j \in Instances
      PROVE  /\ Append(inbox[j], e) \in Seq(Ids)
             /\ Members(Append(inbox[j], e)) = Members(inbox[j]) \cup {e}
  <2>1. inbox[j] \in Seq(Ids)
    BY DEF TypeOK
  <2>. QED  BY <2>1, MembersOfAppend
<1>. QED  BY <1>1 DEF Push, TypeOK

LEMMA CallFailsType ==
    ASSUME TypeOK, CallFails
    PROVE  errors' \in 0..MaxErrors
  BY RedisBusAssumption DEF TypeOK, CallFails

LEMMA ReceiveType ==
    ASSUME TypeOK, NEW i \in Instances, Receive(i)
    PROVE  TypeOK'
<1>. DEFINE e == Head(inbox[i])
<1>1. inbox[i] \in Seq(Ids) /\ inbox[i] # <<>>
  BY DEF TypeOK, Receive
<1>2. e \in Ids /\ Tail(inbox[i]) \in Seq(Ids)
  BY <1>1, MembersOfTail
<1>3. /\ seen' \in [Instances -> Seq(Ids)]
      /\ \A j \in Instances : Len(seen'[j]) <= Cap
      /\ evicted' \in [Instances -> SUBSET Ids]
  BY <1>2, Remembered DEF Receive
<1>4. delivered' \in [Instances -> [Ids -> Nat]] /\ degraded' \in [Instances -> BOOLEAN]
  <2>1. CASE e \in Members(seen[i])
    BY <2>1 DEF Receive, TypeOK
  <2>2. CASE e \notin Members(seen[i])
    <3>1. DeliverLocal(i, e) /\ degraded' = [degraded EXCEPT ![i] = FALSE]
      BY <2>2 DEF Receive
    <3>. QED  BY <1>2, <3>1, DeliverType DEF TypeOK
  <2>. QED  BY <2>1, <2>2
<1>5. inbox' \in [Instances -> Seq(Ids)]
  BY <1>2 DEF Receive, TypeOK
<1>. QED  BY <1>3, <1>4, <1>5 DEF Receive, TypeOK

LEMMA TypeStep == TypeOK /\ [Next]_vars => TypeOK'
<1>. SUFFICES ASSUME TypeOK, [Next]_vars PROVE TypeOK'
  OBVIOUS
<1>. USE RedisBusAssumption
<1>1. ASSUME NEW e \in Ids, PublishLocal(e) PROVE TypeOK'
  <2>1. Origin[e] \in Instances
    OBVIOUS
  <2>2. /\ seen' \in [Instances -> Seq(Ids)]
        /\ \A j \in Instances : Len(seen'[j]) <= Cap
        /\ evicted' \in [Instances -> SUBSET Ids]
        /\ delivered' \in [Instances -> [Ids -> Nat]]
    BY <1>1, <2>1, Remembered, DeliverType DEF PublishLocal
  <2>. QED  BY <1>1, <2>2 DEF PublishLocal, TypeOK, netVars
<1>2. ASSUME NEW e \in Ids, CheckDegraded(e) \/ SubscribeCall(e) PROVE TypeOK'
  <2>1. ppc' \in [Ids -> {"idle", "local", "subscribe", "subscribing",
                         "orphaned", "send", "done"}]
    BY <1>2 DEF CheckDegraded, SubscribeCall, TypeOK
  <2>2. UNCHANGED <<lpc, seen, evicted, channels, degraded, delivered, netVars>>
    BY <1>2 DEF CheckDegraded, SubscribeCall
  <2>. QED  BY <2>1, <2>2 DEF TypeOK, netVars
<1>3. ASSUME NEW e \in Ids, Subscribed(e) PROVE TypeOK'
  <2>1. Origin[e] \in Instances /\ EnvOf[e] \in Envs
    OBVIOUS
  <2>2. channels' \in [Instances -> SUBSET Envs]
    BY <1>3, <2>1 DEF Subscribed, TypeOK
  <2>3. live' \in [Instances -> SUBSET Envs] /\ conn' \in [Instances -> {"none", "ok", "lost"}]
    <3>1. CASE ppc[e] = "orphaned"
      BY <1>3, <3>1 DEF Subscribed, TypeOK
    <3>2. CASE ppc[e] # "orphaned"
      <4>1. /\ live' = [live EXCEPT ![Origin[e]] = @ \cup {EnvOf[e]}]
            /\ conn' = [conn EXCEPT ![Origin[e]] = "ok"]
        BY <1>3, <3>2 DEF Subscribed
      <4>. QED  BY <2>1, <4>1 DEF TypeOK
    <3>. QED  BY <3>1, <3>2
  <2>. QED  BY <1>3, <2>2, <2>3 DEF Subscribed, TypeOK
<1>4. ASSUME NEW e \in Ids, SubscribeFails(e) PROVE TypeOK'
  BY <1>4, CallFailsType DEF SubscribeFails, TypeOK
<1>5. ASSUME NEW e \in Ids, Send(e) PROVE TypeOK'
  BY <1>5, PushType DEF Send, TypeOK
<1>6. ASSUME NEW e \in Ids, SendFails(e) PROVE TypeOK'
  <2>1. inbox' \in [Instances -> Seq(Ids)]
    BY <1>6, PushType DEF SendFails, TypeOK
  <2>. QED  BY <1>6, <2>1, CallFailsType DEF SendFails, TypeOK
<1>7. ASSUME NEW i \in Instances, Receive(i) PROVE TypeOK'
  BY <1>7, ReceiveType
<1>8. ASSUME NEW i \in Instances, ListenError(i) PROVE TypeOK'
  BY <1>8 DEF ListenError, TypeOK, netVars
<1>9. ASSUME NEW i \in Instances, Reconnect(i) PROVE TypeOK'
  <2>1. <<>> \in Seq(Ids)
    OBVIOUS
  <2>2. inbox' \in [Instances -> Seq(Ids)]
    BY <1>9, <2>1 DEF Reconnect, TypeOK
  <2>3. ppc' \in [Ids -> {"idle", "local", "subscribe", "subscribing",
                         "orphaned", "send", "done"}]
    BY <1>9 DEF Reconnect, TypeOK
  <2>4. /\ live' \in [Instances -> SUBSET Envs]
        /\ conn' \in [Instances -> {"none", "ok", "lost"}]
        /\ degraded' \in [Instances -> BOOLEAN]
    BY <1>9 DEF Reconnect, TypeOK
  <2>5. lpc' \in [Instances -> {"poll", "sleep"}]
    BY <1>9 DEF Reconnect, TypeOK
  <2>6. /\ seen' = seen /\ evicted' = evicted /\ channels' = channels
        /\ delivered' = delivered /\ redis' = redis /\ outages' = outages
        /\ silences' = silences /\ errors' = errors
    BY <1>9 DEF Reconnect
  <2>. QED  BY <2>2, <2>3, <2>4, <2>5, <2>6 DEF TypeOK
<1>10. CASE RedisDown
  <2>1. <<>> \in Seq(Ids)
    OBVIOUS
  <2>2. inbox' \in [Instances -> Seq(Ids)] /\ conn' \in [Instances -> {"none", "ok", "lost"}]
    BY <1>10, <2>1 DEF RedisDown, TypeOK
  <2>3. redis' \in {"up", "silent", "down"}
    BY <1>10 DEF RedisDown
  <2>4. outages \in 0..MaxOutages /\ outages < MaxOutages /\ outages' = outages + 1
    BY <1>10 DEF RedisDown, TypeOK
  <2>5. outages' \in 0..MaxOutages
    BY <2>4
  <2>6. UNCHANGED <<busVars, live, silences, errors>>
    BY <1>10 DEF RedisDown
  <2>. QED  BY <2>2, <2>3, <2>5, <2>6 DEF TypeOK, busVars
<1>11. CASE RedisUp
  BY <1>11 DEF RedisUp, TypeOK, busVars
<1>12. CASE FallsSilent
  <2>1. silences \in 0..MaxSilences /\ silences < MaxSilences /\ silences' = silences + 1
    BY <1>12 DEF FallsSilent, TypeOK
  <2>2. silences' \in 0..MaxSilences
    BY <2>1
  <2>. QED  BY <1>12, <2>2 DEF FallsSilent, TypeOK, busVars
<1>13. CASE UNCHANGED vars
  BY <1>13 DEF vars, busVars, netVars, TypeOK
<1>. QED  BY <1>1, <1>2, <1>3, <1>4, <1>5, <1>6, <1>7, <1>8, <1>9, <1>10, <1>11, <1>12, <1>13
          DEF Next, Publish, Listen

(* Every variable keeps its shape; the seen set stays bounded              *)
(* (bus.py:90-104).                                                        *)
THEOREM TypeCorrect == Spec => []TypeOK
  BY TypeInit, TypeStep, PTL DEF Spec

-----------------------------------------------------------------------------
(* Delivery.  What an instance has delivered it remembers, unless the       *)
(* bounded set has dropped it, and nothing of an event is anywhere before   *)
(* its publish call has delivered it at its origin.                         *)
DeliveryInv ==
    \A i \in Instances, e \in Ids :
       /\ delivered[i][e] > 1 => e \in evicted[i]
       /\ delivered[i][e] > 0 => e \in Members(seen[i]) \cup evicted[i]
       /\ ppc[e] = "idle" => delivered[i][e] = 0 /\ e \notin Members(inbox[i])

LEMMA DeliveryInit == Init => DeliveryInv
  BY DEF Init, DeliveryInv, Members

(* An event is counted once more where it is not remembered.                *)
LEMMA DeliverKeeps ==
    ASSUME TypeOK, DeliveryInv, NEW i \in Instances, NEW e \in Ids,
           Remember(i, e), DeliverLocal(i, e),
           e \notin Members(seen[i]) \/ delivered[i][e] = 0
    PROVE  \A j \in Instances, d \in Ids :
              /\ delivered'[j][d] > 1 => d \in evicted'[j]
              /\ delivered'[j][d] > 0 => d \in Members(seen'[j]) \cup evicted'[j]
<1>1. ASSUME NEW j \in Instances, NEW d \in Ids
      PROVE  /\ delivered'[j][d] > 1 => d \in evicted'[j]
             /\ delivered'[j][d] > 0 => d \in Members(seen'[j]) \cup evicted'[j]
  <2>1. /\ evicted[j] \subseteq evicted'[j]
        /\ Members(seen[j]) \cup evicted[j] \subseteq Members(seen'[j]) \cup evicted'[j]
        /\ e \in Members(seen'[i])
    BY Remembered
  <2>2. CASE j = i /\ d = e
    <3>0. \A k \in Instances, c \in Ids :
             delivered'[k][c] = IF k = i /\ c = e THEN delivered[k][c] + 1
                                                 ELSE delivered[k][c]
      BY DeliverType
    <3>1. delivered'[i][e] = delivered[i][e] + 1 /\ delivered[i][e] \in Nat
      BY <3>0 DEF TypeOK
    <3>2. delivered[i][e] > 0 => e \in evicted[i]
      BY DEF DeliveryInv
    <3>. QED  BY <2>1, <2>2, <3>1, <3>2
  <2>3. CASE ~(j = i /\ d = e)
    <3>1. delivered'[j][d] = delivered[j][d]
      BY <2>3, DeliverType
    <3>. QED  BY <2>1, <3>1 DEF DeliveryInv
  <2>. QED  BY <2>2, <2>3
<1>. QED  BY <1>1

(* What is true of the queues while events are published and pushed.        *)
IdleUnsent ==
    \A i \in Instances, e \in Ids :
       ppc[e] = "idle" => delivered[i][e] = 0 /\ e \notin Members(inbox[i])

LEMMA PublishLocalKeeps ==
    ASSUME TypeOK, DeliveryInv, NEW e \in Ids, PublishLocal(e)
    PROVE  DeliveryInv'
<1>1. Origin[e] \in Instances
  BY RedisBusAssumption
<1>2. delivered[Origin[e]][e] = 0
  BY <1>1 DEF DeliveryInv, PublishLocal
<1>3. \A j \in Instances, d \in Ids :
         /\ delivered'[j][d] > 1 => d \in evicted'[j]
         /\ delivered'[j][d] > 0 => d \in Members(seen'[j]) \cup evicted'[j]
  BY <1>1, <1>2, DeliverKeeps DEF PublishLocal
<1>4. IdleUnsent'
  <2>1. \A j \in Instances, d \in Ids :
           delivered'[j][d] = IF j = Origin[e] /\ d = e THEN delivered[j][d] + 1
                                                       ELSE delivered[j][d]
    BY <1>1, DeliverType DEF PublishLocal
  <2>2. ppc' = [ppc EXCEPT ![e] = "local"] /\ inbox' = inbox
    BY DEF PublishLocal, netVars
  <2>. QED  BY <2>1, <2>2 DEF IdleUnsent, DeliveryInv, TypeOK
<1>. QED  BY <1>3, <1>4 DEF DeliveryInv, IdleUnsent

LEMMA ReceiveKeeps ==
    ASSUME TypeOK, DeliveryInv, NEW i \in Instances, Receive(i)
    PROVE  DeliveryInv'
<1>. DEFINE e == Head(inbox[i])
<1>1. inbox[i] \in Seq(Ids) /\ inbox[i] # <<>>
  BY DEF TypeOK, Receive
<1>2. e \in Ids /\ Members(inbox[i]) = Members(Tail(inbox[i])) \cup {e}
  BY <1>1, MembersOfTail
<1>3. \A j \in Instances : Members(inbox'[j]) \subseteq Members(inbox[j])
  BY <1>2 DEF Receive, TypeOK
<1>4. ppc[e] # "idle"
  BY <1>2 DEF DeliveryInv
<1>5. ppc' = ppc /\ Remember(i, e)
  BY DEF Receive
<1>6. CASE e \in Members(seen[i])
  <2>1. delivered' = delivered
    BY <1>6 DEF Receive
  <2>2. seen' = seen /\ evicted' = evicted
    BY <1>5, <1>6 DEF Remember
  <2>. QED  BY <1>3, <1>5, <2>1, <2>2 DEF DeliveryInv
<1>7. CASE e \notin Members(seen[i])
  <2>1. DeliverLocal(i, e)
    BY <1>7 DEF Receive
  <2>2. \A j \in Instances, d \in Ids :
           /\ delivered'[j][d] > 1 => d \in evicted'[j]
           /\ delivered'[j][d] > 0 => d \in Members(seen'[j]) \cup evicted'[j]
    BY <1>2, <1>5, <1>7, <2>1, DeliverKeeps
  <2>3. \A j \in Instances, d \in Ids : d # e => delivered'[j][d] = delivered[j][d]
    BY <1>2, <2>1, DeliverType
  <2>. QED  BY <1>3, <1>4, <1>5, <2>2, <2>3 DEF DeliveryInv
<1>. QED  BY <1>6, <1>7

(* Every other step delivers nothing; only a call that has begun sends.     *)
LEMMA DeliveryKept ==
    ASSUME DeliveryInv, UNCHANGED <<delivered, seen, evicted>>,
           \A e \in Ids : ppc'[e] = "idle" =>
              /\ ppc[e] = "idle"
              /\ \A j \in Instances : e \in Members(inbox'[j]) => e \in Members(inbox[j])
    PROVE  DeliveryInv'
  BY DEF DeliveryInv

LEMMA EmptyQueue == Members(<<>>) = {}
  BY DEF Members

LEMMA DeliveryStep == TypeOK /\ DeliveryInv /\ [Next]_vars => DeliveryInv'
<1>. SUFFICES ASSUME TypeOK, DeliveryInv, [Next]_vars PROVE DeliveryInv'
  OBVIOUS
<1>1. ASSUME NEW e \in Ids, PublishLocal(e) PROVE DeliveryInv'
  BY <1>1, PublishLocalKeeps
<1>2. ASSUME NEW e \in Ids,
             CheckDegraded(e) \/ SubscribeCall(e) \/ Subscribed(e) \/ SubscribeFails(e)
      PROVE  DeliveryInv'
  <2>1. ppc[e] # "idle" /\ UNCHANGED <<delivered, seen, evicted, inbox>>
    BY <1>2 DEF CheckDegraded, SubscribeCall, Subscribed, SubscribeFails, netVars
  <2>2. \A d \in Ids \ {e} : ppc'[d] = ppc[d]
    BY <1>2 DEF CheckDegraded, SubscribeCall, Subscribed, SubscribeFails, TypeOK
  <2>3. ppc'[e] # "idle"
    BY <1>2 DEF CheckDegraded, SubscribeCall, Subscribed, SubscribeFails, TypeOK
  <2>. QED  BY <2>1, <2>2, <2>3, DeliveryKept
<1>3. ASSUME NEW e \in Ids, Send(e) \/ SendFails(e) PROVE DeliveryInv'
  <2>1. UNCHANGED <<delivered, seen, evicted>> /\ (Push(e) \/ inbox' = inbox)
    BY <1>3 DEF Send, SendFails
  <2>2. \A j \in Instances : Members(inbox'[j]) \subseteq Members(inbox[j]) \cup {e}
    BY <2>1, PushType
  <2>3. ppc' = [ppc EXCEPT ![e] = "done"]
    BY <1>3 DEF Send, SendFails
  <2>. QED  BY <2>1, <2>2, <2>3, DeliveryKept DEF TypeOK
<1>4. ASSUME NEW i \in Instances, Receive(i) PROVE DeliveryInv'
  BY <1>4, ReceiveKeeps
<1>5. CASE \/ \E i \in Instances : ListenError(i)
           \/ RedisUp \/ FallsSilent \/ UNCHANGED vars
  <2>1. UNCHANGED <<delivered, seen, evicted, inbox, ppc>>
    BY <1>5 DEF ListenError, RedisUp, FallsSilent, busVars, netVars, vars
  <2>. QED  BY <2>1, DeliveryKept
<1>6. ASSUME NEW i \in Instances, Reconnect(i) PROVE DeliveryInv'
  <2>1. UNCHANGED <<delivered, seen, evicted>>
    BY <1>6 DEF Reconnect
  <2>2. \A j \in Instances : Members(inbox'[j]) \subseteq Members(inbox[j])
    BY <1>6, EmptyQueue DEF Reconnect, TypeOK
  <2>3. \A e \in Ids : ppc'[e] = "idle" => ppc[e] = "idle"
    BY <1>6 DEF Reconnect
  <2>. QED  BY <2>1, <2>2, <2>3, DeliveryKept
<1>7. CASE RedisDown
  <2>1. UNCHANGED <<delivered, seen, evicted, ppc>>
    BY <1>7 DEF RedisDown, busVars
  <2>2. \A j \in Instances : Members(inbox'[j]) = {}
    BY <1>7, EmptyQueue DEF RedisDown
  <2>. QED  BY <2>1, <2>2, DeliveryKept
<1>. QED  BY <1>1, <1>2, <1>3, <1>4, <1>5, <1>6, <1>7 DEF Next, Publish, Listen

(* An instance delivers no event twice while it remembers it, whatever      *)
(* echoes, sends that seemed to fail and reconnects come (bus.py:14-16).    *)
THEOREM DeliveredOnce == Spec => []AtMostOnce
<1>1. DeliveryInv => AtMostOnce
  BY DEF DeliveryInv, AtMostOnce
<1>. QED  BY <1>1, TypeInit, TypeStep, DeliveryInit, DeliveryStep, PTL DEF Spec

-----------------------------------------------------------------------------
(* Subscriptions.  Before the first outage no connection is lost, so no     *)
(* listener backs off and no call is orphaned; a listener without a         *)
(* connection has no channel to poll.                                       *)
CalmInv ==
    outages = 0 =>
       /\ channels = live
       /\ \A e \in Ids : ppc[e] # "orphaned"
       /\ \A i \in Instances :
             /\ lpc[i] = "poll"
             /\ conn[i] # "ok" => conn[i] = "none" /\ channels[i] = {}

SubscriptionInv == CalmInv /\ \A i \in Instances : live[i] \subseteq channels[i]

LEMMA SubscriptionInit == Init => SubscriptionInv
  BY DEF Init, SubscriptionInv, CalmInv

LEMMA SubscriptionStep == TypeOK /\ SubscriptionInv /\ [Next]_vars => SubscriptionInv'
<1>. SUFFICES ASSUME TypeOK, SubscriptionInv, [Next]_vars PROVE SubscriptionInv'
  OBVIOUS
<1>. USE RedisBusAssumption DEF SubscriptionInv, CalmInv
<1>1. ASSUME NEW e \in Ids,
             \/ PublishLocal(e) \/ CheckDegraded(e) \/ SubscribeCall(e)
             \/ SubscribeFails(e) \/ Send(e) \/ SendFails(e)
      PROVE  SubscriptionInv'
  <2>1. UNCHANGED <<live, channels, conn, lpc, redis, outages>>
    BY <1>1 DEF PublishLocal, CheckDegraded, SubscribeCall, SubscribeFails, Send,
                SendFails, netVars
  <2>2. \A d \in Ids : ppc'[d] = "orphaned" => ppc[d] = "orphaned"
    BY <1>1 DEF PublishLocal, CheckDegraded, SubscribeCall, SubscribeFails, Send,
                SendFails, TypeOK
  <2>. QED  BY <2>1, <2>2
<1>2. ASSUME NEW e \in Ids, Subscribed(e) PROVE SubscriptionInv'
  <2>. DEFINE i == Origin[e]
  <2>1. /\ i \in Instances /\ UNCHANGED <<lpc, redis, outages>>
        /\ ppc' = [ppc EXCEPT ![e] = "send"]
        /\ channels' = [channels EXCEPT ![i] = @ \cup {EnvOf[e]}]
    BY <1>2 DEF Subscribed
  <2>2. CASE ppc[e] = "orphaned"
    <3>1. live' = live /\ outages # 0
      BY <1>2, <2>2 DEF Subscribed
    <3>. QED  BY <2>1, <3>1 DEF TypeOK
  <2>3. CASE ppc[e] # "orphaned"
    <3>1. /\ live' = [live EXCEPT ![i] = @ \cup {EnvOf[e]}]
          /\ conn' = [conn EXCEPT ![i] = "ok"]
      BY <1>2, <2>3 DEF Subscribed
    <3>2. \A j \in Instances : live'[j] \subseteq channels'[j]
      BY <2>1, <3>1 DEF TypeOK
    <3>3. CalmInv'
      BY <2>1, <3>1 DEF TypeOK
    <3>. QED  BY <3>2, <3>3
  <2>. QED  BY <2>2, <2>3
<1>3. ASSUME NEW i \in Instances, Receive(i) PROVE SubscriptionInv'
  BY <1>3 DEF Receive
<1>4. ASSUME NEW i \in Instances, ListenError(i) PROVE SubscriptionInv'
  BY <1>4 DEF ListenError, Polls, netVars
<1>5. ASSUME NEW i \in Instances, Reconnect(i) PROVE SubscriptionInv'
  <2>1. outages # 0 /\ outages' = outages /\ channels' = channels
    BY <1>5 DEF Reconnect
  <2>2. \A j \in Instances : live'[j] \subseteq channels[j]
    <3>1. CASE redis = "up"
      <4>1. live' = [live EXCEPT ![i] = channels[i]]
        BY <1>5, <3>1 DEF Reconnect
      <4>. QED  BY <4>1 DEF TypeOK
    <3>2. CASE redis # "up"
      <4>1. live' = [live EXCEPT ![i] = {}]
        BY <1>5, <3>2 DEF Reconnect
      <4>. QED  BY <4>1 DEF TypeOK
    <3>. QED  BY <3>1, <3>2
  <2>. QED  BY <2>1, <2>2
<1>6. CASE RedisDown
  <2>1. outages' # 0 /\ UNCHANGED <<live, channels>>
    BY <1>6 DEF RedisDown, busVars, TypeOK
  <2>. QED  BY <2>1
<1>7. CASE RedisUp \/ FallsSilent \/ UNCHANGED vars
  BY <1>7 DEF RedisUp, FallsSilent, busVars, netVars, vars
<1>. QED  BY <1>1, <1>2, <1>3, <1>4, <1>5, <1>6, <1>7 DEF Next, Publish, Listen

(* An instance is subscribed to nothing it does not know of and, up to the  *)
(* first outage, to all it believes it is (bus.py:164-171): the first half  *)
(* of ListenersHear.                                                        *)
THEOREM BelievesWhatItHas == Spec => []BelievesWhatIs
<1>1. SubscriptionInv => BelievesWhatIs
  BY DEF SubscriptionInv, CalmInv, BelievesWhatIs
<1>. QED  BY <1>1, TypeInit, TypeStep, SubscriptionInit, SubscriptionStep, PTL DEF Spec
=============================================================================
