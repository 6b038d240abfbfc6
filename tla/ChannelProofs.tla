---------------------------- MODULE ChannelProofs ----------------------------
(***************************************************************************)
(* What the steps of a channel preserve, whatever the other threads do:    *)
(* the list, the private nodes, the wakeups.                               *)
(***************************************************************************)
EXTENDS VirePoolInv, FiniteSetTheorems, SequenceTheorems, TLAPS

\* The first element of a non-empty list leaves it, the others move up by one.
LEMMA QueueTail ==
  ASSUME ChannelTypeOK, queue # <<>>
  PROVE  /\ Len(queue) \in Nat /\ Len(queue) > 0 /\ queue[1] \in Node
         /\ Tail(queue) \in Seq(Node) /\ Len(Tail(queue)) = Len(queue) - 1
         /\ \A i \in 1 .. Len(queue) - 1 : Tail(queue)[i] = queue[i + 1]
BY HeadTailProperties, LenProperties, EmptySeq DEF ChannelTypeOK

\* The list is empty exactly when head, or tail, is the null pointer.
LEMMA QueueEmpty ==
  ASSUME ChannelTypeOK, ListIsQueue
  PROVE  /\ Len(queue) \in Nat /\ queue \in [1 .. Len(queue) -> Node]
         /\ head = NULL <=> queue = <<>>
         /\ tail = NULL <=> queue = <<>>
         /\ queue = <<>> <=> Len(queue) = 0
<1>1. Len(queue) \in Nat /\ queue \in [1 .. Len(queue) -> Node]
  BY LenProperties DEF ChannelTypeOK
<1>2. queue = <<>> <=> Len(queue) = 0
  BY <1>1, EmptySeq DEF ChannelTypeOK
<1>3. Len(queue) # 0 => queue[1] # NULL /\ queue[Len(queue)] # NULL
  BY <1>1, ChannelAssumption
<1> QED BY <1>1, <1>2, <1>3 DEF ListIsQueue

\* Only the thread that holds the mutex is between lock and unlock.
LEMMA Alone ==
  ASSUME Exclusion, NEW p \in Proc, NEW q \in Proc, cpc[p] \in Inside, cpc[q] \in Inside
  PROVE  p = q
BY DEF Exclusion

\* Threads that are not about to take a value can be counted.
LEMMA OnTheirWayFinite ==
  /\ IsFiniteSet(OnTheirWay)  /\ Cardinality(OnTheirWay) \in Nat
<1>1. OnTheirWay \subseteq Proc
  BY DEF OnTheirWay
<1> QED BY <1>1, ChannelAssumption, FS_Subset, FS_CardinalityType

-----------------------------------------------------------------------------
(* Types                                                                    *)

LEMMA TypeLemma ==
  ASSUME ChannelInv, NEW p \in Proc,
         ChannelStep(p) \/ RecvBegin(p) \/ \E v \in Value, n \in Node : SendBegin(p, v, n)
  PROVE  ChannelTypeOK'
<1> USE DEF ChannelTypeOK, ChannelInv, Goto, list
<1>1. ASSUME NEW v \in Value, NEW n \in Node, SendBegin(p, v, n) PROVE ChannelTypeOK'
  BY <1>1 DEF SendBegin
<1>2. ASSUME Lock(p) \/ RecvBegin(p) PROVE ChannelTypeOK'
  BY <1>2 DEF Lock, RecvBegin
<1>3. ASSUME Link(p) PROVE ChannelTypeOK'
  <2>1. reg[p] \in Node
    BY <1>3 DEF Link, Private, HasNode, Sending
  <2>2. queue' \in Seq(Node)
    BY <1>3, <2>1, AppendProperties DEF Link
  <2>3. next' \in [Node -> Node \cup {NULL}] /\ head' \in Node \cup {NULL}
    BY <1>3, <2>1 DEF Link
  <2> QED BY <1>3, <2>1, <2>2, <2>3 DEF Link
<1>4. ASSUME Signal(p) \/ SpuriousWakeup(p) \/ Wait(p) PROVE ChannelTypeOK'
  BY <1>4 DEF Signal, SpuriousWakeup, Wait, Wake
<1>5. ASSUME UnlockSend(p) \/ UnlockRecv(p) PROVE ChannelTypeOK'
  BY <1>5 DEF UnlockSend, UnlockRecv
<1>6. ASSUME Take(p) PROVE ChannelTypeOK'
  <2>1. queue # <<>> /\ head \in Node
    BY <1>6, QueueEmpty DEF Take
  <2>2. queue' \in Seq(Node)
    BY <1>6, <2>1, QueueTail DEF Take
  <2> QED BY <1>6, <2>1, <2>2 DEF Take
<1>7. ASSUME Free(p) PROVE ChannelTypeOK'
  BY <1>7 DEF Free
<1> QED BY <1>1, <1>2, <1>3, <1>4, <1>5, <1>6, <1>7 DEF ChannelStep

-----------------------------------------------------------------------------
(* The list and the threads                                                 *)

\* Steps that touch neither the list nor a node: they move the thread p from one place of
\* an operation to another, keep what the mutex protects, and may wake a thread.
LEMMA ControlSteps ==
  ASSUME ChannelInv, NEW p \in Proc,
         Lock(p) \/ RecvBegin(p) \/ Signal(p) \/ SpuriousWakeup(p) \/ Wait(p)
           \/ UnlockSend(p) \/ UnlockRecv(p)
  PROVE  /\ Exclusion' /\ Sleepers' /\ Private' /\ Values' /\ ListIsQueue'
         /\ \A q \in Proc : HasNode(q)' <=> HasNode(q)
<1> USE ChannelAssumption DEF ChannelInv, ChannelTypeOK, Goto, list, Wake
<1>1. UNCHANGED <<nodes, item, list, got>> /\ \A q \in Proc : HasNode(q) => reg'[q] = reg[q]
  <2>1. CASE UnlockSend(p)
    BY <2>1 DEF UnlockSend, HasNode, Sending, Taken
  <2>2. CASE ~UnlockSend(p)
    BY <2>2 DEF Lock, RecvBegin, Signal, SpuriousWakeup, Wait, UnlockRecv
  <2> QED BY <2>1, <2>2
<1>2. \A q \in Proc : /\ cpc'[q] \in Sending <=> cpc[q] \in Sending
                      /\ cpc'[q] \in Taken <=> cpc[q] \in Taken
  <2>1. CASE Signal(p) \/ SpuriousWakeup(p)
    BY <2>1 DEF Signal, SpuriousWakeup, Sending, Taken, Sleepers
  <2>2. CASE Lock(p)
    BY <2>2 DEF Lock, Sending, Taken
  <2>3. CASE RecvBegin(p) \/ Wait(p) \/ UnlockSend(p) \/ UnlockRecv(p)
    BY <2>3 DEF RecvBegin, Wait, UnlockSend, UnlockRecv, Sending, Taken
  <2> QED BY <2>1, <2>2, <2>3
<1>3. \A q \in Proc : HasNode(q)' <=> HasNode(q)
  <2> SUFFICES ASSUME NEW q \in Proc PROVE HasNode(q)' <=> HasNode(q)
    OBVIOUS
  <2> QED BY <1>2 DEF HasNode, Sending, Taken
<1>4. Exclusion'
  BY DEF Lock, RecvBegin, Signal, SpuriousWakeup, Wait, UnlockSend, UnlockRecv, Exclusion,
         Inside, Sleepers
<1>5. Sleepers'
  BY DEF Lock, RecvBegin, Signal, SpuriousWakeup, Wait, UnlockSend, UnlockRecv, Sleepers
<1>6. Private'
  BY <1>1, <1>2, <1>3 DEF Private, HasNode
<1>7. Values'
  <2> SUFFICES ASSUME NEW q \in Proc
               PROVE  IF cpc'[q] \in Taken THEN got'[q] \in Value ELSE got'[q] = NULL
    BY <1>1 DEF Values, Taken
  <2> QED BY <1>1, <1>2 DEF Values
<1>8. ListIsQueue'
  <2>1. \A q \in Proc : cpc'[q] \in Taken => HasNode(q) /\ reg'[q] = reg[q]
    BY <1>1, <1>2 DEF HasNode
  <2> QED BY <1>1, <2>1 DEF ListIsQueue, Taken, Private
<1> QED BY <1>3, <1>4, <1>5, <1>6, <1>7, <1>8

\* A new node is nobody else's.
LEMMA SendBeginSteps ==
  ASSUME ChannelInv, NEW p \in Proc, NEW v \in Value, NEW n \in Node, SendBegin(p, v, n)
  PROVE  Exclusion' /\ Sleepers' /\ Private' /\ Values' /\ ListIsQueue'
<1> USE ChannelAssumption DEF ChannelInv, ChannelTypeOK, Goto
<1>1. /\ cpc[p] = "idle" /\ n \notin nodes /\ cpc' = [cpc EXCEPT ![p] = "send"]
      /\ nodes' = nodes \cup {n} /\ reg' = [reg EXCEPT ![p] = n]
      /\ item' = [item EXCEPT ![n] = v] /\ next' = [next EXCEPT ![n] = NULL]
      /\ UNCHANGED <<got, head, tail, queue, holder, waiting>>
  BY DEF SendBegin
<1>2. \A i \in 1 .. Len(queue) : queue[i] \in nodes /\ queue[i] # n
  BY <1>1 DEF ListIsQueue
<1>3. \A q \in Proc : q # p /\ HasNode(q) => reg[q] \in nodes /\ reg[q] # n
  BY <1>1 DEF Private
<1>4. \A q \in Proc : HasNode(q)' <=> HasNode(q) \/ q = p
  BY <1>1 DEF HasNode, Sending, Taken
<1>5. Exclusion' /\ Sleepers'
  BY <1>1 DEF Exclusion, Sleepers, Inside
<1>6. Private'
  <2>1. \A q \in Proc : HasNode(q)' => reg'[q] \in nodes'
    BY <1>1, <1>4 DEF Private
  <2>2. \A q, r \in Proc : HasNode(q)' /\ HasNode(r)' /\ reg'[q] = reg'[r] => q = r
    BY <1>1, <1>3, <1>4 DEF Private
  <2>3. \A q \in Proc : HasNode(q)' => \A i \in 1 .. Len(queue') : queue'[i] # reg'[q]
    BY <1>1, <1>2, <1>4 DEF Private
  <2>4. \A q \in Proc : cpc'[q] \in Sending => item'[reg'[q]] \in Value /\ next'[reg'[q]] = NULL
    BY <1>1, <1>3 DEF Private, HasNode
  <2> QED BY <2>1, <2>2, <2>3, <2>4 DEF Private
<1>7. Values'
  BY <1>1, <1>2, QueueEmpty DEF Values, Taken
<1>8. ListIsQueue'
  BY <1>1, <1>2, <1>3, QueueEmpty DEF ListIsQueue, HasNode, Taken
<1> QED BY <1>5, <1>6, <1>7, <1>8

\* The sender appends its node: it becomes the last one, and the one before points to it.
LEMMA LinkSteps ==
  ASSUME ChannelInv, NEW p \in Proc, Link(p)
  PROVE  Exclusion' /\ Sleepers' /\ Private' /\ Values' /\ ListIsQueue'
<1> USE ChannelAssumption DEF ChannelInv, ChannelTypeOK, Goto
<1> DEFINE n == Len(queue)  x == reg[p]
<1>1. /\ cpc[p] = "link" /\ cpc' = [cpc EXCEPT ![p] = "signal"] /\ tail' = x
      /\ queue' = Append(queue, x)
      /\ UNCHANGED <<reg, got, nodes, item, holder, waiting>>
  BY DEF Link
<1>2. HasNode(p) /\ x \in nodes /\ x \in Node /\ item[x] \in Value /\ next[x] = NULL
      /\ \A i \in 1 .. n : queue[i] # x
  BY <1>1 DEF Private, HasNode, Sending
<1>3. /\ n \in Nat /\ Len(queue') = n + 1 /\ queue'[n + 1] = x
      /\ \A i \in 1 .. n : queue'[i] = queue[i] /\ queue[i] \in Node
  BY <1>1, <1>2, AppendProperties, QueueEmpty
<1>4. \A q \in Proc : HasNode(q)' <=> HasNode(q) /\ q # p
  BY <1>1 DEF HasNode, Sending, Taken
<1>5. Exclusion' /\ Sleepers'
  BY <1>1 DEF Exclusion, Sleepers, Inside
<1>6. head' = queue'[1]
  <2>1. CASE n = 0
    BY <2>1, <1>3, QueueEmpty DEF Link
  <2>2. CASE n # 0
    BY <2>2, <1>3, QueueEmpty DEF Link, ListIsQueue
  <2> QED BY <2>1, <2>2
<1>7. ListIsQueue'
  <2>1. head' = queue'[1] /\ tail' = queue'[n + 1] /\ n + 1 # 0
    BY <1>1, <1>3, <1>6
  <2>2. \A i \in 1 .. n + 1 : next'[queue'[i]] = IF i = n + 1 THEN NULL ELSE queue'[i + 1]
    <3> SUFFICES ASSUME NEW i \in 1 .. n + 1
                 PROVE  next'[queue'[i]] = IF i = n + 1 THEN NULL ELSE queue'[i + 1]
      OBVIOUS
    <3>1. CASE n = 0
      BY <3>1, <1>2, <1>3, <1>6, QueueEmpty DEF Link
    <3>2. CASE n # 0
      <4>1. next' = [next EXCEPT ![tail] = x] /\ tail = queue[n]
        BY <3>2, <1>3, QueueEmpty DEF Link, ListIsQueue
      <4>2. CASE i = n + 1
        BY <4>1, <4>2, <1>2, <1>3, <3>2
      <4>3. CASE i = n
        BY <4>1, <4>3, <1>3, <3>2
      <4>4. CASE i < n
        <5>1. i \in 1 .. n /\ n \in 1 .. n /\ i + 1 \in 1 .. n /\ i # n
          BY <4>4, <3>2, <1>3
        <5>2. queue[i] # queue[n] /\ next[queue[i]] = queue[i + 1]
          BY <5>1 DEF ListIsQueue
        <5> QED BY <4>1, <5>1, <5>2, <1>3
      <4> QED BY <4>2, <4>3, <4>4, <1>3
    <3> QED BY <3>1, <3>2
  <2>3. \A i \in 1 .. n + 1 : queue'[i] \in nodes'
    BY <1>1, <1>2, <1>3 DEF ListIsQueue
  <2>4. \A i, j \in 1 .. n + 1 : queue'[i] = queue'[j] => i = j
    BY <1>2, <1>3 DEF ListIsQueue
  <2>5. \A q \in Proc : cpc'[q] \in {"took", "free"} => \A i \in 1 .. n + 1 : queue'[i] # reg'[q]
    BY <1>1, <1>2, <1>3, <1>4 DEF Private, HasNode, Taken
  <2> QED BY <2>1, <2>2, <2>3, <2>4, <2>5, <1>3 DEF ListIsQueue
<1>8. Private'
  <2>1. \A q \in Proc : q # p /\ HasNode(q) => reg[q] # x
    BY <1>2 DEF Private
  <2>2. \A q \in Proc : HasNode(q)' => \A i \in 1 .. Len(queue') : queue'[i] # reg'[q]
    BY <1>1, <1>3, <1>4, <2>1 DEF Private
  <2>3. \A q \in Proc : cpc'[q] \in Sending => next'[reg'[q]] = NULL
    <3> SUFFICES ASSUME NEW q \in Proc, cpc'[q] \in Sending PROVE next'[reg[q]] = NULL
      BY <1>1
    <3>1. HasNode(q) /\ next[reg[q]] = NULL /\ reg[q] \in Node
      BY <1>1 DEF HasNode, Private, Sending
    <3>2. n # 0 => tail # reg[q]
      BY <3>1, <1>3 DEF ListIsQueue, Private
    <3> QED BY <3>1, <3>2, <1>6, QueueEmpty, <1>1 DEF Link
  <2> QED BY <1>1, <1>4, <2>2, <2>3 DEF Private, Sending
<1>9. Values'
  BY <1>1, <1>2, <1>3 DEF Values, Taken
<1> QED BY <1>5, <1>7, <1>8, <1>9

\* The receiver cuts off the first node, which becomes its own.
LEMMA TakeSteps ==
  ASSUME ChannelInv, NEW p \in Proc, Take(p)
  PROVE  Exclusion' /\ Sleepers' /\ Private' /\ Values' /\ ListIsQueue'
<1> USE ChannelAssumption DEF ChannelInv, ChannelTypeOK, Goto
<1> DEFINE n == Len(queue)  x == queue[1]
<1>1. /\ cpc[p] = "check" /\ head # NULL /\ cpc' = [cpc EXCEPT ![p] = "took"]
      /\ reg' = [reg EXCEPT ![p] = head] /\ got' = [got EXCEPT ![p] = item[head]]
      /\ head' = next[head] /\ tail' = (IF next[head] = NULL THEN NULL ELSE tail)
      /\ queue' = Tail(queue) /\ UNCHANGED <<next, nodes, item, holder, waiting>>
  BY DEF Take
<1>2. /\ n \in Nat /\ n > 0 /\ Len(queue') = n - 1 /\ head = x /\ x \in Node
      /\ \A i \in 1 .. n - 1 : queue'[i] = queue[i + 1]
      /\ \A i \in 1 .. n : queue[i] \in Node
  <2>1. queue # <<>> /\ \A i \in 1 .. n : queue[i] \in Node
    BY <1>1, QueueEmpty
  <2> QED BY <1>1, <2>1, QueueTail DEF ListIsQueue
<1>3. \A i \in 1 .. n - 1 : queue'[i] # x /\ i + 1 \in 1 .. n
  BY <1>2 DEF ListIsQueue
<1>4. \A q \in Proc : HasNode(q)' <=> HasNode(q) \/ q = p
  BY <1>1 DEF HasNode, Sending, Taken
<1>5. Exclusion' /\ Sleepers'
  BY <1>1 DEF Exclusion, Sleepers, Inside
<1>6. ~HasNode(p) /\ \A q \in Proc : HasNode(q) => reg[q] # x
  BY <1>1, <1>2 DEF Private, HasNode, Sending, Taken
<1>7. Private'
  <2>1. \A q \in Proc : HasNode(q)' => reg'[q] \in nodes'
    BY <1>1, <1>2, <1>4 DEF Private, ListIsQueue
  <2>2. \A q, r \in Proc : HasNode(q)' /\ HasNode(r)' /\ reg'[q] = reg'[r] => q = r
    BY <1>1, <1>2, <1>4, <1>6 DEF Private
  <2>3. \A q \in Proc : HasNode(q)' => \A i \in 1 .. Len(queue') : queue'[i] # reg'[q]
    BY <1>1, <1>2, <1>3, <1>4 DEF Private
  <2>4. \A q \in Proc : cpc'[q] \in Sending => item'[reg'[q]] \in Value /\ next'[reg'[q]] = NULL
    BY <1>1 DEF Private, Sending
  <2> QED BY <2>1, <2>2, <2>3, <2>4 DEF Private
<1>8. Values'
  <2>1. \A i \in 1 .. Len(queue') : item'[queue'[i]] \in Value
    BY <1>1, <1>2, <1>3 DEF Values
  <2>2. item[x] \in Value
    BY <1>2 DEF Values
  <2> QED BY <1>1, <1>2, <2>1, <2>2 DEF Values, Taken
<1>9. ListIsQueue'
  <2>1. \A i \in 1 .. n - 1 : next'[queue'[i]] = IF i = n - 1 THEN NULL ELSE queue'[i + 1]
    BY <1>1, <1>2, <1>3 DEF ListIsQueue
  <2>2. /\ next[x] = (IF n = 1 THEN NULL ELSE queue[2])
        /\ n # 1 => 1 \in 1 .. n - 1 /\ n - 1 \in 1 .. n - 1 /\ queue[2] # NULL
    BY <1>2 DEF ListIsQueue
  <2>3. head' = (IF n - 1 = 0 THEN NULL ELSE queue'[1])
        /\ tail' = (IF n - 1 = 0 THEN NULL ELSE queue'[n - 1])
    BY <1>1, <1>2, <2>2 DEF ListIsQueue
  <2>4. \A i \in 1 .. n - 1 : queue'[i] \in nodes'
    BY <1>1, <1>2, <1>3 DEF ListIsQueue
  <2>5. \A i, j \in 1 .. n - 1 : queue'[i] = queue'[j] => i = j
    <3> SUFFICES ASSUME NEW i \in 1 .. n - 1, NEW j \in 1 .. n - 1, queue'[i] = queue'[j]
                 PROVE  i = j
      OBVIOUS
    <3>1. i + 1 = j + 1
      BY <1>2, <1>3 DEF ListIsQueue
    <3> QED BY <3>1, <1>2
  <2>6. \A q \in Proc : cpc'[q] \in {"took", "free"} => \A i \in 1 .. n - 1 : queue'[i] # reg'[q]
    BY <1>1, <1>2, <1>3 DEF ListIsQueue
  <2> QED BY <2>1, <2>3, <2>4, <2>5, <2>6, <1>2 DEF ListIsQueue
<1> QED BY <1>5, <1>7, <1>8, <1>9

\* The node that is freed is in nobody's hands and not in the list.
LEMMA FreeSteps ==
  ASSUME ChannelInv, NEW p \in Proc, Free(p)
  PROVE  Exclusion' /\ Sleepers' /\ Private' /\ Values' /\ ListIsQueue'
<1> USE ChannelAssumption DEF ChannelInv, ChannelTypeOK, Goto
<1>1. /\ cpc[p] = "free" /\ cpc' = [cpc EXCEPT ![p] = "idle"]
      /\ nodes' = nodes \ {reg[p]}
      /\ reg' = [reg EXCEPT ![p] = NULL] /\ got' = [got EXCEPT ![p] = NULL]
      /\ UNCHANGED <<item, head, tail, next, queue, holder, waiting>>
  BY DEF Free, list
<1>2. \A q \in Proc : HasNode(q)' <=> HasNode(q) /\ q # p
  BY <1>1 DEF HasNode, Sending, Taken
<1>3. HasNode(p) /\ \A i \in 1 .. Len(queue) : queue[i] # reg[p]
  BY <1>1 DEF HasNode, Private, Taken
<1>4. Exclusion' /\ Sleepers'
  BY <1>1 DEF Exclusion, Sleepers, Inside
<1>5. Private'
  <2>1. \A q \in Proc : HasNode(q)' => reg'[q] \in nodes'
    BY <1>1, <1>2, <1>3 DEF Private
  <2>2. \A q, r \in Proc : HasNode(q)' /\ HasNode(r)' /\ reg'[q] = reg'[r] => q = r
    BY <1>1, <1>2 DEF Private
  <2>3. \A q \in Proc : HasNode(q)' => \A i \in 1 .. Len(queue') : queue'[i] # reg'[q]
    BY <1>1, <1>2 DEF Private
  <2>4. \A q \in Proc : cpc'[q] \in Sending => item'[reg'[q]] \in Value /\ next'[reg'[q]] = NULL
    BY <1>1 DEF Private, Sending
  <2> QED BY <2>1, <2>2, <2>3, <2>4 DEF Private
<1>6. Values'
  BY <1>1 DEF Values, Taken
<1>7. ListIsQueue'
  BY <1>1, <1>3 DEF ListIsQueue
<1> QED BY <1>4, <1>5, <1>6, <1>7

-----------------------------------------------------------------------------
(* Wakeups                                                                  *)

\* One thread more, or one less, is on its way to the list.
LEMMA OneMore ==
  ASSUME NEW p, p \notin OnTheirWay, OnTheirWay' = OnTheirWay \cup {p}
  PROVE  Cardinality(OnTheirWay') = Cardinality(OnTheirWay) + 1
BY OnTheirWayFinite, FS_AddElement

LEMMA OneLess ==
  ASSUME NEW p, p \in OnTheirWay, OnTheirWay' = OnTheirWay \ {p}
  PROVE  Cardinality(OnTheirWay') = Cardinality(OnTheirWay) - 1
BY OnTheirWayFinite, FS_RemoveElement

\* A value that is added is matched by the sender that is about to signal, a value that is
\* taken by the receiver that took it, and a signal passes the match on to the receiver.
LEMMA WakeupSteps ==
  ASSUME ChannelInv, NEW p \in Proc,
         ChannelStep(p) \/ RecvBegin(p) \/ \E v \in Value, n \in Node : SendBegin(p, v, n)
  PROVE  NoLostWakeup'
<1> USE DEF ChannelInv, ChannelTypeOK, Goto, list
<1>0. Len(queue) \in Nat
  BY QueueEmpty
<1>1. ASSUME \/ UnlockSend(p) \/ UnlockRecv(p) \/ Free(p) \/ Lock(p)
             \/ \E v \in Value, n \in Node : SendBegin(p, v, n)
      PROVE  NoLostWakeup'
  <2>1. CASE Lock(p)
    BY <2>1 DEF Lock, OnTheirWay, NoLostWakeup
  <2>2. CASE ~Lock(p)
    BY <1>1, <2>2 DEF UnlockSend, UnlockRecv, Free, SendBegin, OnTheirWay, NoLostWakeup
  <2> QED BY <2>1, <2>2
<1>2. ASSUME RecvBegin(p) PROVE NoLostWakeup'
  <2>1. p \notin OnTheirWay /\ OnTheirWay' = OnTheirWay \cup {p}
    BY <1>2 DEF RecvBegin, OnTheirWay
  <2>2. Cardinality(OnTheirWay') = Cardinality(OnTheirWay) + 1
    BY <2>1, OneMore
  <2>3. Len(queue') = Len(queue) /\ waiting' = waiting
    BY <1>2 DEF RecvBegin
  <2>4. waiting' # {} => Len(queue') <= Cardinality(OnTheirWay')
    BY <1>0, <2>2, <2>3, OnTheirWayFinite DEF NoLostWakeup
  <2> QED BY <2>4 DEF NoLostWakeup
<1>3. ASSUME Link(p) PROVE NoLostWakeup'
  <2>1. p \notin OnTheirWay /\ OnTheirWay' = OnTheirWay \cup {p}
    BY <1>3 DEF Link, OnTheirWay
  <2>2. Len(queue') = Len(queue) + 1 /\ waiting' = waiting
    <3>1. reg[p] \in Node
      BY <1>3 DEF Link, Private, HasNode, Sending
    <3> QED BY <3>1, <1>3, AppendProperties DEF Link
  <2>3. Cardinality(OnTheirWay') = Cardinality(OnTheirWay) + 1
    BY <2>1, OneMore
  <2>4. waiting' # {} => Len(queue') <= Cardinality(OnTheirWay')
    BY <1>0, <2>2, <2>3, OnTheirWayFinite DEF NoLostWakeup
  <2> QED BY <2>4 DEF NoLostWakeup
<1>4. ASSUME Signal(p) PROVE NoLostWakeup'
  <2>1. CASE waiting = {}
    BY <1>4, <2>1 DEF Signal, NoLostWakeup
  <2>2. CASE waiting # {}
    <3>1. PICK w \in waiting : waiting' = waiting \ {w}
                               /\ cpc' = [cpc EXCEPT ![p] = "unlock", ![w] = "recv"]
      BY <1>4, <2>2 DEF Signal, Wake
    <3>2. cpc[p] = "signal" /\ cpc[w] = "wait" /\ w \in Proc
      BY <1>4 DEF Signal, Sleepers
    <3>3. /\ p \in OnTheirWay /\ w \notin OnTheirWay
          /\ OnTheirWay' = (OnTheirWay \ {p}) \cup {w}
      BY <3>1, <3>2 DEF OnTheirWay
    <3>4. IsFiniteSet(OnTheirWay \ {p})
          /\ Cardinality(OnTheirWay \ {p}) = Cardinality(OnTheirWay) - 1
      BY <3>3, OnTheirWayFinite, FS_RemoveElement
    <3>5. Cardinality((OnTheirWay \ {p}) \cup {w}) = Cardinality(OnTheirWay \ {p}) + 1
      BY <3>3, <3>4, FS_AddElement
    <3>6. Cardinality(OnTheirWay') = Cardinality(OnTheirWay)
      BY <3>3, <3>4, <3>5, OnTheirWayFinite
    <3> QED BY <1>4, <2>2, <3>6 DEF Signal, NoLostWakeup
  <2> QED BY <2>1, <2>2
<1>5. ASSUME SpuriousWakeup(p) PROVE NoLostWakeup'
  <2>1. p \notin OnTheirWay /\ OnTheirWay' = OnTheirWay \cup {p}
    BY <1>5 DEF SpuriousWakeup, OnTheirWay, Sleepers
  <2>2. Cardinality(OnTheirWay') = Cardinality(OnTheirWay) + 1
    BY <2>1, OneMore
  <2>3. Len(queue') = Len(queue) /\ waiting' \subseteq waiting
    BY <1>5 DEF SpuriousWakeup, Wake
  <2>4. waiting' # {} => Len(queue') <= Cardinality(OnTheirWay')
    BY <1>0, <2>2, <2>3, OnTheirWayFinite DEF NoLostWakeup
  <2> QED BY <2>4 DEF NoLostWakeup
<1>6. ASSUME Wait(p) PROVE NoLostWakeup'
  <2>1. Len(queue') = 0
    BY <1>6, QueueEmpty DEF Wait
  <2>2. OnTheirWay' = OnTheirWay \ {p} /\ p \in OnTheirWay
    BY <1>6 DEF Wait, OnTheirWay
  <2>3. Cardinality(OnTheirWay') \in Nat
    BY <2>2, OnTheirWayFinite, FS_RemoveElement, FS_CardinalityType
  <2> QED BY <2>1, <2>3 DEF NoLostWakeup
<1>7. ASSUME Take(p) PROVE NoLostWakeup'
  <2>1. p \in OnTheirWay /\ OnTheirWay' = OnTheirWay \ {p}
    BY <1>7 DEF Take, OnTheirWay
  <2>2. Len(queue') = Len(queue) - 1 /\ waiting' = waiting
    BY <1>7, QueueEmpty, QueueTail DEF Take
  <2>3. Cardinality(OnTheirWay') = Cardinality(OnTheirWay) - 1
    BY <2>1, OneLess
  <2>4. waiting' # {} => Len(queue') <= Cardinality(OnTheirWay')
    BY <1>0, <2>2, <2>3, OnTheirWayFinite DEF NoLostWakeup
  <2> QED BY <2>4 DEF NoLostWakeup
<1> QED BY <1>1, <1>2, <1>3, <1>4, <1>5, <1>6, <1>7 DEF ChannelStep

\* Every step of a channel operation preserves the channel's invariant.
LEMMA ChannelInvStep ==
  ASSUME ChannelInv, NEW p \in Proc,
         ChannelStep(p) \/ RecvBegin(p) \/ \E v \in Value, n \in Node : SendBegin(p, v, n)
  PROVE  ChannelInv'
<1>1. ChannelTypeOK' /\ NoLostWakeup'
  BY TypeLemma, WakeupSteps
<1>2. Exclusion' /\ Sleepers' /\ Private' /\ Values' /\ ListIsQueue'
  BY ControlSteps, SendBeginSteps, LinkSteps, TakeSteps, FreeSteps DEF ChannelStep
<1> QED BY <1>1, <1>2 DEF ChannelInv

\* The new channel satisfies it.
LEMMA ChannelInit == InitChannel => ChannelInv
<1> SUFFICES ASSUME InitChannel PROVE ChannelInv
  OBVIOUS
<1> USE ChannelAssumption DEF InitChannel
<1>1. Len(queue) = 0 /\ queue \in Seq(Node)
  BY EmptySeq
<1>2. ChannelTypeOK
  BY <1>1 DEF ChannelTypeOK
<1>3. Exclusion /\ Sleepers /\ Private /\ Values
  BY <1>1 DEF Exclusion, Sleepers, Private, Values, Inside, HasNode, Sending, Taken
<1>4. ListIsQueue /\ NoLostWakeup
  BY <1>1 DEF ListIsQueue, NoLostWakeup
<1> QED BY <1>2, <1>3, <1>4 DEF ChannelInv

\* Steps of other components leave the channel as it is.
LEMMA ChannelStutter == ASSUME ChannelInv, UNCHANGED chanvars PROVE ChannelInv'
BY DEF ChannelInv, chanvars, registers, list, ChannelTypeOK, Exclusion, Sleepers, Private,
       HasNode, Values, ListIsQueue, NoLostWakeup, OnTheirWay, Inside, Sending, Taken

-----------------------------------------------------------------------------
(* The channel implements the queue of module Fifo                          *)

\* The items of the nodes of a list, in the list's order.
LEMMA ItemsOf ==
  ASSUME NEW e, NEW s, NEW n \in Nat, \A i \in 1 .. n : e[s[i]] \in Value
  PROVE  /\ [i \in 1 .. n |-> e[s[i]]] \in Seq(Value)
         /\ Len([i \in 1 .. n |-> e[s[i]]]) = n
<1>1. [i \in 1 .. n |-> e[s[i]]] \in Seq(Value)
  BY IsASeq
<1> QED BY <1>1

\* The linked values as a sequence.
LEMMA ContentsLemma ==
  ASSUME ChannelInv
  PROVE  /\ Contents \in Seq(Value) /\ Len(Contents) = Len(queue)
         /\ \A i \in 1 .. Len(queue) : Contents[i] = item[queue[i]] /\ item[queue[i]] \in Value
<1>1. Len(queue) \in Nat /\ \A i \in 1 .. Len(queue) : item[queue[i]] \in Value
  BY QueueEmpty DEF ChannelInv, Values
<1> QED BY <1>1, ItemsOf DEF Contents

\* A thread has an unsent value exactly while its send has built a node and not linked it.
LEMMA UnsentLemma ==
  ASSUME ChannelInv, NEW p \in Proc
  PROVE  /\ cpc[p] \in Sending => Unsent[p] = item[reg[p]] /\ Unsent[p] # NULL
         /\ cpc[p] \notin Sending => Unsent[p] = NULL
         /\ got[p] # NULL <=> cpc[p] \in Taken
BY ChannelAssumption DEF ChannelInv, Unsent, Sending, Values, Private, Taken

\* The steps a user of the queue does not see.
LEMMA InvisibleSteps ==
  ASSUME ChannelInv, NEW p \in Proc,
         Lock(p) \/ RecvBegin(p) \/ Signal(p) \/ SpuriousWakeup(p) \/ Wait(p)
           \/ UnlockSend(p) \/ UnlockRecv(p)
  PROVE  UNCHANGED <<Unsent, Contents, got>>
<1> USE DEF ChannelInv, ChannelTypeOK, Goto, list
<1>1. UNCHANGED <<item, queue, got>>
  BY DEF Lock, RecvBegin, Signal, SpuriousWakeup, Wait, UnlockSend, UnlockRecv
<1>2. \A q \in Proc : /\ cpc'[q] \in Sending <=> cpc[q] \in Sending
                      /\ cpc[q] \in Sending => reg'[q] = reg[q]
  <2>1. CASE Signal(p) \/ SpuriousWakeup(p)
    BY <2>1 DEF Signal, SpuriousWakeup, Sending, Sleepers
  <2>2. CASE Lock(p)
    BY <2>2 DEF Lock, Sending
  <2>3. CASE RecvBegin(p) \/ Wait(p) \/ UnlockSend(p) \/ UnlockRecv(p)
    BY <2>3 DEF RecvBegin, Wait, UnlockSend, UnlockRecv, Sending
  <2> QED BY <2>1, <2>2, <2>3
<1>3. Unsent' = Unsent
  BY <1>1, <1>2 DEF Unsent, Sending
<1>4. Contents' = Contents
  BY <1>1 DEF Contents
<1> QED BY <1>1, <1>3, <1>4

\* malloc and the stores into the node are the beginning of a send.
LEMMA SendBeginRefines ==
  ASSUME ChannelInv, ChannelInv', NEW p \in Proc, NEW v \in Value, NEW n \in Node,
         SendBegin(p, v, n)
  PROVE  ChannelFifo!Send(p, v)
<1> USE DEF ChannelInv, ChannelTypeOK
<1>1. /\ cpc[p] = "idle" /\ n \notin nodes /\ cpc' = [cpc EXCEPT ![p] = "send"]
      /\ reg' = [reg EXCEPT ![p] = n] /\ item' = [item EXCEPT ![n] = v]
      /\ UNCHANGED <<got, queue>>
  BY DEF SendBegin, Goto
<1>2. Unsent[p] = NULL /\ got[p] = NULL
  BY <1>1, UnsentLemma DEF Sending, Taken
<1>3. Unsent' = [Unsent EXCEPT ![p] = v]
  <2>1. \A q \in Proc : q # p /\ cpc[q] \in {"send", "link"} => reg[q] # n /\ reg[q] \in Node
    BY <1>1 DEF Private, HasNode, Sending
  <2>2. \A q \in Proc : Unsent'[q] = IF q = p THEN v ELSE Unsent[q]
    BY <1>1, <2>1 DEF Unsent
  <2> QED BY <2>2 DEF Unsent
<1>4. Contents' = Contents
  <2>1. \A i \in 1 .. Len(queue) : queue[i] # n /\ queue[i] \in Node
    BY <1>1, QueueEmpty DEF ListIsQueue
  <2> QED BY <1>1, <2>1 DEF Contents
<1> QED BY <1>1, <1>2, <1>3, <1>4 DEF ChannelFifo!Send

\* Linking the node is the moment of the send.
LEMMA LinkRefines ==
  ASSUME ChannelInv, ChannelInv', NEW p \in Proc, Link(p)
  PROVE  ChannelFifo!Put(p)
<1> USE DEF ChannelInv, ChannelTypeOK
<1>1. /\ cpc[p] = "link" /\ cpc' = [cpc EXCEPT ![p] = "signal"]
      /\ queue' = Append(queue, reg[p]) /\ UNCHANGED <<reg, got, item>>
  BY DEF Link, Goto
<1>2. reg[p] \in Node /\ Unsent[p] = item[reg[p]] /\ Unsent[p] # NULL /\ item[reg[p]] \in Value
  BY <1>1, UnsentLemma DEF Private, HasNode, Sending
<1>3. Unsent' = [Unsent EXCEPT ![p] = NULL]
  BY <1>1 DEF Unsent
<1>4. Contents' = Append(Contents, Unsent[p])
  <2>1. Len(queue) \in Nat /\ Len(queue') = Len(queue) + 1 /\ queue'[Len(queue) + 1] = reg[p]
        /\ \A i \in 1 .. Len(queue) : queue'[i] = queue[i]
    BY <1>1, <1>2, AppendProperties, QueueEmpty
  <2>2. /\ Append(Contents, Unsent[p]) \in Seq(Value)
        /\ Len(Append(Contents, Unsent[p])) = Len(queue) + 1
        /\ \A i \in 1 .. Len(queue) : Append(Contents, Unsent[p])[i] = Contents[i]
        /\ Append(Contents, Unsent[p])[Len(queue) + 1] = item[reg[p]]
    BY <1>2, ContentsLemma, AppendProperties
  <2>3. Contents' \in Seq(Value) /\ Len(Contents') = Len(queue) + 1
        /\ \A i \in 1 .. Len(queue) + 1 : Contents'[i] = item[queue'[i]]
    <3>1. Contents' = [i \in 1 .. Len(queue) + 1 |-> item[queue'[i]]]
      BY <1>1, <2>1 DEF Contents
    <3>2. Len(queue) + 1 \in Nat /\ \A i \in 1 .. Len(queue) + 1 : item[queue'[i]] \in Value
      BY <1>1, <2>1 DEF Values
    <3>3. /\ [i \in 1 .. Len(queue) + 1 |-> item[queue'[i]]] \in Seq(Value)
          /\ Len([i \in 1 .. Len(queue) + 1 |-> item[queue'[i]]]) = Len(queue) + 1
      BY ONLY <3>2, ItemsOf
    <3> QED BY ONLY <3>1, <3>3
  <2>4. \A i \in 1 .. Len(queue) + 1 : Contents'[i] = Append(Contents, Unsent[p])[i]
    BY <2>1, <2>2, <2>3, ContentsLemma
  <2> QED BY <2>1, <2>2, <2>3, <2>4, SeqEqual
<1> QED BY <1>1, <1>2, <1>3, <1>4 DEF ChannelFifo!Put

\* Cutting off the first node is the moment of the receive.
LEMMA TakeRefines ==
  ASSUME ChannelInv, ChannelInv', NEW p \in Proc, Take(p)
  PROVE  ChannelFifo!Take(p)
<1> USE DEF ChannelInv, ChannelTypeOK
<1>1. /\ cpc[p] = "check" /\ head # NULL /\ cpc' = [cpc EXCEPT ![p] = "took"]
      /\ reg' = [reg EXCEPT ![p] = head] /\ got' = [got EXCEPT ![p] = item[head]]
      /\ queue' = Tail(queue) /\ item' = item
  BY DEF Take, Goto
<1>2. Unsent[p] = NULL /\ got[p] = NULL
  BY <1>1, UnsentLemma DEF Sending, Taken
<1>3. queue # <<>> /\ head = queue[1] /\ Len(queue) > 0 /\ Len(queue) \in Nat
  BY <1>1, QueueEmpty, QueueTail DEF ListIsQueue
<1>4. Contents # <<>> /\ Head(Contents) = item[head]
  BY <1>3, ContentsLemma
<1>5. Unsent' = Unsent
  BY <1>1 DEF Unsent
<1>6. Contents' = Tail(Contents)
  <2>1. Len(queue') = Len(queue) - 1 /\ \A i \in 1 .. Len(queue) - 1 : queue'[i] = queue[i + 1]
    BY <1>1, <1>3, QueueTail
  <2>2. /\ Tail(Contents) \in Seq(Value) /\ Len(Tail(Contents)) = Len(queue) - 1
        /\ \A i \in 1 .. Len(queue) - 1 : Tail(Contents)[i] = Contents[i + 1]
    BY <1>4, ContentsLemma, HeadTailProperties
  <2>3. Contents' \in Seq(Value) /\ Len(Contents') = Len(queue) - 1
        /\ \A i \in 1 .. Len(queue) - 1 : Contents'[i] = item[queue'[i]]
    <3>1. Contents' = [i \in 1 .. Len(queue) - 1 |-> item[queue'[i]]]
      BY <1>1, <2>1 DEF Contents
    <3>2. Len(queue) - 1 \in Nat /\ \A i \in 1 .. Len(queue) - 1 : item[queue'[i]] \in Value
      BY <1>1, <1>3, <2>1 DEF Values
    <3>3. /\ [i \in 1 .. Len(queue) - 1 |-> item[queue'[i]]] \in Seq(Value)
          /\ Len([i \in 1 .. Len(queue) - 1 |-> item[queue'[i]]]) = Len(queue) - 1
      BY ONLY <3>2, ItemsOf
    <3> QED BY ONLY <3>1, <3>3
  <2>4. \A i \in 1 .. Len(queue) - 1 : Contents'[i] = Tail(Contents)[i]
    <3> SUFFICES ASSUME NEW i \in 1 .. Len(queue) - 1 PROVE Contents'[i] = Tail(Contents)[i]
      OBVIOUS
    <3>1. i + 1 \in 1 .. Len(queue)
      BY <1>3
    <3>2. Contents[i + 1] = item[queue[i + 1]]
      BY <3>1, ContentsLemma
    <3> QED BY <3>2, <2>1, <2>2, <2>3
  <2> QED BY <2>2, <2>3, <2>4, SeqEqual
<1> QED BY <1>1, <1>2, <1>3, <1>4, <1>5, <1>6 DEF ChannelFifo!Take

\* free and return are the end of the receive.
LEMMA FreeRefines ==
  ASSUME ChannelInv, NEW p \in Proc, Free(p)
  PROVE  ChannelFifo!Return(p)
<1> USE DEF ChannelInv, ChannelTypeOK
<1>1. /\ cpc[p] = "free" /\ cpc' = [cpc EXCEPT ![p] = "idle"]
      /\ reg' = [reg EXCEPT ![p] = NULL] /\ got' = [got EXCEPT ![p] = NULL]
      /\ UNCHANGED <<item, queue>>
  BY DEF Free, Goto, list
<1>2. got[p] # NULL
  BY <1>1, UnsentLemma DEF Taken
<1>3. Unsent' = Unsent /\ Contents' = Contents
  BY <1>1 DEF Unsent, Contents
<1> QED BY <1>1, <1>2, <1>3 DEF ChannelFifo!Return

\* Every step of a channel operation is a step of the queue, or invisible to its users.
LEMMA ChannelRefines ==
  ASSUME ChannelInv, NEW p \in Proc,
         ChannelStep(p) \/ RecvBegin(p) \/ \E v \in Value, n \in Node : SendBegin(p, v, n)
  PROVE  ChannelFifo!Next \/ UNCHANGED <<Unsent, Contents, got>>
<1>1. ChannelInv'
  BY ChannelInvStep
<1>2. ASSUME NEW v \in Value, NEW n \in Node, SendBegin(p, v, n) PROVE ChannelFifo!Next
  BY <1>1, <1>2, SendBeginRefines DEF ChannelFifo!Next
<1>3. ASSUME Link(p) \/ Take(p) \/ Free(p) PROVE ChannelFifo!Next
  BY <1>1, <1>3, LinkRefines, TakeRefines, FreeRefines DEF ChannelFifo!Next
<1> QED BY <1>2, <1>3, InvisibleSteps DEF ChannelStep
=============================================================================
