--------------------------- MODULE VirePoolProofs ---------------------------
(***************************************************************************)
(* The properties of VirePool for any number of workers, threads, nodes    *)
(* and values: IInv is inductive, and the properties follow from it.       *)
(***************************************************************************)
EXTENDS ChannelProofs

-----------------------------------------------------------------------------
(* Counting workers                                                         *)

\* A set of workers has at most N members.
LEMMA IndexCount ==
  ASSUME NEW S \in SUBSET Index
  PROVE  IsFiniteSet(S) /\ Cardinality(S) \in 0 .. N
<1>1. N \in Nat /\ IsFiniteSet(Index) /\ Cardinality(Index) = N
  BY PoolAssumption, FS_Interval DEF Index
<1>2. IsFiniteSet(S) /\ Cardinality(S) <= N
  BY <1>1, FS_Subset
<1> QED BY <1>1, <1>2, FS_CardinalityType

\* One more worker has passed a point.
LEMMA OneMoreWorker ==
  ASSUME NEW S \in SUBSET Index, NEW i \in Index, i \notin S
  PROVE  Cardinality(S \cup {i}) = Cardinality(S) + 1 /\ Cardinality(S) + 1 \in 0 .. N
<1>1. Cardinality(S \cup {i}) = Cardinality(S) + 1
  BY IndexCount, FS_AddElement
<1>2. S \cup {i} \in SUBSET Index
  OBVIOUS
<1> QED BY <1>1, <1>2, IndexCount

Counted == {i \in Index : upc[i] \in {"unlock", "add", "end"}}
Tallied == {i \in Index : upc[i] = "end"}

-----------------------------------------------------------------------------
(* Fork and join                                                            *)

\* The state of the channel and of the counters is not the caller's business.
LEMMA ForkJoinSteps ==
  ASSUME IInv, Create \/ JoinNext \/ FreeArgs \/ \E i \in Index : StartBody(i) \/ EndBody(i)
  PROVE  IInv'
<1> USE PoolAssumption DEF Index
<1>1. UNCHANGED <<chanvars, counters>>
  BY DEF Create, JoinNext, FreeArgs, StartBody, EndBody
<1>2. ChannelInv'
  BY <1>1, ChannelStutter DEF IInv
<1>3. Counting'
  BY <1>1 DEF IInv, Counting, CountsAreExact, counters
<1>4. TypeOK' /\ ForkJoin'
  <2> USE <1>1 DEF IInv, TypeOK, ForkJoin, counters
  <2>0. ChannelTypeOK'
    BY <1>2 DEF ChannelInv
  <2>1. ASSUME Create PROVE TypeOK' /\ ForkJoin'
    BY <2>0, <2>1 DEF Create
  <2>2. ASSUME JoinNext PROVE TypeOK' /\ ForkJoin'
    BY <2>0, <2>2 DEF JoinNext
  <2>3. ASSUME FreeArgs PROVE TypeOK' /\ ForkJoin'
    BY <2>0, <2>3 DEF FreeArgs
  <2>4. ASSUME NEW i \in Index, StartBody(i) PROVE TypeOK' /\ ForkJoin'
    BY <2>0, <2>4 DEF StartBody
  <2>5. ASSUME NEW i \in Index, EndBody(i) PROVE TypeOK' /\ ForkJoin'
    BY <2>0, <2>5 DEF EndBody
  <2> QED BY <2>1, <2>2, <2>3, <2>4, <2>5
<1> QED BY <1>2, <1>3, <1>4 DEF IInv

-----------------------------------------------------------------------------
(* The Mutex and the Atomic                                                 *)

\* The workers' counting is not the business of the channel, of the caller or of the map.
LEMMA CountingSteps ==
  ASSUME IInv, NEW i \in Index,
         MutexLock(i) \/ MutexGet(i) \/ MutexSet(i) \/ MutexUnlock(i) \/ AtomicAdd(i)
  PROVE  IInv'
<1> USE PoolAssumption, ChannelAssumption DEF Index
<1>1. UNCHANGED <<chanvars, pool>>
  BY DEF MutexLock, MutexGet, MutexSet, MutexUnlock, AtomicAdd
<1>2. ChannelInv' /\ ForkJoin'
  BY <1>1, ChannelStutter DEF IInv, ForkJoin, pool
<1>3. \A j \in Index : worker[j] \in Proc /\ worker[j] # NULL
  OBVIOUS
<1>4. count = Cardinality(Counted) /\ tally = Cardinality(Tallied)
  BY DEF IInv, Counting, CountsAreExact, Counted, Tallied
<1>5. ASSUME MutexLock(i) \/ MutexGet(i) \/ MutexUnlock(i) PROVE TypeOK' /\ Counting'
  <2>1. Counted' = Counted /\ Tallied' = Tallied /\ UNCHANGED <<count, tally>>
    BY <1>5 DEF MutexLock, MutexGet, MutexUnlock, Counted, Tallied, IInv, TypeOK
  <2>2. CountsAreExact'
    BY <1>4, <2>1 DEF CountsAreExact, Counted, Tallied
  <2>3. TypeOK'
    <3>1. /\ mutex' \in Proc \cup {NULL}
          /\ upc' \in [Index -> {"lock", "get", "set", "unlock", "add", "end"}]
          /\ seen' \in [Index -> 0 .. N]
      <4>1. CASE MutexLock(i)
        BY <1>3, <4>1 DEF MutexLock, IInv, TypeOK
      <4>2. CASE MutexGet(i)
        BY <4>2 DEF MutexGet, IInv, TypeOK
      <4>3. CASE MutexUnlock(i)
        BY <4>3 DEF MutexUnlock, IInv, TypeOK
      <4> QED BY <1>5, <4>1, <4>2, <4>3
    <3> QED BY <1>1, <1>2, <2>1, <3>1 DEF IInv, TypeOK, ChannelInv, pool
  <2>4. Counting'
    <3>1. CASE MutexLock(i)
      BY <1>3, <2>2, <3>1 DEF MutexLock, IInv, TypeOK, Counting
    <3>2. CASE MutexGet(i)
      BY <2>2, <3>2 DEF MutexGet, IInv, TypeOK, Counting
    <3>3. CASE MutexUnlock(i)
      BY <1>3, <2>2, <3>3 DEF MutexUnlock, IInv, TypeOK, Counting
    <3> QED BY <1>5, <3>1, <3>2, <3>3
  <2> QED BY <2>3, <2>4
<1>6. ASSUME MutexSet(i) PROVE TypeOK' /\ Counting'
  <2>1. i \notin Counted /\ Counted' = Counted \cup {i} /\ Tallied' = Tallied
    BY <1>6 DEF MutexSet, Counted, Tallied, IInv, TypeOK
  <2>2. count' = count + 1 /\ tally' = tally
    BY <1>6 DEF MutexSet, IInv, Counting
  <2>3. Counted \in SUBSET Index
    BY DEF Counted
  <2>4. count + 1 = Cardinality(Counted') /\ count + 1 \in 0 .. N
    BY <1>4, <2>1, <2>3, OneMoreWorker
  <2>5. CountsAreExact'
    BY <1>4, <2>1, <2>2, <2>4 DEF CountsAreExact, Counted, Tallied
  <2>6. TypeOK'
    BY <1>1, <1>2, <1>6, <2>2, <2>4 DEF MutexSet, IInv, TypeOK, ChannelInv, pool
  <2>7. Counting'
    BY <1>6, <2>5 DEF MutexSet, IInv, TypeOK, Counting
  <2> QED BY <2>6, <2>7
<1>7. ASSUME AtomicAdd(i) PROVE TypeOK' /\ Counting'
  <2>1. i \notin Tallied /\ Tallied' = Tallied \cup {i} /\ Counted' = Counted
    BY <1>7 DEF AtomicAdd, Counted, Tallied, IInv, TypeOK
  <2>2. tally' = tally + 1 /\ count' = count
    BY <1>7 DEF AtomicAdd
  <2>3. Tallied \in SUBSET Index
    BY DEF Tallied
  <2>4. tally + 1 = Cardinality(Tallied') /\ tally + 1 \in 0 .. N
    BY <1>4, <2>1, <2>3, OneMoreWorker
  <2>5. CountsAreExact'
    BY <1>4, <2>1, <2>2, <2>4 DEF CountsAreExact, Counted, Tallied
  <2>6. TypeOK'
    BY <1>1, <1>2, <1>7, <2>2, <2>4 DEF AtomicAdd, IInv, TypeOK, ChannelInv, pool
  <2>7. Counting'
    BY <1>7, <2>5 DEF AtomicAdd, IInv, TypeOK, Counting
  <2> QED BY <2>6, <2>7
<1> QED BY <1>2, <1>5, <1>6, <1>7 DEF IInv

-----------------------------------------------------------------------------
(* The invariant                                                            *)

LEMMA InitIInv == InitPool => IInv
<1> SUFFICES ASSUME InitPool PROVE IInv
  OBVIOUS
<1> USE PoolAssumption, ChannelAssumption DEF InitPool, Index
<1>1. ChannelInv
  BY ChannelInit
<1>2. Counted = {} /\ Tallied = {}
  BY DEF Counted, Tallied
<1>3. Counting
  <2>1. CountsAreExact
    BY <1>2, FS_EmptySet DEF CountsAreExact, Counted, Tallied
  <2> QED BY <2>1 DEF Counting
<1>4. args \in BOOLEAN /\ (args <=> N # 0)
  BY Zenon
<1>5. TypeOK
  BY <1>1, <1>4 DEF TypeOK, ChannelInv
<1>6. ForkJoin
  BY <1>4 DEF ForkJoin
<1> QED BY <1>1, <1>3, <1>5, <1>6 DEF IInv

LEMMA NextIInv == IInv /\ [NextPool]_poolvars => IInv'
<1> SUFFICES ASSUME IInv, [NextPool]_poolvars PROVE IInv'
  OBVIOUS
<1>1. ASSUME NEW p \in Proc,
             ChannelStep(p) \/ RecvBegin(p) \/ \E v \in Value, n \in Node : SendBegin(p, v, n),
             UNCHANGED <<pool, counters>>
      PROVE  IInv'
  <2>1. ChannelInv'
    BY <1>1, ChannelInvStep DEF IInv
  <2>2. TypeOK' /\ ForkJoin' /\ Counting'
    BY <1>1, <2>1 DEF IInv, TypeOK, ForkJoin, Counting, CountsAreExact, ChannelInv, pool, counters
  <2> QED BY <2>1, <2>2 DEF IInv
<1>2. CASE UNCHANGED poolvars
  <2>1. ChannelInv'
    BY <1>2, ChannelStutter DEF IInv, poolvars
  <2>2. TypeOK' /\ ForkJoin' /\ Counting'
    BY <1>2, <2>1 DEF IInv, TypeOK, ForkJoin, Counting, CountsAreExact, ChannelInv, poolvars, pool,
                      counters
  <2> QED BY <2>1, <2>2 DEF IInv
<1>3. CASE NextPool
  BY <1>1, <1>3, ForkJoinSteps, CountingSteps DEF NextPool
<1> QED BY <1>2, <1>3

\* The inductive invariant: who may touch the list, whose nodes are private, which wakeups
\* are still to come, how far fork and join are, and who owns the counter.
THEOREM PoolInvariance == SpecPool => []IInv
BY InitIInv, NextIInv, PTL DEF SpecPool

\* The types of the variables of the channel and the pool; no counter exceeds N.
THEOREM PoolTypeCorrect == SpecPool => []TypeOK
<1>1. IInv => TypeOK
  BY DEF IInv
<1> QED BY <1>1, PoolInvariance, PTL

\* jrt_chan_send and jrt_chan_recv keep the list intact: head, tail and next describe
\* exactly the linked nodes, none of which has been freed or will be by a receiver.
THEOREM ListIntact == SpecPool => []ListIsQueue
<1>1. IInv => ListIsQueue
  BY DEF IInv, ChannelInv
<1> QED BY <1>1, PoolInvariance, PTL

\* No wakeup of jrt_chan_recv is lost: a receiver only sleeps while every value in the
\* channel has another taker, or a sender that is about to signal.
THEOREM WakeupsSuffice == SpecPool => []NoLostWakeup
<1>1. IInv => NoLostWakeup
  BY DEF IInv, ChannelInv
<1> QED BY <1>1, PoolInvariance, PTL

\* jrt_parallel_map returns a complete result, and frees the argument records only when
\* no worker can read them any more.
THEOREM ParallelMapComplete == SpecPool => []MapIsComplete
<1>1. IInv => MapIsComplete
  BY PoolAssumption DEF IInv, ForkJoin, MapIsComplete, TypeOK, Index
<1> QED BY <1>1, PoolInvariance, PTL

\* No increment is lost, neither under the Mutex nor with jrt_atomic_add.
THEOREM ExactCounts == SpecPool => []CountsAreExact
<1>1. IInv => CountsAreExact
  BY DEF IInv, Counting
<1> QED BY <1>1, PoolInvariance, PTL

\* The channel is a first-in first-out queue: linking a node is the moment of its send,
\* cutting it off the moment of its receive, and every other step is invisible.
THEOREM ChannelIsFifo == SpecPool => ImplementsFifo
<1>1. InitPool => ChannelFifo!Init
  BY DEF InitPool, InitChannel, ChannelFifo!Init, Unsent, Contents
<1>2. IInv /\ [NextPool]_poolvars => [ChannelFifo!Next]_<<Unsent, Contents, got>>
  <2> SUFFICES ASSUME IInv, [NextPool]_poolvars
               PROVE  ChannelFifo!Next \/ UNCHANGED <<Unsent, Contents, got>>
    OBVIOUS
  <2>1. CASE UNCHANGED chanvars
    BY <2>1 DEF chanvars, registers, list, Unsent, Contents
  <2>2. ASSUME NEW p \in Proc,
               ChannelStep(p) \/ RecvBegin(p) \/ \E v \in Value, n \in Node : SendBegin(p, v, n)
        PROVE  ChannelFifo!Next \/ UNCHANGED <<Unsent, Contents, got>>
    BY <2>2, ChannelRefines DEF IInv
  <2>3. ~ UNCHANGED chanvars =>
          \E p \in Proc : ChannelStep(p) \/ RecvBegin(p)
                            \/ \E v \in Value, n \in Node : SendBegin(p, v, n)
    BY DEF NextPool, poolvars, Create, JoinNext, FreeArgs, StartBody, EndBody, MutexLock,
           MutexGet, MutexSet, MutexUnlock, AtomicAdd
  <2> QED BY <2>1, <2>2, <2>3
<1> QED BY <1>1, <1>2, PoolInvariance, PTL DEF SpecPool, ImplementsFifo, ChannelFifo!Spec
=============================================================================
