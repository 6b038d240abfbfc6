-------------------------------- MODULE Fifo --------------------------------
(***************************************************************************)
(* What a Vire channel promises: a sender's value enters a queue once, at  *)
(* some moment of the call, and a receiver's call takes the oldest one.    *)
(***************************************************************************)
EXTENDS Sequences

CONSTANTS Proc, Value, None

VARIABLES
  sending, (* thread -> the value its running send has not queued yet      *)
  q,       (* the values in the channel                                    *)
  received (* thread -> the value its running receive has taken            *)

Init == q = <<>> /\ sending = [p \in Proc |-> None] /\ received = [p \in Proc |-> None]

Send(p, v) ==
  /\ sending[p] = None /\ received[p] = None
  /\ sending' = [sending EXCEPT ![p] = v]
  /\ UNCHANGED <<q, received>>

Put(p) ==
  /\ sending[p] # None
  /\ q' = Append(q, sending[p])
  /\ sending' = [sending EXCEPT ![p] = None]
  /\ UNCHANGED received

Take(p) ==
  /\ q # <<>> /\ sending[p] = None /\ received[p] = None
  /\ received' = [received EXCEPT ![p] = Head(q)]
  /\ q' = Tail(q)
  /\ UNCHANGED sending

Return(p) ==
  /\ received[p] # None
  /\ received' = [received EXCEPT ![p] = None]
  /\ UNCHANGED <<q, sending>>

Next == \E p \in Proc : (\E v \in Value : Send(p, v)) \/ Put(p) \/ Take(p) \/ Return(p)

Spec == Init /\ [][Next]_<<sending, q, received>>
=============================================================================
