----------------------------- MODULE VirePoolInv -----------------------------
(***************************************************************************)
(* The inductive invariant of VirePool.  The list is intact because only   *)
(* the thread that holds the mutex touches it, and because the node of a   *)
(* send or of a receive is private: no other thread has it, and it is not  *)
(* in the list.  The map is complete because the threads are created and   *)
(* joined in the order of their indices.                                   *)
(***************************************************************************)
EXTENDS VirePool

Inside == {"link", "signal", "unlock", "check", "took"}  (* between lock and unlock *)
Sending == {"send", "link"}                              (* the node is built       *)
Taken == {"took", "free"}                                (* the node is cut off     *)

Exclusion == \A p \in Proc : cpc[p] \in Inside <=> holder = p

Sleepers == \A p \in Proc : cpc[p] = "wait" <=> p \in waiting

\* Threads that have a node of their own.
HasNode(p) == cpc[p] \in Sending \cup Taken

Private ==
  /\ \A p \in Proc : HasNode(p) => reg[p] \in nodes
  /\ \A p, q \in Proc : HasNode(p) /\ HasNode(q) /\ reg[p] = reg[q] => p = q
  /\ \A p \in Proc : HasNode(p) => \A i \in 1 .. Len(queue) : queue[i] # reg[p]
  /\ \A p \in Proc : cpc[p] \in Sending => item[reg[p]] \in Value /\ next[reg[p]] = NULL

\* A value is returned by the receive that took it, and by no other operation.
Values ==
  /\ \A p \in Proc : IF cpc[p] \in Taken THEN got[p] \in Value ELSE got[p] = NULL
  /\ \A i \in 1 .. Len(queue) : item[queue[i]] \in Value

ChannelInv ==
  /\ ChannelTypeOK /\ Exclusion /\ Sleepers /\ Private /\ Values
  /\ ListIsQueue /\ NoLostWakeup

\* The caller has created the workers 1 .. created and joined the workers 1 .. joined.
ForkJoin ==
  /\ joined <= created
  /\ mpc # "fork" => created = N
  /\ mpc = "returned" <=> ~args
  /\ mpc = "returned" => joined = N
  /\ \A i \in Index : task[i] = "none" <=> i > created
  /\ \A i \in Index : i <= joined => task[i] = "done"
  /\ \A i \in Index : task[i] = "done" => out[i] = i

\* Between jrt_mutex_lock and jrt_mutex_unlock a worker has the counter to itself.
Counting ==
  /\ \A i \in Index : upc[i] \in {"get", "set", "unlock"} <=> mutex = worker[i]
  /\ \A i \in Index : upc[i] = "set" => seen[i] = count
  /\ CountsAreExact

IInv == TypeOK /\ ChannelInv /\ ForkJoin /\ Counting
=============================================================================
