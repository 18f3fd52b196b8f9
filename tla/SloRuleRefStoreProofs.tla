----------------------- MODULE SloRuleRefStoreProofs ------------------------
(***************************************************************************)
(* Proofs about SloRuleRefStore, for any number of callers, retries and    *)
(* calls.                                                                  *)
(*                                                                         *)
(* What makes the compare-and-set loops an atomic counter is that a        *)
(* version is never reused: a saved object with the version a caller read  *)
(* is the object it read (SeenCurrent).  What bounds the conflicts is that *)
(* each failed attempt saw a sequence number of its own (Contended).       *)
(***************************************************************************)
EXTENDS SloRuleRefStore, TLAPS

\* A caller with nothing in flight starts its next call from scratch.
QuietIsFresh ==
  \A c \in Callers : status[c] \notin Operations => pc[c] = "get" /\ attempt[c] = 1

\* A decrement that writes has read something to decrement.
DecrementsSomething ==
  \A c \in Callers : Asking(c, "put") /\ status[c] = "decr" => seen[c] # NoRef /\ seen[c].refcount > 0

\* Versions come from the sequence number, so none is ever used twice.
SeenCurrent ==
  /\ so # NoRef => so.version <= seqNo
  /\ \A c \in Callers : seen[c] # NoRef =>
       /\ seen[c].version <= seqNo
       /\ so # NoRef /\ so.version = seen[c].version => so = seen[c]

\* Each attempt that is over saw at least one write land.
Contended ==
  \A c \in Callers :
    /\ status[c] \in Operations => seqNo + 1 >= since[c] + attempt[c]
    /\ Asking(c, "put") => /\ seenAt[c] + 1 >= since[c] + attempt[c]
                           /\ seqNo >= seenAt[c]
                           /\ seqNo = seenAt[c] => so = seen[c]

IInv ==
  /\ TypeOK
  /\ QuietIsFresh
  /\ DecrementsSomething
  /\ SeenCurrent
  /\ Contended
  /\ MarkedWhenZero
  /\ ConflictMeansContention

-----------------------------------------------------------------------------
(* The invariant holds initially.                                          *)
LEMMA InitIInv == Init => IInv
BY RefStoreAssumption
   DEF Init, IInv, TypeOK, QuietIsFresh, DecrementsSomething, SeenCurrent, Contended,
       MarkedWhenZero, ConflictMeansContention, Operations, Answers, Asking

(* A write that passes the version check is made to what the caller read,  *)
(* and leaves a reference that is marked when it counts nothing.           *)
LEMMA WriteIsCurrent ==
  ASSUME IInv, NEW c \in Callers, Asking(c, "put"), Current(c), Write(c)
  PROVE  /\ Count = Prior(c)
         /\ Count \in Nat
         /\ status[c] = "decr" => Count > 0
         /\ NextCount(c) \in Nat
         /\ so'.refcount = NextCount(c) /\ so'.version = seqNo + 1
         /\ NextCount(c) = 0 => so'.zeroSince
         /\ so' \in Refs
         /\ so' # NoRef
         /\ Count' = NextCount(c)
<1>1. seen[c] \in Refs \cup {NoRef} /\ so \in Refs \cup {NoRef} /\ seqNo \in Nat
  BY DEF IInv, TypeOK
<1>2. so = seen[c]
  BY DEF IInv, SeenCurrent, Current
<1>3. Count = Prior(c) /\ Count \in Nat
  BY <1>1, <1>2 DEF Count, Prior, Refs
<1>4. status[c] = "decr" => Count > 0
  BY <1>2, <1>3 DEF IInv, DecrementsSomething, Prior
<1>5. NextCount(c) \in Nat
  BY <1>3, <1>4 DEF IInv, TypeOK, NextCount, Asking, Operations
<1>6. PICK marked \in BOOLEAN :
        /\ NextCount(c) = 0 => marked
        /\ so' = [refcount |-> NextCount(c), zeroSince |-> marked, version |-> seqNo + 1]
  BY DEF Write
<1>7. so' \in Refs
  BY <1>1, <1>5, <1>6 DEF Refs
<1>8. so' # NoRef
  BY <1>7, RefStoreAssumption
<1>9. Count' = NextCount(c)
  BY <1>6, <1>8 DEF Count
<1> QED BY <1>3, <1>4, <1>5, <1>6, <1>7, <1>8, <1>9
-----------------------------------------------------------------------------
(* The inductive step, one lemma per action that writes or settles.        *)

(* A write that is applied keeps the invariant.                            *)
LEMMA WriteIInv ==
  ASSUME IInv, NEW c \in Callers, Asking(c, "put"), Current(c), Write(c),
         NEW a \in Answers \ {"conflict"}, Settle(c, a), UNCHANGED <<calls, since>>
  PROVE  IInv'
<1> USE DEF IInv
<1>1. /\ NextCount(c) \in Nat
      /\ so'.refcount = NextCount(c) /\ so'.version = seqNo + 1
      /\ NextCount(c) = 0 => so'.zeroSince
      /\ so' \in Refs /\ so' # NoRef /\ seqNo' = seqNo + 1
  BY WriteIsCurrent DEF Write
<1>2. TypeOK'
  BY <1>1, RefStoreAssumption DEF TypeOK, Settle
<1>3. QuietIsFresh' /\ DecrementsSomething'
  BY DEF TypeOK, QuietIsFresh, DecrementsSomething, Settle, Asking, Operations, Answers
<1>4. SeenCurrent'
  <2>1. so'.version = seqNo'
    BY <1>1
  <2>2. ASSUME NEW d \in Callers, seen'[d] # NoRef
        PROVE  /\ seen'[d].version <= seqNo'
               /\ so' # NoRef /\ so'.version = seen'[d].version => so' = seen'[d]
    <3>1. d # c /\ seen'[d] = seen[d] /\ seen[d] \in Refs
      BY <2>2 DEF TypeOK, Settle
    <3>2. seen[d].version <= seqNo /\ seen[d].version \in Nat /\ seqNo \in Nat
      BY <2>2, <3>1 DEF SeenCurrent, Refs, TypeOK
    <3> QED BY <1>1, <2>1, <3>1, <3>2
  <2> QED BY <1>1, <2>1, <2>2 DEF SeenCurrent, TypeOK
<1>5. Contended'
  BY <1>1 DEF TypeOK, Contended, Settle, Asking, Operations, Answers
<1>6. MarkedWhenZero'
  BY <1>1 DEF MarkedWhenZero
<1>7. ConflictMeansContention'
  <2> SUFFICES ASSUME NEW d \in Callers, status'[d] = "conflict"
               PROVE  seqNo' >= since'[d] + MaxRetries
    BY DEF ConflictMeansContention
  <2>1. d # c /\ status[d] = "conflict"
    BY DEF TypeOK, Settle
  <2>2. since'[d] = since[d] /\ since[d] \in Nat /\ seqNo \in Nat /\ MaxRetries \in Nat
    BY RefStoreAssumption DEF TypeOK
  <2> QED BY <1>1, <2>1, <2>2 DEF ConflictMeansContention
<1> QED BY <1>2, <1>3, <1>4, <1>5, <1>6, <1>7

(* An answer without a write keeps the invariant.                          *)
LEMMA SettleIInv ==
  ASSUME IInv, NEW c \in Callers, status[c] \in Operations,
         NEW a \in Answers, Settle(c, a), UNCHANGED <<so, seqNo, calls, since>>,
         a = "conflict" => seqNo >= since[c] + MaxRetries
  PROVE  IInv'
<1> USE DEF IInv
<1>1. TypeOK'
  BY RefStoreAssumption DEF TypeOK, Settle
<1>2. QuietIsFresh' /\ DecrementsSomething'
  BY DEF TypeOK, QuietIsFresh, DecrementsSomething, Settle, Asking, Operations, Answers
<1>3. SeenCurrent'
  BY DEF TypeOK, SeenCurrent, Settle
<1>4. Contended'
  BY DEF TypeOK, Contended, Settle, Asking, Operations, Answers
<1>5. MarkedWhenZero'
  BY DEF MarkedWhenZero
<1>6. ConflictMeansContention'
  BY DEF TypeOK, ConflictMeansContention, Settle
<1> QED BY <1>1, <1>2, <1>3, <1>4, <1>5, <1>6

(* Every step keeps the invariant.                                         *)
LEMMA StepIInv == IInv /\ [Next]_vars => IInv'
<1> SUFFICES ASSUME IInv, [Next]_vars PROVE IInv'
  OBVIOUS
<1> USE DEF IInv
<1>1. ASSUME NEW c \in Callers, NEW op \in Operations, Ask(c, op) PROVE IInv'
  <2> USE <1>1 DEF Ask, callVars
  <2>1. TypeOK'
    BY DEF TypeOK
  <2>2. QuietIsFresh' /\ DecrementsSomething'
    BY DEF TypeOK, QuietIsFresh, DecrementsSomething, Asking, Operations
  <2>3. SeenCurrent' /\ MarkedWhenZero'
    BY DEF SeenCurrent, MarkedWhenZero
  <2>4. Contended'
    BY DEF TypeOK, Contended, QuietIsFresh, Asking, Operations
  <2>5. ConflictMeansContention'
    BY DEF TypeOK, ConflictMeansContention, Operations
  <2> QED BY <2>1, <2>2, <2>3, <2>4, <2>5
<1>2. ASSUME NEW c \in Callers, Get(c) PROVE IInv'
  <2> USE <1>2 DEF Get, Asking
  <2>1. TypeOK'
    BY DEF TypeOK
  <2>2. QuietIsFresh' /\ MarkedWhenZero' /\ ConflictMeansContention'
    BY DEF TypeOK, QuietIsFresh, MarkedWhenZero, ConflictMeansContention
  <2>3. DecrementsSomething'
    BY DEF TypeOK, DecrementsSomething, Count
  <2>4. SeenCurrent'
    BY DEF TypeOK, SeenCurrent, Refs
  <2>5. Contended'
    BY DEF TypeOK, Contended
  <2> QED BY <2>1, <2>2, <2>3, <2>4, <2>5
<1>3. ASSUME NEW c \in Callers, GetUnderflow(c) PROVE IInv'
  BY <1>3, SettleIInv DEF GetUnderflow, Answers, Asking
<1>4. ASSUME NEW c \in Callers, Put(c) PROVE IInv'
  <2>1. AnswerOf(c) \in Answers \ {"conflict"}
    BY DEF AnswerOf, Answers
  <2> QED BY <1>4, <2>1, WriteIInv DEF Put
<1>5. ASSUME NEW c \in Callers, PutConflicts(c) PROVE IInv'
  <2> USE <1>5 DEF PutConflicts, Asking
  <2>1. TypeOK'
    <3>1. attempt[c] + 1 \in 1..MaxRetries
      BY RefStoreAssumption DEF TypeOK
    <3> QED BY <3>1 DEF TypeOK
  <2>2. QuietIsFresh' /\ DecrementsSomething' /\ MarkedWhenZero'
    BY DEF TypeOK, QuietIsFresh, DecrementsSomething, MarkedWhenZero
  <2>3. SeenCurrent' /\ ConflictMeansContention'
    BY DEF SeenCurrent, ConflictMeansContention
  <2>4. so # seen[c]
    BY DEF Current
  <2>5. Contended'
    BY <2>4 DEF TypeOK, Contended
  <2> QED BY <2>1, <2>2, <2>3, <2>5
<1>6. ASSUME NEW c \in Callers, GivesUp(c) PROVE IInv'
  <2> USE <1>6 DEF GivesUp
  <2>1. so # seen[c]
    BY DEF Current
  <2>2. seqNo >= since[c] + MaxRetries
    BY <2>1, RefStoreAssumption DEF TypeOK, Contended, Asking
  <2> QED BY <2>2, SettleIInv DEF Answers, Asking
<1>7. ASSUME NEW c \in Callers, Vanished(c) PROVE IInv'
  BY <1>7, SettleIInv DEF Vanished, Answers, Asking
<1>8. ASSUME NEW c \in Callers, GetThrows(c) PROVE IInv'
  BY <1>8, SettleIInv DEF GetThrows, Answers, Asking
<1>9. ASSUME NEW c \in Callers, PutThrows(c) PROVE IInv'
  <2>1. CASE Current(c) /\ Write(c)
    BY <1>9, <2>1, WriteIInv DEF PutThrows, Answers
  <2>2. CASE UNCHANGED <<so, seqNo>>
    BY <1>9, <2>2, SettleIInv DEF PutThrows, Answers, Asking
  <2> QED BY <1>9, <2>1, <2>2 DEF PutThrows
<1>10. ASSUME NEW c \in Callers, Return(c) PROVE IInv'
  <2> USE <1>10 DEF Return, callVars
  <2>1. TypeOK'
    BY DEF TypeOK
  <2>2. QuietIsFresh' /\ DecrementsSomething'
    BY DEF TypeOK, QuietIsFresh, DecrementsSomething, Asking, Operations, Answers
  <2>3. SeenCurrent' /\ MarkedWhenZero'
    BY DEF SeenCurrent, MarkedWhenZero
  <2>4. Contended' /\ ConflictMeansContention'
    BY DEF TypeOK, Contended, ConflictMeansContention, Asking, Operations
  <2> QED BY <2>1, <2>2, <2>3, <2>4
<1>11. ASSUME ForgetRef PROVE IInv'
  <2> USE <1>11 DEF ForgetRef, callVars
  <2>1. TypeOK'
    BY DEF TypeOK
  <2>2. QuietIsFresh' /\ DecrementsSomething' /\ MarkedWhenZero'
    BY DEF QuietIsFresh, DecrementsSomething, MarkedWhenZero, Asking
  <2>3. SeenCurrent'
    BY DEF TypeOK, SeenCurrent, Refs
  <2>4. Contended' /\ ConflictMeansContention'
    BY RefStoreAssumption DEF TypeOK, Contended, ConflictMeansContention, Asking
  <2> QED BY <2>1, <2>2, <2>3, <2>4
<1>12. CASE UNCHANGED vars
  BY <1>12 DEF vars, TypeOK, QuietIsFresh, DecrementsSomething, SeenCurrent, Contended,
               MarkedWhenZero, ConflictMeansContention, Asking
<1> QED BY <1>1, <1>2, <1>3, <1>4, <1>5, <1>6, <1>7, <1>8, <1>9, <1>10, <1>11, <1>12
        DEF Next, Proceeds

(* The inductive invariant holds throughout.                               *)
LEMMA SpecIInv == Spec => []IInv
BY InitIInv, StepIInv, PTL DEF Spec

(* Every variable of the registry keeps its type: no count goes below zero *)
(* and no call starts an attempt past MAX_RETRIES, whoever calls.          *)
THEOREM TypeCorrect == Spec => []TypeOK
BY SpecIInv, PTL DEF IInv

(* zeroSinceAt is set whenever a reference counts nothing, so the sweep    *)
(* can find it.                                                            *)
THEOREM MarkersCorrect == Spec => []MarkedWhenZero
BY SpecIInv, PTL DEF IInv

(* A call answers SloRuleRefConflictError only after MAX_RETRIES writes of *)
(* others landed during it.                                                *)
THEOREM ConflictsAreReal == Spec => []ConflictMeansContention
BY SpecIInv, PTL DEF IInv

-----------------------------------------------------------------------------
(* The refinement.                                                         *)

(* The initial state is an initial state of the atomic counter.            *)
LEMMA InitRefines == Init => Atomic!Init
BY DEF Init, Atomic!Init, Count

\* Settling without a write answers and leaves the count alone.
LEMMA SettleRefines ==
  ASSUME IInv, NEW c \in Callers, NEW a \in Answers, Settle(c, a), UNCHANGED so
  PROVE  Atomic!Answer(c, a) /\ UNCHANGED Count
BY DEF Settle, Atomic!Answer, Count

(* Every step is a step of the atomic counter, or a stutter.               *)
LEMMA StepRefines == IInv /\ [Next]_vars => [Atomic!Next]_<<Count, status>>
<1> SUFFICES ASSUME IInv, [Next]_vars
             PROVE  Atomic!Next \/ UNCHANGED <<Count, status>>
  OBVIOUS
<1> USE DEF Atomic!Operations, Atomic!Answers, Atomic!Answer
<1>1. ASSUME NEW c \in Callers, NEW op \in Operations, Ask(c, op) PROVE Atomic!Ask(c, op)
  BY <1>1 DEF Ask, Atomic!Ask, Count
<1>2. ASSUME NEW c \in Callers, Get(c) PROVE UNCHANGED <<Count, status>>
  BY <1>2 DEF Get, Count
<1>3. ASSUME NEW c \in Callers, GetUnderflow(c) PROVE Atomic!Underflow(c)
  BY <1>3, SettleRefines DEF GetUnderflow, Answers, Atomic!Underflow
<1>4. ASSUME NEW c \in Callers, Put(c) PROVE Atomic!Increment(c) \/ Atomic!Decrement(c)
  <2>1. Asking(c, "put") /\ Current(c) /\ Write(c) /\ status' = [status EXCEPT ![c] = AnswerOf(c)]
    BY <1>4 DEF Put, Settle
  <2>2. Count = Prior(c) /\ Count \in Nat /\ Count' = NextCount(c)
    BY <2>1, WriteIsCurrent
  <2>3. CASE status[c] = "incr"
    BY <2>1, <2>2, <2>3 DEF AnswerOf, NextCount, Atomic!Increment
  <2>4. CASE status[c] = "decr"
    <3>1. Count > 0
      BY <2>1, <2>4, WriteIsCurrent
    <3>2. NextCount(c) = Count - 1 /\ AnswerOf(c) = IF Count = 1 THEN "droppedToZero" ELSE "stillLive"
      BY <2>2, <2>4 DEF AnswerOf, NextCount
    <3> QED BY <2>1, <2>2, <2>4, <3>1, <3>2 DEF Atomic!Decrement
  <2> QED BY <2>1, <2>3, <2>4 DEF Asking, Operations
<1>5. ASSUME NEW c \in Callers, PutConflicts(c) PROVE UNCHANGED <<Count, status>>
  BY <1>5 DEF PutConflicts, Count
<1>6. ASSUME NEW c \in Callers, GivesUp(c) PROVE Atomic!Conflict(c)
  BY <1>6, SettleRefines DEF GivesUp, Asking, Operations, Answers, Atomic!Conflict
<1>7. ASSUME NEW c \in Callers, Vanished(c) PROVE Atomic!Throw(c)
  BY <1>7, SettleRefines DEF Vanished, Asking, Operations, Answers, Atomic!Throw
<1>8. ASSUME NEW c \in Callers, GetThrows(c) PROVE Atomic!Throw(c)
  BY <1>8, SettleRefines DEF GetThrows, Asking, Operations, Answers, Atomic!Throw
<1>9. ASSUME NEW c \in Callers, PutThrows(c) PROVE Atomic!Throw(c)
  <2>1. Asking(c, "put") /\ Settle(c, "threw")
    BY <1>9 DEF PutThrows
  <2>2. CASE Current(c) /\ Write(c)
    <3>1. Count = Prior(c) /\ Count' = NextCount(c) /\ (status[c] = "decr" => Count > 0)
      BY <2>1, <2>2, WriteIsCurrent
    <3> QED BY <2>1, <3>1 DEF NextCount, Settle, Asking, Operations, Atomic!Throw
  <2>3. CASE UNCHANGED <<so, seqNo>>
    BY <2>1, <2>3, SettleRefines DEF Asking, Operations, Answers, Atomic!Throw
  <2> QED BY <1>9, <2>2, <2>3 DEF PutThrows
<1>10. ASSUME NEW c \in Callers, Return(c) PROVE Atomic!Return(c)
  BY <1>10 DEF Return, Count, Answers, Atomic!Return
<1>11. ASSUME ForgetRef PROVE Atomic!Forget
  BY <1>11 DEF ForgetRef, Count, callVars, Atomic!Forget
<1>12. CASE UNCHANGED vars
  BY <1>12 DEF vars, Count
<1> QED BY <1>1, <1>2, <1>3, <1>4, <1>5, <1>6, <1>7, <1>8, <1>9, <1>10, <1>11, <1>12
        DEF Next, Proceeds, Operations, Atomic!Next

(* incrementRef and decrementRef are one atomic counter: no interleaving   *)
(* of callers, of the reconciler's deletes and of failed or half-failed    *)
(* calls loses an update, applies one twice, or answers wasZero or         *)
(* droppedToZero falsely.                                                  *)
THEOREM StoreIsAtomic == Spec => RefinesAtomic
<1>1. Init => Atomic!Init
  BY InitRefines
<1>2. IInv /\ [Next]_vars => [Atomic!Next]_<<Count, status>>
  BY StepRefines
<1> QED BY <1>1, <1>2, SpecIInv, PTL DEF Spec, RefinesAtomic, Atomic!Spec
=============================================================================
