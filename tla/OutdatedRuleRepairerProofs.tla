--------------------- MODULE OutdatedRuleRepairerProofs ---------------------
(***************************************************************************)
(* Proofs about OutdatedRuleRepairer, for any keys, limits and clock.      *)
(*                                                                         *)
(* Every change of the queue goes through the drain loop, so the heart of  *)
(* the argument is one lemma about it (DrainKeepsOrder): started from a    *)
(* queue without duplicates, and from no more than one job too many, it    *)
(* ends within both limits with no job waiting at a free slot.             *)
(***************************************************************************)
EXTENDS OutdatedRuleRepairer, FiniteSetTheorems, SequenceTheorems, TLAPS

KeysOf(q)   == {q[i].key : i \in 1..Len(q)}
Distinct(q) == \A i, j \in 1..Len(q) : q[i].key = q[j].key => i = j

-----------------------------------------------------------------------------
(* The keys that the first jobs of a queue run, one job at a time.         *)

(* The keys of the first n queued jobs are finitely many, each of a queued *)
(* job.                                                                    *)
LEMMA RunKeysFinite ==
  ASSUME NEW q \in Seq(Jobs), NEW n \in 0..Len(q)
  PROVE  IsFiniteSet(RunKeys(q, n)) /\ RunKeys(q, n) \subseteq KeysOf(q)
<1> DEFINE D == {j \in 1..n : ~Expired(q[j])}
           f == [i \in D |-> q[i].key]
<1>1. IsFiniteSet(D)
  <2>1. IsFiniteSet(1..n)
    BY FS_Interval
  <2> QED BY <2>1, FS_Subset
<1>2. f \in Surjection(D, RunKeys(q, n))
  BY DEF Surjection, RunKeys
<1>3. IsFiniteSet(RunKeys(q, n))
  BY <1>1, <1>2, FS_Surjection
<1>4. RunKeys(q, n) \subseteq KeysOf(q)
  BY DEF RunKeys, KeysOf
<1> QED BY <1>3, <1>4

(* A drain that starts jobs only while a slot is free stays within the     *)
(* limit.                                                                  *)
LEMMA RunKeysGrow ==
  ASSUME NEW q \in Seq(Jobs), NEW n \in 1..Len(q), NEW fl, IsFiniteSet(fl),
         SlotFree(q, fl, n - 1)
  PROVE  Cardinality(fl \cup RunKeys(q, n)) <= MaxInFlight
<1> DEFINE A == fl \cup RunKeys(q, n - 1)
           B == A \cup {q[n].key}
           C == fl \cup RunKeys(q, n)
<1>1. IsFiniteSet(A) /\ Cardinality(A) \in Nat
  <2>1. IsFiniteSet(RunKeys(q, n - 1))
    BY RunKeysFinite
  <2> QED BY <2>1, FS_Union, FS_CardinalityType
<1>2. Cardinality(A) < MaxInFlight
  BY DEF SlotFree
<1>3. IsFiniteSet(B) /\ Cardinality(B) <= Cardinality(A) + 1
  <2> HIDE DEF A
  <2>1. /\ IsFiniteSet(A \cup {q[n].key})
        /\ Cardinality(A \cup {q[n].key})
             = IF q[n].key \in A THEN Cardinality(A) ELSE Cardinality(A) + 1
    BY <1>1, FS_AddElement
  <2> QED BY <1>1, <2>1
<1>4. C \subseteq B
  BY DEF RunKeys
<1>5. IsFiniteSet(C) /\ Cardinality(C) <= Cardinality(B)
  BY <1>3, <1>4, FS_Subset
<1>6. Cardinality(C) \in Nat /\ Cardinality(B) \in Nat
  BY <1>3, <1>5, FS_CardinalityType
<1> QED BY <1>1, <1>2, <1>3, <1>5, <1>6, RepairerAssumption

-----------------------------------------------------------------------------
(* The state that the drain loop is entered in: at most one job too many,  *)
(* and that one only while a slot is free.                                 *)
MayDrain(q, qk, fl, at) ==
  /\ q \in Seq(Jobs) /\ Distinct(q)
  /\ qk = KeysOf(q)
  /\ fl \subseteq Keys /\ IsFiniteSet(fl) /\ fl \cap qk = {}
  /\ Cardinality(fl) <= MaxInFlight
  /\ Len(q) <= MaxQueued + 1
  /\ Len(q) <= MaxQueued \/ Cardinality(fl) < MaxInFlight
  /\ at \in [Keys -> Attempts \cup {Never}]

Order == Bounded /\ OncePerKey /\ WorkConserving

(* A drain keeps the limits, keeps every key in one place, and leaves no   *)
(* job waiting beside a free slot.                                         *)
LEMMA DrainKeepsOrder ==
  ASSUME NEW q, NEW qk, NEW fl, NEW at, MayDrain(q, qk, fl, at), Drain(q, qk, fl, at),
         now \in Nat
  PROVE  /\ attempts' \in [Keys -> Attempts \cup {Never}]
         /\ inFlight' \subseteq Keys /\ IsFiniteSet(inFlight')
         /\ queue' \in Seq(Jobs)
         /\ queuedKeys' \subseteq Keys
         /\ Order'
<1> USE DEF MayDrain
<1>1. PICK n \in 0..Len(q) :
        /\ Drains(q, fl, n)
        /\ queue' = SubSeq(q, n + 1, Len(q))
        /\ queuedKeys' = qk \ Shifted(q, n)
        /\ inFlight' = fl \cup RunKeys(q, n)
        /\ attempts' = [k \in Keys |-> IF k \in RunKeys(q, n) THEN Reserve(at[k]) ELSE at[k]]
  BY DEF Drain
<1>2. IsFiniteSet(RunKeys(q, n)) /\ RunKeys(q, n) \subseteq KeysOf(q) /\ KeysOf(q) \subseteq Keys
  <2>1. IsFiniteSet(RunKeys(q, n)) /\ RunKeys(q, n) \subseteq KeysOf(q)
    BY RunKeysFinite
  <2>2. \A i \in 1..Len(q) : q[i].key \in Keys
    <3>1. ASSUME NEW i \in 1..Len(q) PROVE q[i] \in Jobs
      OBVIOUS
    <3> QED BY <3>1 DEF Jobs
  <2> QED BY <2>1, <2>2 DEF KeysOf
<1>3. IsFiniteSet(inFlight') /\ inFlight' \subseteq Keys
  BY <1>1, <1>2, FS_Union
<1>4. attempts' \in [Keys -> Attempts \cup {Never}]
  <2>1. ASSUME NEW k \in Keys PROVE Reserve(at[k]) \in Attempts
    BY RepairerAssumption DEF Reserve, FailuresOf, Attempts
  <2> QED BY <1>1, <2>1
<1>5. /\ queue' \in Seq(Jobs) /\ Len(queue') = Len(q) - n
      /\ \A i \in 1..Len(queue') : queue'[i] = q[n + i]
  BY <1>1
<1>6. queuedKeys' \subseteq Keys
  BY <1>1, <1>2
<1>7. Cardinality(inFlight') <= MaxInFlight
  <2>1. CASE n = 0
    <3>1. RunKeys(q, n) = {}
      BY <2>1 DEF RunKeys
    <3> QED BY <1>1, <3>1
  <2>2. CASE n # 0
    <3>1. SlotFree(q, fl, n - 1)
      BY <1>1, <2>2 DEF Drains
    <3> QED BY <1>1, <2>2, <3>1, RunKeysGrow
  <2> QED BY <2>1, <2>2
<1>8. Len(queue') <= MaxQueued
  <2>1. CASE Len(q) <= MaxQueued
    BY <1>5, <2>1, RepairerAssumption
  <2>2. CASE Len(q) > MaxQueued
    <3>1. SlotFree(q, fl, 0)
      <4>1. fl \cup RunKeys(q, 0) = fl
        BY DEF RunKeys
      <4>2. Cardinality(fl) < MaxInFlight
        BY <2>2, RepairerAssumption
      <4>3. Cardinality(fl \cup RunKeys(q, 0)) = Cardinality(fl)
        BY <4>1, Zenon
      <4> HIDE DEF MayDrain
      <4> QED BY <4>2, <4>3 DEF SlotFree
    <3>2. n # 0
      BY <1>1, <2>2, <3>1, RepairerAssumption DEF Drains
    <3> QED BY <1>5, <3>2, RepairerAssumption
  <2> QED BY <2>1, <2>2, RepairerAssumption
<1>9. WorkConserving'
  <2>1. Cardinality(inFlight') < MaxInFlight => n = Len(q)
    BY <1>1 DEF Drains, SlotFree
  <2>2. n = Len(q) => queue' = << >>
    BY <1>1, SubSeqEmpty
  <2> QED BY <2>1, <2>2 DEF WorkConserving
<1>10. OncePerKey'
  <2>1. \A i, j \in 1..Len(queue') : queue'[i].key = queue'[j].key => i = j
    BY <1>5 DEF Distinct
  <2>2. queuedKeys' = {queue'[i].key : i \in 1..Len(queue')}
    <3>1. ASSUME NEW k \in queuedKeys' PROVE \E i \in 1..Len(queue') : k = queue'[i].key
      <4>1. PICK i \in 1..Len(q) : k = q[i].key
        BY <1>1 DEF KeysOf
      <4>2. i - n \in 1..Len(queue')
        BY <1>1, <1>5, <4>1 DEF Shifted
      <4>3. queue'[i - n] = q[i]
        BY <1>5, <4>2
      <4> QED BY <4>1, <4>2, <4>3
    <3>2. ASSUME NEW i \in 1..Len(queue') PROVE queue'[i].key \in queuedKeys'
      <4>1. n + i \in 1..Len(q) /\ queue'[i] = q[n + i]
        BY <1>5, SMTT(30)
      <4>2. \A j \in 1..n : q[j].key # q[n + i].key
        BY <4>1 DEF Distinct
      <4> QED BY <1>1, <4>1, <4>2 DEF KeysOf, Shifted
    <3> QED BY <3>1, <3>2
  <2>3. queuedKeys' \cap inFlight' = {}
    <3>1. RunKeys(q, n) \subseteq Shifted(q, n)
      BY DEF RunKeys, Shifted
    <3> QED BY <1>1, <3>1
  <2> QED BY <2>1, <2>2, <2>3 DEF OncePerKey, QueuedNow
<1> QED BY <1>3, <1>4, <1>5, <1>6, <1>7, <1>8, <1>9, <1>10 DEF Order, Bounded

\* What the loop does to a key: it starts only fresh jobs, and touches no
\* record but theirs.
LEMMA DrainEffect ==
  ASSUME NEW q, NEW qk, NEW fl, NEW at, MayDrain(q, qk, fl, at), Drain(q, qk, fl, at)
  PROVE  /\ fl \subseteq inFlight'
         /\ inFlight' \cup queuedKeys' \subseteq fl \cup qk
         /\ \A k \in Keys : attempts'[k] = IF k \in inFlight' \ fl THEN Reserve(at[k]) ELSE at[k]
         /\ \A i \in 1..Len(q) : q[i].key \in inFlight' \ fl => ~Expired(q[i])
<1>1. PICK n \in 0..Len(q) :
        /\ queuedKeys' = qk \ Shifted(q, n)
        /\ inFlight' = fl \cup RunKeys(q, n)
        /\ attempts' = [k \in Keys |-> IF k \in RunKeys(q, n) THEN Reserve(at[k]) ELSE at[k]]
  BY DEF Drain
<1>2. q \in Seq(Jobs) /\ Distinct(q) /\ qk = KeysOf(q) /\ fl \cap qk = {}
  BY DEF MayDrain
<1>3. RunKeys(q, n) \subseteq qk
  BY <1>2, RunKeysFinite
<1>4. RunKeys(q, n) = inFlight' \ fl
  BY <1>1, <1>2, <1>3
<1>5. \A i \in 1..Len(q) : q[i].key \in RunKeys(q, n) => ~Expired(q[i])
  BY <1>2 DEF RunKeys, Distinct
<1>6. \A k \in Keys : attempts'[k] = IF k \in inFlight' \ fl THEN Reserve(at[k]) ELSE at[k]
  BY <1>1, <1>4
<1> QED BY <1>1, <1>3, <1>4, <1>5, <1>6

-----------------------------------------------------------------------------
(* The rest between attempts: the record of a key that is not running says *)
(* at least when its last attempt ended and how many have failed since; a  *)
(* key that runs, waits or has no record is past that time.                *)
Gap(f)       == IF f = 0 THEN Cooldown ELSE Backoff(f)
Rested(e, f) == e # Never => now >= e + Gap(f)

RestAt(k, at, fl, qk, e, f) ==
  /\ FailuresOf(at[k]) = f
  /\ k \in fl \cup qk \/ at[k] = Never => Rested(e, f)
  /\ k \notin fl /\ at[k] # Never /\ e # Never => at[k].nextAllowedAt >= e + Gap(f)

IInv ==
  /\ TypeOK
  /\ IsFiniteSet(inFlight)
  /\ Order
  /\ \A k \in inFlight : attempts[k] # Never
  /\ \A k \in Keys : RestAt(k, attempts, inFlight, queuedKeys, endedAt[k], streak[k])

(* The invariant holds initially.                                          *)
LEMMA InitIInv == Init => IInv
<1> SUFFICES ASSUME Init PROVE IInv
  OBVIOUS
<1>1. TypeOK /\ OncePerKey /\ WorkConserving
  BY DEF Init, TypeOK, OncePerKey, WorkConserving, QueuedNow
<1>2. IsFiniteSet(inFlight) /\ Bounded
  BY FS_EmptySet, RepairerAssumption DEF Init, Bounded
<1>3. \A k \in Keys : RestAt(k, attempts, inFlight, queuedKeys, endedAt[k], streak[k])
  BY DEF Init, RestAt, Rested, FailuresOf
<1> QED BY <1>1, <1>2, <1>3 DEF IInv, Order, Init

(* A backoff is a whole number of ticks.                                   *)
LEMMA GapType == ASSUME NEW f \in Nat PROVE Gap(f) \in Int
<1>1. CASE f = 0
  BY <1>1, RepairerAssumption DEF Gap
<1>2. CASE f # 0
  <2>1. 2 ^ (f - 1) \in Int
    BY <1>2
  <2>2. Cooldown * 2 ^ (f - 1) \in Int
    BY <2>1, RepairerAssumption
  <2> QED BY <1>2, <2>2, RepairerAssumption DEF Gap, Backoff, Lesser
<1> QED BY <1>1, <1>2

(* A drain keeps the invariant when what it is given meets it.             *)
LEMMA DrainIInv ==
  ASSUME NEW q, NEW qk, NEW fl, NEW at, MayDrain(q, qk, fl, at), Drain(q, qk, fl, at),
         now \in Nat, now' = now,
         endedAt' \in [Keys -> Nat \cup {Never}], streak' \in [Keys -> Nat],
         \A k \in fl : at[k] # Never,
         \A k \in Keys : RestAt(k, at, fl, qk, endedAt'[k], streak'[k])
  PROVE  IInv'
<1>1. /\ attempts' \in [Keys -> Attempts \cup {Never}]
      /\ inFlight' \subseteq Keys /\ IsFiniteSet(inFlight')
      /\ queue' \in Seq(Jobs) /\ queuedKeys' \subseteq Keys /\ Order'
  BY DrainKeepsOrder
<1>2. /\ fl \subseteq inFlight'
      /\ inFlight' \cup queuedKeys' \subseteq fl \cup qk
      /\ \A k \in Keys : attempts'[k] = IF k \in inFlight' \ fl THEN Reserve(at[k]) ELSE at[k]
  BY DrainEffect
<1>3. ASSUME NEW k \in Keys
      PROVE  Reserve(at[k]) # Never /\ FailuresOf(Reserve(at[k])) = FailuresOf(at[k])
  <2>1. at[k] \in Attempts \cup {Never}
    BY DEF MayDrain
  <2>2. FailuresOf(at[k]) \in Nat
    BY <2>1 DEF FailuresOf, Attempts
  <2>3. Reserve(at[k]) \in Attempts
    BY <2>2, RepairerAssumption DEF Reserve, Attempts
  <2> QED BY <2>3, RepairerAssumption DEF Reserve, FailuresOf
<1>4. \A k \in inFlight' : attempts'[k] # Never
  BY <1>1, <1>2, <1>3
<1>5. ASSUME NEW k \in Keys
      PROVE  RestAt(k, attempts, inFlight, queuedKeys, endedAt[k], streak[k])'
  <2>1. CASE k \in inFlight' \ fl
    BY <1>2, <1>3, <2>1 DEF RestAt, Rested, FailuresOf, Gap, Backoff
  <2>2. CASE k \notin inFlight' \ fl
    BY <1>2, <2>2 DEF RestAt, Rested, FailuresOf, Gap, Backoff
  <2> QED BY <2>1, <2>2
<1> QED BY <1>1, <1>4, <1>5 DEF IInv, TypeOK

-----------------------------------------------------------------------------
(* Where the loop is entered: after a schedule, and after a repair.        *)

(* Pruning forgets no repair in flight and no key that has yet to rest.    *)
LEMMA PrunedRecord ==
  ASSUME IInv
  PROVE  /\ Pruned \in [Keys -> Attempts \cup {Never}]
         /\ \A k \in inFlight : Pruned[k] = attempts[k]
         /\ \A k \in Keys : RestAt(k, Pruned, inFlight, queuedKeys, endedAt[k], streak[k])
         /\ \A k \in Keys : Pruned[k] = Never \/ Pruned[k].nextAllowedAt <= now
                             => Rested(endedAt[k], streak[k]) \/ k \in inFlight
<1>1. Pruned \in [Keys -> Attempts \cup {Never}] /\ \A k \in inFlight : Pruned[k] = attempts[k]
  BY DEF IInv, TypeOK, Pruned
<1>2. ASSUME NEW k \in Keys
      PROVE  /\ RestAt(k, Pruned, inFlight, queuedKeys, endedAt[k], streak[k])
             /\ Pruned[k] = Never \/ Pruned[k].nextAllowedAt <= now
                  => Rested(endedAt[k], streak[k]) \/ k \in inFlight
  <2>1. /\ RestAt(k, attempts, inFlight, queuedKeys, endedAt[k], streak[k])
        /\ attempts[k] \in Attempts \cup {Never}
        /\ endedAt[k] \in Nat \cup {Never} /\ streak[k] \in Nat /\ now \in Nat
        /\ Gap(streak[k]) \in Int
    BY GapType DEF IInv, TypeOK
  <2>2. \/ Pruned[k] = attempts[k]
        \/ /\ Pruned[k] = Never /\ attempts[k] # Never
           /\ attempts[k].failures = 0
           /\ attempts[k].nextAllowedAt <= now
           /\ k \notin inFlight
    BY DEF Pruned
  <2> HIDE DEF Gap
  <2>3. CASE attempts[k] = Never
    BY <2>1, <2>2, <2>3 DEF RestAt, FailuresOf
  <2>4. CASE attempts[k] # Never
    <3>1. attempts[k].nextAllowedAt \in Int
      BY <2>1, <2>4 DEF Attempts
    <3> QED BY <2>1, <2>2, <2>4, <3>1 DEF RestAt, Rested, FailuresOf
  <2> QED BY <2>3, <2>4
<1> QED BY <1>1, <1>2

(* A scheduled job leaves the queue as a drain expects it.                 *)
LEMMA ScheduleMayDrain ==
  ASSUME IInv, NEW k \in Keys, ~Skipped(k)
  PROVE  MayDrain(Append(queue, [key |-> k, queuedAt |-> now]), queuedKeys \cup {k}, inFlight, Pruned)
<1> DEFINE job == [key |-> k, queuedAt |-> now]
           q == Append(queue, job)
<1>1. queue \in Seq(Jobs) /\ job \in Jobs
  BY DEF IInv, TypeOK, Jobs
<1>2. /\ q \in Seq(Jobs) /\ Len(q) = Len(queue) + 1 /\ q[Len(queue) + 1].key = k
      /\ \A i \in 1..Len(queue) : q[i] = queue[i]
  BY <1>1
<1>3. k \notin inFlight /\ k \notin queuedKeys
  BY DEF Skipped
<1>4. /\ queuedKeys = KeysOf(queue) /\ queuedKeys \cap inFlight = {} /\ Distinct(queue)
  BY DEF IInv, Order, OncePerKey, QueuedNow, KeysOf, Distinct
<1> HIDE DEF q
<1>5. queuedKeys \cup {k} = KeysOf(q)
  <2>1. \A i \in 1..Len(queue) + 1 : i \in 1..Len(queue) \/ i = Len(queue) + 1
    BY <1>1
  <2> QED BY <1>1, <1>2, <1>4, <2>1 DEF KeysOf
<1>6. Distinct(q)
  <2>1. \A i \in 1..Len(queue) : q[i].key # k
    BY <1>2, <1>3, <1>4 DEF KeysOf
  <2> QED BY <1>1, <1>2, <1>4, <2>1 DEF Distinct
<1>7. Cardinality(inFlight) <= MaxInFlight /\ Len(queue) <= MaxQueued /\ Cardinality(inFlight) \in Nat
  BY FS_CardinalityType DEF IInv, Order, Bounded
<1>8. Len(queue) + 1 <= MaxQueued \/ Cardinality(inFlight) < MaxInFlight
  BY <1>1, <1>7, RepairerAssumption DEF Skipped
<1>9. inFlight \subseteq Keys /\ IsFiniteSet(inFlight) /\ Pruned \in [Keys -> Attempts \cup {Never}]
  BY PrunedRecord DEF IInv, TypeOK
<1> QED BY <1>1, <1>2, <1>3, <1>4, <1>5, <1>6, <1>7, <1>8, <1>9, RepairerAssumption DEF MayDrain, q

(* So does the end of a repair.                                            *)
LEMMA FinishMayDrain ==
  ASSUME IInv, NEW k \in inFlight, NEW a \in Attempts
  PROVE  MayDrain(queue, queuedKeys, inFlight \ {k}, [attempts EXCEPT ![k] = a])
<1>1. /\ queue \in Seq(Jobs) /\ Distinct(queue) /\ queuedKeys = KeysOf(queue)
      /\ (inFlight \ {k}) \cap queuedKeys = {} /\ inFlight \ {k} \subseteq Keys
      /\ [attempts EXCEPT ![k] = a] \in [Keys -> Attempts \cup {Never}]
  BY DEF IInv, TypeOK, Order, OncePerKey, QueuedNow, KeysOf, Distinct
<1>2. /\ IsFiniteSet(inFlight \ {k})
      /\ Cardinality(inFlight \ {k}) = Cardinality(inFlight) - 1
      /\ Cardinality(inFlight) \in Nat
  BY FS_RemoveElement, FS_CardinalityType DEF IInv
<1>3. Cardinality(inFlight) <= MaxInFlight /\ Len(queue) <= MaxQueued
  BY DEF IInv, Order, Bounded
<1> QED BY <1>1, <1>2, <1>3, RepairerAssumption DEF MayDrain

-----------------------------------------------------------------------------
(* Every step keeps the invariant.                                         *)
LEMMA StepIInv == IInv /\ [Next]_vars => IInv'
<1> SUFFICES ASSUME IInv, [Next]_vars PROVE IInv'
  OBVIOUS
<1>0. now \in Nat /\ inFlight \subseteq Keys
  BY DEF IInv, TypeOK
<1>1. ASSUME NEW k \in Keys, Schedule(k) PROVE IInv'
  <2> DEFINE q == Append(queue, [key |-> k, queuedAt |-> now])
  <2>1. Drain(q, queuedKeys \cup {k}, inFlight, Pruned) /\ UNCHANGED <<now, endedAt, streak>>
    BY <1>1 DEF Schedule
  <2>2. MayDrain(q, queuedKeys \cup {k}, inFlight, Pruned)
    BY <1>1, ScheduleMayDrain DEF Schedule
  <2>3. \A j \in inFlight : Pruned[j] # Never
    BY PrunedRecord DEF IInv
  <2>4. ASSUME NEW j \in Keys
        PROVE  RestAt(j, Pruned, inFlight, queuedKeys \cup {k}, endedAt'[j], streak'[j])
    <3>1. RestAt(j, Pruned, inFlight, queuedKeys, endedAt[j], streak[j])
      BY PrunedRecord
    <3>2. j = k => Rested(endedAt[j], streak[j])
      <4>1. k \notin inFlight /\ (Pruned[k] = Never \/ ~(Pruned[k].nextAllowedAt > now))
        BY <1>1 DEF Schedule, Skipped
      <4>2. Pruned[k] \in Attempts \cup {Never}
        BY PrunedRecord
      <4>3. Pruned[k] = Never \/ Pruned[k].nextAllowedAt <= now
        BY <1>0, <4>1, <4>2 DEF Attempts
      <4> QED BY <4>1, <4>3, PrunedRecord
    <3> QED BY <2>1, <3>1, <3>2 DEF RestAt
  <2>5. endedAt' \in [Keys -> Nat \cup {Never}] /\ streak' \in [Keys -> Nat] /\ now' = now
    BY <2>1 DEF IInv, TypeOK
  <2> HIDE DEF q
  <2> QED BY <1>0, <2>1, <2>2, <2>3, <2>4, <2>5, DrainIInv
<1>2. ASSUME NEW k \in Keys, ScheduleSkips(k) PROVE IInv'
  <2> USE <1>2 DEF ScheduleSkips
  <2>1. TypeOK' /\ IsFiniteSet(inFlight') /\ Order'
    BY PrunedRecord DEF IInv, TypeOK, Order, Bounded, OncePerKey, WorkConserving, QueuedNow
  <2>2. \A j \in inFlight' : attempts'[j] # Never
    BY PrunedRecord DEF IInv
  <2>3. ASSUME NEW j \in Keys
        PROVE  RestAt(j, attempts, inFlight, queuedKeys, endedAt[j], streak[j])'
    BY PrunedRecord DEF RestAt, Rested, FailuresOf, Gap, Backoff
  <2> QED BY <2>1, <2>2, <2>3 DEF IInv
<1>3. ASSUME NEW k \in Keys, NEW f \in Nat, k \in inFlight,
             Drain(queue, queuedKeys, inFlight \ {k},
                   [attempts EXCEPT ![k] = [nextAllowedAt |-> now + Gap(f), failures |-> f]]),
             endedAt' = [endedAt EXCEPT ![k] = now], streak' = [streak EXCEPT ![k] = f],
             now' = now
      PROVE  IInv'
  <2> DEFINE a  == [nextAllowedAt |-> now + Gap(f), failures |-> f]
             at == [attempts EXCEPT ![k] = a]
  <2>1. a \in Attempts
    BY <1>0, GapType DEF Attempts
  <2>2. MayDrain(queue, queuedKeys, inFlight \ {k}, at)
    BY <1>3, <2>1, FinishMayDrain
  <2>3. \A j \in inFlight \ {k} : at[j] # Never
    BY DEF IInv, TypeOK
  <2>4. endedAt' \in [Keys -> Nat \cup {Never}] /\ streak' \in [Keys -> Nat]
    BY <1>0, <1>3 DEF IInv, TypeOK
  <2>5. ASSUME NEW j \in Keys
        PROVE  RestAt(j, at, inFlight \ {k}, queuedKeys, endedAt'[j], streak'[j])
    <3>1. CASE j = k
      <4>1. at[j] = a /\ a # Never /\ endedAt'[j] = now /\ streak'[j] = f
        BY <1>3, <2>1, <3>1, RepairerAssumption DEF IInv, TypeOK
      <4>2. j \notin queuedKeys
        BY <1>3, <3>1 DEF IInv, Order, OncePerKey
      <4>3. now + Gap(f) \in Int
        BY <1>0, GapType
      <4> QED BY <3>1, <4>1, <4>2, <4>3 DEF RestAt, FailuresOf
    <3>2. CASE j # k
      <4>1. RestAt(j, attempts, inFlight, queuedKeys, endedAt[j], streak[j])
        BY DEF IInv
      <4>2. at[j] = attempts[j] /\ endedAt'[j] = endedAt[j] /\ streak'[j] = streak[j]
        BY <1>3, <3>2 DEF IInv, TypeOK
      <4> HIDE DEF at
      <4> QED BY <3>2, <4>1, <4>2 DEF RestAt
    <3> QED BY <3>1, <3>2
  <2> HIDE DEF at
  <2>6. Drain(queue, queuedKeys, inFlight \ {k}, at)
    BY <1>3 DEF at
  <2> QED BY <1>0, <1>3, <2>2, <2>3, <2>4, <2>5, <2>6, DrainIInv
<1>4. ASSUME NEW k \in Keys, Succeeds(k) PROVE IInv'
  <2>1. Gap(0) = Cooldown
    BY DEF Gap
  <2> QED BY <1>3, <1>4, <2>1 DEF Succeeds
<1>5. ASSUME NEW k \in Keys, FailsAt(k) PROVE IInv'
  <2> DEFINE f == attempts[k].failures + 1
  <2>1. k \in inFlight /\ now' = now
    BY <1>5 DEF FailsAt
  <2>2. attempts[k] \in Attempts
    BY <2>1 DEF IInv, TypeOK
  <2>3. f \in Nat /\ f # 0 /\ f = streak[k] + 1
    BY <2>1, <2>2, RepairerAssumption DEF IInv, TypeOK, RestAt, FailuresOf, Attempts
  <2>4. Gap(f) = Backoff(f)
    BY <2>3 DEF Gap
  <2>5. streak' = [streak EXCEPT ![k] = f]
    BY <1>5, <2>3 DEF FailsAt
  <2> QED BY <1>3, <1>5, <2>1, <2>3, <2>4, <2>5 DEF FailsAt
<1>6. ASSUME Tick PROVE IInv'
  <2> USE <1>6 DEF Tick
  <2>1. TypeOK' /\ IsFiniteSet(inFlight') /\ Order' /\ \A k \in inFlight' : attempts'[k] # Never
    BY DEF IInv, TypeOK, Order, Bounded, OncePerKey, WorkConserving, QueuedNow
  <2>2. ASSUME NEW j \in Keys
        PROVE  RestAt(j, attempts, inFlight, queuedKeys, endedAt[j], streak[j])'
    <3>1. /\ RestAt(j, attempts, inFlight, queuedKeys, endedAt[j], streak[j])
          /\ endedAt[j] \in Nat \cup {Never} /\ streak[j] \in Nat
      BY DEF IInv, TypeOK
    <3>2. Gap(streak[j]) \in Int /\ Gap(streak[j])' = Gap(streak[j])
      BY <3>1, GapType DEF Gap, Backoff
    <3> HIDE DEF Gap
    <3>3. Rested(endedAt[j], streak[j]) => Rested(endedAt[j], streak[j])'
      BY <1>0, <3>1, <3>2 DEF Rested
    <3> QED BY <3>1, <3>2, <3>3 DEF RestAt, FailuresOf
  <2> QED BY <2>1, <2>2 DEF IInv
<1>7. CASE UNCHANGED vars
  BY <1>7 DEF vars, IInv, TypeOK, Order, Bounded, OncePerKey, WorkConserving, QueuedNow,
              RestAt, Rested, FailuresOf, Gap, Backoff
<1> QED BY <1>1, <1>2, <1>4, <1>5, <1>6, <1>7 DEF Next, Finish

(* The invariant holds in every reachable state.                           *)
LEMMA SpecIInv == Spec => []IInv
BY InitIInv, StepIInv, PTL DEF Spec

(* Every field of the scheduler keeps its type, for any keys and clock.    *)
THEOREM TypeCorrect == Spec => []TypeOK
BY SpecIInv, PTL DEF IInv

(* However many outdated SLOs the status reads report, no more than        *)
(* maxInFlight repairs run and no more than maxQueued wait.                *)
THEOREM BurstsAreBounded == Spec => []Bounded
BY SpecIInv, PTL DEF IInv, Order

(* The queue, queuedKeys and inFlightKeys agree, and hold each key once.   *)
THEOREM KeysAgree == Spec => []OncePerKey
BY SpecIInv, PTL DEF IInv, Order

(* A free slot and a waiting job never coexist between two callbacks.      *)
THEOREM SlotsAreUsed == Spec => []WorkConserving
BY SpecIInv, PTL DEF IInv, Order

-----------------------------------------------------------------------------
(* What a step that starts a repair may assume about it.                   *)
LEMMA StepStarts ==
  ASSUME IInv, [Next]_vars, NEW k \in inFlight' \ inFlight
  PROVE  /\ Rested(endedAt[k], streak[k])
         /\ \A i \in 1..Len(queue) : queue[i].key = k => ~Expired(queue[i])
<1> DEFINE Goal == /\ Rested(endedAt[k], streak[k])
                   /\ \A i \in 1..Len(queue) : queue[i].key = k => ~Expired(queue[i])
<1>1. ASSUME NEW j \in Keys, Schedule(j) PROVE Goal
  <2> DEFINE q == Append(queue, [key |-> j, queuedAt |-> now])
  <2>1. MayDrain(q, queuedKeys \cup {j}, inFlight, Pruned) /\ Drain(q, queuedKeys \cup {j}, inFlight, Pruned)
    BY <1>1, ScheduleMayDrain DEF Schedule
  <2>2. /\ k \in queuedKeys \cup {j}
        /\ \A i \in 1..Len(q) : q[i].key = k => ~Expired(q[i])
    <3> HIDE DEF q
    <3>1. /\ inFlight' \cup queuedKeys' \subseteq inFlight \cup (queuedKeys \cup {j})
          /\ \A i \in 1..Len(q) : q[i].key \in inFlight' \ inFlight => ~Expired(q[i])
      BY <2>1, DrainEffect
    <3> QED BY <3>1
  <2>3. \A i \in 1..Len(queue) : i \in 1..Len(q) /\ q[i] = queue[i]
    BY DEF IInv, TypeOK, Jobs
  <2>4. Rested(endedAt[k], streak[k])
    <3>1. CASE k \in queuedKeys
      BY <3>1 DEF IInv, TypeOK, RestAt
    <3>2. CASE k = j
      <4>1. k \notin inFlight /\ (Pruned[k] = Never \/ ~(Pruned[k].nextAllowedAt > now))
        BY <1>1, <3>2 DEF Schedule, Skipped
      <4>2. Pruned[k] \in Attempts \cup {Never} /\ now \in Nat
        BY <1>1, <3>2, PrunedRecord DEF IInv, TypeOK
      <4>3. Pruned[k] = Never \/ Pruned[k].nextAllowedAt <= now
        BY <4>1, <4>2 DEF Attempts
      <4> QED BY <1>1, <3>2, <4>1, <4>3, PrunedRecord
    <3> QED BY <2>2, <3>1, <3>2
  <2> QED BY <2>2, <2>3, <2>4
<1>2. ASSUME NEW j \in Keys, Finish(j) PROVE Goal
  <2>1. j \in inFlight
    BY <1>2 DEF Finish, Succeeds, FailsAt
  <2>2. PICK a \in Attempts : Drain(queue, queuedKeys, inFlight \ {j}, [attempts EXCEPT ![j] = a])
    <3>1. CASE Succeeds(j)
      <4>1. [nextAllowedAt |-> now + Cooldown, failures |-> 0] \in Attempts
        BY RepairerAssumption DEF IInv, TypeOK, Attempts
      <4> QED BY <3>1, <4>1 DEF Succeeds
    <3>2. CASE FailsAt(j)
      <4> DEFINE f == attempts[j].failures + 1
      <4>1. attempts[j] \in Attempts
        BY <2>1 DEF IInv, TypeOK
      <4>2. f \in Nat /\ f # 0
        BY <4>1 DEF Attempts
      <4>3. Backoff(f) \in Int
        BY <4>2, GapType DEF Gap
      <4>4. [nextAllowedAt |-> now + Backoff(f), failures |-> f] \in Attempts
        BY <4>2, <4>3 DEF IInv, TypeOK, Attempts
      <4> QED BY <3>2, <4>4 DEF FailsAt
    <3> QED BY <1>2, <3>1, <3>2 DEF Finish
  <2>3. MayDrain(queue, queuedKeys, inFlight \ {j}, [attempts EXCEPT ![j] = a])
    BY <2>1, FinishMayDrain
  <2>4. /\ inFlight' \cup queuedKeys' \subseteq (inFlight \ {j}) \cup queuedKeys
        /\ \A i \in 1..Len(queue) :
             queue[i].key \in inFlight' \ (inFlight \ {j}) => ~Expired(queue[i])
    BY <2>2, <2>3, DrainEffect
  <2>5. k \in queuedKeys
    BY <2>4
  <2>6. Rested(endedAt[k], streak[k])
    BY <2>5 DEF IInv, TypeOK, RestAt
  <2> QED BY <2>4, <2>6
<1>3. ASSUME UNCHANGED inFlight PROVE Goal
  BY <1>3
<1> QED BY <1>1, <1>2, <1>3 DEF Next, ScheduleSkips, Tick, vars

(* A repair never starts before the backoff of the attempts that failed,   *)
(* or the cooldown of one that succeeded, has passed.                      *)
THEOREM AttemptsRest == Spec => RestsBetweenAttempts
<1>1. IInv /\ [Next]_vars
        => [\A k \in inFlight' \ inFlight :
              endedAt[k] # Never =>
                now >= endedAt[k] + (IF streak[k] = 0 THEN Cooldown ELSE Backoff(streak[k]))]_vars
  BY StepStarts DEF Rested, Gap
<1> QED BY <1>1, SpecIInv, PTL DEF Spec, RestsBetweenAttempts

(* A job past its age limit is never started, so a repair never runs on a  *)
(* request scope that is gone.                                             *)
THEOREM OnlyFreshJobsStart == Spec => StartsFresh
<1>1. IInv /\ [Next]_vars
        => [\A i \in 1..Len(queue) :
              queue[i].key \in inFlight' \ inFlight => now - queue[i].queuedAt <= MaxQueueAge]_vars
  <2> SUFFICES ASSUME IInv, [Next]_vars, NEW i \in 1..Len(queue),
                      queue[i].key \in inFlight' \ inFlight
               PROVE  now - queue[i].queuedAt <= MaxQueueAge
    OBVIOUS
  <2>1. ~Expired(queue[i])
    BY StepStarts
  <2>2. queue[i] \in Jobs /\ now \in Nat
    BY DEF IInv, TypeOK
  <2> QED BY <2>1, <2>2, RepairerAssumption DEF Expired, Jobs
<1> QED BY <1>1, SpecIInv, PTL DEF Spec, StartsFresh
=============================================================================
