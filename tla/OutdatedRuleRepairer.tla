------------------------ MODULE OutdatedRuleRepairer ------------------------
(***************************************************************************)
(* The background scheduler of server/services/slo/                        *)
(* outdated_rule_repairer.ts: status reads hand it the rule groups they    *)
(* found outdated, and it repairs them, a few at a time.                   *)
(*                                                                         *)
(* The class runs on one JavaScript thread and awaits only the repair      *)
(* itself, so schedule and the two ends of run are each one step, with the *)
(* whole of the drain loop they call.                                      *)
(***************************************************************************)
EXTENDS Integers, Sequences, FiniteSets

CONSTANTS
  Keys,          \* what is repaired: a datasource and its outdated groups
  Cooldown,      \* gap after an attempt
  MaxBackoff,    \* longest gap after repeated failures
  MaxInFlight,   \* repairs at once
  MaxQueued,     \* jobs that may wait
  MaxQueueAge,   \* how long a job may wait and still run
  MaxNow,        \* bound: the clock
  Never          \* no attempt on record

Jobs     == [key : Keys, queuedAt : Nat]
Attempts == [nextAllowedAt : Int, failures : Nat]

ASSUME RepairerAssumption ==
  /\ Cooldown \in Nat /\ MaxBackoff \in Nat /\ Cooldown <= MaxBackoff
  /\ MaxInFlight \in Nat \ {0}
  /\ MaxQueued \in Nat
  /\ MaxQueueAge \in Nat
  /\ MaxNow \in Nat
  /\ Never \notin Attempts /\ Never \notin Nat

VARIABLES
  attempts,    \* Map: the last attempt of a key
  inFlight,    \* Set inFlightKeys
  queue,       \* Job[]
  queuedKeys,  \* Set
  now,         \* the clock
  endedAt,     \* history: when the key's last attempt ended
  streak       \* history: its failures since the last success

vars == <<attempts, inFlight, queue, queuedKeys, now, endedAt, streak>>

TypeOK ==
  /\ attempts \in [Keys -> Attempts \cup {Never}]
  /\ inFlight \subseteq Keys
  /\ queue \in Seq(Jobs)
  /\ queuedKeys \subseteq Keys
  /\ now \in Nat
  /\ endedAt \in [Keys -> Nat \cup {Never}]
  /\ streak \in [Keys -> Nat]

Init ==
  /\ attempts = [k \in Keys |-> Never]
  /\ inFlight = {}
  /\ queue = <<>>
  /\ queuedKeys = {}
  /\ now = 0
  /\ endedAt = [k \in Keys |-> Never]
  /\ streak = [k \in Keys |-> 0]

-----------------------------------------------------------------------------
Expired(job) == now - job.queuedAt > MaxQueueAge

FailuresOf(a) == IF a = Never THEN 0 ELSE a.failures

\* Mutant of Reserve: an attempt in progress takes one failure back.
ReserveForgiving(a) == [nextAllowedAt |-> now + Cooldown, failures |-> FailuresOf(a) - 1]

\* The start of run: the cooldown is reserved up front.
Reserve(a) == [nextAllowedAt |-> now + Cooldown, failures |-> FailuresOf(a)]

\* Mutant of RunKeys: a job runs however long it has waited.
RunAllKeys(q, n) == {q[i].key : i \in 1..n}

\* The keys among the first n jobs of q that the drain loop runs.
RunKeys(q, n) == {q[i].key : i \in {j \in 1..n : ~Expired(q[j])}}

\* Mutant of SlotFree: one repair too many.
SlotAlmostFree(q, fl, n) == Cardinality(fl \cup RunKeys(q, n)) <= MaxInFlight

\* A slot is free after n jobs have been shifted from q, with fl in flight before.
SlotFree(q, fl, n) == Cardinality(fl \cup RunKeys(q, n)) < MaxInFlight

\* Mutant of Drains: one job at a time.
DrainsOne(q, fl, n) == n = IF SlotFree(q, fl, 0) /\ q # <<>> THEN 1 ELSE 0

\* The loop shifts n jobs: until no slot or no job is left.
Drains(q, fl, n) ==
  /\ \A m \in 0..(n - 1) : SlotFree(q, fl, m)
  /\ SlotFree(q, fl, n) => n = Len(q)

\* Mutant of Shifted: a dropped job's key stays behind.
ShiftedRunOnly(q, n) == RunKeys(q, n)

\* The keys of the shifted jobs, run or dropped.
Shifted(q, n) == {q[i].key : i \in 1..n}

\* The drain loop on queue q, its keys qk, the keys fl in flight and the record at.
Drain(q, qk, fl, at) ==
  \E n \in 0..Len(q) :
    /\ Drains(q, fl, n)
    /\ queue' = SubSeq(q, n + 1, Len(q))
    /\ queuedKeys' = qk \ Shifted(q, n)
    /\ inFlight' = fl \cup RunKeys(q, n)
    /\ attempts' = [k \in Keys |-> IF k \in RunKeys(q, n) THEN Reserve(at[k]) ELSE at[k]]

\* Mutant of Pruned: failures are forgotten too.
PrunedAll ==
  [k \in Keys |->
     IF attempts[k] # Never /\ attempts[k].nextAllowedAt <= now /\ k \notin inFlight
     THEN Never ELSE attempts[k]]

\* pruneAttempts: forget what has cooled down with no failure outstanding.
Pruned ==
  [k \in Keys |->
     IF /\ attempts[k] # Never
        /\ attempts[k].failures = 0
        /\ attempts[k].nextAllowedAt <= now
        /\ k \notin inFlight
     THEN Never ELSE attempts[k]]

Skipped(k) ==
  \/ k \in inFlight \/ k \in queuedKeys
  \/ Pruned[k] # Never /\ Pruned[k].nextAllowedAt > now
  \/ Cardinality(inFlight) >= MaxInFlight /\ Len(queue) >= MaxQueued

\* schedule returns undefined; only the pruning remains.
ScheduleSkips(k) ==
  /\ Skipped(k)
  /\ attempts' = Pruned
  /\ UNCHANGED <<inFlight, queue, queuedKeys, now, endedAt, streak>>

Schedule(k) ==
  /\ ~Skipped(k)
  /\ Drain(Append(queue, [key |-> k, queuedAt |-> now]), queuedKeys \cup {k}, inFlight, Pruned)
  /\ UNCHANGED <<now, endedAt, streak>>

\* Mutant of Succeeds: the slot is freed and nobody looks at the queue.
SucceedsQuietly(k) ==
  /\ k \in inFlight
  /\ inFlight' = inFlight \ {k}
  /\ attempts' = [attempts EXCEPT ![k] = [nextAllowedAt |-> now + Cooldown, failures |-> 0]]
  /\ endedAt' = [endedAt EXCEPT ![k] = now]
  /\ streak' = [streak EXCEPT ![k] = 0]
  /\ UNCHANGED <<queue, queuedKeys, now>>

\* The end of run, after the repair succeeded.
Succeeds(k) ==
  /\ k \in inFlight
  /\ Drain(queue, queuedKeys, inFlight \ {k},
           [attempts EXCEPT ![k] = [nextAllowedAt |-> now + Cooldown, failures |-> 0]])
  /\ endedAt' = [endedAt EXCEPT ![k] = now]
  /\ streak' = [streak EXCEPT ![k] = 0]
  /\ UNCHANGED now

Lesser(a, b) == IF a < b THEN a ELSE b

Backoff(failures) == Lesser(Cooldown * 2 ^ (failures - 1), MaxBackoff)

\* The end of run, after the repair threw.
FailsAt(k) ==
  LET failures == attempts[k].failures + 1 IN
  /\ k \in inFlight
  /\ Drain(queue, queuedKeys, inFlight \ {k},
           [attempts EXCEPT ![k] = [nextAllowedAt |-> now + Backoff(failures),
                                    failures |-> failures]])
  /\ endedAt' = [endedAt EXCEPT ![k] = now]
  /\ streak' = [streak EXCEPT ![k] = @ + 1]
  /\ UNCHANGED now

Tick ==
  /\ now < MaxNow
  /\ now' = now + 1
  /\ UNCHANGED <<attempts, inFlight, queue, queuedKeys, endedAt, streak>>

Finish(k) == Succeeds(k) \/ FailsAt(k)

Next ==
  \/ \E k \in Keys : Schedule(k) \/ ScheduleSkips(k) \/ Finish(k)
  \/ Tick

Spec == Init /\ [][Next]_vars

\* Every repair settles: it is made of ruler calls that time out.
FairSpec == Spec /\ \A k \in Keys : WF_vars(Finish(k))

-----------------------------------------------------------------------------
QueuedNow == {queue[i].key : i \in 1..Len(queue)}

(* A burst of outdated SLOs never becomes a burst of ruler writes: at most *)
(* MaxInFlight repairs run and at most MaxQueued wait.                     *)
Bounded ==
  /\ Cardinality(inFlight) <= MaxInFlight
  /\ Len(queue) <= MaxQueued

(* A key is queued once or running once, never both or twice, and the set  *)
(* of queued keys is exactly what the queue holds: a key left in it would  *)
(* never be repaired again.                                                *)
OncePerKey ==
  /\ queuedKeys = QueuedNow
  /\ queuedKeys \cap inFlight = {}
  /\ \A i, j \in 1..Len(queue) : queue[i].key = queue[j].key => i = j

(* No job waits while a slot is free: the drain at the end of each repair  *)
(* and of each schedule is enough, no timer wakes the queue.               *)
WorkConserving == Cardinality(inFlight) < MaxInFlight => queue = <<>>

(* After f failures in a row a key is left alone for Backoff(f), after a   *)
(* success for Cooldown, counted from the end of the attempt, although a   *)
(* queued job does not look at the record again when it starts.            *)
RestsBetweenAttempts ==
  [][\A k \in inFlight' \ inFlight :
       endedAt[k] # Never =>
         now >= endedAt[k] + (IF streak[k] = 0 THEN Cooldown ELSE Backoff(streak[k]))]_vars

(* A job that has waited longer than MaxQueueAge, and whose request scope  *)
(* may be gone, is never started.                                          *)
StartsFresh ==
  [][\A i \in 1..Len(queue) :
       queue[i].key \in inFlight' \ inFlight => now - queue[i].queuedAt <= MaxQueueAge]_vars

(* Every queued job is started or dropped.                                 *)
QueueDrains == \A k \in Keys : k \in queuedKeys ~> k \notin queuedKeys
=============================================================================
