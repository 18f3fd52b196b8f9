-------------------------- MODULE SloRuleRefStore ---------------------------
(***************************************************************************)
(* The reference-count registry of server/services/slo/                    *)
(* slo_rule_ref_store.ts: incrementRef and decrementRef as read,           *)
(* compare-and-set, retry loops over one slo-rule-ref saved object.  Calls *)
(* for different (workspace, datasource, fingerprint) tuples touch         *)
(* different saved objects, so one tuple is the whole of their             *)
(* interaction.                                                            *)
(***************************************************************************)
EXTENDS Naturals

CONSTANTS
  Callers,     \* requests, and server processes, that can call at once
  MaxRetries,  \* attempts before a call gives up
  MaxCalls,    \* bound: calls and reconciler deletes in one behaviour
  NoRef        \* no saved object

Refs == [refcount : Nat, zeroSince : BOOLEAN, version : Nat]

ASSUME RefStoreAssumption ==
  /\ MaxRetries \in Nat \ {0}
  /\ MaxCalls \in Nat
  /\ NoRef \notin Refs

VARIABLES
  so,       \* the saved object, or NoRef
  seqNo,    \* the index's sequence number: every write and delete takes the next
  status,   \* each caller: idle, asking, or holding an answer
  pc,       \* the await an asking caller is at: "get" or "put"
  attempt,  \* its attempt, from 1
  seen,     \* what its last get returned
  calls,    \* history: calls and deletes so far
  since,    \* history: seqNo when the call began
  seenAt    \* history: seqNo when it last read

callVars == <<pc, attempt, seen, seenAt>>
vars     == <<so, seqNo, status, pc, attempt, seen, calls, since, seenAt>>

Operations == {"incr", "decr"}
Answers    == {"wasZero", "wasLive", "droppedToZero", "stillLive", "underflow",
               "conflict", "threw"}

TypeOK ==
  /\ so \in Refs \cup {NoRef}
  /\ seqNo \in Nat
  /\ status \in [Callers -> {"idle"} \cup Operations \cup Answers]
  /\ pc \in [Callers -> {"get", "put"}]
  /\ attempt \in [Callers -> 1..MaxRetries]
  /\ seen \in [Callers -> Refs \cup {NoRef}]
  /\ calls \in Nat
  /\ since \in [Callers -> Nat]
  /\ seenAt \in [Callers -> Nat]

Init ==
  /\ so = NoRef
  /\ seqNo = 0
  /\ status = [c \in Callers |-> "idle"]
  /\ pc = [c \in Callers |-> "get"]
  /\ attempt = [c \in Callers |-> 1]
  /\ seen = [c \in Callers |-> NoRef]
  /\ calls = 0
  /\ since = [c \in Callers |-> 0]
  /\ seenAt = [c \in Callers |-> 0]

\* What the saved object counts; a missing one counts nothing.
Count == IF so = NoRef THEN 0 ELSE so.refcount

Asking(c, p) == status[c] \in Operations /\ pc[c] = p

\* The call is over: answer a, and nothing of its loop is left.
Settle(c, a) ==
  /\ status' = [status EXCEPT ![c] = a]
  /\ pc' = [pc EXCEPT ![c] = "get"]
  /\ attempt' = [attempt EXCEPT ![c] = 1]
  /\ seen' = [seen EXCEPT ![c] = NoRef]
  /\ seenAt' = [seenAt EXCEPT ![c] = 0]

Ask(c, op) ==
  /\ status[c] = "idle"
  /\ calls < MaxCalls
  /\ calls' = calls + 1
  /\ status' = [status EXCEPT ![c] = op]
  /\ since' = [since EXCEPT ![c] = seqNo]
  /\ UNCHANGED <<so, seqNo, callVars>>

Get(c) ==
  /\ Asking(c, "get")
  /\ status[c] = "decr" => Count > 0
  /\ pc' = [pc EXCEPT ![c] = "put"]
  /\ seen' = [seen EXCEPT ![c] = so]
  /\ seenAt' = [seenAt EXCEPT ![c] = seqNo]
  /\ UNCHANGED <<so, seqNo, status, attempt, calls, since>>

\* decrementRef finds the reference missing or at zero.
GetUnderflow(c) ==
  /\ Asking(c, "get")
  /\ status[c] = "decr"
  /\ Count = 0
  /\ Settle(c, "underflow")
  /\ UNCHANGED <<so, seqNo, calls, since>>

GetThrows(c) ==
  /\ Asking(c, "get")
  /\ Settle(c, "threw")
  /\ UNCHANGED <<so, seqNo, calls, since>>

\* Mutant of Current: the update does not pass the version it read.
CurrentUnversioned(c) == seen[c] = NoRef <=> so = NoRef

\* create refuses an existing id; update refuses another version.
Current(c) ==
  IF seen[c] = NoRef THEN so = NoRef ELSE so # NoRef /\ so.version = seen[c].version

Prior(c) == IF seen[c] = NoRef THEN 0 ELSE seen[c].refcount

NextCount(c) == IF status[c] = "incr" THEN Prior(c) + 1 ELSE Prior(c) - 1

\* Mutant of Write: the marker is set from the count that was read.
WriteMarksPrior(c) ==
  /\ so' = [refcount |-> NextCount(c), version |-> seqNo + 1,
            zeroSince |-> seen[c] # NoRef /\ Prior(c) = 0]
  /\ seqNo' = seqNo + 1

\* The write: a new count, marked when it is zero.  Above zero the code passes
\* zeroSinceAt: undefined to an update that merges attributes, so a marker
\* that was there may go or stay.
Write(c) ==
  /\ \E marked \in BOOLEAN :
       /\ NextCount(c) = 0 => marked
       /\ marked => NextCount(c) = 0 \/ (seen[c] # NoRef /\ seen[c].zeroSince)
       /\ so' = [refcount |-> NextCount(c), zeroSince |-> marked, version |-> seqNo + 1]
  /\ seqNo' = seqNo + 1

\* What the call answers, from what it read.
AnswerOf(c) ==
  IF status[c] = "incr"
  THEN IF Prior(c) = 0 THEN "wasZero" ELSE "wasLive"
  ELSE IF NextCount(c) = 0 THEN "droppedToZero" ELSE "stillLive"

Put(c) ==
  /\ Asking(c, "put")
  /\ Current(c)
  /\ Write(c)
  /\ Settle(c, AnswerOf(c))
  /\ UNCHANGED <<calls, since>>

\* Mutant of PutConflicts: no limit on the attempts.
PutConflictsForever(c) ==
  /\ Asking(c, "put")
  /\ ~Current(c)
  /\ so # NoRef
  /\ pc' = [pc EXCEPT ![c] = "get"]
  /\ attempt' = [attempt EXCEPT ![c] = @ + 1]
  /\ UNCHANGED <<so, seqNo, status, seen, calls, since, seenAt>>

\* 409: read again, as long as attempts remain.
PutConflicts(c) ==
  /\ Asking(c, "put")
  /\ ~Current(c)
  /\ so # NoRef
  /\ attempt[c] < MaxRetries
  /\ pc' = [pc EXCEPT ![c] = "get"]
  /\ attempt' = [attempt EXCEPT ![c] = @ + 1]
  /\ UNCHANGED <<so, seqNo, status, seen, calls, since, seenAt>>

\* Mutant of GivesUp: one attempt early.
GivesUpEarly(c) ==
  /\ Asking(c, "put")
  /\ ~Current(c)
  /\ so # NoRef
  /\ attempt[c] >= MaxRetries - 1
  /\ Settle(c, "conflict")
  /\ UNCHANGED <<so, seqNo, calls, since>>

\* Mutant of GivesUp: the attempts run out one later than they are retried.
GivesUpLate(c) ==
  /\ Asking(c, "put")
  /\ ~Current(c)
  /\ so # NoRef
  /\ attempt[c] > MaxRetries
  /\ Settle(c, "conflict")
  /\ UNCHANGED <<so, seqNo, calls, since>>

GivesUp(c) ==
  /\ Asking(c, "put")
  /\ ~Current(c)
  /\ so # NoRef
  /\ attempt[c] = MaxRetries
  /\ Settle(c, "conflict")
  /\ UNCHANGED <<so, seqNo, calls, since>>

\* 404 on update: the reference was deleted after the read.  Not a conflict,
\* so it is thrown at once.
Vanished(c) ==
  /\ Asking(c, "put")
  /\ seen[c] # NoRef
  /\ so = NoRef
  /\ Settle(c, "threw")
  /\ UNCHANGED <<so, seqNo, calls, since>>

\* Any other error; the write may have been applied.
PutThrows(c) ==
  /\ Asking(c, "put")
  /\ \/ Current(c) /\ Write(c)
     \/ UNCHANGED <<so, seqNo>>
  /\ Settle(c, "threw")
  /\ UNCHANGED <<calls, since>>

Return(c) ==
  /\ status[c] \in Answers
  /\ status' = [status EXCEPT ![c] = "idle"]
  /\ UNCHANGED <<so, seqNo, callVars, calls, since>>

\* The reconciler deletes the saved object, without a version.
ForgetRef ==
  /\ so # NoRef
  /\ calls < MaxCalls
  /\ calls' = calls + 1
  /\ so' = NoRef
  /\ seqNo' = seqNo + 1
  /\ UNCHANGED <<status, callVars, since>>

Proceeds(c) == Get(c) \/ GetUnderflow(c) \/ Put(c) \/ PutConflicts(c) \/ GivesUp(c) \/ Vanished(c)

Next ==
  \/ \E c \in Callers :
       \/ \E op \in Operations : Ask(c, op)
       \/ Proceeds(c)
       \/ GetThrows(c) \/ PutThrows(c)
       \/ Return(c)
  \/ ForgetRef

Spec == Init /\ [][Next]_vars

\* Each await of a call in flight is answered.
FairSpec == Spec /\ \A c \in Callers : WF_vars(Proceeds(c))

-----------------------------------------------------------------------------
Atomic == INSTANCE AtomicRefCounter WITH count <- Count, call <- status

(* The read/compare-and-set loops behave as one atomic counter: no         *)
(* increment or decrement is lost or applied twice, and the wasZero and    *)
(* droppedToZero answers, computed from an earlier read, are true when the *)
(* write lands.                                                            *)
RefinesAtomic == Atomic!Spec

(* A reference at zero carries a zero marker: one without it is never      *)
(* listed as stale, and its recording group stays on the ruler for ever.   *)
MarkedWhenZero == so # NoRef /\ so.refcount = 0 => so.zeroSince

(* A call gives up with a conflict only under real contention: at least    *)
(* MaxRetries other writes landed while it ran.                            *)
ConflictMeansContention ==
  \A c \in Callers : status[c] = "conflict" => seqNo >= since[c] + MaxRetries

(* A call that is answered at every await settles: no read, conflict,      *)
(* missing reference or error that it meets leaves its caller without an   *)
(* answer.  (MaxCalls limits the conflicts too, so this is not about the   *)
(* limit on the retries; TypeOK holds the attempts to MaxRetries.)         *)
CallsSettle ==
  \A c \in Callers : status[c] \in Operations ~> status[c] \notin Operations
=============================================================================
