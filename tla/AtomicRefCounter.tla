-------------------------- MODULE AtomicRefCounter --------------------------
(***************************************************************************)
(* What callers of the slo-rule-ref registry rely on: every call takes     *)
(* effect at one instant, on one counter, and its answer is the truth of   *)
(* that instant.  A missing reference is a reference at zero.              *)
(***************************************************************************)
EXTENDS Naturals

CONSTANT Callers

VARIABLES
  count,  \* references held
  call    \* each caller: idle, asking, or holding an answer

Operations == {"incr", "decr"}
Answers    == {"wasZero", "wasLive", "droppedToZero", "stillLive", "underflow",
               "conflict", "threw"}

Init ==
  /\ count = 0
  /\ call = [c \in Callers |-> "idle"]

Answer(c, a) == call' = [call EXCEPT ![c] = a]

Ask(c, op) ==
  /\ call[c] = "idle"
  /\ Answer(c, op)
  /\ UNCHANGED count

Increment(c) ==
  /\ call[c] = "incr"
  /\ count' = count + 1
  /\ Answer(c, IF count = 0 THEN "wasZero" ELSE "wasLive")

Decrement(c) ==
  /\ call[c] = "decr"
  /\ count > 0
  /\ count' = count - 1
  /\ Answer(c, IF count = 1 THEN "droppedToZero" ELSE "stillLive")

Underflow(c) ==
  /\ call[c] = "decr"
  /\ count = 0
  /\ Answer(c, "underflow")
  /\ UNCHANGED count

\* Giving up under contention changes nothing.
Conflict(c) ==
  /\ call[c] \in Operations
  /\ Answer(c, "conflict")
  /\ UNCHANGED count

\* An error tells the caller nothing: the call may have taken effect, once.
Throw(c) ==
  /\ call[c] \in Operations
  /\ \/ UNCHANGED count
     \/ call[c] = "incr" /\ count' = count + 1
     \/ call[c] = "decr" /\ count > 0 /\ count' = count - 1
  /\ Answer(c, "threw")

Return(c) ==
  /\ call[c] \in Answers
  /\ Answer(c, "idle")
  /\ UNCHANGED count

\* The reconciler deletes the reference.
Forget ==
  /\ count' = 0
  /\ UNCHANGED call

Next ==
  \/ \E c \in Callers :
       \/ \E op \in Operations : Ask(c, op)
       \/ Increment(c) \/ Decrement(c) \/ Underflow(c)
       \/ Conflict(c) \/ Throw(c) \/ Return(c)
  \/ Forget

Spec == Init /\ [][Next]_<<count, call>>
=============================================================================
