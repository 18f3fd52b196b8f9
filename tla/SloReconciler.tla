--------------------------- MODULE SloReconciler ----------------------------
(***************************************************************************)
(* The grace-period collector of shared recording groups                   *)
(* (server/services/slo/slo_reconciler.ts).                                *)
(*                                                                         *)
(* Every OSD server process runs one.  A sweep lists the references that   *)
(* have been at zero for longer than the grace period, and then, one       *)
(* recording group at a time: adds up its references in every workspace,   *)
(* deletes the group from the ruler, and deletes the references it had     *)
(* listed.  Each of these is an await, and none of them re-checks what an  *)
(* earlier one read.  References written by the current code always carry  *)
(* the directQueryName the ruler call needs, so the branch that skips a    *)
(* group for want of it is not modelled.                                   *)
(***************************************************************************)
EXTENDS Naturals

CONSTANTS
  Workspaces, Fps,
  Sweepers,        \* the server processes, one reconciler each
  Idle             \* no sweep is running

VARIABLES
  refcount, zeroMark,  \* the slo-rule-ref saved objects
  recGroups,           \* recording groups on the ruler
  sweep                \* the sweep each process is running

refVars == <<refcount, zeroMark>>

Keys == Workspaces \X Fps

Sweeps == [pc     : {"aggregate", "unload", "forget"},
           fp     : Fps,            \* the recording group being looked at
           listed : SUBSET Keys]    \* references listed and not yet dealt with

SweepTypeOK == sweep \in [Sweepers -> Sweeps \cup {Idle}]

SweepInit == sweep = [s \in Sweepers |-> Idle]

At(s, p) == sweep[s] # Idle /\ sweep[s].pc = p

Listed(s)  == {k \in sweep[s].listed : k[2] = sweep[s].fp}
Waiting(s) == {k \in sweep[s].listed : k[2] # sweep[s].fp}

\* Mutant of Advance: it takes the whole key for the fingerprint.
AdvanceByKey(s, ks) ==
  IF ks = {}
  THEN sweep' = [sweep EXCEPT ![s] = Idle]
  ELSE \E k \in ks :
         sweep' = [sweep EXCEPT ![s] = [pc |-> "aggregate", fp |-> k, listed |-> ks]]

\* Turn to one of the groups that the references in ks belong to, or finish.
Advance(s, ks) ==
  IF ks = {}
  THEN sweep' = [sweep EXCEPT ![s] = Idle]
  ELSE \E k \in ks :
         sweep' = [sweep EXCEPT ![s] = [pc |-> "aggregate", fp |-> k[2], listed |-> ks]]

\* listStaleZero; a process never runs two sweeps at once, and one that finds
\* nothing ends at once.
StaleZero == {k \in Keys : refcount[k] = 0 /\ zeroMark[k] = "stale"}

ListStale(s) ==
  /\ sweep[s] = Idle
  /\ StaleZero # {}
  /\ Advance(s, StaleZero)
  /\ UNCHANGED <<refVars, recGroups>>

\* Mutant of Aggregate: the listing is trusted, nothing is read again.
AggregateTrusting(s) ==
  /\ At(s, "aggregate")
  /\ sweep' = [sweep EXCEPT ![s].pc = "unload"]
  /\ UNCHANGED <<refVars, recGroups>>

\* Mutant of Aggregate: only the workspaces it listed are added up.
AggregateListed(s) ==
  /\ At(s, "aggregate")
  /\ IF \E k \in Listed(s) : refcount[k] > 0
     THEN Advance(s, Waiting(s))
     ELSE sweep' = [sweep EXCEPT ![s].pc = "unload"]
  /\ UNCHANGED <<refVars, recGroups>>

\* aggregateRefcount over every workspace.
Aggregate(s) ==
  /\ At(s, "aggregate")
  /\ IF \E k \in Keys : k[2] = sweep[s].fp /\ refcount[k] > 0
     THEN Advance(s, Waiting(s))
     ELSE sweep' = [sweep EXCEPT ![s].pc = "unload"]
  /\ UNCHANGED <<refVars, recGroups>>

DeleteGroup(s) ==
  /\ At(s, "unload")
  /\ recGroups' = recGroups \ {sweep[s].fp}
  /\ sweep' = [sweep EXCEPT ![s].pc = "forget"]
  /\ UNCHANGED refVars

\* Mutant of DeleteGroupFails: the references go although the group may stay.
DeleteGroupFailsOn(s) ==
  /\ At(s, "unload")
  /\ recGroups' \in {recGroups, recGroups \ {sweep[s].fp}}
  /\ sweep' = [sweep EXCEPT ![s].pc = "forget"]
  /\ UNCHANGED refVars

\* The ruler call failed: the references stay for the next sweep.
DeleteGroupFails(s) ==
  /\ At(s, "unload")
  /\ recGroups' \in {recGroups, recGroups \ {sweep[s].fp}}
  /\ Advance(s, Waiting(s))
  /\ UNCHANGED refVars

\* The rest of the sweep once reference k has been dealt with.
Forgotten(s, k) ==
  IF Listed(s) = {k}
  THEN Advance(s, Waiting(s))
  ELSE sweep' = [sweep EXCEPT ![s].listed = @ \ {k}]

\* The reference is deleted by id, whatever it holds by now.
ForgetRef(s, k) ==
  /\ At(s, "forget")
  /\ k \in Listed(s)
  /\ refcount' = [refcount EXCEPT ![k] = 0]
  /\ zeroMark' = [zeroMark EXCEPT ![k] = "none"]
  /\ Forgotten(s, k)
  /\ UNCHANGED recGroups

ForgetRefFails(s, k) ==
  /\ At(s, "forget")
  /\ k \in Listed(s)
  /\ Forgotten(s, k)
  /\ UNCHANGED <<refVars, recGroups>>

\* A sweep ends where it is: its aggregate read throws, or the process restarts.
SweepLost(s) ==
  /\ sweep[s] # Idle
  /\ sweep' = [sweep EXCEPT ![s] = Idle]
  /\ UNCHANGED <<refVars, recGroups>>

SweepStep(s) ==
  \/ ListStale(s)
  \/ Aggregate(s)
  \/ DeleteGroup(s)
  \/ \E k \in Keys : ForgetRef(s, k)

SweepFails(s) ==
  \/ DeleteGroupFails(s)
  \/ \E k \in Keys : ForgetRefFails(s, k)
  \/ SweepLost(s)
=============================================================================
