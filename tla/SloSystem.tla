----------------------------- MODULE SloSystem ------------------------------
(***************************************************************************)
(* Clients' requests and the reconciler over the same registry and ruler.  *)
(*                                                                         *)
(* The design's promise is that a shared recording group outlives every    *)
(* SLO that uses it and is collected once none does: requests only count,  *)
(* the reconciler only deletes what counts zero.  The two meet in the gap  *)
(* between a sweep's aggregate read and its two deletes.                   *)
(***************************************************************************)
EXTENDS SloLifecycle

CONSTANT Sweepers  \* server processes

VARIABLES
  sweep,    \* the sweep each process is running
  late,     \* history: references claimed while a sweep is deleting their group
  overrun,  \* history: references a sweep deleted although they were late
  taken     \* history: groups a sweep deleted late and nobody wrote again

Reconciler == INSTANCE SloReconciler

historyVars == <<late, overrun, taken>>
sysVars     == <<vars, sweep, historyVars>>

SysTypeOK ==
  /\ TypeOK
  /\ Reconciler!SweepTypeOK
  /\ late \in [Sweepers -> SUBSET Keys]
  /\ overrun \subseteq Keys
  /\ taken \subseteq Fps

SysInit ==
  /\ Init
  /\ Reconciler!SweepInit
  /\ late = [s \in Sweepers |-> {}]
  /\ overrun = {}
  /\ taken = {}

\* The sweep of s has read that nothing counts the group of k, and has yet to
\* finish with it.
Deletes(s, k) ==
  /\ Reconciler!At(s, "unload") \/ Reconciler!At(s, "forget")
  /\ k[2] = sweep[s].fp

\* Keeps the history: no guard reads it.
Remember ==
  /\ late' = [s \in Sweepers |->
       {k \in Keys : Deletes(s, k)' /\ (k \in late[s] \/ refcount'[k] > refcount[k])}]
  /\ overrun' = overrun \cup
       {k \in Keys : \E s \in Sweepers : k \in late[s] /\ Reconciler!ForgetRef(s, k)}
  /\ taken' = (taken \cup {f \in recGroups \ recGroups' :
       \E s \in Sweepers : sweep'[s] # sweep[s] /\ \E k \in late[s] : k[2] = f}) \ recGroups'

RequestStep ==
  /\ Next
  /\ UNCHANGED sweep
  /\ Remember

Sweep(s) ==
  /\ Reconciler!SweepStep(s)
  /\ UNCHANGED <<docs, alertGroups, req, leaked, started, faults>>
  /\ Remember

SweepGoesWrong(s) ==
  /\ Reconciler!SweepFails(s)
  /\ Fault
  /\ UNCHANGED <<docs, alertGroups, req, leaked, started>>
  /\ Remember

SysNext ==
  \/ RequestStep
  \/ \E s \in Sweepers : Sweep(s) \/ SweepGoesWrong(s)

SysSpec == SysInit /\ [][SysNext]_sysVars

\* The timer re-arms itself in a finally clause, so sweeps go on for ever and
\* each of them proceeds; the clock carries every zero mark past its grace.
Fairness ==
  /\ \A s \in Sweepers : WF_sysVars(Sweep(s))
  /\ \A k \in Keys : WF_sysVars(Age(k) /\ UNCHANGED sweep /\ Remember)

FairSysSpec == SysSpec /\ Fairness

-----------------------------------------------------------------------------
(* A saved SLO has its recording group on the ruler, or at least counts as *)
(* its user: neither the grace period nor the aggregate read makes this so,*)
(* since a claim may be made between the aggregate read and the deletes,   *)
(* and the sweep then takes both the group and the reference.              *)
UsedGroupOrReference ==
  \A i \in SloIds : \A f \in FpsOf(docs[i]) :
    f \in recGroups \/ refcount[Key(i, f)] > 0

(* The window is the only way a sweep takes a used group: when one goes,   *)
(* the reference of every saved SLO that uses it was claimed while this    *)
(* very sweep was deleting it, or had been lost to such a sweep before.    *)
GroupsTakenOnlyLate ==
  [][\A f \in recGroups \ recGroups' :
       \E s \in Sweepers :
         /\ sweep'[s] # sweep[s]
         /\ \A i \in SloIds : f \in FpsOf(docs[i]) => Key(i, f) \in late[s] \cup overrun]_sysVars

(* The references a sweep deletes by id count nothing, except one that was *)
(* claimed while this sweep was deleting its group: however old the        *)
(* listing, the aggregate read clears it of everything claimed before.     *)
ReferencesTakenOnlyLate ==
  [][\A s \in Sweepers : sweep'[s] # sweep[s] =>
       \A k \in Keys \ late[s] : refcount'[k] = refcount[k]]_sysVars

(* With sweeps going on, no reference counts more than saved SLOs, requests*)
(* and lost releases explain, and one counts less only if a sweep deleted  *)
(* it late: the requests themselves, underflowing releases and rollbacks   *)
(* included, carry an earlier loss along and never add to it.              *)
AccountsUnlessOverrun ==
  \A k \in Keys :
    LET claims == Cardinality(DocClaims(k)) + Cardinality(ReqClaims(k)) + leaked[k] IN
    refcount[k] <= claims /\ (k \in overrun \/ refcount[k] = claims)

(* While no call has failed, a recording group that a saved SLO needs is   *)
(* on the ruler or about to be written, unless a sweep has taken it, or the*)
(* SLO's reference, late: the collector undoes nothing else that the       *)
(* wasZero shortcut relies on.                                             *)
CoveredUnlessTaken ==
  faults = 0 =>
    \A i \in SloIds : \A f \in FpsOf(docs[i]) :
      \/ f \in recGroups
      \/ \E r \in Requests : At(r, "record") /\ f \in Unrecorded(r)
      \/ f \in taken
      \/ Key(i, f) \in overrun

(* A sweep during which nobody claims its group deletes it only when every *)
(* workspace's reference to it is missing or has been at zero for the      *)
(* whole grace period.                                                     *)
GraceInEveryWorkspace ==
  [][\A f \in recGroups \ recGroups' :
       (\E s \in Sweepers : sweep'[s] # sweep[s] /\ late[s] = {}) =>
         \A w \in Workspaces : refcount[<<w, f>>] = 0 => zeroMark[<<w, f>>] # "fresh"]_sysVars

(* A recording group that nobody counts is eventually deleted, or counted  *)
(* again, after any failures of the ruler, the store or a sweep, unless a  *)
(* sweep deleted a late reference to it: then nothing lists it any more.   *)
UnusedGroupsCollected ==
  \A f \in Fps :
    (f \in recGroups /\ \A w \in Workspaces : refcount[<<w, f>>] = 0)
      ~> \/ f \notin recGroups
         \/ \E w \in Workspaces : refcount[<<w, f>>] > 0 \/ <<w, f>> \in overrun
=============================================================================
