-------------------------- MODULE SloSystemProofs ---------------------------
(***************************************************************************)
(* Proofs about SloSystem, for any SLOs, workspaces, fingerprints,         *)
(* requests and server processes.                                          *)
(*                                                                         *)
(* Nothing is assumed of when sweeps run: a reference may be claimed while *)
(* a sweep is deleting its group, and the code loses it then.  What is     *)
(* proved is that this is the one way to lose anything.  Whatever counts   *)
(* on a group on its way out was claimed late (OnlyLateCounts), so a sweep *)
(* deletes only what was claimed late.  Requests move each count as they   *)
(* move its claims even where a sweep has spoilt the count                 *)
(* (SloLifecycleProofs), so everything else stays exact.                   *)
(***************************************************************************)
EXTENDS SloSystem, SloRulerProofs

-----------------------------------------------------------------------------
(* The sweeps' own invariant.                                              *)

Deleting(s) == Reconciler!At(s, "unload") \/ Reconciler!At(s, "forget")

OnlyLateCounts ==
  \A s \in Sweepers : Deleting(s) =>
    \A k \in Keys : k[2] = sweep[s].fp /\ refcount[k] > 0 => k \in late[s]

SweepInv == SysTypeOK /\ OnlyLateCounts

(* Both modules speak of the same keys.                                    *)
LEMMA SameKeys == Reconciler!Keys = Keys
BY DEF Reconciler!Keys, Keys

(* A sweep under way is looking at a group, and has references listed.     *)
LEMMA SweepType ==
  ASSUME SysTypeOK, NEW s \in Sweepers, sweep[s] # Idle
  PROVE  /\ sweep[s] \in Reconciler!Sweeps
         /\ sweep[s].fp \in Fps /\ sweep[s].listed \subseteq Keys
         /\ sweep[s].pc \in {"aggregate", "unload", "forget"}
BY SameKeys DEF SysTypeOK, Reconciler!SweepTypeOK, Reconciler!Sweeps

(* Turning to the next group keeps the sweeps typed, and is no deletion.   *)
LEMMA AdvanceType ==
  ASSUME SysTypeOK, NEW s \in Sweepers, NEW ks \in SUBSET Keys, Reconciler!Advance(s, ks)
  PROVE  /\ sweep' \in [Sweepers -> Reconciler!Sweeps \cup {Idle}]
         /\ \A t \in Sweepers \ {s} : sweep'[t] = sweep[t]
         /\ sweep'[s] = Idle \/ sweep'[s].pc = "aggregate"
<1>1. sweep \in [Sweepers -> Reconciler!Sweeps \cup {Idle}]
  BY DEF SysTypeOK, Reconciler!SweepTypeOK
<1>2. ASSUME NEW k \in ks
      PROVE  [pc |-> "aggregate", fp |-> k[2], listed |-> ks] \in Reconciler!Sweeps
  BY SameKeys DEF Reconciler!Sweeps, Keys
<1>3. CASE sweep' = [sweep EXCEPT ![s] = Idle]
  BY <1>1, <1>3
<1>4. ASSUME NEW k \in ks,
             sweep' = [sweep EXCEPT ![s] = [pc |-> "aggregate", fp |-> k[2], listed |-> ks]]
      PROVE  /\ sweep' \in [Sweepers -> Reconciler!Sweeps \cup {Idle}]
             /\ \A t \in Sweepers \ {s} : sweep'[t] = sweep[t]
             /\ sweep'[s].pc = "aggregate"
  BY <1>1, <1>2, <1>4
<1> QED BY <1>3, <1>4 DEF Reconciler!Advance

(* A sweep under way goes on at another await, with fewer references.      *)
LEMMA StaysType ==
  ASSUME SysTypeOK, NEW s \in Sweepers, sweep[s] # Idle
  PROVE  /\ \A p \in {"aggregate", "unload", "forget"} :
              sweep' = [sweep EXCEPT ![s].pc = p] =>
                /\ sweep' \in [Sweepers -> Reconciler!Sweeps \cup {Idle}]
                /\ \A t \in Sweepers \ {s} : sweep'[t] = sweep[t]
                /\ sweep'[s].pc = p /\ sweep'[s].fp = sweep[s].fp
         /\ \A k :
              sweep' = [sweep EXCEPT ![s].listed = @ \ {k}] =>
                /\ sweep' \in [Sweepers -> Reconciler!Sweeps \cup {Idle}]
                /\ \A t \in Sweepers \ {s} : sweep'[t] = sweep[t]
                /\ sweep'[s].pc = sweep[s].pc /\ sweep'[s].fp = sweep[s].fp
BY SweepType DEF SysTypeOK, Reconciler!SweepTypeOK, Reconciler!Sweeps

-----------------------------------------------------------------------------
(* What a step of a sweep does.                                            *)

(* It counts nothing anew: it leaves the counts alone, or deletes one that *)
(* it had listed of its group; it deletes its group or none; and it comes  *)
(* to delete a group only where nothing is counted.                        *)
Harmless(s) ==
  /\ \A t \in Sweepers \ {s} : sweep'[t] = sweep[t]
  /\ \/ UNCHANGED refVars
     \/ \E k \in Keys : /\ Reconciler!At(s, "forget") /\ k[2] = sweep[s].fp
                        /\ refcount' = [refcount EXCEPT ![k] = 0]
                        /\ zeroMark' = [zeroMark EXCEPT ![k] = "none"]
                        /\ Reconciler!ForgetRef(s, k)
  /\ \/ UNCHANGED recGroups
     \/ /\ Reconciler!At(s, "unload") /\ recGroups' = recGroups \ {sweep[s].fp}
        /\ ~Reconciler!At(s, "unload")'
  /\ Deleting(s)' => /\ sweep[s] # Idle /\ sweep'[s].fp = sweep[s].fp
                     /\ \/ Deleting(s)
                        \/ \A k \in Keys : k[2] = sweep[s].fp => ~(refcount[k] > 0)
  /\ sweep' \in [Sweepers -> Reconciler!Sweeps \cup {Idle}]

(* A step of a sweep touches at most what its stage may: one counter at    *)
(* forget, one recording group at unload, and no other sweep.              *)
LEMMA SweepHarmless ==
  ASSUME SysTypeOK, NEW s \in Sweepers, Reconciler!SweepStep(s) \/ Reconciler!SweepFails(s)
  PROVE  Harmless(s)
<1> USE DEF refVars, Reconciler!refVars
<1>1. CASE Reconciler!ListStale(s)
  <2>1. Reconciler!StaleZero \in SUBSET Keys
    BY SameKeys DEF Reconciler!StaleZero
  <2> QED BY <1>1, <2>1, AdvanceType DEF Reconciler!ListStale, Harmless, Deleting, Reconciler!At
<1>a. sweep[s] # Idle => Reconciler!Waiting(s) \in SUBSET Keys
  BY SweepType DEF Reconciler!Waiting
<1>2. CASE Reconciler!Aggregate(s)
  <2>1. sweep[s] # Idle /\ UNCHANGED <<refcount, zeroMark, recGroups>>
    BY <1>2 DEF Reconciler!Aggregate, Reconciler!At
  <2>2. CASE Reconciler!Advance(s, Reconciler!Waiting(s))
    BY <1>a, <2>1, <2>2, AdvanceType DEF Harmless, Deleting, Reconciler!At
  <2>3. CASE /\ ~\E k \in Reconciler!Keys : k[2] = sweep[s].fp /\ refcount[k] > 0
             /\ sweep' = [sweep EXCEPT ![s].pc = "unload"]
    BY <2>1, <2>3, SameKeys, StaysType DEF Harmless, Deleting
  <2> QED BY <1>2, <2>2, <2>3 DEF Reconciler!Aggregate
<1>3. CASE Reconciler!DeleteGroup(s)
  BY <1>3, StaysType DEF Reconciler!DeleteGroup, Harmless, Deleting, Reconciler!At
<1>b. ASSUME NEW k, Reconciler!At(s, "forget"), Reconciler!Forgotten(s, k)
      PROVE  /\ sweep' \in [Sweepers -> Reconciler!Sweeps \cup {Idle}]
             /\ \A t \in Sweepers \ {s} : sweep'[t] = sweep[t]
             /\ Deleting(s)' => sweep'[s].fp = sweep[s].fp
  BY <1>a, <1>b, AdvanceType, StaysType DEF Reconciler!Forgotten, Deleting, Reconciler!At
<1>4. ASSUME NEW k \in Reconciler!Keys, Reconciler!ForgetRef(s, k) PROVE Harmless(s)
  <2>1. k \in Keys /\ k[2] = sweep[s].fp /\ Reconciler!At(s, "forget") /\ sweep[s] # Idle
    BY <1>4, SameKeys DEF Reconciler!ForgetRef, Reconciler!Listed, Reconciler!At
  <2> QED BY <1>b, <1>4, <2>1 DEF Reconciler!ForgetRef, Harmless, Deleting
<1>5. CASE Reconciler!DeleteGroupFails(s)
  <2>1. sweep[s] # Idle
    BY <1>5 DEF Reconciler!DeleteGroupFails, Reconciler!At
  <2> QED BY <1>5, <1>a, <2>1, AdvanceType
          DEF Reconciler!DeleteGroupFails, Harmless, Deleting, Reconciler!At
<1>6. ASSUME NEW k \in Reconciler!Keys, Reconciler!ForgetRefFails(s, k) PROVE Harmless(s)
  <2>1. Reconciler!At(s, "forget") /\ sweep[s] # Idle
    BY <1>6 DEF Reconciler!ForgetRefFails, Reconciler!At
  <2> QED BY <1>b, <1>6, <2>1 DEF Reconciler!ForgetRefFails, Harmless, Deleting
<1>7. CASE Reconciler!SweepLost(s)
  BY <1>7 DEF Reconciler!SweepLost, Harmless, Deleting, Reconciler!At, SysTypeOK,
     Reconciler!SweepTypeOK
<1> QED BY <1>1, <1>2, <1>3, <1>4, <1>5, <1>6, <1>7
        DEF Reconciler!SweepStep, Reconciler!SweepFails

\* A step of the sweep of s in the system, whether it goes well or not.
Sweeping(s) == Sweep(s) \/ SweepGoesWrong(s)

(* What is remembered is typed as long as the stores are.                  *)
LEMMA RememberType ==
  ASSUME SysTypeOK, Remember
  PROVE  /\ late' \in [Sweepers -> SUBSET Keys]
         /\ overrun' \subseteq Keys
         /\ recGroups' \subseteq Fps => taken' \subseteq Fps
BY DEF Remember, SysTypeOK, TypeOK

(* A sweep keeps the types of everything it shares.                        *)
LEMMA SweepKeepsTypes ==
  ASSUME SysTypeOK, NEW s \in Sweepers, Sweeping(s)
  PROVE  /\ SysTypeOK' /\ Harmless(s) /\ Remember
         /\ UNCHANGED <<docs, alertGroups, req, leaked, started>>
<1>1. Harmless(s) /\ Remember /\ UNCHANGED <<docs, alertGroups, req, leaked, started>>
  BY SweepHarmless DEF Sweeping, Sweep, SweepGoesWrong
<1>2. faults' \in 0..MaxFaults
  BY LifecycleAssumption DEF Sweeping, Sweep, SweepGoesWrong, Fault, SysTypeOK, TypeOK
<1>3. /\ refcount' \in [Keys -> Nat] /\ zeroMark' \in [Keys -> {"none", "fresh", "stale"}]
      /\ recGroups' \subseteq Fps
  BY <1>1 DEF Harmless, SysTypeOK, TypeOK, refVars
<1>4. sweep' \in [Sweepers -> Reconciler!Sweeps \cup {Idle}]
  BY <1>1 DEF Harmless
<1>5. TypeOK'
  BY <1>1, <1>2, <1>3 DEF SysTypeOK, TypeOK
<1> QED BY <1>1, <1>3, <1>4, <1>5, RememberType DEF SysTypeOK, Reconciler!SweepTypeOK

(* Every step of the system keeps the types.                               *)
LEMMA SysTypeStep == SysTypeOK /\ [SysNext]_sysVars => SysTypeOK'
<1> SUFFICES ASSUME SysTypeOK, [SysNext]_sysVars PROVE SysTypeOK'
  OBVIOUS
<1>1. ASSUME RequestStep PROVE SysTypeOK'
  <2>1. TypeOK'
    BY <1>1, TypeStep DEF RequestStep, SysTypeOK
  <2>2. recGroups' \subseteq Fps
    BY <2>1 DEF TypeOK
  <2> QED BY <1>1, <2>1, <2>2, RememberType DEF RequestStep, SysTypeOK, Reconciler!SweepTypeOK
<1>2. ASSUME NEW s \in Sweepers, Sweeping(s) PROVE SysTypeOK'
  BY <1>2, SweepKeepsTypes
<1>3. CASE UNCHANGED sysVars
  <2>1. TypeOK'
    BY <1>3, TypeStep DEF sysVars, SysTypeOK
  <2> QED BY <1>3, <2>1 DEF sysVars, historyVars, SysTypeOK, Reconciler!SweepTypeOK
<1> QED BY <1>1, <1>2, <1>3 DEF SysNext, Sweeping

(* The initial state is typed.                                             *)
LEMMA InitSysType == SysInit => SysTypeOK
BY InitTypeOK DEF SysInit, SysTypeOK, Reconciler!SweepInit, Reconciler!SweepTypeOK

(* Types hold of requests and sweeps together, on every interleaving and   *)
(* every failure, whether or not clients or sweeps keep out of each        *)
(* other's way: a sweep shares the registry and the ruler with the         *)
(* requests and leaves both well formed.                                   *)
THEOREM SystemTypeCorrect == SysSpec => []SysTypeOK
BY InitSysType, SysTypeStep, PTL DEF SysSpec

-----------------------------------------------------------------------------
(* What a sweep may delete.                                                *)

(* Nobody is sweeping at first.                                            *)
LEMMA InitSweepInv == SysInit => SweepInv
<1>1. SysInit => OnlyLateCounts
  BY DEF SysInit, Reconciler!SweepInit, OnlyLateCounts, Deleting, Reconciler!At
<1> QED BY <1>1, InitSysType DEF SweepInv

(* What counts on a group that is still on its way out, and counted before *)
(* late or not at all, is late.                                            *)
LEMMA RememberLate ==
  ASSUME SysTypeOK, SysTypeOK', Remember, NEW s \in Sweepers, Deleting(s)',
         NEW k \in Keys, k[2] = sweep'[s].fp, refcount'[k] > 0,
         refcount[k] > 0 => k \in late[s] \/ refcount'[k] > refcount[k]
  PROVE  k \in late'[s]
<1>1. Deletes(s, k)'
  BY DEF Deletes, Deleting
<1>2. refcount[k] \in Nat /\ refcount'[k] \in Nat
  BY DEF SysTypeOK, TypeOK
<1>3. k \in late[s] \/ refcount'[k] > refcount[k]
  BY <1>2
<1> QED BY <1>1, <1>3 DEF Remember

(* A request makes late what it claims of a group on its way out.          *)
LEMMA RequestSweepInv ==
  ASSUME SweepInv, RequestStep
  PROVE  SweepInv'
<1>1. SysTypeOK' /\ Remember /\ sweep' = sweep
  BY SysTypeStep DEF SweepInv, SysNext, RequestStep
<1>2. ASSUME NEW s \in Sweepers, Deleting(s)', NEW k \in Keys, k[2] = sweep'[s].fp,
             refcount'[k] > 0
      PROVE  k \in late'[s]
  <2>1. Deleting(s) /\ k[2] = sweep[s].fp
    BY <1>1, <1>2 DEF Deleting, Reconciler!At
  <2>2. refcount[k] > 0 => k \in late[s]
    BY <1>2, <2>1 DEF SweepInv, OnlyLateCounts
  <2> QED BY <1>1, <1>2, <2>2, RememberLate DEF SweepInv
<1> QED BY <1>1, <1>2 DEF SweepInv, OnlyLateCounts

(* A sweep counts nothing anew.                                            *)
LEMMA SweepCounts ==
  ASSUME SysTypeOK, NEW s \in Sweepers, Harmless(s), NEW k \in Keys
  PROVE  \/ refcount'[k] = refcount[k]
         \/ /\ refcount'[k] = 0 /\ Reconciler!ForgetRef(s, k)
            /\ Deleting(s) /\ k[2] = sweep[s].fp
BY DEF Harmless, refVars, Deleting, SysTypeOK, TypeOK

(* A sweep that turns to deleting has just read that nothing is counted.   *)
LEMMA SweepingSweepInv ==
  ASSUME SweepInv, NEW s \in Sweepers, Sweeping(s)
  PROVE  SweepInv'
<1>1. SysTypeOK' /\ Harmless(s) /\ Remember
  BY SweepKeepsTypes DEF SweepInv
<1>2. ASSUME NEW t \in Sweepers, Deleting(t)', NEW k \in Keys, k[2] = sweep'[t].fp,
             refcount'[k] > 0
      PROVE  k \in late'[t]
  <2>1. refcount[k] > 0
    BY <1>1, <1>2, SweepCounts DEF SweepInv
  <2>2. CASE t = s
    <3>1. k[2] = sweep[s].fp /\ Deleting(s)
      BY <1>1, <1>2, <2>1, <2>2 DEF Harmless
    <3>2. k \in late[t]
      BY <2>1, <2>2, <3>1 DEF SweepInv, OnlyLateCounts
    <3> QED BY <1>1, <1>2, <3>2, RememberLate DEF SweepInv
  <2>3. CASE t # s
    <3>1. sweep'[t] = sweep[t]
      BY <1>1, <2>3 DEF Harmless
    <3>2. Deleting(t) /\ k[2] = sweep[t].fp
      BY <1>2, <3>1 DEF Deleting, Reconciler!At
    <3>3. k \in late[t]
      BY <2>1, <3>2 DEF SweepInv, OnlyLateCounts
    <3> QED BY <1>1, <1>2, <3>3, RememberLate DEF SweepInv
  <2> QED BY <2>2, <2>3
<1> QED BY <1>1, <1>2 DEF SweepInv, OnlyLateCounts

(* Every step keeps it.                                                    *)
LEMMA StepSweepInv == SweepInv /\ [SysNext]_sysVars => SweepInv'
<1> SUFFICES ASSUME SweepInv, [SysNext]_sysVars PROVE SweepInv'
  OBVIOUS
<1>1. ASSUME RequestStep PROVE SweepInv'
  BY <1>1, RequestSweepInv
<1>2. ASSUME NEW s \in Sweepers, Sweeping(s) PROVE SweepInv'
  BY <1>2, SweepingSweepInv
<1>3. CASE UNCHANGED sysVars
  <2>1. sweep' = sweep /\ refcount' = refcount /\ late' = late
    BY <1>3 DEF sysVars, vars, historyVars
  <2>2. SysTypeOK'
    BY <1>3, SysTypeStep DEF SweepInv
  <2> QED BY <2>1, <2>2 DEF SweepInv, OnlyLateCounts, Deleting, Reconciler!At
<1> QED BY <1>1, <1>2, <1>3 DEF SysNext, Sweeping

(* A sweep changes no count but that of a reference claimed late.          *)
LEMMA SweepTakesLate ==
  ASSUME SweepInv, NEW s \in Sweepers, Sweeping(s), NEW k \in Keys, k \notin late[s]
  PROVE  refcount'[k] = refcount[k]
<1>1. Harmless(s)
  BY SweepKeepsTypes DEF SweepInv
<1>2. CASE refcount'[k] = 0 /\ Deleting(s) /\ k[2] = sweep[s].fp
  <2>1. ~(refcount[k] > 0)
    BY <1>2 DEF SweepInv, OnlyLateCounts
  <2>2. refcount[k] \in Nat
    BY DEF SweepInv, SysTypeOK, TypeOK
  <2> QED BY <1>2, <2>1, <2>2
<1> QED BY <1>1, <1>2, SweepCounts DEF SweepInv

(* On every interleaving of requests, of any number of sweeps, of failures *)
(* and restarts, the reference that a sweep deletes by id counts nothing,  *)
(* unless it was claimed after the sweep's own aggregate read: no age of   *)
(* the listing, no other workspace and no other server's sweep makes it    *)
(* lose one.                                                               *)
THEOREM LateReferencesOnly == SysSpec => ReferencesTakenOnlyLate
<1>1. ASSUME SweepInv, [SysNext]_sysVars
      PROVE  [\A s \in Sweepers : sweep'[s] # sweep[s] =>
                \A k \in Keys \ late[s] : refcount'[k] = refcount[k]]_sysVars
  <2>1. ASSUME NEW t \in Sweepers, Sweeping(t), NEW s \in Sweepers, sweep'[s] # sweep[s],
               NEW k \in Keys \ late[s]
        PROVE  refcount'[k] = refcount[k]
    <3>1. s = t
      BY <1>1, <2>1, SweepKeepsTypes DEF SweepInv, Harmless
    <3> QED BY <1>1, <2>1, <3>1, SweepTakesLate
  <2>2. CASE RequestStep
    BY <2>2 DEF RequestStep
  <2> QED BY <1>1, <2>1, <2>2 DEF SysNext, Sweeping
<1> QED BY InitSweepInv, StepSweepInv, <1>1, PTL DEF SysSpec, ReferencesTakenOnlyLate

-----------------------------------------------------------------------------
(* Requests and sweeps together.                                           *)

\* The requests are as they should be, counts are exact where no sweep has
\* deleted a late reference, and no sweep deletes any other.
SysIInv == JobInv /\ AccountsUnlessOverrun /\ SweepInv

(* One count and its claims, by name.                                      *)
LEMMA AccountOf ==
  AccountsUnlessOverrun <=>
    \A k \in Keys : refcount[k] <= Claims(k) /\ (k \in overrun \/ refcount[k] = Claims(k))
BY DEF AccountsUnlessOverrun, Claims

(* A step that keeps jobs and balances counts keeps the account.           *)
LEMMA BalancedAccounts ==
  ASSUME TypeOK, TypeOK', AccountsUnlessOverrun, Balanced, overrun \subseteq overrun'
  PROVE  AccountsUnlessOverrun'
<1> SUFFICES ASSUME NEW k \in Keys
             PROVE  /\ refcount'[k] <= Claims(k)'
                    /\ k \in overrun' \/ refcount'[k] = Claims(k)'
  BY DEF AccountsUnlessOverrun, Claims
<1>1. /\ Claims(k) \in Nat /\ refcount[k] \in Nat
      /\ Claims(k)' \in Nat /\ refcount'[k] \in Nat
  BY ClaimsType, ClaimsTypeNext
<1>2. refcount[k] <= Claims(k) /\ (k \in overrun \/ refcount[k] = Claims(k))
  BY AccountOf
<1>3. CASE Claims(k)' + refcount[k] = Claims(k) + refcount'[k]
  <2>1. /\ refcount'[k] <= Claims(k)'
        /\ refcount[k] = Claims(k) => refcount'[k] = Claims(k)'
    BY <1>1, <1>2, <1>3
  <2> QED BY <1>2, <2>1
<1>4. CASE Underflows(k)
  <2>1. refcount'[k] <= Claims(k)' /\ refcount[k] # Claims(k)
    BY <1>1, <1>4 DEF Underflows
  <2> QED BY <1>2, <2>1
<1> QED BY <1>3, <1>4 DEF Balanced

(* A sweep spoils only the count of a reference it deletes late.           *)
LEMMA SweepAccounts ==
  ASSUME SysIInv, NEW s \in Sweepers, Sweeping(s)
  PROVE  SysIInv'
<1>1. /\ SysTypeOK' /\ Harmless(s) /\ Remember /\ UNCHANGED <<docs, req, leaked>>
      /\ SweepInv'
  BY SweepKeepsTypes, SweepingSweepInv DEF SysIInv, SweepInv
<1>2. JobInv' /\ \A k \in Keys : Claims(k)' = Claims(k)
  BY <1>1, JobsStay DEF SysIInv, SysTypeOK
<1>3. ASSUME NEW k \in Keys
      PROVE  /\ refcount'[k] <= Claims(k)'
             /\ k \in overrun' \/ refcount'[k] = Claims(k)'
  <2>1. refcount[k] <= Claims(k) /\ (k \in overrun \/ refcount[k] = Claims(k))
    BY AccountOf DEF SysIInv
  <2>2. Claims(k)' = Claims(k) /\ overrun \subseteq overrun'
    BY <1>1, <1>2 DEF Remember
  <2>3. CASE refcount'[k] = refcount[k]
    BY <2>1, <2>2, <2>3
  <2>4. CASE refcount'[k] # refcount[k]
    <3>1. refcount'[k] = 0 /\ Reconciler!ForgetRef(s, k) /\ k \in late[s]
      BY <1>1, <2>4, SweepCounts, SweepTakesLate DEF SysIInv, SweepInv
    <3>2. k \in overrun'
      BY <1>1, <3>1 DEF Remember
    <3>3. Claims(k)' \in Nat
      BY <1>1, ClaimsTypeNext DEF SysTypeOK
    <3> QED BY <3>1, <3>2, <3>3
  <2> QED BY <2>3, <2>4
<1>4. AccountsUnlessOverrun'
  BY <1>3 DEF AccountsUnlessOverrun, Claims
<1> QED BY <1>1, <1>2, <1>4 DEF SysIInv

(* Sweeps or not, the account is inductive when clients do not overlap     *)
(* writes of one SLO and a save that throws was not applied.               *)
LEMMA SysIInvHolds ==
  ASSUME SerialWrites, ~LostSaves
  PROVE  /\ SysInit => SysIInv
         /\ SysIInv /\ [SysNext]_sysVars => SysIInv'
<1>1. SysInit => SysIInv
  <2>1. SysInit => IInv /\ SweepInv
    BY InitIInv, InitSweepInv DEF SysInit
  <2>2. IInv => JobInv /\ \A k \in Keys : refcount[k] = Claims(k)
    BY DEF IInv, ExactAccounting, Claims
  <2>3. JobInv => \A k \in Keys : refcount[k] \in Nat
    BY DEF JobInv, TypeOK
  <2>4. IInv => AccountsUnlessOverrun
    BY <2>2, <2>3, AccountOf
  <2> QED BY <2>1, <2>2, <2>4 DEF SysIInv
<1>2. ASSUME SysIInv, [Next]_vars, overrun \subseteq overrun', SweepInv' PROVE SysIInv'
  <2>1. JobInv' /\ Balanced
    BY <1>2, StepKeeps DEF SysIInv, Keeps
  <2>2. AccountsUnlessOverrun'
    BY <1>2, <2>1, BalancedAccounts DEF SysIInv, JobInv
  <2> QED BY <1>2, <2>1, <2>2 DEF SysIInv
<1>3. ASSUME SysIInv, [SysNext]_sysVars PROVE SysIInv'
  <2>1. SweepInv'
    BY <1>3, StepSweepInv DEF SysIInv
  <2>2. ASSUME NEW s \in Sweepers, Sweeping(s) PROVE SysIInv'
    BY <1>3, <2>2, SweepAccounts
  <2>3. CASE RequestStep
    BY <1>2, <1>3, <2>1, <2>3 DEF RequestStep, Remember
  <2>4. CASE UNCHANGED sysVars
    BY <1>2, <1>3, <2>1, <2>4 DEF sysVars, historyVars
  <2> QED BY <1>3, <2>2, <2>3, <2>4 DEF SysNext, Sweeping
<1> QED BY <1>1, <1>3

(* With any number of processes sweeping at any time, a count is wrong     *)
(* only because a sweep deleted that very reference after it was claimed   *)
(* late.  Every other count is exact, none is ever too high, and requests  *)
(* that meet a spoilt count do not make it worse.                          *)
THEOREM CountsWrongOnlyWhenOverrun ==
  ASSUME SerialWrites, ~LostSaves
  PROVE  SysSpec => []AccountsUnlessOverrun
<1>1. SysIInv => AccountsUnlessOverrun
  BY DEF SysIInv
<1> QED BY SysIInvHolds, <1>1, PTL DEF SysSpec

(* A saved SLO counts, unless a sweep deleted its reference late.          *)
LEMMA SavedCounts ==
  ASSUME SysIInv, NEW i \in SloIds, NEW f \in FpsOf(docs[i]), Key(i, f) \notin overrun
  PROVE  /\ f \in Fps /\ Key(i, f) \in Keys /\ Key(i, f)[2] = f
         /\ refcount[Key(i, f)] > 0
<1> DEFINE k == Key(i, f)
<1>1. TypeOK
  BY DEF SysIInv, JobInv
<1>2. /\ f \in Fps /\ k \in Keys /\ k[2] = f
      /\ refcount[k] >= Cardinality(DocClaims(k)) => refcount[k] > 0
  BY <1>1, SavedIsCounted
<1>3. k \notin overrun
  OBVIOUS
<1> HIDE DEF k
<1>4. refcount[k] = Claims(k)
  BY <1>2, <1>3, AccountOf DEF SysIInv
<1>5. /\ Cardinality(DocClaims(k)) \in Nat /\ Cardinality(ReqClaims(k)) \in Nat
      /\ leaked[k] \in Nat
  BY <1>1, <1>2, ClaimsFinite DEF TypeOK
<1>6. refcount[k] >= Cardinality(DocClaims(k))
  BY <1>4, <1>5 DEF Claims
<1> QED BY <1>2, <1>6 DEF k

(* No request takes a recording group off the ruler.                       *)
LEMMA RequestsAddGroups ==
  ASSUME [Next]_vars
  PROVE  recGroups \subseteq recGroups'
<1> USE DEF rulerVars
<1>1. ASSUME NEW r \in Requests, Starts(r) PROVE recGroups' = recGroups
  BY <1>1 DEF Starts, BeginCreate, BeginUpdate, BeginDelete, BeginRepair, Begin
<1>2. ASSUME NEW r \in Requests, Proceeds(r) PROVE recGroups \subseteq recGroups'
  BY <1>2 DEF Proceeds, CheckName, Claim, Release, ReplayRecording, UpsertRecording,
     UpsertAlert, Save, DeleteOwnAlert, DeleteAlert, DeleteDoc, Probe, ReplayAlert
<1>3. ASSUME NEW r \in Requests, Fails(r) PROVE recGroups \subseteq recGroups'
  BY <1>3 DEF Fails, ClaimFails, ReleaseFails, UpsertRecordingFails, UpsertAlertFails,
     SaveFails, DeleteOwnAlertFails, DeleteAlertFails, DeleteDocFails, RepairFails
<1> QED BY <1>1, <1>2, <1>3 DEF Next, Age, Crash, vars

(* A group that a sweep takes is its own, at the ruler call, which it then *)
(* leaves; whatever counts on the group was claimed late.                  *)
LEMMA GroupsSweepTakes ==
  ASSUME SweepInv, NEW s \in Sweepers, Sweeping(s), NEW f \in recGroups \ recGroups'
  PROVE  /\ sweep'[s] # sweep[s]
         /\ \A k \in Keys : k[2] = f /\ refcount[k] > 0 => k \in late[s]
<1>1. Harmless(s)
  BY SweepKeepsTypes DEF SweepInv
<1>2. Reconciler!At(s, "unload") /\ f = sweep[s].fp /\ ~Reconciler!At(s, "unload")'
  BY <1>1 DEF Harmless
<1>3. sweep'[s] # sweep[s]
  BY <1>2 DEF Reconciler!At
<1> QED BY <1>2, <1>3 DEF SweepInv, OnlyLateCounts, Deleting

(* A used recording group leaves the ruler in one way only: by a sweep     *)
(* after whose aggregate read the reference of every saved SLO that uses   *)
(* the group was claimed, or had been lost to such a sweep before.  The    *)
(* grace period, other workspaces, other sweeps, failures, rollbacks and   *)
(* restarts open no other.                                                 *)
THEOREM GroupsTakenLate ==
  ASSUME SerialWrites, ~LostSaves
  PROVE  SysSpec => GroupsTakenOnlyLate
<1>1. ASSUME SysIInv, [SysNext]_sysVars
      PROVE  [\A f \in recGroups \ recGroups' :
                \E s \in Sweepers :
                  /\ sweep'[s] # sweep[s]
                  /\ \A i \in SloIds :
                       f \in FpsOf(docs[i]) => Key(i, f) \in late[s] \cup overrun]_sysVars
  <2>1. ASSUME [Next]_vars PROVE recGroups \subseteq recGroups'
    BY <2>1, RequestsAddGroups
  <2>2. ASSUME NEW s \in Sweepers, Sweeping(s), NEW f \in recGroups \ recGroups'
        PROVE  /\ sweep'[s] # sweep[s]
               /\ \A i \in SloIds :
                    f \in FpsOf(docs[i]) => Key(i, f) \in late[s] \cup overrun
    <3>1. /\ sweep'[s] # sweep[s]
          /\ \A k \in Keys : k[2] = f /\ refcount[k] > 0 => k \in late[s]
      BY <1>1, <2>2, GroupsSweepTakes DEF SysIInv
    <3>2. ASSUME NEW i \in SloIds, f \in FpsOf(docs[i]), Key(i, f) \notin overrun
          PROVE  Key(i, f) \in late[s]
      BY <1>1, <3>1, <3>2, SavedCounts
    <3> QED BY <3>1, <3>2
  <2> QED BY <1>1, <2>1, <2>2 DEF SysNext, RequestStep, Sweeping
<1> QED BY SysIInvHolds, <1>1, PTL DEF SysSpec, GroupsTakenOnlyLate

\* What counts is recorded, or a sweep took its group late.
RecordedUnlessTaken == \A k \in Keys : KeyRecorded(k) \/ k[2] \in taken

(* A group that was taken late stays so until it is written again.         *)
LEMMA TakenStays ==
  ASSUME Remember, NEW f \in taken, f \notin taken'
  PROVE  f \in recGroups'
BY DEF Remember

(* A request keeps every counter recorded or taken.                        *)
LEMMA RequestKeepsRecorded ==
  ASSUME TypeOK, RecordedUnlessTaken, RequestStep
  PROVE  RecordedUnlessTaken'
<1> SUFFICES ASSUME NEW k \in Keys, k[2] \notin taken' PROVE KeyRecorded(k)'
  BY DEF RecordedUnlessTaken
<1>1. [Next]_vars /\ Remember
  BY DEF RequestStep
<1>2. CASE KeyRecorded(k)
  BY <1>1, <1>2, StepKeyRecorded
<1>3. CASE k[2] \in taken
  <2>1. k[2] \in recGroups'
    BY <1>1, <1>3, TakenStays
  <2> QED BY <2>1 DEF KeyRecorded, Recorded
<1> QED BY <1>2, <1>3 DEF RecordedUnlessTaken

(* So does a sweep: the group of what counts it takes only late.           *)
LEMMA SweepKeepsRecorded ==
  ASSUME SweepInv, RecordedUnlessTaken, NEW s \in Sweepers, Sweeping(s)
  PROVE  RecordedUnlessTaken'
<1>1. Harmless(s) /\ Remember /\ UNCHANGED req
  BY SweepKeepsTypes DEF SweepInv
<1>2. faults' = 0 => faults = 0
  BY FaultCounts DEF Sweeping, Sweep, SweepGoesWrong, SweepInv, SysTypeOK
<1> SUFFICES ASSUME NEW k \in Keys, k[2] \notin taken', faults' = 0, refcount'[k] > 0
             PROVE  Recorded(k[2])'
  BY DEF RecordedUnlessTaken, KeyRecorded
<1>3. refcount[k] > 0
  BY <1>1, SweepCounts DEF SweepInv
<1>4. CASE k[2] \in taken
  BY <1>1, <1>4, TakenStays DEF Recorded
<1>5. CASE KeyRecorded(k)
  <2>1. Recorded(k[2])
    BY <1>2, <1>3, <1>5 DEF KeyRecorded
  <2>2. ASSUME k[2] \in recGroups, k[2] \notin recGroups' PROVE FALSE
    <3>1. sweep'[s] # sweep[s] /\ k \in late[s]
      BY <1>3, <2>2, GroupsSweepTakes
    <3> QED BY <1>1, <2>2, <3>1 DEF Remember
  <2> QED BY <1>1, <2>1, <2>2 DEF Recorded, At, Unrecorded
<1> QED BY <1>4, <1>5 DEF RecordedUnlessTaken

(* While no call has failed, and however many processes sweep, a recording *)
(* group that a saved SLO needs is on the ruler or about to be written,    *)
(* unless a sweep took it, or the SLO's reference, late: nothing else the  *)
(* reconciler does defeats the wasZero shortcut.                           *)
THEOREM CoverageUnlessTaken ==
  ASSUME SerialWrites, ~LostSaves
  PROVE  SysSpec => []CoveredUnlessTaken
<1>1. SysInit => RecordedUnlessTaken
  BY InitRecorded DEF SysInit, CountedIsRecorded, RecordedUnlessTaken
<1>2. ASSUME SysIInv, RecordedUnlessTaken, [SysNext]_sysVars PROVE RecordedUnlessTaken'
  <2>1. CASE RequestStep
    BY <1>2, <2>1, RequestKeepsRecorded DEF SysIInv, JobInv
  <2>2. ASSUME NEW s \in Sweepers, Sweeping(s) PROVE RecordedUnlessTaken'
    BY <1>2, <2>2, SweepKeepsRecorded DEF SysIInv
  <2>3. CASE UNCHANGED sysVars
    BY <1>2, <2>3 DEF sysVars, vars, historyVars, RecordedUnlessTaken, KeyRecorded,
       Recorded, At, Unrecorded
  <2> QED BY <1>2, <2>1, <2>2, <2>3 DEF SysNext, Sweeping
<1>3. ASSUME SysIInv, RecordedUnlessTaken PROVE CoveredUnlessTaken
  <2> SUFFICES ASSUME faults = 0, NEW i \in SloIds, NEW f \in FpsOf(docs[i]),
                      f \notin taken, Key(i, f) \notin overrun
               PROVE  Recorded(f)
    BY DEF CoveredUnlessTaken, Recorded
  <2>1. Key(i, f) \in Keys /\ Key(i, f)[2] = f /\ refcount[Key(i, f)] > 0
    BY <1>3, SavedCounts
  <2>2. KeyRecorded(Key(i, f))
    BY <1>3, <2>1 DEF RecordedUnlessTaken
  <2> QED BY <2>1, <2>2 DEF KeyRecorded
<1> QED BY SysIInvHolds, <1>1, <1>2, <1>3, PTL DEF SysSpec
=============================================================================
