------------------------- MODULE SloLifecycleProofs -------------------------
(***************************************************************************)
(* Proofs about SloLifecycle, for any SLOs, workspaces, fingerprints and   *)
(* requests.                                                               *)
(*                                                                         *)
(* Types hold on every interleaving.  The accounting holds when clients do *)
(* not overlap writes of one SLO and a save that throws was not applied;   *)
(* the argument is that a request's held set is, at every await, exactly   *)
(* what its document would have to account for if it ended there (GoodJob),*)
(* so that every step moves each count as it moves its claims (Balanced).  *)
(* The step lemmas assume nothing of the counts: they hold too of counts   *)
(* that a sweep has spoilt, which SloSystemProofs needs.                   *)
(***************************************************************************)
EXTENDS SloLifecycle, FiniteSetTheorems, TLAPS

-----------------------------------------------------------------------------
(* Types.                                                                  *)

(* The fingerprints of a document, or of none, are fingerprints.           *)
LEMMA FpsOfType == ASSUME NEW d \in Docs \cup {NoDoc} PROVE FpsOf(d) \subseteq Fps
BY LifecycleAssumption DEF FpsOf, Docs

(* So are those a request wants to write.                                  *)
LEMMA WantType == ASSUME NEW j \in Jobs PROVE j.want.fps \subseteq Fps /\ j.want.name \in Names
BY LifecycleAssumption DEF Jobs, Docs

(* A request that goes on to its roll-back is still a request, or is over. *)
LEMMA UndoType ==
  ASSUME TypeOK, NEW r \in Requests, req[r] # Idle, NEW h \in SUBSET Fps
  PROVE  Undo(r, h) \in Jobs \cup {Idle}
<1>1. req[r] \in Jobs
  BY DEF TypeOK
<1> QED BY <1>1 DEF Undo, Jobs

(* So is one that gives up.                                                *)
LEMMA GiveUpType ==
  ASSUME TypeOK, NEW r \in Requests, req[r] # Idle, NEW h \in SUBSET Fps
  PROVE  GiveUp(r, h) \in Jobs \cup {Idle}
<1>1. req[r] \in Jobs
  BY DEF TypeOK
<1> QED BY <1>1 DEF GiveUp, Jobs

(* The counter a request asks for is one of the registry's.                *)
LEMMA KeyType ==
  ASSUME TypeOK, NEW r \in Requests, req[r] # Idle, NEW f \in Fps
  PROVE  Key(req[r].id, f) \in Keys
<1>1. req[r].id \in SloIds
  BY DEF TypeOK, Jobs
<1> QED BY <1>1, LifecycleAssumption DEF Key, Keys

(* An increment keeps the counters typed.                                  *)
LEMMA IncrementType ==
  ASSUME TypeOK, NEW k \in Keys, IncrementRef(k)
  PROVE  refcount' \in [Keys -> Nat] /\ zeroMark' \in [Keys -> {"none", "fresh", "stale"}]
BY DEF TypeOK, IncrementRef

(* A decrement keeps the counters typed.                                   *)
LEMMA DecrementType ==
  ASSUME TypeOK, NEW k \in Keys, DecrementRef(k)
  PROVE  refcount' \in [Keys -> Nat] /\ zeroMark' \in [Keys -> {"none", "fresh", "stale"}]
<1>1. CASE refcount[k] = 0
  BY <1>1 DEF TypeOK, DecrementRef, refVars
<1>2. CASE refcount[k] # 0
  <2>1. refcount[k] - 1 \in Nat
    BY <1>2 DEF TypeOK
  <2> QED BY <1>2, <2>1 DEF TypeOK, DecrementRef
<1> QED BY <1>1, <1>2

(* Documents and requests hold finitely many claims on a counter.          *)
LEMMA ClaimsFinite ==
  ASSUME NEW k \in Keys
  PROVE  /\ IsFiniteSet(DocClaims(k)) /\ Cardinality(DocClaims(k)) \in Nat
         /\ IsFiniteSet(ReqClaims(k)) /\ Cardinality(ReqClaims(k)) \in Nat
<1>1. DocClaims(k) \subseteq SloIds /\ ReqClaims(k) \subseteq Requests
  BY DEF DocClaims, ReqClaims
<1>2. IsFiniteSet(DocClaims(k)) /\ IsFiniteSet(ReqClaims(k))
  BY <1>1, FS_Subset, LifecycleAssumption
<1> QED BY <1>2, FS_CardinalityType

(* The initial state is typed.                                             *)
LEMMA InitTypeOK == Init => TypeOK
BY LifecycleAssumption DEF Init, TypeOK

\* What a step of one request has to show: the others keep what they have.
LEMMA JobTyped ==
  ASSUME TypeOK, NEW r \in Requests, NEW j \in Jobs \cup {Idle}, req' = [req EXCEPT ![r] = j]
  PROVE  req' \in [Requests -> Jobs \cup {Idle}]
BY DEF TypeOK

(* Every step keeps the types.                                             *)
LEMMA TypeStep == TypeOK /\ [Next]_vars => TypeOK'
<1> SUFFICES ASSUME TypeOK, [Next]_vars PROVE TypeOK'
  OBVIOUS
<1> USE DEF At, refVars, rulerVars
<1>a. ASSUME NEW r \in Requests, NEW j \in Jobs, Begin(r, j) PROVE TypeOK'
  <2>1. req' \in [Requests -> Jobs \cup {Idle}]
    BY <1>a DEF Begin, TypeOK
  <2>2. started' \in 0..MaxStarted
    BY <1>a, LifecycleAssumption DEF Begin, TypeOK
  <2> QED BY <1>a, <2>1, <2>2 DEF Begin, TypeOK
<1>b. Fault => faults' \in 0..MaxFaults
  BY LifecycleAssumption DEF Fault, TypeOK
<1>1. ASSUME NEW r \in Requests, NEW i \in SloIds, NEW d \in Docs, BeginCreate(r, i, d) PROVE TypeOK'
  <2>1. d.fps \subseteq Fps
    BY LifecycleAssumption DEF Docs
  <2>2. [kind |-> "create", pc |-> "name", id |-> i, base |-> NoDoc, want |-> d,
         todo |-> d.fps, held |-> {}] \in Jobs
    BY <2>1 DEF Jobs
  <2> QED BY <1>a, <1>1, <2>2 DEF BeginCreate
<1>2. ASSUME NEW r \in Requests, NEW i \in SloIds, NEW d \in Docs, BeginUpdate(r, i, d) PROVE TypeOK'
  <2>1. d.fps \subseteq Fps
    BY LifecycleAssumption DEF Docs
  <2>2. [kind |-> "update", pc |-> IF d.name = docs[i].name THEN "claim" ELSE "name",
         id |-> i, base |-> docs[i], want |-> d, todo |-> d.fps \ docs[i].fps, held |-> {}] \in Jobs
    BY <2>1 DEF Jobs, TypeOK
  <2> QED BY <1>a, <1>2, <2>2 DEF BeginUpdate
<1>3. ASSUME NEW r \in Requests, NEW i \in SloIds, BeginDelete(r, i) PROVE TypeOK'
  <2>1. docs[i] \in Docs
    BY <1>3 DEF BeginDelete, TypeOK
  <2>2. [kind |-> "delete", pc |-> "unprovision", id |-> i, base |-> docs[i],
         want |-> docs[i], todo |-> {}, held |-> {}] \in Jobs
    BY <2>1 DEF Jobs
  <2> QED BY <1>a, <1>3, <2>2 DEF BeginDelete
<1>4. ASSUME NEW r \in Requests, NEW i \in SloIds, BeginRepair(r, i) PROVE TypeOK'
  <2>1. docs[i] \in Docs
    BY <1>4 DEF BeginRepair, TypeOK
  <2>2. [kind |-> "repair", pc |-> "probe", id |-> i, base |-> docs[i],
         want |-> docs[i], todo |-> {}, held |-> {}] \in Jobs
    BY <2>1 DEF Jobs
  <2> QED BY <1>a, <1>4, <2>2 DEF BeginRepair
<1>5. ASSUME NEW r \in Requests, CheckName(r) PROVE TypeOK'
  BY <1>5 DEF CheckName, TypeOK, Jobs
<1>6. ASSUME NEW r \in Requests, NEW f \in Fps, Claim(r, f) PROVE TypeOK'
  <2>1. refcount' \in [Keys -> Nat] /\ zeroMark' \in [Keys -> {"none", "fresh", "stale"}]
    BY <1>6, KeyType, IncrementType DEF Claim
  <2>2. req' \in [Requests -> Jobs \cup {Idle}]
    <3> DEFINE held == req[r].held \cup {f}
    <3>1. req[r] \in Jobs /\ held \subseteq Fps /\ req[r].todo \ {f} \subseteq Fps
      BY <1>6 DEF Claim, TypeOK, Jobs
    <3>2. [req[r] EXCEPT !.pc = "record", !.held = held] \in Jobs
      BY <3>1 DEF Jobs
    <3>3. [req[r] EXCEPT !.todo = req[r].todo \ {f}, !.held = held] \in Jobs
      BY <3>1 DEF Jobs
    <3>4. \/ req' = [req EXCEPT ![r] = [req[r] EXCEPT !.pc = "record", !.held = held]]
          \/ req' = [req EXCEPT ![r] = [req[r] EXCEPT !.todo = req[r].todo \ {f}, !.held = held]]
      BY <1>6 DEF Claim, Claimed
    <3> HIDE DEF held
    <3> QED BY <3>2, <3>3, <3>4, JobTyped
  <2> QED BY <1>6, <2>1, <2>2 DEF Claim, TypeOK
<1>7. ASSUME NEW r \in Requests, NEW f \in Fps, ClaimFails(r, f) PROVE TypeOK'
  <2>1. Key(req[r].id, f) \in Keys
    BY <1>7, KeyType DEF ClaimFails
  <2>2. /\ refcount' \in [Keys -> Nat] /\ zeroMark' \in [Keys -> {"none", "fresh", "stale"}]
        /\ leaked' \in [Keys -> Nat]
    BY <1>7, <2>1, IncrementType DEF ClaimFails, TypeOK
  <2>3. req' \in [Requests -> Jobs \cup {Idle}]
    BY <1>7, UndoType DEF ClaimFails, TypeOK, Jobs
  <2> QED BY <1>7, <1>b, <2>2, <2>3 DEF ClaimFails, TypeOK
<1>8. ASSUME NEW r \in Requests, UpsertRecording(r) PROVE TypeOK'
  <2> DEFINE todo == req[r].todo \ Unrecorded(r)
  <2>1. req[r] \in Jobs /\ todo \subseteq Fps /\ Unrecorded(r) \subseteq Fps
    BY <1>8 DEF UpsertRecording, Unrecorded, TypeOK, Jobs
  <2>2. [req[r] EXCEPT !.pc = "claim", !.todo = todo] \in Jobs
    BY <2>1 DEF Jobs
  <2>3. req' = [req EXCEPT ![r] = [req[r] EXCEPT !.pc = "claim", !.todo = todo]]
    BY <1>8 DEF UpsertRecording, TypeOK
  <2> HIDE DEF todo
  <2> QED BY <1>8, <2>1, <2>2, <2>3 DEF UpsertRecording, TypeOK
<1>9. ASSUME NEW r \in Requests, UpsertRecordingFails(r) PROVE TypeOK'
  <2>1. req' \in [Requests -> Jobs \cup {Idle}]
    BY <1>9, UndoType DEF UpsertRecordingFails, TypeOK, Jobs
  <2>2. recGroups' \subseteq Fps
    BY <1>9 DEF UpsertRecordingFails, Unrecorded, TypeOK, Jobs
  <2> QED BY <1>9, <1>b, <2>1, <2>2 DEF UpsertRecordingFails, TypeOK
<1>c. ASSUME NEW r \in Requests, req[r] # Idle PROVE AlertGroup(r) \in SloIds \X Names
  BY <1>c, WantType DEF AlertGroup, TypeOK, Jobs
<1>10. ASSUME NEW r \in Requests, UpsertAlert(r) PROVE TypeOK'
  BY <1>10, <1>c DEF UpsertAlert, TypeOK, Jobs
<1>11. ASSUME NEW r \in Requests, UpsertAlertFails(r) PROVE TypeOK'
  <2>1. req' \in [Requests -> Jobs \cup {Idle}]
    BY <1>11, UndoType DEF UpsertAlertFails, TypeOK, Jobs
  <2> QED BY <1>11, <1>b, <1>c, <2>1 DEF UpsertAlertFails, TypeOK
<1>d. ASSUME NEW i \in SloIds, NEW fs PROVE Orphaned(i, fs) \in [Keys -> Nat]
  BY DEF Orphaned, TypeOK
<1>e. ASSUME NEW r \in Requests, req[r] # Idle, Write(r)
      PROVE  docs' \in [SloIds -> Docs \cup {NoDoc}] /\ leaked' \in [Keys -> Nat]
  BY <1>e, <1>d DEF Write, TypeOK, Jobs
<1>12. ASSUME NEW r \in Requests, Save(r) PROVE TypeOK'
  <2>1. req' \in [Requests -> Jobs \cup {Idle}]
    <3>1. FpsOf(req[r].base) \ req[r].want.fps \subseteq Fps
      BY <1>12, FpsOfType DEF Save, TypeOK, Jobs
    <3> QED BY <1>12, <3>1, GiveUpType DEF Save, TypeOK
  <2> QED BY <1>12, <1>e, <2>1 DEF Save, TypeOK
<1>13. ASSUME NEW r \in Requests, SaveFails(r) PROVE TypeOK'
  <2>1. req' \in [Requests -> Jobs \cup {Idle}]
    BY <1>13, UndoType DEF SaveFails, TypeOK, Jobs
  <2> QED BY <1>13, <1>b, <1>e, <2>1 DEF SaveFails, TypeOK
<1>f. ASSUME NEW r \in Requests, req[r] # Idle, NEW f PROVE Released(r, f) \in Jobs \cup {Idle}
  <2>1. req[r].held \ {f} \subseteq Fps
    BY <1>f DEF TypeOK, Jobs
  <2> QED BY <1>f, <2>1, UndoType, GiveUpType DEF Released
<1>14. ASSUME NEW r \in Requests, NEW f \in Fps, Release(r, f) PROVE TypeOK'
  <2>1. refcount' \in [Keys -> Nat] /\ zeroMark' \in [Keys -> {"none", "fresh", "stale"}]
    BY <1>14, KeyType, DecrementType DEF Release
  <2> QED BY <1>14, <1>f, <2>1 DEF Release, TypeOK
<1>15. ASSUME NEW r \in Requests, NEW f \in Fps, ReleaseFails(r, f) PROVE TypeOK'
  <2>1. Key(req[r].id, f) \in Keys
    BY <1>15, KeyType DEF ReleaseFails
  <2>2. /\ refcount' \in [Keys -> Nat] /\ zeroMark' \in [Keys -> {"none", "fresh", "stale"}]
        /\ leaked' \in [Keys -> Nat]
    BY <1>15, <2>1, DecrementType DEF ReleaseFails, TypeOK
  <2> QED BY <1>15, <1>b, <1>f, <2>2 DEF ReleaseFails, TypeOK
<1>16. ASSUME NEW r \in Requests, DeleteOwnAlert(r) PROVE TypeOK'
  BY <1>16 DEF DeleteOwnAlert, TypeOK
<1>17. ASSUME NEW r \in Requests, DeleteOwnAlertFails(r) PROVE TypeOK'
  BY <1>17, <1>b DEF DeleteOwnAlertFails, TypeOK
<1>18. ASSUME NEW r \in Requests, DeleteAlert(r) PROVE TypeOK'
  BY <1>18 DEF DeleteAlert, TypeOK, Jobs
<1>19. ASSUME NEW r \in Requests, DeleteAlertFails(r) PROVE TypeOK'
  BY <1>19, <1>b DEF DeleteAlertFails, TypeOK
<1>20. ASSUME NEW r \in Requests, DeleteDoc(r) PROVE TypeOK'
  <2>1. req' \in [Requests -> Jobs \cup {Idle}]
    <3>1. req[r].want.fps \subseteq Fps
      BY <1>20, WantType DEF DeleteDoc, TypeOK
    <3> QED BY <1>20, <3>1, GiveUpType DEF DeleteDoc, TypeOK
  <2> QED BY <1>20, <2>1 DEF DeleteDoc, Remove, TypeOK
<1>21. ASSUME NEW r \in Requests, DeleteDocFails(r) PROVE TypeOK'
  <2>1. leaked' \in [Keys -> Nat] /\ docs' \in [SloIds -> Docs \cup {NoDoc}]
    BY <1>21, <1>d DEF DeleteDocFails, Remove, TypeOK, Jobs
  <2> QED BY <1>21, <1>b, <2>1 DEF DeleteDocFails, TypeOK
<1>22. ASSUME NEW r \in Requests, Probe(r) PROVE TypeOK'
  <2>1. req[r].want.fps \subseteq Fps
    BY <1>22, WantType DEF Probe, TypeOK
  <2> QED BY <1>22, <2>1 DEF Probe, TypeOK, Jobs
<1>23. ASSUME NEW r \in Requests, NEW f \in Fps, ReplayRecording(r, f) PROVE TypeOK'
  BY <1>23 DEF ReplayRecording, TypeOK, Jobs
<1>24. ASSUME NEW r \in Requests, ReplayAlert(r) PROVE TypeOK'
  BY <1>24, <1>c DEF ReplayAlert, TypeOK
<1>25. ASSUME NEW r \in Requests, RepairFails(r) PROVE TypeOK'
  BY <1>25, <1>b DEF RepairFails, TypeOK
<1>26. ASSUME NEW k \in Keys, Age(k) PROVE TypeOK'
  BY <1>26 DEF Age, TypeOK
<1>27. ASSUME Crash PROVE TypeOK'
  <2>1. PICK lost \in SUBSET {r \in Requests : req[r] # Idle} :
          /\ req' = [r \in Requests |-> IF r \in lost THEN Idle ELSE req[r]]
          /\ leaked' = [k \in Keys |-> leaked[k] + Cardinality(ReqClaims(k) \cap lost)]
    BY <1>27 DEF Crash
  <2>2. ASSUME NEW k \in Keys PROVE Cardinality(ReqClaims(k) \cap lost) \in Nat
    BY ClaimsFinite, FS_Intersection, FS_CardinalityType
  <2>3. leaked' \in [Keys -> Nat]
    BY <2>1, <2>2 DEF TypeOK
  <2>4. req' \in [Requests -> Jobs \cup {Idle}]
    BY <2>1 DEF TypeOK
  <2> QED BY <1>27, <1>b, <2>3, <2>4 DEF Crash, TypeOK
<1>28. CASE UNCHANGED vars
  BY <1>28 DEF vars, TypeOK
<1> QED BY <1>1, <1>2, <1>3, <1>4, <1>5, <1>6, <1>7, <1>8, <1>9, <1>10, <1>11, <1>12, <1>13,
           <1>14, <1>15, <1>16, <1>17, <1>18, <1>19, <1>20, <1>21, <1>22, <1>23, <1>24, <1>25,
           <1>26, <1>27, <1>28 DEF Next, Starts, Proceeds, Fails

(* Every store keeps its type on every interleaving of clients, failures   *)
(* and restarts; in particular no reference count goes below zero.         *)
THEOREM TypeCorrect == Spec => []TypeOK
BY InitTypeOK, TypeStep, PTL DEF Spec

-----------------------------------------------------------------------------
(* Counting.  A step of one request moves at most that request in and out  *)
(* of a set of claimants, and at most its own document.                    *)

Bit(b) == IF b THEN 1 ELSE 0

(* Two sets that differ at most in x differ in size by x's membership.     *)
LEMMA OneElementDiff ==
  ASSUME NEW S, NEW T, NEW x, IsFiniteSet(S), IsFiniteSet(T), S \ {x} = T \ {x}
  PROVE  Cardinality(T) + Bit(x \in S) = Cardinality(S) + Bit(x \in T)
<1>1. /\ Cardinality(S \ {x}) = IF x \in S THEN Cardinality(S) - 1 ELSE Cardinality(S)
      /\ Cardinality(T \ {x}) = IF x \in T THEN Cardinality(T) - 1 ELSE Cardinality(T)
  BY FS_RemoveElement
<1>2. Cardinality(S) \in Nat /\ Cardinality(T) \in Nat
  BY FS_CardinalityType
<1>3. Cardinality(S \ {x}) = Cardinality(T \ {x})
  BY Zenon
<1> QED BY <1>1, <1>2, <1>3 DEF Bit

\* Job j holds a claim on k; document d of SLO i does.
JobHolds(j, k)    == j # Idle /\ k[2] \in j.held /\ WorkspaceOf[j.id] = k[1]
DocHolds(d, i, k) == d # NoDoc /\ k[2] \in d.fps /\ WorkspaceOf[i] = k[1]

(* A change of one request changes the claims of requests on a counter by  *)
(* what that request holds before and after.                               *)
LEMMA ReqChange ==
  ASSUME TypeOK, NEW r \in Requests, NEW j, req' = [req EXCEPT ![r] = j], NEW k \in Keys
  PROVE  Cardinality(ReqClaims(k)') + Bit(JobHolds(req[r], k))
           = Cardinality(ReqClaims(k)) + Bit(JobHolds(j, k))
<1> DEFINE S == ReqClaims(k)
           T == ReqClaims(k)'
<1>1. S \subseteq Requests /\ T \subseteq Requests
  BY DEF ReqClaims
<1>2. IsFiniteSet(S) /\ IsFiniteSet(T)
  BY <1>1, FS_Subset, LifecycleAssumption
<1>3. S \ {r} = T \ {r}
  BY DEF ReqClaims, TypeOK
<1>4. (r \in S <=> JobHolds(req[r], k)) /\ (r \in T <=> JobHolds(j, k))
  BY DEF ReqClaims, JobHolds, TypeOK
<1>5. Cardinality(T) + Bit(r \in S) = Cardinality(S) + Bit(r \in T)
  <2> HIDE DEF S, T
  <2> QED BY <1>2, <1>3, OneElementDiff
<1> QED BY <1>4, <1>5 DEF Bit

(* A change of one document changes the claims of documents on a counter   *)
(* by what that document holds before and after.                           *)
LEMMA DocChange ==
  ASSUME TypeOK, NEW i \in SloIds, NEW d, docs' = [docs EXCEPT ![i] = d], NEW k \in Keys
  PROVE  Cardinality(DocClaims(k)') + Bit(DocHolds(docs[i], i, k))
           = Cardinality(DocClaims(k)) + Bit(DocHolds(d, i, k))
<1> DEFINE S == DocClaims(k)
           T == DocClaims(k)'
<1>1. S \subseteq SloIds /\ T \subseteq SloIds
  BY DEF DocClaims
<1>2. IsFiniteSet(S) /\ IsFiniteSet(T)
  BY <1>1, FS_Subset, LifecycleAssumption
<1>3. S \ {i} = T \ {i}
  BY DEF DocClaims, TypeOK
<1>4. (i \in S <=> DocHolds(docs[i], i, k)) /\ (i \in T <=> DocHolds(d, i, k))
  BY DEF DocClaims, DocHolds, TypeOK
<1>5. Cardinality(T) + Bit(i \in S) = Cardinality(S) + Bit(i \in T)
  <2> HIDE DEF S, T
  <2> QED BY <1>2, <1>3, OneElementDiff
<1> QED BY <1>4, <1>5 DEF Bit

(* Claims stay where documents, or requests, are left alone.               *)
LEMMA ClaimsKeep ==
  ASSUME NEW k \in Keys
  PROVE  /\ UNCHANGED docs => Cardinality(DocClaims(k)') = Cardinality(DocClaims(k))
         /\ UNCHANGED req => Cardinality(ReqClaims(k)') = Cardinality(ReqClaims(k))
BY DEF DocClaims, ReqClaims

-----------------------------------------------------------------------------
(* The inductive invariant.                                                *)

\* Job j, over the current document d of its SLO, holds what it should.
GoodJob(j, d) ==
  /\ j.kind = "create" => j.base = NoDoc
  /\ j.pc \in {"name", "claim", "record", "save"} =>
       /\ j.kind \in {"create", "update"}
       /\ j.kind = "update" => d = j.base
  /\ j.pc \in {"name", "claim", "record"} => j.held \cup j.todo = j.want.fps \ FpsOf(j.base)
  /\ j.pc = "name" => j.held = {}
  /\ j.pc = "claim" => j.held \cap j.todo = {}
  /\ j.pc = "save" => j.held = j.want.fps \ FpsOf(j.base)
  /\ j.pc \in {"unprovision", "drop"} =>
       j.kind = "delete" /\ j.held = {} /\ d = j.want
  /\ j.pc \in {"probe", "replay", "unalert"} => j.held = {}

JobsGood == \A r \in Requests : req[r] # Idle => GoodJob(req[r], docs[req[r].id])

\* No two requests write the same SLO.
OneWriter ==
  \A q, r \in Requests :
    /\ q # r /\ req[q] # Idle /\ req[r] # Idle
    /\ req[q].kind # "repair" /\ req[r].kind # "repair"
    => req[q].id # req[r].id

JobInv == TypeOK /\ JobsGood /\ OneWriter

\* What saved SLOs, requests and lost releases account for on a counter.
Claims(k) == Cardinality(DocClaims(k)) + Cardinality(ReqClaims(k)) + leaked[k]

\* A step's effect on a count and its claims: they move together, or a claim is
\* given back where nothing was counted any more.
Underflows(k) == refcount[k] = 0 /\ refcount'[k] = 0 /\ Claims(k)' + 1 = Claims(k)

Balanced == \A k \in Keys :
  Claims(k)' + refcount[k] = Claims(k) + refcount'[k] \/ Underflows(k)

\* What each step of a request is shown to do.
Keeps == JobInv' /\ Balanced

(* Counts and claims are numbers.                                          *)
LEMMA ClaimsType ==
  ASSUME TypeOK
  PROVE  \A k \in Keys : Claims(k) \in Nat /\ refcount[k] \in Nat
BY ClaimsFinite DEF TypeOK, Claims

\* A request goes on as job j and the documents stay: what it and leaked
\* account for together changes as the count does, or the count was gone.
ReqMoves(r, j) ==
  /\ req' = [req EXCEPT ![r] = j]
  /\ UNCHANGED docs
  /\ j # Idle => j.id = req[r].id /\ j.kind = req[r].kind /\ GoodJob(j, docs[j.id])
  /\ \A k \in Keys :
       \/ refcount'[k] + Bit(JobHolds(req[r], k)) + leaked[k]
            = refcount[k] + Bit(JobHolds(j, k)) + leaked'[k]
       \/ /\ refcount[k] = 0 /\ refcount'[k] = 0 /\ leaked'[k] = leaked[k]
          /\ Bit(JobHolds(req[r], k)) = Bit(JobHolds(j, k)) + 1

\* A request in flight that goes on keeps the invariant.
LEMMA ReqStep ==
  ASSUME JobInv, TypeOK', NEW r \in Requests, req[r] # Idle,
         NEW j, ReqMoves(r, j)
  PROVE  Keeps
<1> USE DEF ReqMoves
<1>1. JobsGood'
  BY DEF JobInv, JobsGood, TypeOK
<1>2. OneWriter'
  BY DEF JobInv, OneWriter, TypeOK
<1>3. ASSUME NEW k \in Keys
      PROVE  Claims(k)' + refcount[k] = Claims(k) + refcount'[k] \/ Underflows(k)
  <2>1. /\ Cardinality(ReqClaims(k)') + Bit(JobHolds(req[r], k))
             = Cardinality(ReqClaims(k)) + Bit(JobHolds(j, k))
        /\ Cardinality(DocClaims(k)') = Cardinality(DocClaims(k))
    BY ReqChange, ClaimsKeep DEF JobInv
  <2>2. /\ Cardinality(DocClaims(k)) \in Nat /\ Cardinality(ReqClaims(k)) \in Nat
        /\ Bit(JobHolds(req[r], k)) \in Nat /\ Bit(JobHolds(j, k)) \in Nat
        /\ refcount[k] \in Nat /\ leaked[k] \in Nat
        /\ refcount'[k] \in Nat /\ leaked'[k] \in Nat
    BY ClaimsFinite DEF JobInv, TypeOK, Bit
  <2>3. Cardinality(ReqClaims(k)') \in Nat
    <3>1. ReqClaims(k)' \subseteq Requests
      BY DEF ReqClaims
    <3> QED BY <3>1, FS_Subset, FS_CardinalityType, LifecycleAssumption
  <2>4. /\ Claims(k)' = Cardinality(DocClaims(k)') + Cardinality(ReqClaims(k)') + leaked'[k]
        /\ Claims(k) = Cardinality(DocClaims(k)) + Cardinality(ReqClaims(k)) + leaked[k]
    BY DEF Claims
  <2>5. CASE refcount'[k] + Bit(JobHolds(req[r], k)) + leaked[k]
               = refcount[k] + Bit(JobHolds(j, k)) + leaked'[k]
    <3>1. Claims(k)' + refcount[k] = Claims(k) + refcount'[k]
      BY <2>1, <2>2, <2>3, <2>4, <2>5, SMTT(30)
    <3> QED BY <3>1
  <2>6. CASE /\ refcount[k] = 0 /\ refcount'[k] = 0 /\ leaked'[k] = leaked[k]
             /\ Bit(JobHolds(req[r], k)) = Bit(JobHolds(j, k)) + 1
    <3>1. Claims(k)' + 1 = Claims(k)
      BY <2>1, <2>2, <2>3, <2>4, <2>6, SMTT(30)
    <3> QED BY <2>6, <3>1 DEF Underflows
  <2> QED BY <2>5, <2>6
<1> QED BY <1>1, <1>2, <1>3 DEF JobInv, Keeps, Balanced

\* A write of the document: the SLO's becomes d, the request goes on as job j,
\* and what they and leaked account for together changes as the count does.
DocMoves(r, j, d) ==
  /\ req' = [req EXCEPT ![r] = j]
  /\ docs' = [docs EXCEPT ![req[r].id] = d]
  /\ j # Idle => j.id = req[r].id /\ j.kind = req[r].kind /\ GoodJob(j, d)
  /\ \A k \in Keys :
       refcount'[k] + Bit(JobHolds(req[r], k)) + Bit(DocHolds(docs[req[r].id], req[r].id, k)) + leaked[k]
         = refcount[k] + Bit(JobHolds(j, k)) + Bit(DocHolds(d, req[r].id, k)) + leaked'[k]

(* A step that moves claims between a request and its document, and        *)
(* touches no counter, keeps the invariant.                                *)
LEMMA DocStep ==
  ASSUME JobInv, TypeOK', NEW r \in Requests, req[r] # Idle, req[r].kind # "repair",
         NEW j, NEW d, DocMoves(r, j, d)
  PROVE  Keeps
<1> USE DEF DocMoves
<1> DEFINE i == req[r].id
<1>0. i \in SloIds /\ \A q \in Requests : req[q] # Idle => req[q].id \in SloIds
  BY DEF JobInv, TypeOK, Jobs
<1>1. JobsGood'
  <2> SUFFICES ASSUME NEW q \in Requests, req'[q] # Idle
               PROVE  GoodJob(req'[q], docs'[req'[q].id])
    BY DEF JobsGood
  <2>1. CASE q = r
    BY <1>0, <2>1 DEF JobInv, TypeOK
  <2>2. CASE q # r
    <3>1. req'[q] = req[q] /\ GoodJob(req[q], docs[req[q].id])
      BY <2>2 DEF JobInv, TypeOK, JobsGood
    <3>2. CASE req[q].kind = "repair"
      BY <3>1, <3>2 DEF GoodJob
    <3>3. CASE req[q].kind # "repair"
      <4>1. req[q].id # i
        BY <2>2, <3>1, <3>3 DEF JobInv, OneWriter
      <4> QED BY <1>0, <3>1, <4>1 DEF JobInv, TypeOK
    <3> QED BY <3>2, <3>3
  <2> QED BY <2>1, <2>2
<1>2. OneWriter'
  BY DEF JobInv, OneWriter, TypeOK
<1>3. ASSUME NEW k \in Keys
      PROVE  Claims(k)' + refcount[k] = Claims(k) + refcount'[k]
  <2>1. /\ Cardinality(ReqClaims(k)') + Bit(JobHolds(req[r], k))
             = Cardinality(ReqClaims(k)) + Bit(JobHolds(j, k))
        /\ Cardinality(DocClaims(k)') + Bit(DocHolds(docs[i], i, k))
             = Cardinality(DocClaims(k)) + Bit(DocHolds(d, i, k))
    BY <1>0, ReqChange, DocChange DEF JobInv
  <2>2. /\ Cardinality(DocClaims(k)) \in Nat /\ Cardinality(ReqClaims(k)) \in Nat
        /\ Bit(JobHolds(req[r], k)) \in Nat /\ Bit(JobHolds(j, k)) \in Nat
        /\ Bit(DocHolds(docs[i], i, k)) \in Nat /\ Bit(DocHolds(d, i, k)) \in Nat
        /\ refcount[k] \in Nat /\ leaked[k] \in Nat
        /\ refcount'[k] \in Nat /\ leaked'[k] \in Nat
    BY ClaimsFinite DEF JobInv, TypeOK, Bit
  <2>3. Cardinality(ReqClaims(k)') \in Nat /\ Cardinality(DocClaims(k)') \in Nat
    <3>1. ReqClaims(k)' \subseteq Requests /\ DocClaims(k)' \subseteq SloIds
      BY DEF ReqClaims, DocClaims
    <3> QED BY <3>1, FS_Subset, FS_CardinalityType, LifecycleAssumption
  <2>4. /\ refcount'[k] + Bit(JobHolds(req[r], k)) + Bit(DocHolds(docs[i], i, k)) + leaked[k]
             = refcount[k] + Bit(JobHolds(j, k)) + Bit(DocHolds(d, i, k)) + leaked'[k]
        /\ Claims(k)' = Cardinality(DocClaims(k)') + Cardinality(ReqClaims(k)') + leaked'[k]
        /\ Claims(k) = Cardinality(DocClaims(k)) + Cardinality(ReqClaims(k)) + leaked[k]
    BY DEF Claims
  <2> DEFINE a == Bit(JobHolds(req[r], k))
             b == Bit(JobHolds(j, k))
             x == Bit(DocHolds(docs[i], i, k))
             y == Bit(DocHolds(d, i, k))
             R == Cardinality(ReqClaims(k))
             S == Cardinality(ReqClaims(k)')
             D == Cardinality(DocClaims(k))
             E == Cardinality(DocClaims(k)')
             m == refcount[k]
             n == refcount'[k]
             p == leaked[k]
             q == leaked'[k]
  <2>5. /\ a \in Nat /\ b \in Nat /\ x \in Nat /\ y \in Nat
        /\ R \in Nat /\ S \in Nat /\ D \in Nat /\ E \in Nat
        /\ m \in Nat /\ n \in Nat /\ p \in Nat /\ q \in Nat
        /\ S + a = R + b /\ E + x = D + y
        /\ n + a + x + p = m + b + y + q
    BY <2>1, <2>2, <2>3, <2>4
  <2>6. Claims(k)' = E + S + q /\ Claims(k) = D + R + p
    BY <2>4
  <2>7. E + S + q + m = D + R + p + n
    <3> HIDE DEF a, b, x, y, R, S, D, E, m, n, p, q, DocMoves
    <3> QED BY <2>5
  <2> QED BY <2>6, <2>7
<1> QED BY <1>1, <1>2, <1>3 DEF JobInv, Keeps, Balanced

\* A request starts with nothing held.
LEMMA BeginStep ==
  ASSUME SerialWrites, JobInv, TypeOK', NEW r \in Requests, NEW j \in Jobs, Begin(r, j),
         j.held = {}, GoodJob(j, docs[j.id])
  PROVE  Keeps
<1> USE DEF Begin, refVars
<1>1. JobsGood'
  BY DEF JobInv, JobsGood, TypeOK
<1>2. OneWriter'
  BY DEF JobInv, OneWriter, TypeOK, Writing
<1>3. ASSUME NEW k \in Keys
      PROVE  Claims(k)' + refcount[k] = Claims(k) + refcount'[k]
  <2>1. /\ Cardinality(ReqClaims(k)') + Bit(JobHolds(req[r], k))
             = Cardinality(ReqClaims(k)) + Bit(JobHolds(j, k))
        /\ Cardinality(DocClaims(k)') = Cardinality(DocClaims(k))
    BY ReqChange, ClaimsKeep DEF JobInv
  <2>2. Bit(JobHolds(req[r], k)) = 0 /\ Bit(JobHolds(j, k)) = 0
    BY DEF Bit, JobHolds
  <2>3. Cardinality(ReqClaims(k)') \in Nat /\ Cardinality(ReqClaims(k)) \in Nat
    <3>1. ReqClaims(k)' \subseteq Requests /\ ReqClaims(k) \subseteq Requests
      BY DEF ReqClaims
    <3> QED BY <3>1, FS_Subset, FS_CardinalityType, LifecycleAssumption
  <2>4. Cardinality(ReqClaims(k)') = Cardinality(ReqClaims(k))
    BY <2>1, <2>2, <2>3
  <2> QED BY <2>1, <2>4 DEF Claims
<1> QED BY <1>1, <1>2, <1>3 DEF JobInv, Keeps, Balanced

-----------------------------------------------------------------------------
(* Claims moving in and out of a job, and the calls that go with them.     *)

(* A counter is that of an SLO and a fingerprint exactly when both its     *)
(* workspace and its fingerprint agree.                                    *)
LEMMA KeyEq ==
  ASSUME NEW k \in Keys, NEW i \in SloIds, NEW f
  PROVE  k = Key(i, f) <=> k[1] = WorkspaceOf[i] /\ k[2] = f
BY DEF Keys, Key

\* What f adds to a job of SLO i holding h.
LEMMA HoldOneMore ==
  ASSUME NEW k \in Keys, NEW i \in SloIds, NEW h, NEW f, f \notin h
  PROVE  Bit(k[2] \in h \cup {f} /\ WorkspaceOf[i] = k[1])
           = Bit(k[2] \in h /\ WorkspaceOf[i] = k[1]) + Bit(k = Key(i, f))
BY KeyEq DEF Bit

(* An increment adds one to its counter and to no other.                   *)
LEMMA IncrementBit ==
  ASSUME TypeOK, NEW k \in Keys, NEW l \in Keys, IncrementRef(l)
  PROVE  refcount'[k] = refcount[k] + Bit(k = l)
BY DEF TypeOK, IncrementRef, Bit

(* A decrement takes one from its counter and from no other, or finds it at*)
(* zero and takes nothing.                                                 *)
LEMMA DecrementBit ==
  ASSUME TypeOK, NEW k \in Keys, NEW l \in Keys, DecrementRef(l)
  PROVE  \/ refcount'[k] + Bit(k = l) = refcount[k]
         \/ k = l /\ refcount[k] = 0 /\ refcount'[k] = 0
BY DEF TypeOK, DecrementRef, Bit, refVars

\* The rollback loop and the give-up loop hold exactly what is left of them.
LEMMA UndoHolds ==
  ASSUME JobInv, NEW r \in Requests, req[r] # Idle, NEW h \in SUBSET Fps
  PROVE  LET j == Undo(r, h) IN
         /\ j # Idle => j.id = req[r].id /\ j.kind = req[r].kind /\ \A d : GoodJob(j, d)
         /\ \A k \in Keys : JobHolds(j, k) <=> k[2] \in h /\ WorkspaceOf[req[r].id] = k[1]
<1> DEFINE loop == [req[r] EXCEPT !.pc = "undo", !.held = h, !.todo = {}]
           last == [req[r] EXCEPT !.pc = "unalert", !.held = {}, !.todo = {}]
<1>1. req[r] \in Jobs /\ (req[r].kind = "create" => req[r].base = NoDoc)
  BY DEF JobInv, TypeOK, JobsGood, GoodJob
<1>2. /\ loop.id = req[r].id /\ loop.kind = req[r].kind /\ loop.base = req[r].base
      /\ loop.pc = "undo" /\ loop.held = h /\ loop # Idle
      /\ last.id = req[r].id /\ last.kind = req[r].kind /\ last.base = req[r].base
      /\ last.pc = "unalert" /\ last.held = {}
  <2>1. loop \in Jobs
    BY <1>1 DEF Jobs
  <2> QED BY <1>1, <2>1, LifecycleAssumption DEF Jobs
<1>3. CASE h # {}
  BY <1>1, <1>2, <1>3 DEF Undo, GoodJob, JobHolds
<1>4. CASE h = {} /\ req[r].kind = "create"
  BY <1>1, <1>2, <1>4 DEF Undo, GoodJob, JobHolds
<1>5. CASE h = {} /\ req[r].kind # "create"
  BY <1>5 DEF Undo, JobHolds
<1> QED BY <1>3, <1>4, <1>5

(* A request that gives up with h to release holds exactly h.              *)
LEMMA GiveUpHolds ==
  ASSUME JobInv, NEW r \in Requests, req[r] # Idle, NEW h \in SUBSET Fps
  PROVE  LET j == GiveUp(r, h) IN
         /\ j # Idle => j.id = req[r].id /\ j.kind = req[r].kind /\ \A d : GoodJob(j, d)
         /\ \A k \in Keys : JobHolds(j, k) <=> k[2] \in h /\ WorkspaceOf[req[r].id] = k[1]
<1> DEFINE loop == [req[r] EXCEPT !.pc = "release", !.held = h]
<1>1. req[r] \in Jobs /\ (req[r].kind = "create" => req[r].base = NoDoc)
  BY DEF JobInv, TypeOK, JobsGood, GoodJob
<1>2. /\ loop.id = req[r].id /\ loop.kind = req[r].kind /\ loop.base = req[r].base
      /\ loop.pc = "release" /\ loop.held = h /\ loop # Idle
  <2>1. loop \in Jobs
    BY <1>1 DEF Jobs
  <2> QED BY <1>1, <2>1, LifecycleAssumption DEF Jobs
<1>3. CASE h # {}
  BY <1>1, <1>2, <1>3 DEF GiveUp, GoodJob, JobHolds
<1>4. CASE h = {}
  BY <1>4 DEF GiveUp, JobHolds
<1> QED BY <1>3, <1>4

\* A failed call that leaves the documents and the request's claims alone.
LEMMA UndoStep ==
  ASSUME JobInv, TypeOK', NEW r \in Requests, req[r] # Idle, req' = [req EXCEPT ![r] = Undo(r, req[r].held)],
         UNCHANGED docs,
         \A k \in Keys : refcount'[k] + leaked[k] = refcount[k] + leaked'[k]
  PROVE  Keeps
<1> DEFINE j == Undo(r, req[r].held)
<1>1. req[r].held \in SUBSET Fps /\ req[r].id \in SloIds
  BY DEF JobInv, TypeOK, Jobs
<1>2. /\ j # Idle => j.id = req[r].id /\ j.kind = req[r].kind /\ \A d : GoodJob(j, d)
      /\ \A k \in Keys : JobHolds(j, k) <=> k[2] \in req[r].held /\ WorkspaceOf[req[r].id] = k[1]
  BY <1>1, UndoHolds
<1> HIDE DEF j
<1>3. ASSUME NEW k \in Keys
      PROVE  refcount'[k] + Bit(JobHolds(req[r], k)) + leaked[k]
               = refcount[k] + Bit(JobHolds(j, k)) + leaked'[k]
  <2>1. Bit(JobHolds(j, k)) = Bit(JobHolds(req[r], k)) /\ Bit(JobHolds(j, k)) \in Nat
    BY <1>2 DEF JobHolds, Bit
  <2>2. /\ refcount'[k] \in Nat /\ refcount[k] \in Nat /\ leaked[k] \in Nat /\ leaked'[k] \in Nat
        /\ refcount'[k] + leaked[k] = refcount[k] + leaked'[k]
    BY DEF JobInv, TypeOK
  <2> QED BY <2>1, <2>2
<1>4. j # Idle => j.id = req[r].id /\ j.kind = req[r].kind /\ GoodJob(j, docs[j.id])
  BY <1>2
<1>5. req' = [req EXCEPT ![r] = j]
  BY DEF j
<1>6. \A k \in Keys : refcount'[k] + Bit(JobHolds(req[r], k)) + leaked[k]
                        = refcount[k] + Bit(JobHolds(j, k)) + leaked'[k]
  BY <1>3
<1>7. ReqMoves(r, j)
  BY <1>4, <1>5, <1>6 DEF ReqMoves
<1> QED BY <1>7, ReqStep

\* One claim is given back, or is lost.
LEMMA ReleaseStep ==
  ASSUME JobInv, TypeOK', NEW r \in Requests, At(r, "undo") \/ At(r, "release"), NEW f \in req[r].held,
         req' = [req EXCEPT ![r] = Released(r, f)], UNCHANGED docs,
         \/ DecrementRef(Key(req[r].id, f)) /\ UNCHANGED leaked
         \/ /\ leaked' = [leaked EXCEPT ![Key(req[r].id, f)] = @ + 1]
            /\ UNCHANGED refVars
  PROVE  Keeps
<1> DEFINE h == req[r].held \ {f}
           i == req[r].id
           l == Key(i, f)
           j == Released(r, f)
<1>1. req[r] # Idle /\ h \in SUBSET Fps /\ i \in SloIds
  BY DEF At, JobInv, TypeOK, Jobs
<1>2. l \in Keys
  BY <1>1, KeyType DEF JobInv, TypeOK, Jobs
<1>3. h \cup {f} = req[r].held /\ f \notin h
  OBVIOUS
<1>4. /\ j # Idle => j.id = i /\ j.kind = req[r].kind /\ GoodJob(j, docs[j.id])
      /\ \A k \in Keys : JobHolds(j, k) <=> k[2] \in h /\ WorkspaceOf[i] = k[1]
  <2>1. CASE req[r].pc = "undo"
    <3>1. j = Undo(r, h)
      BY <2>1 DEF Released
    <3> HIDE DEF h, j
    <3> QED BY <1>1, <3>1, UndoHolds
  <2>2. CASE req[r].pc # "undo"
    <3>1. j = GiveUp(r, h)
      BY <2>2 DEF Released
    <3> HIDE DEF h, j
    <3> QED BY <1>1, <3>1, GiveUpHolds
  <2> QED BY <2>1, <2>2
<1>5. req' = [req EXCEPT ![r] = j]
  OBVIOUS
<1>6. \/ DecrementRef(l) /\ UNCHANGED leaked
      \/ leaked' = [leaked EXCEPT ![l] = @ + 1] /\ UNCHANGED refVars
  OBVIOUS
<1>7. \A k \in Keys : JobHolds(req[r], k) <=> k[2] \in h \cup {f} /\ WorkspaceOf[i] = k[1]
  BY <1>1, <1>3 DEF JobHolds
<1> HIDE DEF j, l, h
<1>8. \A k \in Keys :
        \/ refcount'[k] + Bit(JobHolds(req[r], k)) + leaked[k]
             = refcount[k] + Bit(JobHolds(j, k)) + leaked'[k]
        \/ /\ refcount[k] = 0 /\ refcount'[k] = 0 /\ leaked'[k] = leaked[k]
           /\ Bit(JobHolds(req[r], k)) = Bit(JobHolds(j, k)) + 1
  <2> SUFFICES ASSUME NEW k \in Keys
               PROVE  \/ refcount'[k] + Bit(JobHolds(req[r], k)) + leaked[k]
                           = refcount[k] + Bit(JobHolds(j, k)) + leaked'[k]
                      \/ /\ refcount[k] = 0 /\ refcount'[k] = 0 /\ leaked'[k] = leaked[k]
                         /\ Bit(JobHolds(req[r], k)) = Bit(JobHolds(j, k)) + 1
    OBVIOUS
  <2>1. Bit(JobHolds(req[r], k)) = Bit(JobHolds(j, k)) + Bit(k = l)
    <3>1. Bit(k[2] \in h \cup {f} /\ WorkspaceOf[i] = k[1])
            = Bit(k[2] \in h /\ WorkspaceOf[i] = k[1]) + Bit(k = l)
      <4> HIDE DEF i
      <4> QED BY <1>1, <1>3, HoldOneMore DEF l
    <3> QED BY <1>4, <1>7, <3>1 DEF Bit
  <2>2. /\ refcount'[k] \in Nat /\ refcount[k] \in Nat /\ leaked[k] \in Nat /\ leaked'[k] \in Nat
        /\ Bit(JobHolds(j, k)) \in Nat /\ Bit(k = l) \in Nat /\ (k = l => Bit(k = l) = 1)
    BY DEF JobInv, TypeOK, Bit
  <2>3. CASE DecrementRef(l) /\ UNCHANGED leaked
    <3>1. \/ refcount'[k] + Bit(k = l) = refcount[k]
          \/ k = l /\ refcount[k] = 0 /\ refcount'[k] = 0
      BY <1>2, <2>3, DecrementBit DEF JobInv
    <3> QED BY <2>1, <2>2, <2>3, <3>1
  <2>4. CASE leaked' = [leaked EXCEPT ![l] = @ + 1] /\ UNCHANGED refVars
    <3>1. leaked'[k] = leaked[k] + Bit(k = l) /\ refcount'[k] = refcount[k]
      BY <1>2, <2>4 DEF JobInv, TypeOK, Bit, refVars
    <3> QED BY <2>1, <2>2, <3>1
  <2> QED BY <1>6, <2>3, <2>4
<1>9. req[r] # Idle /\ (j # Idle => j.id = req[r].id /\ j.kind = req[r].kind /\ GoodJob(j, docs[j.id]))
  BY <1>1, <1>4
<1> HIDE DEF i
<1>10. ReqMoves(r, j)
  BY <1>5, <1>8, <1>9 DEF ReqMoves
<1> QED BY <1>9, <1>10, ReqStep

\* A step that moves no claim.
LEMMA QuietStep ==
  ASSUME JobInv, TypeOK', NEW r \in Requests, req[r] # Idle,
         NEW j, req' = [req EXCEPT ![r] = j], UNCHANGED <<docs, refcount, leaked>>,
         j = Idle => req[r].held = {},
         j # Idle => /\ j.id = req[r].id /\ j.kind = req[r].kind /\ j.held = req[r].held
                     /\ GoodJob(j, docs[j.id])
  PROVE  Keeps
<1>1. \A k \in Keys : JobHolds(req[r], k) <=> JobHolds(j, k)
  BY DEF JobHolds
<1>2. \A k \in Keys : refcount'[k] + Bit(JobHolds(req[r], k)) + leaked[k]
                        = refcount[k] + Bit(JobHolds(j, k)) + leaked'[k]
  BY <1>1 DEF Bit
<1>3. UNCHANGED docs /\ (j # Idle => j.id = req[r].id /\ j.kind = req[r].kind /\ GoodJob(j, docs[j.id]))
  OBVIOUS
<1>4. ReqMoves(r, j)
  BY <1>2, <1>3 DEF ReqMoves
<1> QED BY <1>4, ReqStep

-----------------------------------------------------------------------------
(* The actions.                                                            *)

(* The start of a request, which holds nothing yet, keeps the invariant.   *)
LEMMA StartsStep ==
  ASSUME SerialWrites, JobInv, TypeOK', NEW r \in Requests, Starts(r)
  PROVE  Keeps
<1>1. ASSUME NEW i \in SloIds, NEW d \in Docs, BeginCreate(r, i, d) PROVE Keeps
  <2> DEFINE j == [kind |-> "create", pc |-> "name", id |-> i, base |-> NoDoc, want |-> d,
                   todo |-> d.fps, held |-> {}]
  <2>1. j \in Jobs /\ j.held = {} /\ GoodJob(j, docs[j.id])
    <3>1. d.fps \subseteq Fps
      BY LifecycleAssumption DEF Docs
    <3> QED BY <3>1 DEF Jobs, GoodJob, FpsOf
  <2>2. Begin(r, j)
    BY <1>1 DEF BeginCreate
  <2> HIDE DEF j
  <2> QED BY <2>1, <2>2, BeginStep
<1>2. ASSUME NEW i \in SloIds, NEW d \in Docs, BeginUpdate(r, i, d) PROVE Keeps
  <2> DEFINE j == [kind |-> "update", pc |-> IF d.name = docs[i].name THEN "claim" ELSE "name",
                   id |-> i, base |-> docs[i], want |-> d, todo |-> d.fps \ docs[i].fps, held |-> {}]
  <2>1. j \in Jobs /\ j.held = {} /\ GoodJob(j, docs[j.id])
    <3>1. d.fps \subseteq Fps /\ docs[i] \in Docs /\ FpsOf(docs[i]) = docs[i].fps
      BY <1>2, LifecycleAssumption DEF Docs, BeginUpdate, JobInv, TypeOK, FpsOf
    <3> QED BY <3>1 DEF Jobs, GoodJob
  <2>2. Begin(r, j)
    BY <1>2 DEF BeginUpdate
  <2> HIDE DEF j
  <2> QED BY <2>1, <2>2, BeginStep
<1>3. ASSUME NEW i \in SloIds, BeginDelete(r, i) PROVE Keeps
  <2> DEFINE j == [kind |-> "delete", pc |-> "unprovision", id |-> i, base |-> docs[i],
                   want |-> docs[i], todo |-> {}, held |-> {}]
  <2>1. j \in Jobs /\ j.held = {} /\ GoodJob(j, docs[j.id])
    BY <1>3 DEF BeginDelete, JobInv, TypeOK, Jobs, GoodJob
  <2>2. Begin(r, j)
    BY <1>3 DEF BeginDelete
  <2> HIDE DEF j
  <2> QED BY <2>1, <2>2, BeginStep
<1>4. ASSUME NEW i \in SloIds, BeginRepair(r, i) PROVE Keeps
  <2> DEFINE j == [kind |-> "repair", pc |-> "probe", id |-> i, base |-> docs[i],
                   want |-> docs[i], todo |-> {}, held |-> {}]
  <2>1. j \in Jobs /\ j.held = {} /\ GoodJob(j, docs[j.id])
    BY <1>4 DEF BeginRepair, JobInv, TypeOK, Jobs, GoodJob
  <2>2. Begin(r, j)
    BY <1>4 DEF BeginRepair
  <2> HIDE DEF j
  <2> QED BY <2>1, <2>2, BeginStep
<1> QED BY <1>1, <1>2, <1>3, <1>4 DEF Starts

(* What the invariant says of one request under way.                       *)
LEMMA GoodNow ==
  ASSUME JobInv, NEW r \in Requests, req[r] # Idle
  PROVE  /\ req[r] \in Jobs /\ req[r].id \in SloIds
         /\ req[r].held \subseteq Fps /\ req[r].todo \subseteq Fps
         /\ GoodJob(req[r], docs[req[r].id])
BY DEF JobInv, TypeOK, JobsGood, Jobs

(* A claim, settled either way, keeps the invariant.                       *)
LEMMA ClaimStep ==
  ASSUME JobInv, TypeOK', NEW r \in Requests, NEW f \in Fps, Claim(r, f)
  PROVE  Keeps
<1> DEFINE i == req[r].id
           l == Key(i, f)
           h == req[r].held
           j == Claimed(r, f)
<1>1. /\ req[r] # Idle /\ req[r].pc = "claim" /\ f \in req[r].todo
      /\ IncrementRef(l) /\ req' = [req EXCEPT ![r] = j] /\ UNCHANGED <<docs, leaked>>
  BY DEF Claim, At
<1>2. i \in SloIds /\ l \in Keys /\ f \notin h
  BY <1>1, GoodNow, KeyType DEF JobInv, GoodJob
<1>3. /\ j # Idle /\ j.id = i /\ j.kind = req[r].kind /\ j.held = h \cup {f}
      /\ GoodJob(j, docs[j.id])
  <2> DEFINE a == [req[r] EXCEPT !.pc = "record", !.held = h \cup {f}]
             b == [req[r] EXCEPT !.todo = req[r].todo \ {f}, !.held = h \cup {f}]
  <2>1. req[r] \in Jobs /\ GoodJob(req[r], docs[i]) /\ h \cup {f} \subseteq Fps /\ req[r].todo \ {f} \subseteq Fps
    BY <1>1, GoodNow
  <2>2. a \in Jobs /\ b \in Jobs
    BY <2>1 DEF Jobs
  <2>3. a # Idle /\ b # Idle
    BY <2>2, LifecycleAssumption
  <2>4. /\ a.id = i /\ a.kind = req[r].kind /\ a.base = req[r].base /\ a.want = req[r].want
        /\ a.pc = "record" /\ a.held = h \cup {f} /\ a.todo = req[r].todo
        /\ b.id = i /\ b.kind = req[r].kind /\ b.base = req[r].base /\ b.want = req[r].want
        /\ b.pc = "claim" /\ b.held = h \cup {f} /\ b.todo = req[r].todo \ {f}
    BY <1>1, <2>1 DEF Jobs
  <2>5. GoodJob(a, docs[i]) /\ GoodJob(b, docs[i])
    <3> HIDE DEF a, b
    <3> QED BY <1>1, <1>2, <2>1, <2>4 DEF GoodJob
  <2>6. j = a \/ j = b
    BY DEF Claimed
  <2> HIDE DEF a, b, j
  <2> QED BY <2>3, <2>4, <2>5, <2>6
<1>4. \A k \in Keys : /\ JobHolds(req[r], k) <=> k[2] \in h /\ WorkspaceOf[i] = k[1]
                      /\ JobHolds(j, k) <=> k[2] \in h \cup {f} /\ WorkspaceOf[i] = k[1]
  BY <1>1, <1>3 DEF JobHolds
<1> HIDE DEF j, l, h
<1>5. \A k \in Keys : refcount'[k] + Bit(JobHolds(req[r], k)) + leaked[k]
                        = refcount[k] + Bit(JobHolds(j, k)) + leaked'[k]
  <2> SUFFICES ASSUME NEW k \in Keys
               PROVE  refcount'[k] + Bit(JobHolds(req[r], k)) + leaked[k]
                        = refcount[k] + Bit(JobHolds(j, k)) + leaked'[k]
    OBVIOUS
  <2>1. Bit(JobHolds(j, k)) = Bit(JobHolds(req[r], k)) + Bit(k = l)
    <3>1. Bit(k[2] \in h \cup {f} /\ WorkspaceOf[i] = k[1])
            = Bit(k[2] \in h /\ WorkspaceOf[i] = k[1]) + Bit(k = l)
      <4> HIDE DEF i
      <4> QED BY <1>2, HoldOneMore DEF l
    <3> QED BY <1>4, <3>1 DEF Bit
  <2>2. refcount'[k] = refcount[k] + Bit(k = l)
    BY <1>1, <1>2, IncrementBit DEF JobInv
  <2>3. /\ refcount[k] \in Nat /\ leaked[k] \in Nat
        /\ Bit(JobHolds(req[r], k)) \in Nat /\ Bit(k = l) \in Nat
    BY DEF JobInv, TypeOK, Bit
  <2> QED BY <1>1, <2>1, <2>2, <2>3
<1>6. /\ req[r] # Idle /\ UNCHANGED docs /\ req' = [req EXCEPT ![r] = j]
      /\ j # Idle => j.id = req[r].id /\ j.kind = req[r].kind /\ GoodJob(j, docs[j.id])
  BY <1>1, <1>3
<1> HIDE DEF i
<1>7. ReqMoves(r, j)
  BY <1>5, <1>6 DEF ReqMoves
<1> QED BY <1>6, <1>7, ReqStep

\* The steps of a request that save no document and give nothing back.
LEMMA ProceedsQuietly ==
  ASSUME JobInv, TypeOK', NEW r \in Requests,
         \/ CheckName(r)
         \/ UpsertRecording(r)
         \/ UpsertAlert(r)
         \/ DeleteOwnAlert(r)
         \/ DeleteAlert(r)
         \/ Probe(r)
         \/ \E f \in Fps : ReplayRecording(r, f)
         \/ ReplayAlert(r)
  PROVE  Keeps
<1>0. req[r] # Idle /\ UNCHANGED <<docs, refcount, leaked>>
  BY DEF CheckName, UpsertRecording, UpsertAlert, DeleteOwnAlert, DeleteAlert, Probe,
         ReplayRecording, ReplayAlert, At, refVars, rulerVars
<1>1. /\ req[r] \in Jobs /\ req[r].todo \subseteq Fps /\ req[r].held \subseteq Fps
      /\ req[r].want.fps \subseteq Fps /\ GoodJob(req[r], docs[req[r].id])
  BY <1>0, GoodNow, WantType
\* Where the request ends, it holds nothing.
<1>a. ASSUME req' = [req EXCEPT ![r] = Idle], req[r].held = {} PROVE Keeps
  BY <1>0, <1>a, QuietStep
\* Where it goes on, its claims are those of the next await.
<1>b. ASSUME NEW p \in {"claim", "save", "drop", "replay"}, NEW t \in SUBSET Fps,
             req' = [req EXCEPT ![r] = [req[r] EXCEPT !.pc = p, !.todo = t]],
             \A j : /\ j.id = req[r].id /\ j.kind = req[r].kind /\ j.base = req[r].base
                    /\ j.want = req[r].want /\ j.held = req[r].held /\ j.pc = p /\ j.todo = t
                    => GoodJob(j, docs[j.id])
      PROVE  Keeps
  <2> DEFINE j == [req[r] EXCEPT !.pc = p, !.todo = t]
  <2>1. j \in Jobs
    BY <1>1, <1>b DEF Jobs
  <2>2. /\ j # Idle /\ j.id = req[r].id /\ j.kind = req[r].kind /\ j.base = req[r].base
        /\ j.want = req[r].want /\ j.held = req[r].held /\ j.pc = p /\ j.todo = t
    BY <1>1, <2>1, LifecycleAssumption DEF Jobs
  <2>3. req' = [req EXCEPT ![r] = j]
    BY <1>b
  <2> HIDE DEF j
  <2>4. GoodJob(j, docs[j.id])
    BY <1>b, <2>2
  <2> QED BY <1>0, <2>2, <2>3, <2>4, QuietStep
<1>2. CASE CheckName(r)
  <2>1. req[r].pc = "name"
    BY <1>2 DEF CheckName, At
  <2>2. \/ req' = [req EXCEPT ![r] = Idle]
        \/ req' = [req EXCEPT ![r] = [req[r] EXCEPT !.pc = "claim", !.todo = req[r].todo]]
    BY <1>1, <1>2 DEF CheckName, Jobs
  <2>3. \A j : /\ j.id = req[r].id /\ j.kind = req[r].kind /\ j.base = req[r].base
                /\ j.want = req[r].want /\ j.held = req[r].held /\ j.pc = "claim" /\ j.todo = req[r].todo
                => GoodJob(j, docs[j.id])
    BY <1>1, <2>1 DEF GoodJob
  <2>4. req[r].held = {}
    BY <1>1, <2>1 DEF GoodJob
  <2>5. ASSUME req' = [req EXCEPT ![r] = [req[r] EXCEPT !.pc = "claim", !.todo = req[r].todo]]
        PROVE  Keeps
    BY <1>1, <1>b, <2>3, <2>5
  <2> QED BY <1>a, <2>2, <2>4, <2>5
<1>3. CASE UpsertRecording(r)
  <2>1. req[r].pc = "record"
    BY <1>3 DEF UpsertRecording, At
  <2>2. req' = [req EXCEPT ![r] = [req[r] EXCEPT !.pc = "claim", !.todo = req[r].todo \ Unrecorded(r)]]
    BY <1>3, <1>1 DEF UpsertRecording, JobInv, TypeOK
  <2>3. \A j : /\ j.id = req[r].id /\ j.kind = req[r].kind /\ j.base = req[r].base
                /\ j.want = req[r].want /\ j.held = req[r].held /\ j.pc = "claim" /\ j.todo = req[r].todo \ Unrecorded(r)
                => GoodJob(j, docs[j.id])
    BY <1>1, <2>1 DEF GoodJob, Unrecorded
  <2>4. req[r].todo \ Unrecorded(r) \in SUBSET Fps
    BY <1>1
  <2> QED BY <1>b, <2>2, <2>3, <2>4
<1>4. CASE UpsertAlert(r)
  <2>1. req[r].pc = "claim" /\ req[r].todo = {}
    BY <1>4 DEF UpsertAlert, At
  <2>2. req' = [req EXCEPT ![r] = [req[r] EXCEPT !.pc = "save", !.todo = req[r].todo]]
    BY <1>4, <1>1 DEF UpsertAlert, JobInv, TypeOK, Jobs
  <2> QED BY <1>1, <1>b, <2>1, <2>2, ZenonT(30) DEF GoodJob
<1>5. CASE DeleteOwnAlert(r)
  BY <1>1, <1>5, <1>a DEF DeleteOwnAlert, At, GoodJob
<1>6. CASE DeleteAlert(r)
  <2>1. req[r].pc = "unprovision"
    BY <1>6 DEF DeleteAlert, At
  <2>2. req' = [req EXCEPT ![r] = [req[r] EXCEPT !.pc = "drop", !.todo = req[r].todo]]
    BY <1>6, <1>1 DEF DeleteAlert, JobInv, TypeOK, Jobs
  <2> QED BY <1>1, <1>b, <2>1, <2>2 DEF GoodJob
<1>7. CASE Probe(r)
  <2>1. req[r].pc = "probe"
    BY <1>7 DEF Probe, At
  <2>2. \/ req' = [req EXCEPT ![r] = Idle]
        \/ req' = [req EXCEPT ![r] = [req[r] EXCEPT !.pc = "replay", !.todo = req[r].want.fps]]
    BY <1>7, <1>1 DEF Probe, JobInv, TypeOK, Jobs
  <2>3. \A j : /\ j.id = req[r].id /\ j.kind = req[r].kind /\ j.base = req[r].base
                /\ j.want = req[r].want /\ j.held = req[r].held /\ j.pc = "replay" /\ j.todo = req[r].want.fps
                => GoodJob(j, docs[j.id])
    BY <1>1, <2>1 DEF GoodJob
  <2>4. req[r].held = {} /\ req[r].want.fps \in SUBSET Fps
    BY <1>1, <1>7, <2>1, WantType DEF GoodJob, Probe, JobInv
  <2>5. ASSUME req' = [req EXCEPT ![r] = [req[r] EXCEPT !.pc = "replay",
                                                        !.todo = req[r].want.fps]]
        PROVE  Keeps
    BY <1>b, <2>3, <2>4, <2>5
  <2> QED BY <1>a, <2>2, <2>4, <2>5
<1>8. CASE \E f \in Fps : ReplayRecording(r, f)
  <2>1. PICK f \in Fps : ReplayRecording(r, f)
    BY <1>8
  <2>2. req[r].pc = "replay"
    BY <2>1 DEF ReplayRecording, At
  <2> DEFINE t == req[r].todo \ {f}
  <2>3. req' = [req EXCEPT ![r] = [req[r] EXCEPT !.todo = t]]
    BY <2>1, <1>1 DEF ReplayRecording, JobInv, TypeOK
  <2>4. [req[r] EXCEPT !.todo = t] = [req[r] EXCEPT !.pc = "replay", !.todo = t]
    BY <1>1, <2>2 DEF Jobs
  <2>5. req' = [req EXCEPT ![r] = [req[r] EXCEPT !.pc = "replay", !.todo = t]]
    BY <2>3, <2>4
  <2>6. \A j : /\ j.id = req[r].id /\ j.kind = req[r].kind /\ j.base = req[r].base
                /\ j.want = req[r].want /\ j.held = req[r].held /\ j.pc = "replay" /\ j.todo = t
                => GoodJob(j, docs[j.id])
    BY <1>1, <2>2 DEF GoodJob
  <2>7. t \in SUBSET Fps
    BY <1>1
  <2> HIDE DEF t
  <2> QED BY <1>b, <2>5, <2>6, <2>7
<1>9. CASE ReplayAlert(r)
  BY <1>1, <1>9, <1>a DEF ReplayAlert, At, GoodJob
<1> QED BY <1>2, <1>3, <1>4, <1>5, <1>6, <1>7, <1>8, <1>9

\* The failures that end a request holding nothing.
LEMMA EndsEmpty ==
  ASSUME JobInv, TypeOK', NEW r \in Requests,
         DeleteOwnAlertFails(r) \/ DeleteAlertFails(r) \/ RepairFails(r)
  PROVE  Keeps
<1>1. req[r] # Idle /\ UNCHANGED <<docs, refcount, leaked>> /\ req' = [req EXCEPT ![r] = Idle]
  BY DEF DeleteOwnAlertFails, DeleteAlertFails, RepairFails, At, refVars
<1>2. req[r].held = {}
  BY <1>1, GoodNow DEF DeleteOwnAlertFails, DeleteAlertFails, RepairFails, At, GoodJob
<1> QED BY <1>1, <1>2, QuietStep

\* The failures that roll back.
LEMMA RollsBack ==
  ASSUME ~LostSaves, JobInv, TypeOK', NEW r \in Requests,
         \/ \E f \in Fps : ClaimFails(r, f)
         \/ UpsertRecordingFails(r)
         \/ UpsertAlertFails(r)
         \/ SaveFails(r)
  PROVE  Keeps
<1>1. req[r] # Idle /\ UNCHANGED docs /\ req' = [req EXCEPT ![r] = Undo(r, req[r].held)]
  BY DEF ClaimFails, UpsertRecordingFails, UpsertAlertFails, SaveFails, At
<1>2. \A k \in Keys : refcount'[k] + leaked[k] = refcount[k] + leaked'[k]
  <2>1. CASE UNCHANGED <<refcount, leaked>>
    BY <2>1 DEF JobInv, TypeOK
  <2>2. CASE \E f \in Fps : IncrementRef(Key(req[r].id, f))
                            /\ leaked' = [leaked EXCEPT ![Key(req[r].id, f)] = @ + 1]
    <3>1. PICK f \in Fps : IncrementRef(Key(req[r].id, f))
                           /\ leaked' = [leaked EXCEPT ![Key(req[r].id, f)] = @ + 1]
      BY <2>2
    <3>2. Key(req[r].id, f) \in Keys
      BY <1>1, KeyType DEF JobInv
    <3> QED BY <3>1, <3>2 DEF JobInv, TypeOK, IncrementRef
  <2> QED BY <2>1, <2>2 DEF ClaimFails, UpsertRecordingFails, UpsertAlertFails, SaveFails, refVars
<1> QED BY <1>1, <1>2, UndoStep, Zenon

(* Orphaned claims are counted once on each of their counters.             *)
LEMMA OrphanedBit ==
  ASSUME TypeOK, NEW i \in SloIds, NEW fs, NEW k \in Keys
  PROVE  Orphaned(i, fs)[k] = leaked[k] + Bit(k[2] \in fs /\ WorkspaceOf[i] = k[1])
BY DEF TypeOK, Orphaned, Bit

(* A document holds the counters of its fingerprints in its workspace.     *)
LEMMA DocHoldsFps ==
  ASSUME NEW d, NEW i, NEW k
  PROVE  DocHolds(d, i, k) <=> k[2] \in FpsOf(d) /\ WorkspaceOf[i] = k[1]
BY DEF DocHolds, FpsOf

\* A save moves the request's claims into the document, and the references the
\* old document no longer needs into the request, or into leaked.
LEMMA SaveStep ==
  ASSUME JobInv, TypeOK', NEW r \in Requests, Save(r)
  PROVE  Keeps
<1> DEFINE i == req[r].id
           b == req[r].base
           w == req[r].want
           h == FpsOf(b) \ w.fps
           j == GiveUp(r, h)
<1>1. /\ req[r] # Idle /\ req[r].pc = "save" /\ req' = [req EXCEPT ![r] = j]
      /\ docs' = [docs EXCEPT ![req[r].id] = w] /\ leaked' = Orphaned(i, Overwritten(r))
      /\ UNCHANGED refcount
  BY DEF Save, Write, At, refVars
<1>2. /\ i \in SloIds /\ b \in Docs \cup {NoDoc} /\ w \in Docs /\ FpsOf(w) = w.fps
      /\ req[r].held = w.fps \ FpsOf(b)
      /\ \/ req[r].kind = "create" /\ b = NoDoc
         \/ req[r].kind = "update" /\ b = docs[i]
  <2>1. req[r] \in Jobs /\ GoodJob(req[r], docs[i])
    BY <1>1, GoodNow
  <2> QED BY <1>1, <2>1, LifecycleAssumption DEF Jobs, GoodJob, FpsOf
<1>3. /\ j # Idle => j.id = req[r].id /\ j.kind = req[r].kind /\ GoodJob(j, w)
      /\ \A k \in Keys : JobHolds(j, k) <=> k[2] \in h /\ WorkspaceOf[i] = k[1]
  <2>1. h \in SUBSET Fps
    BY <1>2, FpsOfType
  <2> HIDE DEF h
  <2> QED BY <1>1, <2>1, GiveUpHolds
<1>4. \A k \in Keys :
        refcount'[k] + Bit(JobHolds(req[r], k)) + Bit(DocHolds(docs[req[r].id], req[r].id, k)) + leaked[k]
          = refcount[k] + Bit(JobHolds(j, k)) + Bit(DocHolds(w, req[r].id, k)) + leaked'[k]
  <2> SUFFICES ASSUME NEW k \in Keys
               PROVE  refcount[k] + Bit(JobHolds(req[r], k)) + Bit(DocHolds(docs[i], i, k)) + leaked[k]
                        = refcount[k] + Bit(JobHolds(j, k)) + Bit(DocHolds(w, i, k)) + leaked'[k]
    BY <1>1
  <2> HIDE DEF j
  <2>1. leaked'[k] = leaked[k] + Bit(k[2] \in Overwritten(r) /\ WorkspaceOf[i] = k[1])
    BY <1>1, <1>2, OrphanedBit DEF JobInv
  <2>2. refcount[k] \in Nat /\ leaked[k] \in Nat
    BY DEF JobInv, TypeOK
  <2>3. JobHolds(req[r], k) <=> k[2] \in w.fps \ FpsOf(b) /\ WorkspaceOf[i] = k[1]
    BY <1>1, <1>2 DEF JobHolds
  <2>4. JobHolds(j, k) <=> k[2] \in FpsOf(b) \ w.fps /\ WorkspaceOf[i] = k[1]
    BY <1>3
  <2>5. DocHolds(w, i, k) <=> k[2] \in w.fps /\ WorkspaceOf[i] = k[1]
    BY <1>2, DocHoldsFps
  <2>6. DocHolds(docs[i], i, k) <=> k[2] \in FpsOf(docs[i]) /\ WorkspaceOf[i] = k[1]
    BY DocHoldsFps
  <2>7. CASE req[r].kind = "create" /\ b = NoDoc
    <3>1. Overwritten(r) = FpsOf(docs[i]) /\ FpsOf(b) = {}
      BY <2>7 DEF Overwritten, FpsOf
    <3> HIDE DEF i, b, w
    <3> QED BY <2>1, <2>2, <2>3, <2>4, <2>5, <2>6, <3>1 DEF Bit
  <2>8. CASE req[r].kind = "update" /\ b = docs[i]
    <3>1. Overwritten(r) = {}
      BY <2>8 DEF Overwritten
    <3>2. b = docs[i]
      BY <2>8
    <3> HIDE DEF i, b, w
    <3> QED BY <2>1, <2>2, <2>3, <2>4, <2>5, <2>6, <3>1, <3>2 DEF Bit
  <2> QED BY <1>2, <2>7, <2>8
<1>5. req[r] # Idle /\ req[r].kind # "repair"
  BY <1>1, <1>2
<1> HIDE DEF j, w
<1>6. DocMoves(r, j, w)
  BY <1>1, <1>3, <1>4 DEF DocMoves
<1> QED BY <1>5, <1>6, DocStep

\* A delete moves the document's claims into the request, or into leaked.
LEMMA DropStep ==
  ASSUME JobInv, TypeOK', NEW r \in Requests, At(r, "drop"), Remove(r), UNCHANGED refVars,
         \/ req' = [req EXCEPT ![r] = GiveUp(r, req[r].want.fps)] /\ UNCHANGED leaked
         \/ req' = [req EXCEPT ![r] = Idle] /\ leaked' = Orphaned(req[r].id, FpsOf(docs[req[r].id]))
  PROVE  Keeps
<1> DEFINE i == req[r].id
           w == req[r].want
<1>1. /\ req[r] # Idle /\ docs' = [docs EXCEPT ![req[r].id] = NoDoc] /\ UNCHANGED refcount
  BY DEF At, Remove, refVars
<1>2. /\ i \in SloIds /\ w.fps \in SUBSET Fps /\ req[r].held = {} /\ FpsOf(docs[i]) = w.fps
      /\ req[r].kind # "repair"
  <2>1. req[r] \in Jobs /\ GoodJob(req[r], docs[i])
    BY <1>1, GoodNow
  <2>2. req[r].held = {} /\ docs[i] = w /\ req[r].kind # "repair"
    BY <2>1 DEF GoodJob, At
  <2> QED BY <2>1, <2>2, WantType, LifecycleAssumption DEF Jobs, FpsOf
<1>3. ASSUME NEW k \in Keys
      PROVE  /\ Bit(JobHolds(req[r], k)) = 0 /\ Bit(DocHolds(NoDoc, i, k)) = 0
             /\ Bit(DocHolds(docs[i], i, k)) = Bit(k[2] \in w.fps /\ WorkspaceOf[i] = k[1])
             /\ refcount[k] \in Nat /\ leaked[k] \in Nat
  <2>1. ~JobHolds(req[r], k) /\ ~DocHolds(NoDoc, i, k)
    BY <1>2 DEF JobHolds, DocHolds
  <2>2. DocHolds(docs[i], i, k) <=> k[2] \in w.fps /\ WorkspaceOf[i] = k[1]
    BY <1>2, DocHoldsFps
  <2> QED BY <2>1, <2>2 DEF Bit, JobInv, TypeOK
<1>4. CASE req' = [req EXCEPT ![r] = GiveUp(r, w.fps)] /\ UNCHANGED leaked
  <2> DEFINE j == GiveUp(r, w.fps)
  <2>1. /\ j # Idle => j.id = req[r].id /\ j.kind = req[r].kind /\ GoodJob(j, NoDoc)
        /\ \A k \in Keys : JobHolds(j, k) <=> k[2] \in w.fps /\ WorkspaceOf[i] = k[1]
    <3> DEFINE h == w.fps
    <3>1. h \in SUBSET Fps
      BY <1>2
    <3> HIDE DEF h
    <3>2. LET g == GiveUp(r, h) IN
          /\ g # Idle => g.id = req[r].id /\ g.kind = req[r].kind /\ \A d : GoodJob(g, d)
          /\ \A k \in Keys : JobHolds(g, k) <=> k[2] \in h /\ WorkspaceOf[req[r].id] = k[1]
      BY <1>1, <3>1, GiveUpHolds
    <3> QED BY <3>2 DEF h
  <2>2. req' = [req EXCEPT ![r] = j] /\ UNCHANGED leaked
    BY <1>4
  <2> HIDE DEF j
  <2>3. \A k \in Keys :
          refcount'[k] + Bit(JobHolds(req[r], k)) + Bit(DocHolds(docs[req[r].id], req[r].id, k)) + leaked[k]
            = refcount[k] + Bit(JobHolds(j, k)) + Bit(DocHolds(NoDoc, req[r].id, k)) + leaked'[k]
    BY <1>1, <1>3, <2>1, <2>2 DEF Bit
  <2>4. req[r] # Idle /\ req[r].kind # "repair"
    BY <1>1, <1>2
  <2>5. DocMoves(r, j, NoDoc)
    BY <1>1, <2>1, <2>2, <2>3 DEF DocMoves
  <2> QED BY <2>4, <2>5, DocStep
<1>5. CASE req' = [req EXCEPT ![r] = Idle] /\ leaked' = Orphaned(i, FpsOf(docs[i]))
  <2>1. \A k \in Keys :
          refcount'[k] + Bit(JobHolds(req[r], k)) + Bit(DocHolds(docs[req[r].id], req[r].id, k)) + leaked[k]
            = refcount[k] + Bit(JobHolds(Idle, k)) + Bit(DocHolds(NoDoc, req[r].id, k)) + leaked'[k]
    <3> SUFFICES ASSUME NEW k \in Keys
                 PROVE  refcount[k] + Bit(JobHolds(req[r], k)) + Bit(DocHolds(docs[i], i, k)) + leaked[k]
                          = refcount[k] + Bit(JobHolds(Idle, k)) + Bit(DocHolds(NoDoc, i, k)) + leaked'[k]
      BY <1>1
    <3>1. leaked'[k] = leaked[k] + Bit(k[2] \in w.fps /\ WorkspaceOf[i] = k[1])
      BY <1>2, <1>5, OrphanedBit DEF JobInv
    <3>2. Bit(JobHolds(Idle, k)) = 0
      BY DEF JobHolds, Bit
    <3>3. Bit(k[2] \in w.fps /\ WorkspaceOf[i] = k[1]) \in Nat
      BY DEF Bit
    <3> QED BY <1>3, <3>1, <3>2, <3>3
  <2>2. req' = [req EXCEPT ![r] = Idle]
    BY <1>5
  <2>3. req[r] # Idle /\ req[r].kind # "repair"
    BY <1>1, <1>2
  <2>4. DocMoves(r, Idle, NoDoc)
    BY <1>1, <2>1, <2>2 DEF DocMoves
  <2> QED BY <2>3, <2>4, DocStep
<1> QED BY <1>4, <1>5

(* A step that leaves documents, requests and what was lost alone keeps the*)
(* requests as they should be, whatever it does to the counts.             *)
LEMMA JobsStay ==
  ASSUME JobInv, TypeOK', UNCHANGED <<docs, req, leaked>>
  PROVE  JobInv' /\ \A k \in Keys : Claims(k)' = Claims(k)
<1>1. JobsGood' /\ OneWriter'
  BY DEF JobInv, JobsGood, OneWriter
<1>2. \A k \in Keys : Claims(k)' = Claims(k)
  BY ClaimsKeep DEF Claims
<1> QED BY <1>1, <1>2 DEF JobInv

(* So does the aging of marks, which moves no count.                       *)
LEMMA AgeStep ==
  ASSUME JobInv, TypeOK', UNCHANGED <<docs, refcount, req, leaked>>
  PROVE  Keeps
BY JobsStay DEF Keeps, Balanced

\* A restart: what the requests it loses held is leaked, all of it.
LEMMA CrashStep ==
  ASSUME JobInv, TypeOK', Crash
  PROVE  Keeps
<1>1. PICK lost \in SUBSET {r \in Requests : req[r] # Idle} :
        /\ req' = [r \in Requests |-> IF r \in lost THEN Idle ELSE req[r]]
        /\ leaked' = [k \in Keys |-> leaked[k] + Cardinality(ReqClaims(k) \cap lost)]
  BY DEF Crash
<1>2. UNCHANGED <<docs, refcount>>
  BY DEF Crash, refVars
<1>3. JobsGood' /\ OneWriter'
  <2>1. \A r \in Requests : req'[r] # Idle => req'[r] = req[r]
    BY <1>1
  <2> QED BY <1>2, <2>1 DEF JobInv, JobsGood, OneWriter
<1>4. ASSUME NEW k \in Keys
      PROVE  Claims(k)' + refcount[k] = Claims(k) + refcount'[k]
  <2> DEFINE C == ReqClaims(k)
  <2>1. ReqClaims(k)' = C \ lost
    BY <1>1 DEF ReqClaims
  <2>2. IsFiniteSet(C)
    BY ClaimsFinite
  <2> HIDE DEF C
  <2>3. Cardinality(C \ lost) = Cardinality(C) - Cardinality(C \cap lost)
    BY <2>2, FS_Difference
  <2>4. /\ Cardinality(C) \in Nat /\ Cardinality(C \cap lost) \in Nat
    BY <2>2, FS_Intersection, FS_CardinalityType
  <2>5. leaked'[k] = leaked[k] + Cardinality(C \cap lost)
    BY <1>1 DEF C
  <2>6. Cardinality(DocClaims(k)') = Cardinality(DocClaims(k))
    BY <1>2, ClaimsKeep
  <2>7. Cardinality(DocClaims(k)) \in Nat /\ leaked[k] \in Nat
    BY ClaimsFinite DEF JobInv, TypeOK
  <2>8. /\ Claims(k)' = Cardinality(DocClaims(k)') + Cardinality(ReqClaims(k)') + leaked'[k]
        /\ Claims(k) = Cardinality(DocClaims(k)) + Cardinality(C) + leaked[k]
    BY DEF Claims, C
  <2> QED BY <1>2, <2>1, <2>3, <2>4, <2>5, <2>6, <2>7, <2>8
<1> QED BY <1>3, <1>4 DEF JobInv, Keeps, Balanced

(* Every step keeps the requests as they should be and moves each count as *)
(* it moves its claims, when clients do not overlap writes of one SLO and  *)
(* a save that throws was not applied.                                     *)
LEMMA StepKeeps ==
  ASSUME SerialWrites, ~LostSaves
  PROVE  JobInv /\ [Next]_vars => Keeps
<1> SUFFICES ASSUME JobInv, [Next]_vars PROVE Keeps
  OBVIOUS
<1>0. TypeOK'
  BY TypeStep DEF JobInv
<1>1. ASSUME NEW r \in Requests, Starts(r) PROVE Keeps
  BY <1>0, <1>1, StartsStep
<1>2. ASSUME NEW r \in Requests, Proceeds(r) PROVE Keeps
  <2>1. ASSUME NEW f \in Fps, Claim(r, f) PROVE Keeps
    BY <1>0, <2>1, ClaimStep
  <2>2. ASSUME NEW f \in Fps, Release(r, f) PROVE Keeps
    <3>1. /\ At(r, "undo") \/ At(r, "release")
          /\ f \in req[r].held
          /\ req' = [req EXCEPT ![r] = Released(r, f)]
          /\ UNCHANGED docs
          /\ DecrementRef(Key(req[r].id, f)) /\ UNCHANGED leaked
      BY <2>2 DEF Release
    <3> QED BY <1>0, <3>1, ReleaseStep
  <2>3. ASSUME Save(r) PROVE Keeps
    BY <1>0, <2>3, SaveStep
  <2>4. ASSUME DeleteDoc(r) PROVE Keeps
    <3>1. /\ At(r, "drop") /\ Remove(r) /\ UNCHANGED refVars
          /\ req' = [req EXCEPT ![r] = GiveUp(r, req[r].want.fps)] /\ UNCHANGED leaked
      BY <2>4 DEF DeleteDoc
    <3> QED BY <1>0, <3>1, DropStep
  <2>5. ASSUME \/ CheckName(r) \/ UpsertRecording(r) \/ UpsertAlert(r) \/ DeleteOwnAlert(r)
               \/ DeleteAlert(r) \/ Probe(r) \/ (\E f \in Fps : ReplayRecording(r, f))
               \/ ReplayAlert(r)
        PROVE  Keeps
    BY <1>0, <2>5, ProceedsQuietly
  <2> QED BY <1>2, <2>1, <2>2, <2>3, <2>4, <2>5 DEF Proceeds
<1>3. ASSUME NEW r \in Requests, Fails(r) PROVE Keeps
  <2>1. ASSUME NEW f \in Fps, ReleaseFails(r, f) PROVE Keeps
    <3>1. /\ At(r, "undo") \/ At(r, "release")
          /\ f \in req[r].held
          /\ req' = [req EXCEPT ![r] = Released(r, f)]
          /\ UNCHANGED docs
          /\ \/ DecrementRef(Key(req[r].id, f)) /\ UNCHANGED leaked
             \/ /\ leaked' = [leaked EXCEPT ![Key(req[r].id, f)] = @ + 1]
                /\ UNCHANGED refVars
      BY <2>1 DEF ReleaseFails
    <3> QED BY <1>0, <3>1, ReleaseStep
  <2>2. ASSUME DeleteDocFails(r) PROVE Keeps
    <3>1. /\ At(r, "drop") /\ UNCHANGED refVars /\ req' = [req EXCEPT ![r] = Idle]
          /\ \/ UNCHANGED <<docs, leaked>>
             \/ Remove(r) /\ leaked' = Orphaned(req[r].id, FpsOf(docs[req[r].id]))
      BY <2>2 DEF DeleteDocFails
    <3>2. CASE UNCHANGED <<docs, leaked>>
      <4>1. req[r] # Idle /\ req[r].pc = "drop" /\ UNCHANGED <<docs, refcount, leaked>>
        BY <3>1, <3>2 DEF At, refVars
      <4>2. req[r].held = {}
        BY <4>1, GoodNow DEF GoodJob
      <4> QED BY <1>0, <3>1, <4>1, <4>2, QuietStep
    <3>3. CASE Remove(r) /\ leaked' = Orphaned(req[r].id, FpsOf(docs[req[r].id]))
      BY <1>0, <3>1, <3>3, DropStep
    <3> QED BY <3>1, <3>2, <3>3
  <2>3. ASSUME \/ \E f \in Fps : ClaimFails(r, f)
               \/ UpsertRecordingFails(r) \/ UpsertAlertFails(r) \/ SaveFails(r)
        PROVE  Keeps
    BY <1>0, <2>3, RollsBack
  <2>4. ASSUME DeleteOwnAlertFails(r) \/ DeleteAlertFails(r) \/ RepairFails(r) PROVE Keeps
    BY <1>0, <2>4, EndsEmpty
  <2> QED BY <1>3, <2>1, <2>2, <2>3, <2>4 DEF Fails
<1>4. ASSUME NEW k \in Keys, Age(k) PROVE Keeps
  <2>1. UNCHANGED <<docs, refcount, req, leaked>>
    BY <1>4 DEF Age
  <2> QED BY <1>0, <2>1, AgeStep
<1>5. ASSUME Crash PROVE Keeps
  BY <1>0, <1>5, CrashStep
<1>6. CASE UNCHANGED vars
  <2>1. UNCHANGED <<docs, refcount, req, leaked>>
    BY <1>6 DEF vars
  <2> QED BY <1>0, <2>1, AgeStep
<1> QED BY <1>1, <1>2, <1>3, <1>4, <1>5, <1>6 DEF Next

\* The invariant of requests alone: their counts are exact.
IInv == JobInv /\ ExactAccounting

(* The invariant holds initially.                                          *)
LEMMA InitIInv == Init => IInv
<1> SUFFICES ASSUME Init PROVE IInv
  OBVIOUS
<1>1. TypeOK
  BY InitTypeOK
<1>2. JobsGood /\ OneWriter
  BY DEF Init, JobsGood, OneWriter
<1>3. ASSUME NEW k \in Keys PROVE DocClaims(k) = {} /\ ReqClaims(k) = {}
  BY DEF Init, DocClaims, ReqClaims
<1>4. ExactAccounting
  BY <1>3, FS_EmptySet DEF Init, ExactAccounting
<1> QED BY <1>1, <1>2, <1>4 DEF IInv, JobInv

(* So are they after a step.                                               *)
LEMMA ClaimsTypeNext ==
  ASSUME TypeOK'
  PROVE  \A k \in Keys : Claims(k)' \in Nat /\ refcount'[k] \in Nat
<1> SUFFICES ASSUME NEW k \in Keys PROVE Claims(k)' \in Nat /\ refcount'[k] \in Nat
  OBVIOUS
<1>1. ReqClaims(k)' \subseteq Requests /\ DocClaims(k)' \subseteq SloIds
  BY DEF ReqClaims, DocClaims
<1>2. Cardinality(ReqClaims(k)') \in Nat /\ Cardinality(DocClaims(k)') \in Nat
  BY <1>1, FS_Subset, FS_CardinalityType, LifecycleAssumption
<1> QED BY <1>2 DEF TypeOK, Claims

(* Every step keeps the counts exact: none is given back at zero.          *)
LEMMA StepIInv ==
  ASSUME SerialWrites, ~LostSaves
  PROVE  IInv /\ [Next]_vars => IInv'
<1> SUFFICES ASSUME IInv, [Next]_vars PROVE IInv'
  OBVIOUS
<1>1. JobInv' /\ Balanced
  BY StepKeeps DEF IInv, Keeps
<1>2. ASSUME NEW k \in Keys PROVE refcount'[k] = Claims(k)'
  <2>1. refcount[k] = Claims(k)
    BY DEF IInv, ExactAccounting, Claims
  <2>2. Claims(k) \in Nat /\ refcount'[k] \in Nat /\ Claims(k)' \in Nat
    BY <1>1, ClaimsType, ClaimsTypeNext DEF IInv, JobInv
  <2> QED BY <1>1, <2>1, <2>2 DEF Balanced, Underflows
<1> QED BY <1>1, <1>2 DEF IInv, ExactAccounting, Claims

-----------------------------------------------------------------------------
(* What the registry counts.                                               *)

(* An exact account never falls short of the saved SLOs.                   *)
LEMMA AccountsCover == TypeOK /\ ExactAccounting => NeverUnderCount
<1> SUFFICES ASSUME TypeOK, ExactAccounting, NEW k \in Keys
             PROVE  refcount[k] >= Cardinality(DocClaims(k))
  BY DEF NeverUnderCount
<1>1. /\ Cardinality(DocClaims(k)) \in Nat /\ Cardinality(ReqClaims(k)) \in Nat
      /\ leaked[k] \in Nat
  BY ClaimsFinite DEF TypeOK
<1>2. refcount[k] = Cardinality(DocClaims(k)) + Cardinality(ReqClaims(k)) + leaked[k]
  BY DEF ExactAccounting
<1> QED BY <1>1, <1>2

(* When no client overlaps two writes of one SLO and no save that threw    *)
(* was applied, every count is explained claim by claim: by a saved SLO,   *)
(* by a request in flight, or by a release that was lost.                  *)
THEOREM AccountingExact ==
  ASSUME SerialWrites, ~LostSaves
  PROVE  Spec => []ExactAccounting
<1>1. IInv => ExactAccounting
  BY DEF IInv
<1> QED BY InitIInv, StepIInv, <1>1, PTL DEF Spec

(* Under the same assumptions the registry never counts fewer references   *)
(* than there are saved SLOs using the fingerprint, so a recording group   *)
(* whose count is zero is used by no saved SLO.                            *)
THEOREM CountsCoverDocs ==
  ASSUME SerialWrites, ~LostSaves
  PROVE  Spec => []NeverUnderCount
<1>1. IInv => NeverUnderCount
  BY AccountsCover DEF IInv, JobInv
<1> QED BY InitIInv, StepIInv, <1>1, PTL DEF Spec
=============================================================================
