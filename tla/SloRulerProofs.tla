--------------------------- MODULE SloRulerProofs ---------------------------
(***************************************************************************)
(* Proofs about what SloLifecycle's requests leave on the Prometheus       *)
(* ruler, for any SLOs, workspaces, fingerprints and requests: the shared  *)
(* recording groups that saved SLOs need, and the alert group of each.     *)
(*                                                                         *)
(* What is said of saved SLOs starts from the accounting and the jobs of   *)
(* SloLifecycleProofs, under its assumptions: clients do not overlap       *)
(* writes of one SLO, and a save that throws was not applied.              *)
(***************************************************************************)
EXTENDS SloLifecycleProofs

-----------------------------------------------------------------------------
(* Recording groups.                                                       *)

\* Fingerprint f's group is on the ruler, or its first claim is writing it.
Recorded(f) == f \in recGroups \/ \E r \in Requests : At(r, "record") /\ f \in Unrecorded(r)

\* Whatever anyone counts is recorded: the count left zero with that claim.
KeyRecorded(k)    == faults = 0 /\ refcount[k] > 0 => Recorded(k[2])
CountedIsRecorded == \A k \in Keys : KeyRecorded(k)

(* A call that fails is counted as a fault, and none takes one back.       *)
LEMMA FaultCounts == TypeOK /\ Fault => faults' # 0
BY LifecycleAssumption DEF TypeOK, Fault

(* A step that leaves the ruler's recording groups, and the requests about *)
(* to write one, as they were keeps every recorded fingerprint recorded.   *)
LEMMA RecordedStays ==
  ASSUME TypeOK, NEW r \in Requests, ~At(r, "record"),
         \A q \in Requests \ {r} : req'[q] = req[q],
         recGroups \subseteq recGroups', NEW f, Recorded(f)
  PROVE  Recorded(f)'
BY DEF TypeOK, Recorded, At, Unrecorded

(* The registry counts no fewer than zero, and a decrement nothing anew.   *)
LEMMA DecrementCounts ==
  ASSUME TypeOK, NEW l \in Keys, DecrementRef(l), NEW k \in Keys, refcount'[k] > 0
  PROVE  refcount[k] > 0
<1>1. CASE refcount[l] = 0
  BY <1>1 DEF DecrementRef, refVars
<1>2. CASE refcount[l] # 0
  <2>1. refcount' = [refcount EXCEPT ![l] = refcount[l] - 1]
    BY <1>2 DEF DecrementRef
  <2> QED BY <1>2, <2>1 DEF TypeOK
<1> QED BY <1>1, <1>2

(* A step that counts nothing anew keeps what is counted recorded.         *)
LEMMA CountsNothing ==
  ASSUME TypeOK, NEW k \in Keys, KeyRecorded(k), NEW r \in Requests, ~At(r, "record"),
         \A q \in Requests \ {r} : req'[q] = req[q], recGroups \subseteq recGroups',
         refcount'[k] > 0 => refcount[k] > 0, UNCHANGED faults
  PROVE  KeyRecorded(k)'
BY RecordedStays DEF KeyRecorded

(* A claim that finds the count at zero stays to write the group; any      *)
(* other claim finds it recorded.                                          *)
LEMMA ClaimRecords ==
  ASSUME TypeOK, NEW k \in Keys, KeyRecorded(k), NEW r \in Requests, NEW f \in Fps, Claim(r, f)
  PROVE  KeyRecorded(k)'
<1> DEFINE l == Key(req[r].id, f)
<1>1. /\ At(r, "claim") /\ f \in req[r].todo /\ IncrementRef(l)
      /\ req' = [req EXCEPT ![r] = Claimed(r, f)]
      /\ UNCHANGED <<recGroups, faults>> /\ req[r] # Idle /\ req[r].pc = "claim"
  BY DEF Claim, rulerVars, At
<1>2. l \in Keys /\ l[2] = f
  BY <1>1, KeyType DEF Key
<1>3. ~At(r, "record") /\ \A q \in Requests \ {r} : req'[q] = req[q]
  BY <1>1 DEF At, TypeOK
<1>4. ASSUME refcount[l] = 0 PROVE Recorded(f)'
  <2>1. req[r] \in Jobs
    BY <1>1 DEF TypeOK
  <2>2. Claimed(r, f) = [req[r] EXCEPT !.pc = "record", !.held = req[r].held \cup {f}]
    BY <1>4 DEF Claimed
  <2>3. Claimed(r, f) \in Jobs
    <3>1. req[r].held \cup {f} \in SUBSET Fps
      BY <2>1 DEF Jobs
    <3> QED BY <2>1, <2>2, <3>1 DEF Jobs
  <2>a. Claimed(r, f).pc = "record" /\ f \in Claimed(r, f).held \cap Claimed(r, f).todo
    BY <1>1, <2>1, <2>2 DEF Jobs
  <2>4. req'[r] = Claimed(r, f)
    BY <1>1 DEF TypeOK
  <2>5. Claimed(r, f) # Idle
    BY <2>3, LifecycleAssumption
  <2>6. At(r, "record")' /\ (f \in Unrecorded(r))'
    BY <2>a, <2>4, <2>5 DEF At, Unrecorded
  <2> QED BY <2>6 DEF Recorded
<1> HIDE DEF l
<1>5. ASSUME faults' = 0, refcount'[k] > 0 PROVE Recorded(k[2])'
  <2>1. CASE refcount[k] > 0
    <3>1. Recorded(k[2])
      BY <1>1, <1>5, <2>1 DEF KeyRecorded
    <3> QED BY <1>1, <1>3, <3>1, RecordedStays
  <2>2. CASE ~(refcount[k] > 0)
    <3>1. k = l /\ refcount[l] = 0
      BY <1>1, <1>2, <1>5, <2>2 DEF IncrementRef, TypeOK
    <3> QED BY <1>2, <1>4, <3>1
  <2> QED BY <2>1, <2>2
<1> QED BY <1>5 DEF KeyRecorded

(* The request that was to write a group has written it.                   *)
LEMMA UpsertRecords ==
  ASSUME TypeOK, NEW k \in Keys, KeyRecorded(k), NEW r \in Requests, UpsertRecording(r)
  PROVE  KeyRecorded(k)'
<1>1. /\ recGroups' = recGroups \cup Unrecorded(r)
      /\ \A q \in Requests \ {r} : req'[q] = req[q]
      /\ UNCHANGED <<refcount, faults>>
  BY DEF UpsertRecording, refVars, TypeOK
<1>2. ASSUME NEW f, Recorded(f) PROVE Recorded(f)'
  BY <1>1, <1>2 DEF Recorded, At, Unrecorded
<1> QED BY <1>1, <1>2 DEF KeyRecorded

(* While nothing has failed, every step keeps a counter that was recorded  *)
(* when it counted so, each counter by itself.                             *)
LEMMA StepKeyRecorded ==
  ASSUME TypeOK, NEW k \in Keys, KeyRecorded(k), [Next]_vars
  PROVE  KeyRecorded(k)'
<1>a. ASSUME Fault PROVE KeyRecorded(k)'
  BY <1>a, FaultCounts DEF KeyRecorded
<1>b. ASSUME UNCHANGED <<refcount, recGroups, req, faults>> PROVE KeyRecorded(k)'
  BY <1>b DEF KeyRecorded, Recorded, At, Unrecorded
<1>1. ASSUME NEW r \in Requests, Starts(r) PROVE KeyRecorded(k)'
  <2>1. PICK j : Begin(r, j)
    BY <1>1, Zenon DEF Starts, BeginCreate, BeginUpdate, BeginDelete, BeginRepair
  <2>2. /\ req[r] = Idle /\ req' = [req EXCEPT ![r] = j]
        /\ UNCHANGED <<refcount, recGroups, faults>>
    BY <2>1 DEF Begin, refVars, rulerVars
  <2> QED BY <2>2, CountsNothing DEF At, TypeOK
<1>2. ASSUME NEW r \in Requests, Proceeds(r) PROVE KeyRecorded(k)'
  <2>1. ASSUME NEW f \in Fps, Release(r, f) PROVE KeyRecorded(k)'
    <3>1. /\ DecrementRef(Key(req[r].id, f)) /\ req[r] # Idle /\ req[r].pc # "record"
          /\ \A q \in Requests \ {r} : req'[q] = req[q]
          /\ UNCHANGED <<recGroups, faults>>
      BY <2>1 DEF Release, rulerVars, At, TypeOK
    <3>2. refcount'[k] > 0 => refcount[k] > 0
      BY <3>1, KeyType, DecrementCounts
    <3> QED BY <3>1, <3>2, CountsNothing DEF At
  <2>2. ASSUME \/ CheckName(r) \/ UpsertAlert(r) \/ Save(r) \/ DeleteOwnAlert(r)
               \/ DeleteAlert(r) \/ DeleteDoc(r) \/ Probe(r) \/ ReplayAlert(r)
               \/ (\E f \in Fps : ReplayRecording(r, f))
        PROVE  /\ ~At(r, "record") /\ \A q \in Requests \ {r} : req'[q] = req[q]
               /\ recGroups \subseteq recGroups' /\ UNCHANGED <<refcount, faults>>
    BY <2>2 DEF CheckName, UpsertAlert, Save, DeleteOwnAlert, DeleteAlert, DeleteDoc, Probe,
       ReplayAlert, ReplayRecording, At, TypeOK, refVars, rulerVars
  <2> QED BY <1>2, <2>1, <2>2, ClaimRecords, UpsertRecords, CountsNothing DEF Proceeds
<1>3. ASSUME NEW r \in Requests, Fails(r) PROVE Fault
  BY <1>3 DEF Fails, ClaimFails, ReleaseFails, UpsertRecordingFails, UpsertAlertFails,
     SaveFails, DeleteOwnAlertFails, DeleteAlertFails, DeleteDocFails, RepairFails
<1>4. ASSUME NEW l \in Keys, Age(l) PROVE KeyRecorded(k)'
  BY <1>4, <1>b DEF Age, rulerVars
<1>5. CASE Crash
  BY <1>5, <1>a DEF Crash
<1>6. CASE UNCHANGED vars
  BY <1>6, <1>b DEF vars
<1> QED BY <1>a, <1>1, <1>2, <1>3, <1>4, <1>5, <1>6 DEF Next

(* So what is counted stays recorded.                                      *)
LEMMA StepRecorded == TypeOK /\ CountedIsRecorded /\ [Next]_vars => CountedIsRecorded'
BY StepKeyRecorded DEF CountedIsRecorded

(* Nothing is counted at first.                                            *)
LEMMA InitRecorded == Init => CountedIsRecorded
BY DEF Init, CountedIsRecorded, KeyRecorded

(* While no call has failed, the recording group of any reference that     *)
(* counts is on the ruler or about to be written.  This needs no           *)
(* assumption: it survives overlapping writes of one SLO, which may make   *)
(* the counts themselves wrong.                                            *)
THEOREM CountedGroupsRecorded == Spec => []CountedIsRecorded
<1>1. TypeOK /\ CountedIsRecorded /\ [Next]_vars => (TypeOK /\ CountedIsRecorded)'
  BY TypeStep, StepRecorded
<1> QED BY InitTypeOK, InitRecorded, <1>1, PTL DEF Spec

(* A counter that falls no shorter than the saved SLOs that use it counts  *)
(* each of them.                                                           *)
LEMMA SavedIsCounted ==
  ASSUME TypeOK, NEW i \in SloIds, NEW f \in FpsOf(docs[i])
  PROVE  /\ f \in Fps /\ Key(i, f) \in Keys /\ Key(i, f)[2] = f
         /\ refcount[Key(i, f)] >= Cardinality(DocClaims(Key(i, f))) => refcount[Key(i, f)] > 0
<1>1. f \in Fps
  BY FpsOfType DEF TypeOK
<1>2. Key(i, f) \in Keys /\ Key(i, f)[1] = WorkspaceOf[i] /\ Key(i, f)[2] = f
  BY <1>1, LifecycleAssumption DEF Key, Keys
<1>3. docs[i] # NoDoc /\ f \in docs[i].fps
  BY DEF FpsOf
<1> DEFINE k == Key(i, f)
<1>4. i \in DocClaims(k)
  BY <1>2, <1>3 DEF DocClaims
<1> HIDE DEF k
<1>5. k \in Keys
  BY <1>2 DEF k
<1>6. Cardinality(DocClaims(k)) \in Nat /\ Cardinality(DocClaims(k)) # 0 /\ refcount[k] \in Nat
  BY <1>4, <1>5, ClaimsFinite, FS_EmptySet DEF TypeOK
<1>7. refcount[k] >= Cardinality(DocClaims(k)) => refcount[k] > 0
  BY <1>6
<1> QED BY <1>1, <1>2, <1>7 DEF k

(* What a saved SLO uses is counted, and so recorded.                      *)
LEMMA SavedIsRecorded == TypeOK /\ NeverUnderCount /\ CountedIsRecorded => CoveredUntilFault
<1> SUFFICES ASSUME TypeOK, NeverUnderCount, CountedIsRecorded, faults = 0,
                    NEW i \in SloIds, docs[i] # NoDoc, NEW f \in docs[i].fps
             PROVE  Recorded(f)
  BY DEF CoveredUntilFault, Recorded
<1>1. f \in FpsOf(docs[i])
  BY DEF FpsOf
<1>2. Key(i, f) \in Keys /\ Key(i, f)[2] = f /\ refcount[Key(i, f)] > 0
  BY <1>1, SavedIsCounted DEF NeverUnderCount
<1> QED BY <1>2 DEF CountedIsRecorded, KeyRecorded

(* While no call has failed, every recording group that a saved SLO needs  *)
(* is on the ruler, or the request whose claim found the count at zero is  *)
(* about to write it: skipping the write when the count was not zero (the  *)
(* wasZero shortcut) is then enough, on any interleaving of requests.      *)
THEOREM RecordingCovered ==
  ASSUME SerialWrites, ~LostSaves
  PROVE  Spec => []CoveredUntilFault
<1>1. IInv /\ CountedIsRecorded /\ [Next]_vars => (IInv /\ CountedIsRecorded)'
  BY StepIInv, StepRecorded DEF IInv, JobInv
<1>2. IInv /\ CountedIsRecorded => CoveredUntilFault
  BY AccountsCover, SavedIsRecorded DEF IInv, JobInv
<1> QED BY InitIInv, InitRecorded, <1>1, <1>2, PTL DEF Spec

-----------------------------------------------------------------------------
(* Alert groups.                                                           *)

\* Request r would write the alert group that its SLO's saved document owns.
OwnsAlert(r) ==
  docs[req[r].id] # NoDoc /\ docs[req[r].id].name = req[r].want.name

\* Only a create gives its alert group up again, and from its name check on it
\* is not one that a saved SLO owns: the check looks at the SLO's own id too.
CreatesAnew ==
  \A r \in Requests : req[r] # Idle =>
    /\ req[r].pc = "unalert" => req[r].kind = "create"
    /\ req[r].kind = "create" /\ req[r].pc # "name" => ~OwnsAlert(r)

\* Job j goes on with what job o was doing, past the name check.
GoesOn(j, o) ==
  j # Idle => /\ j.id = o.id /\ j.kind = o.kind /\ j.want = o.want
              /\ j.pc # "name"
              /\ j.pc = "unalert" => j.kind = "create"

(* A rollback goes on.                                                     *)
LEMMA UndoGoesOn ==
  ASSUME TypeOK, NEW r \in Requests, req[r] # Idle, NEW h
  PROVE  GoesOn(Undo(r, h), req[r])
<1>1. req[r] \in Jobs
  BY DEF TypeOK
<1> QED BY <1>1 DEF Undo, GoesOn, Jobs

(* So does the loop that gives references up.                              *)
LEMMA GiveUpGoesOn ==
  ASSUME TypeOK, NEW r \in Requests, req[r] # Idle, NEW h
  PROVE  /\ GoesOn(GiveUp(r, h), req[r])
         /\ GiveUp(r, h) # Idle => GiveUp(r, h).pc = "release"
         /\ h = {} => GiveUp(r, h) = Idle
<1>1. req[r] \in Jobs
  BY DEF TypeOK
<1> QED BY <1>1 DEF GiveUp, GoesOn, Jobs

(* What a request goes on with, past its name check, is as good.           *)
LEMMA GoingOn ==
  ASSUME TypeOK, CreatesAnew, NEW r \in Requests, req[r] # Idle, req[r].pc # "name",
         NEW j, GoesOn(j, req[r]), req' = [req EXCEPT ![r] = j], UNCHANGED docs
  PROVE  CreatesAnew'
BY DEF TypeOK, CreatesAnew, GoesOn, OwnsAlert

(* A write of an SLO's document is no matter of another SLO's create.      *)
LEMMA WritingAnew ==
  ASSUME JobInv, CreatesAnew, NEW r \in Requests, req[r] # Idle, req[r].kind # "repair",
         NEW d, docs' = [docs EXCEPT ![req[r].id] = d],
         NEW j, req' = [req EXCEPT ![r] = j],
         j = Idle \/ (j.kind # "create" /\ j.pc # "unalert")
  PROVE  CreatesAnew'
<1> SUFFICES ASSUME NEW q \in Requests, req'[q] # Idle
             PROVE  (/\ req[q].pc = "unalert" => req[q].kind = "create"
                     /\ req[q].kind = "create" /\ req[q].pc # "name" => ~OwnsAlert(q))'
  BY DEF CreatesAnew
<1>1. CASE q = r
  BY <1>1 DEF JobInv, TypeOK
<1>2. CASE q # r
  <2>1. req'[q] = req[q] /\ req[q] # Idle
    BY <1>2 DEF JobInv, TypeOK
  <2>2. req[q].kind = "create" => docs'[req[q].id] = docs[req[q].id]
    BY <1>2, <2>1 DEF JobInv, TypeOK, OneWriter
  <2> QED BY <2>1, <2>2 DEF CreatesAnew, OwnsAlert
<1> QED BY <1>1, <1>2

(* A request starts at its name check, or is no create.                    *)
LEMMA StartsAnew ==
  ASSUME JobInv, CreatesAnew, NEW r \in Requests, Starts(r)
  PROVE  CreatesAnew'
<1>1. ASSUME NEW j, Begin(r, j), j.pc # "unalert", j.kind = "create" => j.pc = "name"
      PROVE  CreatesAnew'
  BY <1>1 DEF Begin, JobInv, TypeOK, CreatesAnew, OwnsAlert
<1>2. ASSUME NEW i \in SloIds, NEW d \in Docs, BeginCreate(r, i, d) PROVE CreatesAnew'
  BY <1>1, <1>2 DEF BeginCreate
<1>3. ASSUME NEW i \in SloIds, NEW d \in Docs, BeginUpdate(r, i, d) PROVE CreatesAnew'
  BY <1>1, <1>3 DEF BeginUpdate
<1>4. ASSUME NEW i \in SloIds, BeginDelete(r, i) PROVE CreatesAnew'
  BY <1>1, <1>4 DEF BeginDelete
<1>5. ASSUME NEW i \in SloIds, BeginRepair(r, i) PROVE CreatesAnew'
  BY <1>1, <1>5 DEF BeginRepair
<1> QED BY <1>2, <1>3, <1>4, <1>5 DEF Starts

(* The name check lets a create through only where no saved SLO of the     *)
(* workspace has the name, its own id included.                            *)
LEMMA CheckNameAnew ==
  ASSUME JobInv, CreatesAnew, NEW r \in Requests, CheckName(r)
  PROVE  CreatesAnew'
<1> DEFINE j == [req[r] EXCEPT !.pc = "claim"]
<1>1. /\ req[r] \in Jobs /\ req[r] # Idle /\ UNCHANGED docs
      /\ req' = [req EXCEPT ![r] = IF NameTaken(req[r].id, req[r].want.name, req[r].kind)
                                   THEN Idle ELSE j]
  BY DEF CheckName, At, JobInv, TypeOK
<1>2. CASE NameTaken(req[r].id, req[r].want.name, req[r].kind)
  <2>1. req' = [req EXCEPT ![r] = Idle]
    BY <1>1, <1>2
  <2> QED BY <1>1, <2>1 DEF JobInv, TypeOK, CreatesAnew, OwnsAlert
<1>3. CASE ~NameTaken(req[r].id, req[r].want.name, req[r].kind)
  <2>1. req' = [req EXCEPT ![r] = j]
    BY <1>1, <1>3
  <2>2. req[r].kind = "create" => ~OwnsAlert(r)
    BY <1>1, <1>3 DEF NameTaken, OwnsAlert, Jobs
  <2>3. j.id = req[r].id /\ j.kind = req[r].kind /\ j.want = req[r].want /\ j.pc = "claim"
    BY <1>1 DEF Jobs
  <2> HIDE DEF j
  <2> QED BY <1>1, <2>1, <2>2, <2>3 DEF JobInv, TypeOK, CreatesAnew, OwnsAlert
<1> QED BY <1>2, <1>3

(* Every other step of a request goes on with the documents as they are,   *)
(* or writes one and is no longer a create.                                *)
LEMMA ProceedsAnew ==
  ASSUME JobInv, CreatesAnew, NEW r \in Requests, Proceeds(r)
  PROVE  CreatesAnew'
<1>0. req[r] # Idle => req[r] \in Jobs
  BY DEF JobInv, TypeOK
<1>1. ASSUME NEW f \in Fps, Claim(r, f) PROVE CreatesAnew'
  <2>1. req[r] # Idle /\ req[r].pc = "claim" /\ UNCHANGED docs
        /\ req' = [req EXCEPT ![r] = Claimed(r, f)]
    BY <1>1 DEF Claim, At
  <2>2. GoesOn(Claimed(r, f), req[r])
    BY <1>0, <2>1 DEF Claimed, GoesOn, Jobs
  <2> QED BY <2>1, <2>2, GoingOn DEF JobInv
<1>2. ASSUME NEW f \in Fps, Release(r, f) PROVE CreatesAnew'
  <2>1. /\ req[r] # Idle /\ req[r].pc \in {"undo", "release"} /\ UNCHANGED docs
        /\ req' = [req EXCEPT ![r] = Released(r, f)]
    BY <1>2 DEF Release, At
  <2>2. GoesOn(Released(r, f), req[r])
    BY <2>1, UndoGoesOn, GiveUpGoesOn DEF Released, JobInv
  <2> QED BY <2>1, <2>2, GoingOn DEF JobInv
<1>3. CASE Save(r)
  <2>1. /\ req[r] # Idle /\ req[r].pc = "save"
        /\ docs' = [docs EXCEPT ![req[r].id] = req[r].want]
        /\ req' = [req EXCEPT ![r] = GiveUp(r, FpsOf(req[r].base) \ req[r].want.fps)]
    BY <1>3 DEF Save, Write, At
  <2>2. /\ req[r].kind \in {"create", "update"}
        /\ req[r].kind = "create" => req[r].base = NoDoc
    BY <2>1 DEF JobInv, JobsGood, GoodJob
  <2>3. LET j == GiveUp(r, FpsOf(req[r].base) \ req[r].want.fps) IN
        j = Idle \/ (j.kind # "create" /\ j.pc # "unalert")
    BY <2>1, <2>2, GiveUpGoesOn DEF FpsOf, GoesOn, JobInv
  <2> QED BY <2>1, <2>2, <2>3, WritingAnew
<1>4. CASE DeleteDoc(r)
  <2>1. /\ req[r] # Idle /\ req[r].pc = "drop"
        /\ docs' = [docs EXCEPT ![req[r].id] = NoDoc]
        /\ req' = [req EXCEPT ![r] = GiveUp(r, req[r].want.fps)]
    BY <1>4 DEF DeleteDoc, Remove, At
  <2>2. req[r].kind = "delete"
    BY <2>1 DEF JobInv, JobsGood, GoodJob
  <2>3. LET j == GiveUp(r, req[r].want.fps) IN
        j = Idle \/ (j.kind # "create" /\ j.pc # "unalert")
    BY <2>1, <2>2, GiveUpGoesOn DEF GoesOn, JobInv
  <2> QED BY <2>1, <2>2, <2>3, WritingAnew
<1>5. ASSUME NEW p \in {"claim", "save", "drop", "replay"}, NEW t,
             req[r] # Idle, req[r].pc # "name"
      PROVE  /\ GoesOn([req[r] EXCEPT !.pc = p], req[r])
             /\ GoesOn([req[r] EXCEPT !.pc = p, !.todo = t], req[r])
             /\ GoesOn([req[r] EXCEPT !.todo = t], req[r])
  BY <1>0, <1>5 DEF GoesOn, CreatesAnew, Jobs
<1>12. GoesOn(Idle, req[r])
  BY DEF GoesOn
<1>6. CASE UpsertRecording(r)
  <2> DEFINE j == [req[r] EXCEPT !.pc = "claim", !.todo = req[r].todo \ Unrecorded(r)]
  <2>1. /\ req[r] # Idle /\ req[r].pc # "name" /\ UNCHANGED docs /\ req' = [req EXCEPT ![r] = j]
    BY <1>6 DEF UpsertRecording, At, JobInv, TypeOK
  <2>2. GoesOn(j, req[r])
    BY <1>5, <2>1
  <2> QED BY <2>1, <2>2, GoingOn DEF JobInv
<1>7. CASE UpsertAlert(r)
  <2> DEFINE j == [req[r] EXCEPT !.pc = "save"]
  <2>1. /\ req[r] # Idle /\ req[r].pc # "name" /\ UNCHANGED docs /\ req' = [req EXCEPT ![r] = j]
    BY <1>7 DEF UpsertAlert, At, JobInv, TypeOK
  <2>2. GoesOn(j, req[r])
    BY <1>5, <2>1
  <2> QED BY <2>1, <2>2, GoingOn DEF JobInv
<1>8. CASE DeleteOwnAlert(r) \/ ReplayAlert(r)
  <2>1. /\ req[r] # Idle /\ req[r].pc # "name" /\ UNCHANGED docs
        /\ req' = [req EXCEPT ![r] = Idle]
    BY <1>8 DEF DeleteOwnAlert, ReplayAlert, At
  <2> QED BY <1>12, <2>1, GoingOn DEF JobInv
<1>9. CASE DeleteAlert(r)
  <2> DEFINE j == [req[r] EXCEPT !.pc = "drop"]
  <2>1. /\ req[r] # Idle /\ req[r].pc # "name" /\ UNCHANGED docs /\ req' = [req EXCEPT ![r] = j]
    BY <1>9 DEF DeleteAlert, At, JobInv, TypeOK
  <2>2. GoesOn(j, req[r])
    BY <1>5, <2>1
  <2> QED BY <2>1, <2>2, GoingOn DEF JobInv
<1>10. CASE Probe(r)
  <2> DEFINE j == [req[r] EXCEPT !.pc = "replay", !.todo = req[r].want.fps]
  <2>1. /\ req[r] # Idle /\ req[r].pc # "name" /\ UNCHANGED docs
        /\ req' = [req EXCEPT ![r] = Idle] \/ req' = [req EXCEPT ![r] = j]
    BY <1>10 DEF Probe, At, JobInv, TypeOK
  <2>2. GoesOn(j, req[r])
    BY <1>5, <2>1
  <2> HIDE DEF j
  <2> QED BY <1>12, <2>1, <2>2, GoingOn DEF JobInv
<1>11. ASSUME NEW f \in Fps, ReplayRecording(r, f) PROVE CreatesAnew'
  <2> DEFINE j == [req[r] EXCEPT !.todo = req[r].todo \ {f}]
  <2>1. /\ req[r] # Idle /\ req[r].pc # "name" /\ UNCHANGED docs /\ req' = [req EXCEPT ![r] = j]
    BY <1>11 DEF ReplayRecording, At, JobInv, TypeOK
  <2>2. GoesOn(j, req[r])
    BY <1>5, <2>1
  <2> QED BY <2>1, <2>2, GoingOn DEF JobInv
<1> QED BY <1>1, <1>2, <1>3, <1>4, <1>6, <1>7, <1>8, <1>9, <1>10, <1>11, CheckNameAnew
        DEF Proceeds

(* A failed call rolls back, goes on giving up, or ends the request.       *)
LEMMA FailsAnew ==
  ASSUME ~LostSaves, JobInv, CreatesAnew, NEW r \in Requests, Fails(r)
  PROVE  CreatesAnew'
<1>1. ASSUME req[r] # Idle, req[r].pc # "name", UNCHANGED docs,
             NEW h, req' = [req EXCEPT ![r] = Undo(r, h)]
      PROVE  CreatesAnew'
  BY <1>1, UndoGoesOn, GoingOn DEF JobInv
<1>2. ASSUME req[r] # Idle, req[r].pc # "name", UNCHANGED docs, req' = [req EXCEPT ![r] = Idle]
      PROVE  CreatesAnew'
  BY <1>2, GoingOn DEF JobInv, GoesOn
<1>3. CASE \/ \E f \in Fps : ClaimFails(r, f)
           \/ UpsertRecordingFails(r) \/ UpsertAlertFails(r) \/ SaveFails(r)
  <2>1. /\ req[r] # Idle /\ req[r].pc # "name" /\ UNCHANGED docs
        /\ req' = [req EXCEPT ![r] = Undo(r, req[r].held)]
    BY <1>3 DEF ClaimFails, UpsertRecordingFails, UpsertAlertFails, SaveFails, At
  <2> QED BY <1>1, <2>1
<1>4. ASSUME NEW f \in Fps, ReleaseFails(r, f) PROVE CreatesAnew'
  <2>1. /\ req[r] # Idle /\ req[r].pc \in {"undo", "release"} /\ UNCHANGED docs
        /\ req' = [req EXCEPT ![r] = Released(r, f)]
    BY <1>4 DEF ReleaseFails, At
  <2>2. GoesOn(Released(r, f), req[r])
    BY <2>1, UndoGoesOn, GiveUpGoesOn DEF Released, JobInv
  <2> QED BY <2>1, <2>2, GoingOn DEF JobInv
<1>5. CASE DeleteOwnAlertFails(r) \/ DeleteAlertFails(r) \/ RepairFails(r)
  BY <1>2, <1>5 DEF DeleteOwnAlertFails, DeleteAlertFails, RepairFails, At
<1>6. CASE DeleteDocFails(r)
  <2>1. /\ req[r] # Idle /\ req[r].pc = "drop" /\ req' = [req EXCEPT ![r] = Idle]
        /\ UNCHANGED docs \/ docs' = [docs EXCEPT ![req[r].id] = NoDoc]
    BY <1>6 DEF DeleteDocFails, Remove, At
  <2>2. req[r].kind = "delete"
    BY <2>1 DEF JobInv, JobsGood, GoodJob
  <2>3. CASE UNCHANGED docs
    BY <1>2, <2>1, <2>3
  <2>4. CASE docs' = [docs EXCEPT ![req[r].id] = NoDoc]
    BY <2>1, <2>2, <2>4, WritingAnew
  <2> QED BY <2>1, <2>3, <2>4
<1> QED BY <1>3, <1>4, <1>5, <1>6 DEF Fails

(* Every step keeps a create's alert group its own.                        *)
LEMMA StepAnew ==
  ASSUME ~LostSaves
  PROVE  JobInv /\ CreatesAnew /\ [Next]_vars => CreatesAnew'
<1> SUFFICES ASSUME JobInv, CreatesAnew, [Next]_vars PROVE CreatesAnew'
  OBVIOUS
<1>1. ASSUME UNCHANGED <<docs, req>> PROVE CreatesAnew'
  BY <1>1 DEF CreatesAnew, OwnsAlert
<1>2. CASE Crash
  <2>1. UNCHANGED docs /\ \A r \in Requests : req'[r] \in {req[r], Idle}
    BY <1>2 DEF Crash
  <2> QED BY <2>1 DEF CreatesAnew, OwnsAlert
<1>3. ASSUME NEW k \in Keys, Age(k) PROVE CreatesAnew'
  BY <1>1, <1>3 DEF Age
<1>4. CASE UNCHANGED vars
  BY <1>1, <1>4 DEF vars
<1> QED BY <1>2, <1>3, <1>4, StartsAnew, ProceedsAnew, FailsAnew DEF Next

(* Only two kinds of request take an alert group off the ruler: a create   *)
(* its own, on its way back, and a delete its SLO's.                       *)
LEMMA AlertsTaken ==
  ASSUME [Next]_vars, NEW a \in alertGroups \ alertGroups'
  PROVE  \E r \in Requests : /\ At(r, "unalert") \/ At(r, "unprovision")
                             /\ a = AlertGroup(r)
<1> USE DEF rulerVars
<1>1. ASSUME NEW r \in Requests, Starts(r) PROVE FALSE
  BY <1>1 DEF Starts, BeginCreate, BeginUpdate, BeginDelete, BeginRepair, Begin
<1>2. ASSUME NEW r \in Requests, Proceeds(r)
      PROVE  (At(r, "unalert") \/ At(r, "unprovision")) /\ a = AlertGroup(r)
  BY <1>2 DEF Proceeds, CheckName, Claim, Release, ReplayRecording, UpsertRecording,
     UpsertAlert, Save, DeleteOwnAlert, DeleteAlert, DeleteDoc, Probe, ReplayAlert
<1>3. ASSUME NEW r \in Requests, Fails(r)
      PROVE  (At(r, "unalert") \/ At(r, "unprovision")) /\ a = AlertGroup(r)
  BY <1>3 DEF Fails, ClaimFails, ReleaseFails, UpsertRecordingFails, UpsertAlertFails,
     SaveFails, DeleteOwnAlertFails, DeleteAlertFails, DeleteDocFails, RepairFails
<1> QED BY <1>1, <1>2, <1>3 DEF Next, Age, Crash, vars

(* The alert group of a saved SLO leaves the ruler only while a delete of  *)
(* that SLO is taking it: no rollback of a create, not even of one over    *)
(* the same id, and no other SLO's request takes it.                       *)
THEOREM AlertsStay ==
  ASSUME SerialWrites, ~LostSaves
  PROVE  Spec => AlertsLostOnlyByDelete
<1>1. Init => JobInv /\ CreatesAnew
  BY InitIInv DEF IInv, Init, CreatesAnew
<1>2. JobInv /\ CreatesAnew /\ [Next]_vars => (JobInv /\ CreatesAnew)'
  BY StepKeeps, StepAnew DEF Keeps
<1>3. ASSUME CreatesAnew, [Next]_vars
      PROVE  [\A i \in SloIds :
                /\ docs[i] # NoDoc
                /\ <<i, docs[i].name>> \in alertGroups
                /\ <<i, docs[i].name>> \notin alertGroups'
                => \E r \in Requests : At(r, "unprovision") /\ req[r].id = i]_vars
  <2> SUFFICES ASSUME NEW i \in SloIds, docs[i] # NoDoc,
                      <<i, docs[i].name>> \in alertGroups \ alertGroups'
               PROVE  \E r \in Requests : At(r, "unprovision") /\ req[r].id = i
    OBVIOUS
  <2>1. PICK r \in Requests : /\ At(r, "unalert") \/ At(r, "unprovision")
                              /\ <<i, docs[i].name>> = AlertGroup(r)
    BY <1>3, AlertsTaken
  <2>2. req[r].id = i /\ OwnsAlert(r)
    BY <2>1 DEF AlertGroup, OwnsAlert
  <2>3. ~At(r, "unalert")
    BY <1>3, <2>2 DEF CreatesAnew, At
  <2> QED BY <2>1, <2>2, <2>3
<1> QED BY <1>1, <1>2, <1>3, PTL DEF Spec, AlertsLostOnlyByDelete

-----------------------------------------------------------------------------
(* Every saved SLO alerts.                                                 *)

\* Before anything fails nothing is rolled back, and whoever is about to save
\* an SLO has written its alert group.
AlertsReady ==
  faults = 0 =>
    \A r \in Requests : /\ ~At(r, "undo") /\ ~At(r, "unalert")
                        /\ At(r, "save") => AlertGroup(r) \in alertGroups

AlertInv == AlertsReady /\ AlertedUntilFault

\* Job j is at none of the awaits that AlertInv speaks of.
Uninvolved(j) == j = Idle \/ j.pc \notin {"undo", "unalert", "save", "drop"}

(* A request that comes from such an await and goes to one disturbs        *)
(* nothing, as long as documents and faults stay and no group goes.        *)
LEMMA AlertsGoOn ==
  ASSUME TypeOK, AlertInv, NEW r \in Requests, Uninvolved(req[r]),
         NEW j, Uninvolved(j), req' = [req EXCEPT ![r] = j],
         UNCHANGED <<docs, faults>>, alertGroups \subseteq alertGroups'
  PROVE  AlertInv'
<1>1. \A q \in Requests : q # r => req'[q] = req[q]
  BY DEF TypeOK
<1>2. req'[r] = j
  BY DEF TypeOK
<1>3. AlertsReady'
  BY <1>1, <1>2 DEF AlertInv, AlertsReady, At, AlertGroup, Uninvolved
<1>4. ASSUME faults' = 0, NEW i \in SloIds, docs'[i] # NoDoc
      PROVE  \/ <<i, docs'[i].name>> \in alertGroups'
             \/ \E q \in Requests : At(q, "drop")' /\ req'[q].id = i
  BY <1>1, <1>4 DEF AlertInv, AlertedUntilFault, At, Uninvolved
<1> QED BY <1>3, <1>4 DEF AlertInv, AlertedUntilFault

(* A write goes on to its save once its alert group is there.              *)
LEMMA AlertThenSave ==
  ASSUME TypeOK, AlertInv, NEW r \in Requests, UpsertAlert(r)
  PROVE  AlertInv'
<1>1. /\ req[r] \in Jobs /\ req[r] # Idle /\ req[r].pc = "claim" /\ UNCHANGED <<docs, faults>>
      /\ req' = [req EXCEPT ![r] = [req[r] EXCEPT !.pc = "save"]]
      /\ alertGroups' = alertGroups \cup {AlertGroup(r)}
  BY DEF UpsertAlert, At, TypeOK
<1>2. \A q \in Requests : q # r => req'[q] = req[q]
  BY <1>1 DEF TypeOK
<1>3. req'[r].pc = "save" /\ req'[r].id = req[r].id /\ req'[r].want = req[r].want
  BY <1>1 DEF TypeOK, Jobs
<1>4. AlertGroup(r)' = AlertGroup(r)
  BY <1>3 DEF AlertGroup
<1>5. AlertsReady'
  BY <1>1, <1>2, <1>3, <1>4 DEF AlertInv, AlertsReady, At, AlertGroup
<1>6. ASSUME faults' = 0, NEW i \in SloIds, docs'[i] # NoDoc
      PROVE  \/ <<i, docs'[i].name>> \in alertGroups'
             \/ \E q \in Requests : At(q, "drop")' /\ req'[q].id = i
  BY <1>1, <1>2, <1>6 DEF AlertInv, AlertedUntilFault, At
<1> QED BY <1>5, <1>6 DEF AlertInv, AlertedUntilFault

(* The document that is saved has its alert group already.                 *)
LEMMA SaveAlerts ==
  ASSUME JobInv, AlertInv, NEW r \in Requests, Save(r)
  PROVE  AlertInv'
<1> DEFINE j == GiveUp(r, FpsOf(req[r].base) \ req[r].want.fps)
<1>1. /\ req[r] \in Jobs /\ req[r] # Idle /\ req[r].pc = "save"
      /\ docs' = [docs EXCEPT ![req[r].id] = req[r].want]
      /\ req' = [req EXCEPT ![r] = j] /\ UNCHANGED <<alertGroups, faults>>
  BY DEF Save, Write, At, JobInv, TypeOK, rulerVars
<1>2. j = Idle \/ j.pc = "release"
  BY <1>1, GiveUpGoesOn DEF JobInv
<1> HIDE DEF j
<1>3. (\A q \in Requests : q # r => req'[q] = req[q]) /\ req'[r] = j
  BY <1>1 DEF JobInv, TypeOK
<1>4. AlertsReady'
  BY <1>1, <1>2, <1>3 DEF AlertInv, AlertsReady, At, AlertGroup
<1>5. ASSUME faults' = 0, NEW i \in SloIds, docs'[i] # NoDoc
      PROVE  \/ <<i, docs'[i].name>> \in alertGroups'
             \/ \E q \in Requests : At(q, "drop")' /\ req'[q].id = i
  <2>1. CASE i = req[r].id
    <3>1. docs'[i] = req[r].want
      BY <1>1, <2>1 DEF JobInv, TypeOK
    <3>2. AlertGroup(r) \in alertGroups
      BY <1>1, <1>5 DEF AlertInv, AlertsReady, At
    <3> QED BY <1>1, <2>1, <3>1, <3>2 DEF AlertGroup
  <2>2. CASE i # req[r].id
    <3>1. docs'[i] = docs[i]
      BY <1>1, <2>2 DEF JobInv, TypeOK
    <3> QED BY <1>1, <1>3, <1>5, <2>2, <3>1 DEF AlertInv, AlertedUntilFault, At
  <2> QED BY <2>1, <2>2
<1> QED BY <1>4, <1>5 DEF AlertInv, AlertedUntilFault

(* A delete that has taken the alert group stays to remove the document,   *)
(* and no write of the same SLO is about to save it.                       *)
LEMMA DeleteTakesAlert ==
  ASSUME JobInv, AlertInv, NEW r \in Requests, DeleteAlert(r)
  PROVE  AlertInv'
<1>1. /\ req[r] \in Jobs /\ req[r] # Idle /\ req[r].pc = "unprovision" /\ UNCHANGED <<docs, faults>>
      /\ req' = [req EXCEPT ![r] = [req[r] EXCEPT !.pc = "drop"]]
      /\ alertGroups' = alertGroups \ {AlertGroup(r)}
  BY DEF DeleteAlert, At, JobInv, TypeOK
<1>2. \A q \in Requests : q # r => req'[q] = req[q]
  BY <1>1 DEF JobInv, TypeOK
<1>3. req'[r].pc = "drop" /\ req'[r].id = req[r].id /\ req'[r] # Idle
  <2>1. [req[r] EXCEPT !.pc = "drop"] \in Jobs
    BY <1>1 DEF Jobs
  <2> QED BY <1>1, <2>1, LifecycleAssumption DEF JobInv, TypeOK, Jobs
<1>4. ASSUME NEW q \in Requests, At(q, "save") PROVE q # r /\ req[q].id # req[r].id
  BY <1>1, <1>4 DEF At, JobInv, OneWriter, JobsGood, GoodJob
<1>5. AlertsReady'
  BY <1>1, <1>2, <1>3, <1>4 DEF AlertInv, AlertsReady, At, AlertGroup
<1>6. ASSUME faults' = 0, NEW i \in SloIds, docs'[i] # NoDoc
      PROVE  \/ <<i, docs'[i].name>> \in alertGroups'
             \/ \E q \in Requests : At(q, "drop")' /\ req'[q].id = i
  <2>1. CASE i = req[r].id
    BY <1>3, <2>1 DEF At
  <2>2. CASE i # req[r].id
    BY <1>1, <1>2, <1>6, <2>2 DEF AlertInv, AlertedUntilFault, At, AlertGroup
  <2> QED BY <2>1, <2>2
<1> QED BY <1>5, <1>6 DEF AlertInv, AlertedUntilFault

(* Its SLO is gone, and it was nobody else's excuse.                       *)
LEMMA DropEndsAlert ==
  ASSUME JobInv, AlertInv, NEW r \in Requests, DeleteDoc(r)
  PROVE  AlertInv'
<1> DEFINE j == GiveUp(r, req[r].want.fps)
<1>1. /\ req[r] \in Jobs /\ req[r] # Idle /\ req[r].pc = "drop"
      /\ docs' = [docs EXCEPT ![req[r].id] = NoDoc]
      /\ req' = [req EXCEPT ![r] = j] /\ UNCHANGED <<alertGroups, faults>>
  BY DEF DeleteDoc, Remove, At, JobInv, TypeOK, rulerVars
<1>2. j = Idle \/ j.pc = "release"
  BY <1>1, GiveUpGoesOn DEF JobInv
<1> HIDE DEF j
<1>3. (\A q \in Requests : q # r => req'[q] = req[q]) /\ req'[r] = j
  BY <1>1 DEF JobInv, TypeOK
<1>4. AlertsReady'
  BY <1>1, <1>2, <1>3 DEF AlertInv, AlertsReady, At, AlertGroup
<1>5. ASSUME faults' = 0, NEW i \in SloIds, docs'[i] # NoDoc
      PROVE  \/ <<i, docs'[i].name>> \in alertGroups'
             \/ \E q \in Requests : At(q, "drop")' /\ req'[q].id = i
  <2>1. i # req[r].id /\ docs'[i] = docs[i]
    BY <1>1, <1>5 DEF JobInv, TypeOK, Jobs
  <2> QED BY <1>1, <1>3, <1>5, <2>1 DEF AlertInv, AlertedUntilFault, At
<1> QED BY <1>4, <1>5 DEF AlertInv, AlertedUntilFault

(* Every step keeps the alerts of saved SLOs in place, until one fails.    *)
LEMMA StepAlerts == JobInv /\ AlertInv /\ [Next]_vars => AlertInv'
<1> SUFFICES ASSUME JobInv, AlertInv, [Next]_vars PROVE AlertInv'
  OBVIOUS
<1>0. TypeOK
  BY DEF JobInv
<1>a. ASSUME Fault PROVE AlertInv'
  BY <1>0, <1>a, FaultCounts DEF AlertInv, AlertsReady, AlertedUntilFault
<1>b. ASSUME UNCHANGED <<docs, alertGroups, req, faults>> PROVE AlertInv'
  BY <1>b DEF AlertInv, AlertsReady, AlertedUntilFault, At, AlertGroup
<1>1. ASSUME NEW r \in Requests, Starts(r) PROVE AlertInv'
  <2>1. ASSUME NEW j, Begin(r, j), Uninvolved(j) PROVE AlertInv'
    <3>1. /\ req[r] = Idle /\ req' = [req EXCEPT ![r] = j]
          /\ UNCHANGED <<docs, alertGroups, faults>>
      BY <2>1 DEF Begin, rulerVars
    <3> QED BY <1>0, <2>1, <3>1, AlertsGoOn DEF Uninvolved
  <2>2. ASSUME NEW i \in SloIds, NEW d \in Docs, BeginCreate(r, i, d) PROVE AlertInv'
    BY <2>1, <2>2 DEF BeginCreate, Uninvolved
  <2>3. ASSUME NEW i \in SloIds, NEW d \in Docs, BeginUpdate(r, i, d) PROVE AlertInv'
    BY <2>1, <2>3 DEF BeginUpdate, Uninvolved
  <2>4. ASSUME NEW i \in SloIds, BeginDelete(r, i) PROVE AlertInv'
    BY <2>1, <2>4 DEF BeginDelete, Uninvolved
  <2>5. ASSUME NEW i \in SloIds, BeginRepair(r, i) PROVE AlertInv'
    BY <2>1, <2>5 DEF BeginRepair, Uninvolved
  <2> QED BY <1>1, <2>2, <2>3, <2>4, <2>5 DEF Starts
<1>2. ASSUME NEW r \in Requests, Proceeds(r) PROVE AlertInv'
  <2>0. req[r] # Idle => req[r] \in Jobs
    BY <1>0 DEF TypeOK
  <2>1. ASSUME NEW j, Uninvolved(j), req' = [req EXCEPT ![r] = j], Uninvolved(req[r]),
               UNCHANGED <<docs, faults>>, alertGroups \subseteq alertGroups'
        PROVE  AlertInv'
    BY <1>0, <2>1, AlertsGoOn
  <2>2. CASE CheckName(r)
    <3>1. req' = [req EXCEPT ![r] = Idle] \/ req' = [req EXCEPT ![r] = [req[r] EXCEPT !.pc = "claim"]]
      BY <2>2 DEF CheckName
    <3>2. Uninvolved(req[r]) /\ UNCHANGED <<docs, alertGroups, faults>>
      BY <2>2 DEF CheckName, At, Uninvolved, rulerVars
    <3>3. Uninvolved([req[r] EXCEPT !.pc = "claim"]) /\ Uninvolved(Idle)
      BY <2>0, <2>2 DEF CheckName, At, Uninvolved, Jobs
    <3> QED BY <2>1, <3>1, <3>2, <3>3
  <2>3. ASSUME NEW f \in Fps, Claim(r, f) PROVE AlertInv'
    <3>1. Uninvolved(req[r]) /\ Uninvolved(Claimed(r, f))
      BY <2>0, <2>3 DEF Claim, At, Uninvolved, Claimed, Jobs
    <3>2. req' = [req EXCEPT ![r] = Claimed(r, f)] /\ UNCHANGED <<docs, alertGroups, faults>>
      BY <2>3 DEF Claim, rulerVars
    <3> QED BY <2>1, <3>1, <3>2
  <2>4. ASSUME NEW f \in Fps, Release(r, f) PROVE AlertInv'
    <3>1. req' = [req EXCEPT ![r] = Released(r, f)] /\ UNCHANGED <<docs, alertGroups, faults>>
      BY <2>4 DEF Release, rulerVars
    <3>2. CASE At(r, "release")
      <4>1. Uninvolved(req[r]) /\ Uninvolved(Released(r, f))
        BY <1>0, <3>2, GiveUpGoesOn DEF At, Uninvolved, Released
      <4> QED BY <2>1, <3>1, <4>1
    <3>3. CASE At(r, "undo")
      BY <3>1, <3>3 DEF AlertInv, AlertsReady, AlertedUntilFault
    <3> QED BY <2>4, <3>2, <3>3 DEF Release
  <2>5. CASE UpsertRecording(r)
    <3> DEFINE j == [req[r] EXCEPT !.pc = "claim", !.todo = req[r].todo \ Unrecorded(r)]
    <3>1. /\ req[r] # Idle /\ req[r].pc = "record" /\ req' = [req EXCEPT ![r] = j]
          /\ UNCHANGED <<docs, alertGroups, faults>>
      BY <1>0, <2>5 DEF UpsertRecording, At, TypeOK
    <3>2. Uninvolved(req[r]) /\ Uninvolved(j)
      BY <2>0, <3>1 DEF Uninvolved, Jobs
    <3> QED BY <2>1, <3>1, <3>2
  <2>6. CASE DeleteOwnAlert(r)
    BY <2>6 DEF DeleteOwnAlert, AlertInv, AlertsReady, AlertedUntilFault
  <2>7. CASE Probe(r)
    <3> DEFINE j == [req[r] EXCEPT !.pc = "replay", !.todo = req[r].want.fps]
    <3>1. /\ req[r] # Idle /\ req[r].pc = "probe" /\ UNCHANGED <<docs, alertGroups, faults>>
          /\ req' = [req EXCEPT ![r] = Idle] \/ req' = [req EXCEPT ![r] = j]
      BY <1>0, <2>7 DEF Probe, At, TypeOK, rulerVars
    <3>2. Uninvolved(req[r]) /\ Uninvolved(j) /\ Uninvolved(Idle)
      BY <2>0, <3>1 DEF Uninvolved, Jobs
    <3> HIDE DEF j
    <3> QED BY <2>1, <3>1, <3>2
  <2>8. ASSUME NEW f \in Fps, ReplayRecording(r, f) PROVE AlertInv'
    <3> DEFINE j == [req[r] EXCEPT !.todo = req[r].todo \ {f}]
    <3>1. /\ req[r] # Idle /\ req[r].pc = "replay" /\ req' = [req EXCEPT ![r] = j]
          /\ UNCHANGED <<docs, alertGroups, faults>>
      BY <1>0, <2>8 DEF ReplayRecording, At, TypeOK
    <3>2. Uninvolved(req[r]) /\ Uninvolved(j)
      BY <2>0, <3>1 DEF Uninvolved, Jobs
    <3> QED BY <2>1, <3>1, <3>2
  <2>9. CASE ReplayAlert(r)
    <3>1. /\ req[r] # Idle /\ req[r].pc = "replay" /\ req' = [req EXCEPT ![r] = Idle]
          /\ UNCHANGED <<docs, faults>> /\ alertGroups \subseteq alertGroups'
      BY <2>9 DEF ReplayAlert, At
    <3> QED BY <2>1, <3>1 DEF Uninvolved
  <2> QED BY <1>0, <1>2, <2>2, <2>3, <2>4, <2>5, <2>6, <2>7, <2>8, <2>9, AlertThenSave,
             SaveAlerts, DeleteTakesAlert, DropEndsAlert
          DEF Proceeds
<1>3. ASSUME NEW r \in Requests, Fails(r) PROVE Fault
  BY <1>3 DEF Fails, ClaimFails, ReleaseFails, UpsertRecordingFails, UpsertAlertFails,
     SaveFails, DeleteOwnAlertFails, DeleteAlertFails, DeleteDocFails, RepairFails
<1>4. ASSUME NEW k \in Keys, Age(k) PROVE AlertInv'
  BY <1>4, <1>b DEF Age, rulerVars
<1>5. CASE Crash
  BY <1>5, <1>a DEF Crash
<1>6. CASE UNCHANGED vars
  BY <1>6, <1>b DEF vars
<1> QED BY <1>a, <1>1, <1>2, <1>3, <1>4, <1>5, <1>6 DEF Next

(* While no call has failed, every saved SLO has its alert group on the    *)
(* ruler, but for the moment between a delete's two calls, whatever        *)
(* creates, updates, renames, deletes and repairs of whichever SLOs are in *)
(* flight.                                                                 *)
THEOREM SavedSlosAlert ==
  ASSUME SerialWrites, ~LostSaves
  PROVE  Spec => []AlertedUntilFault
<1>1. Init => JobInv /\ AlertInv
  BY InitIInv DEF IInv, Init, AlertInv, AlertsReady, AlertedUntilFault, At
<1>2. JobInv /\ AlertInv /\ [Next]_vars => (JobInv /\ AlertInv)'
  BY StepKeeps, StepAlerts DEF Keeps
<1>3. AlertInv => AlertedUntilFault
  BY DEF AlertInv
<1> QED BY <1>1, <1>2, <1>3, PTL DEF Spec
=============================================================================
