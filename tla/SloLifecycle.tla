---------------------------- MODULE SloLifecycle ----------------------------
(***************************************************************************)
(* Create, update, delete and repair of SLOs on the deduplicating path of  *)
(* common/slo/slo_lifecycle_service.ts.                                    *)
(*                                                                         *)
(* One SLO lives in four places that no transaction spans: its saved       *)
(* object (docs), the reference count of every recording group it uses     *)
(* (refcount), the shared recording groups on the Prometheus ruler         *)
(* (recGroups) and its own alert group there (alertGroups).  Every request *)
(* is an async function; each await is a step of its own, so the requests  *)
(* of several clients interleave between any two of its calls.             *)
(*                                                                         *)
(* One datasource is modelled: every key, namespace and group name of the  *)
(* code carries the datasource, and no operation touches two of them.      *)
(* A registry call is one atomic step here; SloRuleRefStore shows that its *)
(* read/compare-and-set loop implements exactly that.                      *)
(***************************************************************************)
EXTENDS Naturals, FiniteSets

CONSTANTS
  SloIds,       \* ids of SLO saved objects
  Workspaces,   \* OSD workspaces: each has its own partition of references
  WorkspaceOf,  \* the workspace an SLO lives in
  Fps,          \* SLI fingerprints; each names one shared recording group
  FpSets,       \* the sets of fingerprints a spec's objectives may have
  Names,        \* SLO names
  Requests,     \* request slots: the requests that can be in flight at once
  Kinds,        \* the operations clients use
  SerialWrites, \* clients never overlap two writes of the same SLO
  LostSaves,    \* a save that throws may have been applied all the same
  MaxStarted,   \* bound: requests started in one behaviour
  MaxFaults,    \* bound: failed calls and restarts in one behaviour
  NoDoc,        \* no saved object
  Idle          \* a free request slot

Docs == [name : Names, fps : FpSets]

Jobs == [kind : {"create", "update", "delete", "repair"},
         pc   : {"name", "claim", "record", "save", "undo", "unalert", "release",
                 "unprovision", "drop", "probe", "replay"},
         id   : SloIds,
         base : Docs \cup {NoDoc},   \* the document the request read
         want : Docs,                \* the document it is writing or replaying
         todo : SUBSET Fps,          \* fingerprints its loop has yet to visit
         held : SUBSET Fps]          \* references only this request accounts for

ASSUME LifecycleAssumption ==
  /\ WorkspaceOf \in [SloIds -> Workspaces]
  /\ FpSets \subseteq SUBSET Fps
  /\ Kinds \subseteq {"create", "update", "delete", "repair"}
  /\ IsFiniteSet(SloIds) /\ IsFiniteSet(Requests)
  /\ SerialWrites \in BOOLEAN /\ LostSaves \in BOOLEAN
  /\ MaxStarted \in Nat /\ MaxFaults \in Nat
  /\ NoDoc \notin Docs
  /\ Idle \notin Jobs

VARIABLES
  docs,         \* slo-definition saved objects
  refcount,     \* slo-rule-ref saved objects: one count per key, 0 when missing
  zeroMark,     \* zeroSinceAt: "none", or "fresh"/"stale" around the grace period
  recGroups,    \* shared recording groups on the ruler
  alertGroups,  \* alert groups on the ruler, named after an SLO's id and name
  req,          \* the requests in flight
  leaked,       \* history: references whose release was swallowed or never ran
  started,      \* history: requests started
  faults        \* history: failed calls and restarts

rulerVars == <<recGroups, alertGroups>>
refVars   == <<refcount, zeroMark>>
vars      == <<docs, refcount, zeroMark, recGroups, alertGroups, req, leaked, started, faults>>

Keys      == Workspaces \X Fps
Key(i, f) == <<WorkspaceOf[i], f>>
FpsOf(d)  == IF d = NoDoc THEN {} ELSE d.fps

TypeOK ==
  /\ docs \in [SloIds -> Docs \cup {NoDoc}]
  /\ refcount \in [Keys -> Nat]
  /\ zeroMark \in [Keys -> {"none", "fresh", "stale"}]
  /\ recGroups \subseteq Fps
  /\ alertGroups \subseteq SloIds \X Names
  /\ req \in [Requests -> Jobs \cup {Idle}]
  /\ leaked \in [Keys -> Nat]
  /\ started \in 0..MaxStarted
  /\ faults \in 0..MaxFaults

Init ==
  /\ docs = [i \in SloIds |-> NoDoc]
  /\ refcount = [k \in Keys |-> 0]
  /\ zeroMark = [k \in Keys |-> "none"]
  /\ recGroups = {}
  /\ alertGroups = {}
  /\ req = [r \in Requests |-> Idle]
  /\ leaked = [k \in Keys |-> 0]
  /\ started = 0
  /\ faults = 0

-----------------------------------------------------------------------------
(* The reference registry, as its callers see it.  A mark means something  *)
(* only at count zero: the sweep lists nothing else, and every drop to     *)
(* zero writes a new one.                                                  *)

IncrementRef(k) ==
  /\ refcount' = [refcount EXCEPT ![k] = @ + 1]
  /\ zeroMark' = [zeroMark EXCEPT ![k] = "none"]

\* Decrementing a missing or zero reference is a no-op ("underflow").
DecrementRef(k) ==
  IF refcount[k] = 0
  THEN UNCHANGED refVars
  ELSE /\ refcount' = [refcount EXCEPT ![k] = @ - 1]
       /\ zeroMark' = [zeroMark EXCEPT ![k] = IF refcount[k] = 1 THEN "fresh" ELSE "none"]

-----------------------------------------------------------------------------
(* Control of one request.                                                 *)

At(r, p) == req[r] # Idle /\ req[r].pc = p

Writing(r, i) == req[r] # Idle /\ req[r].id = i /\ req[r].kind # "repair"

Begin(r, job) ==
  /\ req[r] = Idle
  /\ job.kind \in Kinds
  /\ started < MaxStarted
  /\ SerialWrites /\ job.kind # "repair" => \A q \in Requests : ~Writing(q, job.id)
  /\ req' = [req EXCEPT ![r] = job]
  /\ started' = started + 1
  /\ UNCHANGED <<docs, refVars, rulerVars, leaked, faults>>

Fault ==
  /\ faults < MaxFaults
  /\ faults' = faults + 1

\* Mutant of Undo: it gives up every fingerprint of the spec, claimed or not.
UndoEverything(r, h) ==
  IF req[r].pc # "undo" THEN [req[r] EXCEPT !.pc = "undo", !.held = req[r].want.fps, !.todo = {}]
  ELSE IF h # {} THEN [req[r] EXCEPT !.held = h]
  ELSE Idle

\* Mutant of Undo: an update's rollback deletes the alert group like a create's.
UndoWithAlert(r, h) ==
  IF h # {} THEN [req[r] EXCEPT !.pc = "undo", !.held = h, !.todo = {}]
  ELSE [req[r] EXCEPT !.pc = "unalert", !.held = {}, !.todo = {}]

\* The rollback loop over the claims in h; create goes on to its alert group.
Undo(r, h) ==
  IF h # {} THEN [req[r] EXCEPT !.pc = "undo", !.held = h, !.todo = {}]
  ELSE IF req[r].kind = "create" THEN [req[r] EXCEPT !.pc = "unalert", !.held = {}, !.todo = {}]
  ELSE Idle

\* The loop that gives up references after the document has gone.
GiveUp(r, h) ==
  IF h # {} THEN [req[r] EXCEPT !.pc = "release", !.held = h] ELSE Idle

-----------------------------------------------------------------------------
(* create and update: read, check the name, claim references, write the    *)
(* ruler, save, release.                                                   *)

BeginCreate(r, i, d) ==
  Begin(r, [kind |-> "create", pc |-> "name", id |-> i, base |-> NoDoc, want |-> d,
            todo |-> d.fps, held |-> {}])

\* A client's stale version is refused on this same read and changes nothing.
BeginUpdate(r, i, d) ==
  /\ docs[i] # NoDoc
  /\ Begin(r, [kind |-> "update",
               pc |-> IF d.name = docs[i].name THEN "claim" ELSE "name",
               id |-> i, base |-> docs[i], want |-> d,
               todo |-> d.fps \ docs[i].fps, held |-> {}])

NameTaken(i, n, kind) ==
  \E j \in SloIds : /\ WorkspaceOf[j] = WorkspaceOf[i]
                    /\ docs[j] # NoDoc /\ docs[j].name = n
                    /\ kind = "update" => j # i

CheckName(r) ==
  /\ At(r, "name")
  /\ req' = [req EXCEPT ![r] = IF NameTaken(@.id, @.want.name, @.kind)
                               THEN Idle ELSE [req[r] EXCEPT !.pc = "claim"]]
  /\ UNCHANGED <<docs, refVars, rulerVars, leaked, started, faults>>

\* Mutant of Claimed: wasZero is read off the count after the increment.
ClaimedNeverZero(r, f) == [req[r] EXCEPT !.todo = @ \ {f}, !.held = @ \cup {f}]

\* Only the claim that found the count at zero writes the group.
Claimed(r, f) ==
  IF refcount[Key(req[r].id, f)] = 0
  THEN [req[r] EXCEPT !.pc = "record", !.held = @ \cup {f}]
  ELSE [req[r] EXCEPT !.todo = @ \ {f}, !.held = @ \cup {f}]

\* incrementRef.
Claim(r, f) ==
  /\ At(r, "claim")
  /\ f \in req[r].todo
  /\ IncrementRef(Key(req[r].id, f))
  /\ req' = [req EXCEPT ![r] = Claimed(r, f)]
  /\ UNCHANGED <<docs, rulerVars, leaked, started, faults>>

\* The call threw; the registry may nevertheless have applied it.
ClaimFails(r, f) ==
  LET k == Key(req[r].id, f) IN
  /\ At(r, "claim")
  /\ f \in req[r].todo
  /\ Fault
  /\ \/ UNCHANGED <<refVars, leaked>>
     \/ IncrementRef(k) /\ leaked' = [leaked EXCEPT ![k] = @ + 1]
  /\ req' = [req EXCEPT ![r] = Undo(r, @.held)]
  /\ UNCHANGED <<docs, rulerVars, started>>

\* The fingerprint the loop has claimed but not left.
Unrecorded(r) == req[r].todo \cap req[r].held

UpsertRecording(r) ==
  /\ At(r, "record")
  /\ recGroups' = recGroups \cup Unrecorded(r)
  /\ req' = [req EXCEPT ![r].pc = "claim", ![r].todo = @ \ Unrecorded(r)]
  /\ UNCHANGED <<docs, refVars, alertGroups, leaked, started, faults>>

UpsertRecordingFails(r) ==
  /\ At(r, "record")
  /\ Fault
  /\ recGroups' \in {recGroups, recGroups \cup Unrecorded(r)}
  /\ req' = [req EXCEPT ![r] = Undo(r, @.held)]
  /\ UNCHANGED <<docs, refVars, alertGroups, leaked, started>>

\* Mutant of AlertGroup: the parts of the name are swapped.
AlertGroupSwapped(r) == <<req[r].want.name, req[r].id>>

\* Mutant of AlertGroup: an update names it after the document it read.
AlertGroupOfBase(r) ==
  <<req[r].id, IF req[r].kind = "update" THEN req[r].base.name ELSE req[r].want.name>>

AlertGroup(r) == <<req[r].id, req[r].want.name>>

UpsertAlert(r) ==
  /\ At(r, "claim")
  /\ req[r].todo = {}
  /\ alertGroups' = alertGroups \cup {AlertGroup(r)}
  /\ req' = [req EXCEPT ![r].pc = "save"]
  /\ UNCHANGED <<docs, refVars, recGroups, leaked, started, faults>>

UpsertAlertFails(r) ==
  /\ At(r, "claim")
  /\ req[r].todo = {}
  /\ Fault
  /\ alertGroups' \in {alertGroups, alertGroups \cup {AlertGroup(r)}}
  /\ req' = [req EXCEPT ![r] = Undo(r, @.held)]
  /\ UNCHANGED <<docs, refVars, recGroups, leaked, started>>

\* One more lost claim on each of the fingerprints in fs.
Orphaned(i, fs) ==
  [k \in Keys |-> IF k[1] = WorkspaceOf[i] /\ k[2] \in fs THEN leaked[k] + 1 ELSE leaked[k]]

\* save() overwrites unconditionally: a create over an existing id forgets what
\* the document it replaces had claimed.
Overwritten(r) == IF req[r].kind = "create" THEN FpsOf(docs[req[r].id]) ELSE {}

Write(r) ==
  /\ docs' = [docs EXCEPT ![req[r].id] = req[r].want]
  /\ leaked' = Orphaned(req[r].id, Overwritten(r))

\* Mutant of Save: an update gives up every old reference, the kept ones too.
SaveDropsAll(r) ==
  /\ At(r, "save")
  /\ Write(r)
  /\ req' = [req EXCEPT ![r] = GiveUp(r, FpsOf(@.base))]
  /\ UNCHANGED <<refVars, rulerVars, started, faults>>

Save(r) ==
  /\ At(r, "save")
  /\ Write(r)
  /\ req' = [req EXCEPT ![r] = GiveUp(r, FpsOf(@.base) \ @.want.fps)]
  /\ UNCHANGED <<refVars, rulerVars, started, faults>>

SaveFails(r) ==
  /\ At(r, "save")
  /\ Fault
  /\ \/ UNCHANGED <<docs, leaked>>
     \/ LostSaves /\ Write(r)
  /\ req' = [req EXCEPT ![r] = Undo(r, @.held)]
  /\ UNCHANGED <<refVars, rulerVars, started>>

-----------------------------------------------------------------------------
(* Giving references back: the rollback of a failed write, and the tail of *)
(* an update or a delete.                                                  *)

Released(r, f) ==
  IF req[r].pc = "undo" THEN Undo(r, req[r].held \ {f}) ELSE GiveUp(r, req[r].held \ {f})

Release(r, f) ==
  /\ At(r, "undo") \/ At(r, "release")
  /\ f \in req[r].held
  /\ DecrementRef(Key(req[r].id, f))
  /\ req' = [req EXCEPT ![r] = Released(r, f)]
  /\ UNCHANGED <<docs, rulerVars, leaked, started, faults>>

\* The error is logged and swallowed; the loop goes on.
ReleaseFails(r, f) ==
  LET k == Key(req[r].id, f) IN
  /\ At(r, "undo") \/ At(r, "release")
  /\ f \in req[r].held
  /\ Fault
  /\ \/ DecrementRef(k) /\ UNCHANGED leaked
     \/ leaked' = [leaked EXCEPT ![k] = @ + 1] /\ UNCHANGED refVars
  /\ req' = [req EXCEPT ![r] = Released(r, f)]
  /\ UNCHANGED <<docs, rulerVars, started>>

\* safeRollback of create's alert group.
DeleteOwnAlert(r) ==
  /\ At(r, "unalert")
  /\ alertGroups' = alertGroups \ {AlertGroup(r)}
  /\ req' = [req EXCEPT ![r] = Idle]
  /\ UNCHANGED <<docs, refVars, recGroups, leaked, started, faults>>

DeleteOwnAlertFails(r) ==
  /\ At(r, "unalert")
  /\ Fault
  /\ req' = [req EXCEPT ![r] = Idle]
  /\ UNCHANGED <<docs, refVars, rulerVars, leaked, started>>

-----------------------------------------------------------------------------
(* delete: alert group, then document, then references.                    *)

BeginDelete(r, i) ==
  /\ docs[i] # NoDoc
  /\ Begin(r, [kind |-> "delete", pc |-> "unprovision", id |-> i, base |-> docs[i],
               want |-> docs[i], todo |-> {}, held |-> {}])

DeleteAlert(r) ==
  /\ At(r, "unprovision")
  /\ alertGroups' = alertGroups \ {AlertGroup(r)}
  /\ req' = [req EXCEPT ![r].pc = "drop"]
  /\ UNCHANGED <<docs, refVars, recGroups, leaked, started, faults>>

DeleteAlertFails(r) ==
  /\ At(r, "unprovision")
  /\ Fault
  /\ alertGroups' \in {alertGroups, alertGroups \ {AlertGroup(r)}}
  /\ req' = [req EXCEPT ![r] = Idle]
  /\ UNCHANGED <<docs, refVars, recGroups, leaked, started>>

Remove(r) == docs' = [docs EXCEPT ![req[r].id] = NoDoc]

\* The store reports whether the object was still there; delete ignores it.
DeleteDoc(r) ==
  /\ At(r, "drop")
  /\ Remove(r)
  /\ req' = [req EXCEPT ![r] = GiveUp(r, @.want.fps)]
  /\ UNCHANGED <<refVars, rulerVars, leaked, started, faults>>

DeleteDocFails(r) ==
  /\ At(r, "drop")
  /\ Fault
  /\ \/ UNCHANGED <<docs, leaked>>
     \/ Remove(r) /\ leaked' = Orphaned(req[r].id, FpsOf(docs[req[r].id]))
  /\ req' = [req EXCEPT ![r] = Idle]
  /\ UNCHANGED <<refVars, rulerVars, started>>

-----------------------------------------------------------------------------
(* repair: probe the ruler, then replay every group from the document.     *)

BeginRepair(r, i) ==
  /\ docs[i] # NoDoc
  /\ Begin(r, [kind |-> "repair", pc |-> "probe", id |-> i, base |-> docs[i],
               want |-> docs[i], todo |-> {}, held |-> {}])

\* Healthy: nothing to do.  Anything else is replayed, an outdated group too,
\* and the verdict comes from a cache, so either may be said at any time.
Probe(r) ==
  /\ At(r, "probe")
  /\ \/ req' = [req EXCEPT ![r] = Idle]
     \/ req' = [req EXCEPT ![r].pc = "replay", ![r].todo = req[r].want.fps]
  /\ UNCHANGED <<docs, refVars, rulerVars, leaked, started, faults>>

ReplayRecording(r, f) ==
  /\ At(r, "replay")
  /\ f \in req[r].todo
  /\ recGroups' = recGroups \cup {f}
  /\ req' = [req EXCEPT ![r].todo = @ \ {f}]
  /\ UNCHANGED <<docs, refVars, alertGroups, leaked, started, faults>>

ReplayAlert(r) ==
  /\ At(r, "replay")
  /\ req[r].todo = {}
  /\ alertGroups' = alertGroups \cup {AlertGroup(r)}
  /\ req' = [req EXCEPT ![r] = Idle]
  /\ UNCHANGED <<docs, refVars, recGroups, leaked, started, faults>>

\* An unreachable ruler, or a failed upsert: the request throws.
RepairFails(r) ==
  /\ At(r, "probe") \/ At(r, "replay")
  /\ Fault
  /\ req' = [req EXCEPT ![r] = Idle]
  /\ UNCHANGED <<docs, refVars, rulerVars, leaked, started>>

-----------------------------------------------------------------------------
(* The claims an SLO and a request account for.                            *)

DocClaims(k) == {i \in SloIds : /\ docs[i] # NoDoc
                                /\ k[2] \in docs[i].fps
                                /\ WorkspaceOf[i] = k[1]}

ReqClaims(k) == {r \in Requests : /\ req[r] # Idle
                                  /\ k[2] \in req[r].held
                                  /\ WorkspaceOf[req[r].id] = k[1]}

\* A server process restarts: its requests, any of those in flight, are lost,
\* and what they held stays counted.
Crash ==
  /\ Fault
  /\ \E lost \in SUBSET {r \in Requests : req[r] # Idle} :
       /\ lost # {}
       /\ req' = [r \in Requests |-> IF r \in lost THEN Idle ELSE req[r]]
       /\ leaked' = [k \in Keys |-> leaked[k] + Cardinality(ReqClaims(k) \cap lost)]
  /\ UNCHANGED <<docs, refVars, rulerVars, started>>

\* The grace period of a reference at zero runs out.
Age(k) ==
  /\ zeroMark[k] = "fresh"
  /\ zeroMark' = [zeroMark EXCEPT ![k] = "stale"]
  /\ UNCHANGED <<docs, refcount, rulerVars, req, leaked, started, faults>>

Starts(r) ==
  \E i \in SloIds :
    \/ \E d \in Docs : BeginCreate(r, i, d) \/ BeginUpdate(r, i, d)
    \/ BeginDelete(r, i)
    \/ BeginRepair(r, i)

Proceeds(r) ==
  \/ CheckName(r)
  \/ \E f \in Fps : Claim(r, f) \/ Release(r, f) \/ ReplayRecording(r, f)
  \/ UpsertRecording(r)
  \/ UpsertAlert(r)
  \/ Save(r)
  \/ DeleteOwnAlert(r)
  \/ DeleteAlert(r)
  \/ DeleteDoc(r)
  \/ Probe(r)
  \/ ReplayAlert(r)

Fails(r) ==
  \/ \E f \in Fps : ClaimFails(r, f) \/ ReleaseFails(r, f)
  \/ UpsertRecordingFails(r)
  \/ UpsertAlertFails(r)
  \/ SaveFails(r)
  \/ DeleteOwnAlertFails(r)
  \/ DeleteAlertFails(r)
  \/ DeleteDocFails(r)
  \/ RepairFails(r)

Next ==
  \/ \E r \in Requests : Starts(r) \/ Proceeds(r) \/ Fails(r)
  \/ \E k \in Keys : Age(k)
  \/ Crash

Spec == Init /\ [][Next]_vars

-----------------------------------------------------------------------------
(* Every reference count is explained, claim by claim: the saved SLOs that *)
(* use the fingerprint, the requests that hold one on the way in or out,   *)
(* and the releases that a swallowed error, a restart or an overwritten    *)
(* document lost.  As long as clients overlap no two writes of one SLO and *)
(* a save that throws was not applied, nothing else moves the registry:    *)
(* create, update and delete with their rollbacks, whatever else overlaps, *)
(* however the SLOs share fingerprints, and whichever calls fail.          *)
ExactAccounting ==
  \A k \in Keys :
    refcount[k] = Cardinality(DocClaims(k)) + Cardinality(ReqClaims(k)) + leaked[k]

(* The registry never counts fewer references than there are saved SLOs    *)
(* using the fingerprint: the reconciler deletes a recording group at      *)
(* count zero, so an undercount takes the rules from under a live SLO      *)
(* (under the same two provisos; without either, or with a sweep in the    *)
(* wrong moment, the code can undercount).                                 *)
NeverUnderCount ==
  \A k \in Keys : refcount[k] >= Cardinality(DocClaims(k))

(* While no call has failed, a recording group that a saved SLO needs is   *)
(* on the ruler, or the request whose claim found the count at zero is     *)
(* still about to write it (the wasZero shortcut of createDedup and        *)
(* updateDedup is enough as long as nothing fails).                        *)
CoveredUntilFault ==
  faults = 0 =>
    \A i \in SloIds : docs[i] # NoDoc =>
      \A f \in docs[i].fps :
        f \in recGroups \/ \E r \in Requests : At(r, "record") /\ f \in Unrecorded(r)

(* While no call has failed, the alert group of a saved SLO is on the      *)
(* ruler, or a delete has taken it and is about to remove the document: an *)
(* SLO without it never alerts, and nothing else of it shows (create and   *)
(* update write the group before the document, delete takes it before).    *)
AlertedUntilFault ==
  faults = 0 =>
    \A i \in SloIds : docs[i] # NoDoc =>
      \/ <<i, docs[i].name>> \in alertGroups
      \/ \E r \in Requests : At(r, "drop") /\ req[r].id = i

(* A recording group that a saved SLO uses is on the ruler once no request *)
(* is in flight, whatever failed on the way.                               *)
CoveredWhenQuiet ==
  (\A r \in Requests : req[r] = Idle) =>
    \A i \in SloIds : FpsOf(docs[i]) \subseteq recGroups

(* The alert group of a saved SLO leaves the ruler only through a delete   *)
(* of that SLO: no rollback, failed save or other SLO's request takes it.  *)
AlertsLostOnlyByDelete ==
  [][\A i \in SloIds :
       /\ docs[i] # NoDoc
       /\ <<i, docs[i].name>> \in alertGroups
       /\ <<i, docs[i].name>> \notin alertGroups'
       => \E r \in Requests : At(r, "unprovision") /\ req[r].id = i]_vars

(* A saved SLO has at most one alert group on the ruler: an update         *)
(* replaces the group in place.                                            *)
OneAlertGroupPerSlo ==
  (\A r \in Requests : req[r] = Idle) /\ faults = 0 =>
    \A i \in SloIds : Cardinality({n \in Names : <<i, n>> \in alertGroups}) <= 1
=============================================================================
