--------------------------- MODULE SloSingleGroup ---------------------------
(***************************************************************************)
(* The path of common/slo/slo_lifecycle_service.ts that gives every SLO    *)
(* one rule group of its own (deduplication off), together with the cache  *)
(* of server/services/slo/rule_health_checker.ts that repair and the       *)
(* health route look through.                                              *)
(*                                                                         *)
(* A group is named after the SLO's id and name and its rules follow from  *)
(* the spec.  create and update write the group first and save second, and *)
(* answer a failed save by deleting the group they wrote.  A health check  *)
(* reads the cache, probes the ruler and fills the cache: three moments,   *)
(* between which writes, repairs and other checks come.                    *)
(*                                                                         *)
(* One datasource, one namespace (stamped on the document at create and    *)
(* used by every later write) and one server process, whose cache it is.   *)
(* The ruler is one that lists what was written before; those that list a  *)
(* group only once it is loaded are in SloStatusReads (Lapse).             *)
(***************************************************************************)
EXTENDS Naturals, FiniteSets

CONSTANTS
  SloIds,      \* ids of SLO saved objects
  Names,       \* SLO names
  Specs,       \* SLO specs
  NameOf,      \* the name in a spec
  Requests,    \* request slots
  HealthTTL,   \* how long a health report is cached
  MaxNow,      \* bound: the clock
  MaxStarted,  \* bound: requests started in one behaviour
  MaxFaults,   \* bound: failed calls, drifts and restarts in one behaviour
  NoDoc,       \* no saved object
  Absent,      \* no rule group
  NoEntry,     \* no cached report
  Idle         \* a free request slot

Groups   == SloIds \X Names
\* "outdated" stands for state ok with outdatedGroups.
Present  == {"ok", "outdated"}
Verdicts == Present \cup {"missing", "unreachable"}
Rules    == [spec : Specs, age : Present]
Times    == 0..MaxNow
Reports  == [group : Groups, verdict : Verdicts, expires : 0..(MaxNow + HealthTTL)]

Jobs == [kind    : {"create", "update", "delete", "repair", "check"},
         pc      : {"name", "upsert", "save", "rollback", "unprovision", "drop",
                    "check", "probe", "fill", "decide", "replay", "recheck"},
         id      : SloIds,
         want    : Specs,     \* the spec it is writing, or has read
         start   : Times,     \* when its last health check began
         verdict : Verdicts,  \* what that check found
         wrote   : BOOLEAN]   \* a repair that has replayed the group

ASSUME SingleGroupAssumption ==
  /\ NameOf \in [Specs -> Names]
  /\ HealthTTL \in Nat \ {0}
  /\ MaxNow \in Nat /\ MaxStarted \in Nat /\ MaxFaults \in Nat
  /\ NoDoc \notin Specs /\ Absent \notin Rules
  /\ NoEntry \notin Reports /\ Idle \notin Jobs

VARIABLES
  docs,       \* slo-definition saved objects: the spec, or NoDoc
  groups,     \* rule groups on the ruler
  cache,      \* the health checker's cache
  req,        \* the requests in flight
  now,        \* the clock
  heldAt,     \* history: when a verdict about a group last ceased to be true
  disturbed,  \* history: SLOs that something went wrong for
  undone,     \* history: repairs whose group was removed after they wrote it
  started,    \* history: requests started
  faults      \* history: failed calls, drifts and restarts

vars == <<docs, groups, cache, req, now, heldAt, disturbed, undone, started, faults>>

TypeOK ==
  /\ docs \in [SloIds -> Specs \cup {NoDoc}]
  /\ groups \in [Groups -> Rules \cup {Absent}]
  /\ cache \in [SloIds -> Reports \cup {NoEntry}]
  /\ req \in [Requests -> Jobs \cup {Idle}]
  /\ now \in Times
  /\ heldAt \in [Groups -> [Verdicts -> Times]]
  /\ disturbed \subseteq SloIds
  /\ undone \subseteq Requests
  /\ started \in 0..MaxStarted
  /\ faults \in 0..MaxFaults

Own(i, s) == <<i, NameOf[s]>>

\* What a probe of the group answers.
Truth(g) == IF groups[g] = Absent THEN "missing" ELSE groups[g].age

\* The server starts empty, or with SLOs that an older version provisioned.
Init ==
  /\ docs \in [SloIds -> Specs \cup {NoDoc}]
  /\ groups = [g \in Groups |->
       IF docs[g[1]] # NoDoc /\ g = Own(g[1], docs[g[1]])
       THEN [spec |-> docs[g[1]], age |-> "outdated"] ELSE Absent]
  /\ cache = [i \in SloIds |-> NoEntry]
  /\ req = [r \in Requests |-> Idle]
  /\ now = 0
  /\ heldAt = [g \in Groups |-> [v \in Verdicts |-> 0]]
  /\ disturbed = {}
  /\ undone = {}
  /\ started = 0
  /\ faults = 0

-----------------------------------------------------------------------------
(* The ruler, and what the history keeps of it.                            *)

At(r, p)  == req[r] # Idle /\ req[r].pc = p
Target(r) == Own(req[r].id, req[r].want)

\* The last moment at which a probe of g would have answered v.
LastHeld(g, v) == IF Truth(g) = v THEN now ELSE heldAt[g][v]

UpsertGroup(g, s) ==
  /\ groups' = [groups EXCEPT ![g] = [spec |-> s, age |-> "ok"]]
  /\ heldAt' = [heldAt EXCEPT ![g][Truth(g)] = now]
  /\ UNCHANGED undone

DeleteGroup(g) ==
  /\ groups' = [groups EXCEPT ![g] = Absent]
  /\ heldAt' = [heldAt EXCEPT ![g][Truth(g)] = now]
  /\ undone' = undone \cup {r \in Requests : req[r] # Idle /\ req[r].wrote /\ Target(r) = g}

rulerVars == <<groups, heldAt, undone>>
history   == <<started, faults>>

Fault ==
  /\ faults < MaxFaults
  /\ faults' = faults + 1
  /\ UNCHANGED started

Disturb(r) == disturbed' = disturbed \cup {req[r].id}
GoTo(r, p) == req' = [req EXCEPT ![r].pc = p]
End(r)     == req' = [req EXCEPT ![r] = Idle]

Changes(kind) == kind # "check"

Overlaps(i) == \E q \in Requests : req[q] # Idle /\ req[q].id = i /\ Changes(req[q].kind)

Begin(r, kind, pc, i, s) ==
  /\ req[r] = Idle
  /\ started < MaxStarted
  /\ started' = started + 1
  /\ req' = [req EXCEPT ![r] = [kind |-> kind, pc |-> pc, id |-> i, want |-> s,
                                start |-> 0, verdict |-> "ok", wrote |-> FALSE]]
  /\ disturbed' = IF Changes(kind) /\ Overlaps(i) THEN disturbed \cup {i} ELSE disturbed
  /\ undone' = undone \ {r}
  /\ UNCHANGED <<docs, groups, heldAt, cache, now, faults>>

-----------------------------------------------------------------------------
(* create and update: ruler first, document second.                        *)

BeginCreate(r, i, s) == Begin(r, "create", "name", i, s)

\* A stale client version is refused on this read, and changes nothing.
BeginUpdate(r, i, s) ==
  /\ docs[i] # NoDoc
  /\ Begin(r, "update", IF NameOf[s] = NameOf[docs[i]] THEN "upsert" ELSE "name", i, s)

NameTaken(r) ==
  \E j \in SloIds : /\ docs[j] # NoDoc /\ NameOf[docs[j]] = NameOf[req[r].want]
                    /\ req[r].kind = "update" => j # req[r].id

CheckName(r) ==
  /\ At(r, "name")
  /\ IF NameTaken(r) THEN End(r) ELSE GoTo(r, "upsert")
  /\ UNCHANGED <<docs, rulerVars, cache, now, disturbed, history>>

\* Mutant of Upsert: an update clears the group of the former name before it saves.
UpsertAndTidy(r) ==
  /\ At(r, "upsert")
  /\ groups' = [g \in Groups |-> IF g = Target(r) THEN [spec |-> req[r].want, age |-> "ok"]
                                 ELSE IF g[1] = req[r].id THEN Absent ELSE groups[g]]
  /\ heldAt' = [heldAt EXCEPT ![Target(r)][Truth(Target(r))] = now]
  /\ GoTo(r, "save")
  /\ UNCHANGED <<docs, undone, cache, now, disturbed, history>>

Upsert(r) ==
  /\ At(r, "upsert")
  /\ UpsertGroup(Target(r), req[r].want)
  /\ GoTo(r, "save")
  /\ UNCHANGED <<docs, cache, now, disturbed, history>>

\* The request throws; the ruler may have applied the write.
UpsertFails(r) ==
  /\ At(r, "upsert")
  /\ Fault
  /\ UNCHANGED rulerVars \/ UpsertGroup(Target(r), req[r].want)
  /\ End(r)
  /\ Disturb(r)
  /\ UNCHANGED <<docs, cache, now>>

\* A save under another name leaves the former group behind; so does a create
\* over an existing id.
Renames(r) ==
  /\ docs[req[r].id] # NoDoc
  /\ NameOf[docs[req[r].id]] # NameOf[req[r].want]

Save(r) ==
  /\ At(r, "save")
  /\ docs' = [docs EXCEPT ![req[r].id] = req[r].want]
  /\ End(r)
  /\ disturbed' = disturbed \cup (IF Renames(r) THEN {req[r].id} ELSE {})
  /\ UNCHANGED <<rulerVars, cache, now, history>>

\* Mutant of SaveFails: the error is rethrown without the compensation.
SaveFailsUncompensated(r) ==
  /\ At(r, "save")
  /\ Fault
  /\ End(r)
  /\ UNCHANGED <<docs, rulerVars, cache, now, disturbed>>

\* Only a create that found nothing and stored nothing is undone without trace.
SaveFails(r) ==
  /\ At(r, "save")
  /\ Fault
  /\ GoTo(r, "rollback")
  /\ \/ UNCHANGED <<docs, disturbed>> /\ docs[req[r].id] = NoDoc
     \/ UNCHANGED docs /\ Disturb(r) /\ docs[req[r].id] # NoDoc
     \/ docs' = [docs EXCEPT ![req[r].id] = req[r].want] /\ Disturb(r)
  /\ UNCHANGED <<rulerVars, cache, now>>

\* safeRollback deletes the group the request wrote.  For an update this is
\* the group that the saved document describes as well.
Rollback(r) ==
  /\ At(r, "rollback")
  /\ DeleteGroup(Target(r))
  /\ End(r)
  /\ UNCHANGED <<docs, cache, now, disturbed, history>>

\* Logged and swallowed.  It follows a failed save and needs no bound of its own.
RollbackFails(r) ==
  /\ At(r, "rollback")
  /\ End(r)
  /\ Disturb(r)
  /\ UNCHANGED <<docs, rulerVars, cache, now, history>>

-----------------------------------------------------------------------------
(* delete: the group, then the document.                                   *)

BeginDelete(r, i) == docs[i] # NoDoc /\ Begin(r, "delete", "unprovision", i, docs[i])

Unprovision(r) ==
  /\ At(r, "unprovision")
  /\ DeleteGroup(Target(r))
  /\ GoTo(r, "drop")
  /\ UNCHANGED <<docs, cache, now, disturbed, history>>

UnprovisionFails(r) ==
  /\ At(r, "unprovision")
  /\ Fault
  /\ \/ UNCHANGED <<rulerVars, disturbed>>
     \/ DeleteGroup(Target(r)) /\ Disturb(r)
  /\ End(r)
  /\ UNCHANGED <<docs, cache, now>>

Drop(r) ==
  /\ At(r, "drop")
  /\ docs' = [docs EXCEPT ![req[r].id] = NoDoc]
  /\ End(r)
  /\ UNCHANGED <<rulerVars, cache, now, disturbed, history>>

DropFails(r) ==
  /\ At(r, "drop")
  /\ Fault
  /\ docs' \in {docs, [docs EXCEPT ![req[r].id] = NoDoc]}
  /\ End(r)
  /\ Disturb(r)
  /\ UNCHANGED <<rulerVars, cache, now>>

-----------------------------------------------------------------------------
(* A health check, by the health route or by a repair.                     *)

BeginCheck(r, i)  == docs[i] # NoDoc /\ Begin(r, "check", "check", i, docs[i])
BeginRepair(r, i) == docs[i] # NoDoc /\ Begin(r, "repair", "check", i, docs[i])

Live(e) == e # NoEntry /\ e.expires > now

\* A live entry answers, whatever group it is about; an expired one is dropped.
Consult(r, entry) ==
  IF Live(entry)
  THEN /\ req' = [req EXCEPT ![r].pc = "decide", ![r].verdict = entry.verdict]
       /\ cache' = [cache EXCEPT ![req[r].id] = entry]
  ELSE /\ req' = [req EXCEPT ![r].pc = "probe", ![r].start = now]
       /\ cache' = [cache EXCEPT ![req[r].id] = NoEntry]

LookUp(r) ==
  /\ At(r, "check")
  /\ Consult(r, cache[req[r].id])
  /\ UNCHANGED <<docs, rulerVars, now, disturbed, history>>

Probe(r) ==
  /\ At(r, "probe")
  /\ req' = [req EXCEPT ![r].pc = "fill", ![r].verdict = Truth(Target(r))]
  /\ UNCHANGED <<docs, rulerVars, cache, now, disturbed, history>>

\* An error of the ruler is a verdict, and cached; any other error is thrown.
ProbeFails(r) ==
  /\ At(r, "probe")
  /\ Fault
  /\ \/ /\ req' = [req EXCEPT ![r].pc = "fill", ![r].verdict = "unreachable"]
        /\ heldAt' = [heldAt EXCEPT ![Target(r)]["unreachable"] = now]
     \/ /\ End(r)
        /\ UNCHANGED heldAt
  /\ UNCHANGED <<docs, groups, undone, cache, now, disturbed>>

\* Mutant of Fill: the entry lives from when the report is cached.
FillFromNow(r) ==
  /\ At(r, "fill")
  /\ cache' = [cache EXCEPT ![req[r].id] =
       [group |-> Target(r), verdict |-> req[r].verdict, expires |-> now + HealthTTL]]
  /\ GoTo(r, "decide")
  /\ UNCHANGED <<docs, rulerVars, now, disturbed, history>>

\* Mutant of Fill: the time to live is added twice.
FillTwice(r) ==
  /\ At(r, "fill")
  /\ cache' = [cache EXCEPT ![req[r].id] =
       [group |-> Target(r), verdict |-> req[r].verdict,
        expires |-> req[r].start + HealthTTL + HealthTTL]]
  /\ GoTo(r, "decide")
  /\ UNCHANGED <<docs, rulerVars, now, disturbed, history>>

\* The entry lives from when the check began.
Fill(r) ==
  /\ At(r, "fill")
  /\ cache' = [cache EXCEPT ![req[r].id] =
       [group |-> Target(r), verdict |-> req[r].verdict, expires |-> req[r].start + HealthTTL]]
  /\ GoTo(r, "decide")
  /\ UNCHANGED <<docs, rulerVars, now, disturbed, history>>

\* A check and a repair's second check only answer.
Decide(r) ==
  /\ At(r, "decide")
  /\ IF req[r].kind = "repair" /\ ~req[r].wrote /\ req[r].verdict \in {"missing", "outdated"}
     THEN GoTo(r, "replay") ELSE End(r)
  /\ UNCHANGED <<docs, rulerVars, cache, now, disturbed, history>>

-----------------------------------------------------------------------------
(* repair: replay the group of the document it read, forget the cached     *)
(* report, and check again.                                                *)

Replay(r) ==
  /\ At(r, "replay")
  /\ UpsertGroup(Target(r), req[r].want)
  /\ req' = [req EXCEPT ![r].pc = "recheck", ![r].wrote = TRUE]
  /\ UNCHANGED <<docs, cache, now, disturbed, history>>

ReplayFails(r) ==
  /\ At(r, "replay")
  /\ Fault
  /\ UNCHANGED rulerVars \/ UpsertGroup(Target(r), req[r].want)
  /\ End(r)
  /\ Disturb(r)
  /\ UNCHANGED <<docs, cache, now>>

\* Mutant of Recheck: the cached report is not forgotten first.
RecheckCached(r) ==
  /\ At(r, "recheck")
  /\ Consult(r, cache[req[r].id])
  /\ UNCHANGED <<docs, rulerVars, now, disturbed, history>>

\* No await separates the invalidation from the look-up.
Recheck(r) ==
  /\ At(r, "recheck")
  /\ Consult(r, NoEntry)
  /\ UNCHANGED <<docs, rulerVars, now, disturbed, history>>

-----------------------------------------------------------------------------
(* The world around the server.                                            *)

\* Someone deletes a rule group on the ruler directly.
Drift(g) ==
  /\ groups[g] # Absent
  /\ Fault
  /\ DeleteGroup(g)
  /\ disturbed' = disturbed \cup {g[1]}
  /\ UNCHANGED <<docs, cache, req, now>>

Tick ==
  /\ now < MaxNow
  /\ now' = now + 1
  /\ UNCHANGED <<docs, rulerVars, cache, req, disturbed, history>>

\* A restart loses the requests and the cache.
Crash ==
  /\ Fault
  /\ req # [r \in Requests |-> Idle]
  /\ req' = [r \in Requests |-> Idle]
  /\ cache' = [i \in SloIds |-> NoEntry]
  /\ disturbed' = disturbed \cup {i \in SloIds : Overlaps(i)}
  /\ UNCHANGED <<docs, rulerVars, now>>

Starts(r) ==
  \E i \in SloIds :
    \/ \E s \in Specs : BeginCreate(r, i, s) \/ BeginUpdate(r, i, s)
    \/ BeginDelete(r, i)
    \/ BeginRepair(r, i)
    \/ BeginCheck(r, i)

Writes(r) ==
  \/ CheckName(r)
  \/ Upsert(r) \/ UpsertFails(r)
  \/ Save(r) \/ SaveFails(r)
  \/ Rollback(r) \/ RollbackFails(r)
  \/ Unprovision(r) \/ UnprovisionFails(r)
  \/ Drop(r) \/ DropFails(r)

Checks(r) ==
  \/ LookUp(r)
  \/ Probe(r) \/ ProbeFails(r)
  \/ Fill(r)
  \/ Decide(r)
  \/ Replay(r) \/ ReplayFails(r)
  \/ Recheck(r)

Next ==
  \/ \E r \in Requests : Starts(r) \/ Writes(r) \/ Checks(r)
  \/ \E g \in Groups : Drift(g)
  \/ Tick
  \/ Crash

Spec == Init /\ [][Next]_vars

-----------------------------------------------------------------------------
(* Documents and ruler agree without a transaction: while no write of an   *)
(* SLO is in flight, its groups on the ruler are exactly the one of its    *)
(* saved spec (none, when it is not saved), whatever else happens around   *)
(* it.  Excepted are the SLOs whose writes overlapped, that were renamed,  *)
(* drifted, or met a failed call that the code does not compensate for;    *)
(* a create whose save fails is compensated for.                           *)
Settled(i) == i \notin disturbed /\ ~Overlaps(i)

GroupsOf(i) == {g \in Groups : g[1] = i /\ groups[g] # Absent}

GroupFollowsDocument ==
  \A i \in SloIds : Settled(i) =>
    IF docs[i] = NoDoc THEN GroupsOf(i) = {}
    ELSE /\ GroupsOf(i) = {Own(i, docs[i])}
         /\ groups[Own(i, docs[i])].spec = docs[i]

(* The rule group of a saved SLO leaves the ruler by hand, by a delete of  *)
(* that SLO, or by the rollback of a save of that SLO that failed: no      *)
(* rename, repair or other SLO's request takes it (and the rollback of an  *)
(* update does take it, although the SLO stays).                           *)
GroupLostByDeleteOrRollback ==
  [][\A i \in SloIds :
       /\ docs[i] # NoDoc
       /\ groups[Own(i, docs[i])] # Absent
       /\ groups'[Own(i, docs[i])] = Absent
       => \/ faults' > faults /\ req' = req
          \/ \E r \in Requests : /\ At(r, "unprovision") \/ At(r, "rollback")
                                 /\ req[r].id = i /\ req'[r] # req[r]]_vars

(* What a live cache entry says of its group was true at some moment less  *)
(* than the time to live ago, even though a check that began before a      *)
(* write, a delete or a repair may fill the cache after it.                *)
CachedVerdictsRecent ==
  \A i \in SloIds :
    Live(cache[i]) => LastHeld(cache[i].group, cache[i].verdict) + HealthTTL > now

(* A repair that rewrote the group does not report it missing or outdated  *)
(* from before: it answers ok or unreachable, unless the group was removed *)
(* again after the repair wrote it.                                        *)
RepairReportsOwnWrite ==
  \A r \in Requests :
    At(r, "decide") /\ req[r].wrote => req[r].verdict \in {"ok", "unreachable"} \/ r \in undone
=============================================================================
