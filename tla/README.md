# A TLA+ model of the SLO subsystem of dashboards-observability

The plugin's own distributed logic is in its service-level-objective (SLO)
subsystem: it keeps saved objects in OpenSearch and rule groups on a Prometheus
ruler in step, without a transaction over the two, from several server
processes, while clients create, change and delete SLOs that *share* recording
rules; and it reads the resulting health back through caches and a circuit
breaker. This project models the write path and the read path, and the fan-out
over datasources of the alerting views; it checks them with TLC, and proves with
TLAPS every safety property that the passing runs check. The rest of the plugin
is mostly user interface, request forwarding and pure functions; the inventory
below says what each part is and what is planned for it.

## 1. Inventory

### Modelled

| Part | State | Operations | Hard behaviours | What makes it correct |
|---|---|---|---|---|
| Lifecycle service (`common/slo/slo_lifecycle_service.ts`) | `slo-definition` objects; per request: the document read, the references claimed so far | create, update, delete, repair (deduplicating path), rollback | requests interleave at every `await`; any call may fail, or throw although it was applied; errors of releases are swallowed; restarts lose requests | every reference is accounted for; no SLO without a reference; no SLO without its recording group; alert groups are lost by deletes only |
| Reference registry (`server/services/slo/slo_rule_ref_store.ts`) | one `slo-rule-ref` object per workspace, datasource and fingerprint: count, zero marker, version | incrementRef, decrementRef, deletion | read, compare-and-set, up to three attempts; the answer is computed from the read; deletes carry no version | it is an atomic counter with truthful answers |
| Reconciler (`server/services/slo/slo_reconciler.ts`) | the sweep in progress, one per process | list, aggregate, delete group, delete references | what is read is stale when acted on; processes sweep at once; any step fails | used groups survive, unused groups go |
| Outdated-rule repairer (`server/services/slo/outdated_rule_repairer.ts`) | attempts, keys in flight, queue, queued keys | schedule, drain, end of a repair | a queue kept by hand in three collections; cooldown and backoff; requests that age in the queue | bounds, one job per key, no job forgotten, rest between attempts |

| Lifecycle service, single-group path | as above, and one rule group per SLO | create, update, delete, repair with deduplication off | ruler first, document second, and a compensation in between | the group follows the document |
| Rule-health checker (`server/services/slo/rule_health_checker.ts`) | a cached report per SLO | check, invalidate | a check reads the cache, probes and fills the cache at three different moments | cached verdicts are recent; a repair does not report the state from before it |
| Status service (`common/slo/slo_status_service.ts`) | a cached status per SLO | getStatuses, invalidate | a batch read lands long after it began, beside writes and their invalidations | statuses are recent, and stale in one known race only |
| Status aggregator and circuit breaker (`status_aggregator.ts`, `datasource_circuit_breaker.ts`) | recent failures and the open-until time of each datasource | aggregate; isOpen, recordSuccess, recordFailure | batches overlap, so results reach the breaker late and out of order | it opens on a run of failures only; a failure shows no longer than cooldown and cache allow |
| Unified alert and rule views (`server/services/alerting/alert_service.ts`) | a shared cursor, one result per datasource | workers, client resolution, timed fetch | a timeout does not cancel; an answer comes late; a resolver hangs | one final result each; a slow datasource costs one worker |

The saved-object store, the ruler client and the naming functions appear by the
effect of the calls the parts make to them.

The parts interact through shared state only. Requests call the registry and
the ruler; the reconciler lists the registry and deletes from both; repairs and
health requests look through the health checker's cache, and so do status reads,
which lay its verdicts over the samples; every update and delete invalidates the
status cache; a status read that meets outdated groups hands a repair to the
repairer, which later runs the lifecycle service's repair. The alerting views
share only the ruler and the datasource registry with all this.

### Not modelled

| Part | Why |
|---|---|
| reconciler `start`/`stop` | planned (section 7) |
| `preview` | changes no state |
| sample arithmetic, prefetch batching, inline-evaluation cache, firing counts of the aggregator | data, or an optimisation whose result is the same read; the pool of eight reads and the pool of sixteen document reads appear as one step |
| reports on several groups (`rules_partial`) in the health checker | the model has one expected group; `SloLifecycle`'s `Probe` allows any report about several |
| query service and page cursor, `listStaleZero`'s paging | planned |
| datasource registry and discovery (ids by counting) | planned |
| alerting backends, monitor mutations | translation of requests and answers |
| notebooks and custom panels (unversioned read-modify-write) | planned |
| integrations builder (partial failure over several objects) | planned |
| catalog cache loader in the browser | planned last |
| validators, templates, formatting, PromQL text, error registry | pure functions of data, well served by unit tests |
| HTTP routes, PPL/SQL and query-assist forwarding | stateless adapters |
| ANTLR parsers, React and Redux code | generated code and user interface |

## 2. Modules

| Module | Models | Notes |
|---|---|---|
| `SloLifecycle` | the lifecycle service over registry, ruler and store | a registry call is one atomic step |
| `SloReconciler` | one sweep per process | shares the registry and ruler variables |
| `SloSystem` | `SloLifecycle` with an instance of `SloReconciler` | the composition, with a history of what sweeps delete although it was claimed in their gap |
| `SloRuleRefStore` | the registry's loops over one saved object | |
| `AtomicRefCounter` | what callers of the registry rely on | abstract specification implemented by `SloRuleRefStore` |
| `OutdatedRuleRepairer` | the scheduler | |
| `SloSingleGroup` | the single-group path, the health checker and its cache | one server process |
| `SloStatusReads` | status service, aggregator, breaker | takes from `SloSingleGroup` how old a health verdict can be |
| `AlertFanOut` | the pool, timeouts and late answers of the unified views | |
| `MC*` | small instances | sets and symmetry only; names, SLOs of one workspace or datasource, specs of one name and request slots are interchangeable |
| `*Proofs` | theorems | one per component; `SloLifecycleProofs` has the accounting of references, `SloRulerProofs` what the lifecycle leaves on the ruler |

### Correspondence

*Requests.* A request slot holds a record: which operation, at which `await`
(`pc`), the document it read (`base`), the document it writes (`want`), the
fingerprints its loop has still to visit (`todo`) and the references that only
this request accounts for (`held`; `incrementedFps` on the way in, `toDrop` on
the way out). Each action is the code between two awaits, with the call it ends
in. `X` and `XFails` are the two answers to one call; where a failed call may
have been applied, both outcomes are in `XFails`. create and update share their
actions, since the two loops are the same; they differ in what they read, in the
set of fingerprints the loop visits, and in the rollback, which removes the
alert group for create only.

*Abstractions of the write path.* One datasource; a spec is its name and its set of fingerprints
(two objectives with equal fingerprints already count once in the code); a
recording group is its fingerprint and an alert group its SLO's id and name.
Fingerprints that yield no recording group (composite SLIs) are not in the sets,
as in the code. A document's version is not kept: the code compares the
client's version with the document in the same step as it reads it, so a stale
version is a refusal without effect. Fingerprint loops visit their set in any
order, since the code's order carries no meaning. A reference deleted and a
reference at zero are the same to callers and both count 0.

*Single-group path.* A spec is a model value with a name (`NameOf`), so updates
with and without a rename both occur. The saved spec determines the group name
kept in `provisioning`, as in the code. A document may exist from the start, with
a group of an older rule version, so that repairs have something to replay.

*Health cache.* `LookUp` reads the cache and, when it must probe, takes the time;
`Probe` reads the ruler; `Fill` caches under the time taken. A repair's second
check begins in the step of its invalidation (`Recheck`), since no await
separates the two. `heldAt` remembers when each verdict about a group was last
true, which is what `CachedVerdictsRecent` measures against. The ruler is taken to
list what was written before; a ruler that lists a group only once it is loaded
makes a repair report it missing, and the aggregator has its grace window for it.

*Status reads.* A status is one of five outcomes: `live` for everything derived
from a sample read that worked, whatever its numbers; `degraded` for no data
because the read failed or was not made; `disabled`; `stub` from the fallback;
and `missing` for no document; with a flag for the rules-missing overlay. The
reads of one datasource's SLOs run in a pool and appear as one step
(`ReadGroup`), with every combination of failures; their report to the breaker is
a step of its own (`FinishGroup`), since other batches report in between. An SLO
stays with its datasource. Entries past their time to live are never served;
the code overwrites them later, the model drops them when the clock moves, and
keeps fewer states. Writes come from this process, which invalidates (`Write`
with `invalidates`, then `Invalidate`), or from a create or another process,
which do not. What the health checker answers is taken from
`CachedVerdictsRecent`: it may say "missing" when the groups were missing less
than `HealthTTL` ago (`Lapse`, `MaySayMissing`).

*Fan-out.* Positions are the datasources in the order of the list. A turn is
resolving, then fetching; `onWire` are the fetches no answer has come for, which
a timeout leaves there. A resolver that answers does so within `ResolveTime`; any
number of resolvers (`stuck`) may never answer.

*Time* of the write path is the zero mark of a reference, `fresh` until the grace period passes
and `stale` after, and the clock of the repairer, of the two caches, of the breaker and of the
fan-out. Times to live are compared as in the code: `expires > now`, `now <
openUntil`. In the fan-out the clock waits for what is due (`Urgent`), as timers
fire on time; elsewhere anything may take any time. *Unbounded* quantities are
bounded by `MaxStarted` (requests), `MaxFaults` (failed calls and restarts),
`MaxCalls` (registry calls), `MaxReads` (status requests), `MaxChanges` (writes
and lapses under the readers) and `MaxNow` (clock); reaching a bound disables the
action, so the bounded systems do come to rest and the runs do not check
deadlock. `leaked`, `started`, `faults`, `since`, `seenAt`, `calls`, `endedAt`,
`heldAt`, `disturbed`, `undone`, `savedAt`, `bareAt`, `troubleAt`, `excused`,
`reads`, `changes`, `late`, `overrun`, `taken` and both `streak`s are history: no action of the code's reads them, except as such a
bound, and `bareAt` to decide what the health checker may say.

*The gap of a sweep.* From its aggregate read to the last of its deletes a sweep
re-checks nothing (`Deletes`). `SloSystem` lets requests and other sweeps run in
that gap as they do anywhere else, and keeps three history variables, in
`Remember`: `late`, per sweep, the references claimed while it was in its gap;
`overrun`, the references that some sweep deleted although they were late in
it; `taken`, the groups that a sweep deleted while a reference to them was late,
until somebody writes them again. The properties name these and so say exactly
how far the damage of the gap goes.

*Restarts.* `Crash` loses any of the requests in flight, as when one of the
processes restarts; which process serves which request is not kept. The sweep of
a process is lost by a step of its own (`SweepLost`), so a restart that loses
both counts as two failures. Of the single-group path one process is modelled,
so there a restart loses every request and the cache.

*Assumptions as constants.* Two constants separate what the code guarantees
from what it merely relies on:

| Constant | TRUE/FALSE means | Without it |
|---|---|---|
| `SerialWrites` | no two writes of the same SLO overlap; the code does nothing to ensure it | run `overlap` |
| `LostSaves = FALSE` | a save that throws has not been applied | the rollback of an applied save undercounts (section 6) |

## 3. Runs

### Passing

| Run | Instance | Shows |
|---|---|---|
| `lifecycle` | 2 SLOs, 2 fingerprints, 2 names, 2 requests at a time, 4 in all, 2 failures or restarts; all four operations; symmetric in requests, SLOs and names; 477,000 states | `ExactAccounting`, `NeverUnderCount`: each count is explained claim by claim. `CoveredUntilFault`: skipping the write of a group whose count was not zero is safe until some call fails. `AlertedUntilFault`: until then every saved SLO has its alert group. `AlertsLostOnlyByDelete`, whatever fails |
| `system` | 2 workspaces with an SLO each, 2 processes sweeping, 3 writes, 1 failure; 188,000 states; fair | nothing keeps claims out of a sweep's gap. `ReferencesTakenOnlyLate`, `GroupsTakenOnlyLate`: a sweep loses nothing that was not claimed in it. `AccountsUnlessOverrun`, `CoveredUnlessTaken`: whatever it lost, the requests' own account of everything else stays exact, and every other saved SLO keeps its group. `UnusedGroupsCollected`: whatever failed, the group of a zero count goes in the end |
| `ref_store` | 3 callers, 3 attempts, 4 calls or deletes; 148,000 states; fair | `RefinesAtomic`; `MarkedWhenZero`; `ConflictMeansContention`; `CallsSettle` |
| `repairer` | 4 keys, 1 slot, queue of 2, age limit 1, cooldown 1, backoff to 2, clock to 2; 140,000 states; fair | `Bounded`, `OncePerKey`, `WorkConserving`, `RestsBetweenAttempts`, `StartsFresh`, `QueueDrains` |

| `single_group` | 1 SLO, 3 specs under 2 names, 2 requests at a time, 3 in all, 1 failure, drift or restart, health cached for 1 tick, clock to 2; symmetric in requests and in specs of one name; 1,570,000 states | `GroupFollowsDocument`, `GroupLostByDeleteOrRollback`, `CachedVerdictsRecent`, `RepairReportsOwnWrite` |
| `status_reads` | 2 SLOs on one datasource, batches of both, 2 reads at a time, 3 in all, 1 write or lapse, both times to live and the cooldown 1 tick, 2 failures within a tick open the breaker, clock to 2; 1,160,000 states | `StatusesRecent`, `StaleOnlyWhenOvertaken`, `RulesMissingRecent`, `OpensOnlyOnStreak`, `DegradedRecent` |
| `fan_out` | 4 datasources, one of them without client resolution, 2 workers, any set of hung resolvers, resolution and fetch 1 tick each, clock to 9; 73,000 states; fair | `EachInOneHand`, `ResultsAreFinal`, `TurnsKept`, `OthersSettle` |

*Why these bounds.* Two SLOs that share a fingerprint and differ in another
reach every relation between counts and documents (one, both, neither, dropped,
kept, added); two requests are enough for every pairwise race, and four in one
behaviour allow create, create, update and delete; a second failure lets the
rollback of a first one fail too, and counts are proved for any number of them.
Three callers with three attempts and four calls let one call lose its
compare-and-set twice and meet a deleted reference; for it to exhaust its
attempts, three other writes are needed, which four calls allow. Four keys for
one slot and a queue of two fill the queue and refuse the fourth; a clock of two
ages a job, ends a cooldown and reaches the backoff's cap.

One SLO suffices on the single-group path, whose groups and cache entries are
keyed by the SLO's id and whose SLOs meet only in the name check; a run with two
SLOs passes as well and takes longer. Three requests are a create or an update
with two others that overlap it, or a check that outlives a repair. In
`status_reads` two SLOs are the least for which "one read fails" and "all fail"
differ, two reads at a time for results that reach the breaker out of order, and
three in all for two failures that open it and a read that finds it open. A
clock of two lets an entry expire while the read that will overwrite it is in
flight; with a `Window` of 0 a failure counts within its tick only, so old
failures fall out of it as well. In `fan_out` two workers and four datasources
make one worker serve three turns while the other hangs; eight ticks are the
latest that `TurnsKept` allows, so a clock to 9 lets it fail.

Each property has a mutant of a definition it depends on, such as a rollback
that releases fingerprints it never claimed or a sweep that adds up only what it
listed; TLC finds the property violated by it. Mutants stand before the
definitions they replace.

### Disagreements between the code and what it says

| Run | Expected by | Found |
|---|---|---|
| `overlap` | registry: every SLO contributes exactly one reference | a delete releases the references of an SLO that an overlapping update then saves again; it is left with a count of zero |
| `skipped_upsert` | generator: byte-equal rules let the registry skip the upsert when `wasZero` is false | the writer that saw zero fails or is lost in a restart; the SLO whose request skipped is saved without its recording group, until somebody repairs it |
| `rename` | lifecycle: the alert group's name is stable across updates | it holds a slug of the SLO's name; renaming leaves the old group on the ruler |
| `sweep_race` | lifecycle: a concurrent create does not race the sweep | a claim made after the aggregate read loses its group, and then its reference: that is deleted by id, without a version, and counts one by then |
| `grace` | registry and reconciler: every contributing reference is past its grace | only those already listed are looked at; a fresh zero of another workspace is ignored |

`rename`, `overlap`, `sweep_race` and `grace` need no failure at all. `grace` is
about sweeps in whose gap nobody claims the group, so that it shows something
else than `sweep_race` does.

## 4. Fairness

* `system`: weak fairness of each process's sweep, as the timer is re-armed in a
  `finally` clause whether or not the sweep threw, and each call of a sweep is
  answered; and of the passing of the grace period, which is time. Requests need
  none. Failures are not fair, and limited by `MaxFaults`.
* `ref_store`: weak fairness of the steps of a call in progress: OpenSearch
  answers. Callers need not call, and errors need not happen.
* `fan_out`: weak fairness of each worker's step to its next datasource, of the
  resolvers that do not hang, of the timers and of time. None of any datasource's
  answer: `OthersSettle` holds although no datasource ever answers.
* `repairer`: weak fairness of the end of each repair, either end. A repair is a
  chain of HTTP calls that time out, followed by a `finally`. Status reads and
  the clock are not assumed to go on.

## 5. Proofs

The theorems state every safety property of every passing run, for all values
of the constants. Each module names what its proofs assume of them
(`LifecycleAssumption`, `RefStoreAssumption`,
`RepairerAssumption`, `SingleGroupAssumption`, `StatusAssumption`,
`FanOutAssumption`): the types of the limits, finiteness where counts are taken,
and that the model values for "none" are not among the data. The modules of the
deduplicating path need more, and say so in the theorem: `SerialWrites` and
`~LostSaves` (section 2) are hypotheses of what is said of saved SLOs. Nothing is
assumed of the reconciler: when it runs, in how many processes, or what happens in
the gap of its sweeps.

| Module | Without further hypotheses | With them |
|---|---|---|
| `SloLifecycleProofs` | `TypeOK` | `ExactAccounting`, `NeverUnderCount` |
| `SloRulerProofs` | while nothing failed, what counts is recorded | `CoveredUntilFault`, `AlertsLostOnlyByDelete`, `AlertedUntilFault` |
| `SloSystemProofs` | `SysTypeOK`, `ReferencesTakenOnlyLate` | `AccountsUnlessOverrun`, `GroupsTakenOnlyLate`, `CoveredUnlessTaken` |
| `SloRuleRefStoreProofs` | `TypeOK`, `MarkedWhenZero`, `ConflictMeansContention`, `RefinesAtomic` | |
| `OutdatedRuleRepairerProofs` | `TypeOK`, `Bounded`, `OncePerKey`, `WorkConserving`, `RestsBetweenAttempts`, `StartsFresh` | |
| `SloSingleGroupProofs` | `TypeOK`, `GroupFollowsDocument`, `CachedVerdictsRecent`, `RepairReportsOwnWrite`, `GroupLostByDeleteOrRollback` | |
| `SloStatusReadsProofs` | `TypeOK`, `StatusesRecent`, `StaleOnlyWhenOvertaken`, `RulesMissingRecent`, `OpensOnlyOnStreak`, `DegradedRecent` | |
| `AlertFanOutProofs` | `TypeOK`, `EachInOneHand`, `TurnsKept`, `ResultsAreFinal` | |

`SloRuleRefStoreProofs` proves for any callers, any `MaxRetries` and any number
of calls: type correctness, `MarkedWhenZero`, `ConflictMeansContention` and the
refinement `RefinesAtomic`. The key invariant: what a caller at its write has
read carries a version no later than the index's sequence number, and a caller
whose version is still current has read exactly the object that is there now.
Hence at every write that lands, the answer computed from the read is the truth.
For contention: a failed attempt means that the sequence number has grown past
the one at that attempt's read, so attempts made so far are at most the writes
landed since the call began.

`OutdatedRuleRepairerProofs` proves all six safety properties for any keys and
limits. The invariant joins `Bounded`, `OncePerKey` and `WorkConserving` with
what the attempt record says of a key that waits or rests (its failures are the
streak, its next time is no earlier than the end of the last attempt plus the
gap). `RestsBetweenAttempts` is why the record of a queued job need not be
looked at again: it was past its time when it was queued and time only grows.

`SloLifecycleProofs` proves type correctness without any assumption and, when
`SerialWrites` holds and `LostSaves` does not, `ExactAccounting` and from it
`NeverUnderCount`, for any finite sets of SLOs and requests, any workspaces
and fingerprints, and any number of failures. `ExactAccounting` is not inductive: a delete may only pass
its claims from document to request if the document is still the one it read.
The inductive invariant adds `OneWriter`, at most one write of each SLO at a
time, and `JobsGood`, which says for each await what the request's `held` set is
in terms of the document it read, the one it writes, and the one that is saved.

`SloRulerProofs` proves from there what requests leave on the ruler.
`CoveredUntilFault` speaks of documents, and is inductive only by way of the
counts: `CountedIsRecorded` says that, while no call has failed, the group of
every reference above zero is on the ruler or is the one its first claim is
about to write. Claims keep it, because a claim that finds zero stays to write;
nothing else raises a count. It needs neither hypothesis; they come in only to
know that a saved SLO's references count at all. `AlertsLostOnlyByDelete` holds
through any failure because only a create takes back an alert group, and the
name check it passed looked at its own id too, so the group is not the one that
a saved document owns (`CreatesAnew`); under overlapping writes TLC finds it
violated. `AlertedUntilFault` adds that whoever is about to save has written the
group (`AlertsReady`), and that a delete, the only one to take it, is then the
only writer of that SLO.

`SloSystemProofs` puts any number of sweeping processes beside the requests, and
lets claims fall into the gap of a sweep as the code does. `SweepInv` holds
whatever happens: what counts on a group that a sweep is deleting is `late` in
that sweep (`OnlyLateCounts`). The aggregate read makes it so, in whichever
workspace and however old the listing; no sweep, one's own or another's, ever
raises a count (`Harmless`), and a request that does makes the reference late.
So a sweep deletes no reference that counts unless it is late
(`ReferencesTakenOnlyLate`).

The account of the requests cannot be used as it stands, as a lost reference
falsifies it. The step lemmas of `SloLifecycleProofs` are therefore stated apart
from it: `JobInv` (types, `OneWriter`, `JobsGood`) says nothing of counts and no
sweep touches it; `Keeps` says that a step of the requests moves each count by as
much as it moves the claims on it (`Balanced`), or is a release that finds zero
where a claim is (`Underflows`), which only a spoilt count allows. Hence a
surplus never arises, a deficit arises only in a late delete, and stays where it
is (`AccountsUnlessOverrun`). A saved SLO's reference then counts unless it was
overrun, so `OnlyLateCounts` says why its group can go (`GroupsTakenOnlyLate`),
and the argument of `SloRulerProofs`, which goes key by key (`KeyRecorded`),
carries over for the groups that were not taken (`CoveredUnlessTaken`).

`SloSingleGroupProofs` proves all five properties of the single-group path, for
any SLOs, specs, requests, faults and time to live. Its invariant has four parts
beside the types: which kind of request is at which await (`Kinds`); that a
verdict found or cached was true when its check began or later (`Recent`), which
is why an entry that expires a time to live after the *start* of its check is
never older, however late it is filled; that a repair's second check sees what
it wrote (`OwnWrites`); and `InStep`, which says for each await of a write that
nothing disturbed which groups of the SLO the ruler has.

`SloStatusReadsProofs` proves all six properties, for any SLOs, datasources,
overlapping batches and settings. `Recent` says of each batch in flight and each
entry that what it found was true at its start or later, with the health
cache's and the cooldown's age added where they apply; `Saved` says that
a batch or the cache has an old document only of an SLO that awaits its
invalidation or missed it; `BreakerCounts` ties the times in the breaker's window
to the streak of failed groups, and `OneVerdictEach` lets each batch add to a
streak once. `WindowKept` shows that the code's filter over those times drops a prefix,
which is how the model writes it; the filter itself is recursion over data.

`AlertFanOutProofs` proves all four safety properties for any number of
datasources, workers and hung resolvers, and any times. Its first invariant is
that workers and turns are in step, and that the cursor divides the turns that
have begun from the others. `TurnsKept` needs a second one, `Timed`, which bounds
the start of each turn by its place in the list. It is kept by the clock because,
while a turn waits, every worker is busy: at most as many of them with hung
resolvers as there are such, so at least `Live` of them with distinct turns
earlier in the list, one of which is `Live` places earlier or more
(`SomeoneAhead`, a pigeonhole argument). That one's bound is at least a round
before, and it is not due yet, since the clock waits for what is due.

Only model-checked:

* liveness (`UnusedGroupsCollected`, `CallsSettle`, `QueueDrains`,
  `OthersSettle`): fairness and ENABLED are out of the prover's reach;
* that the hypothesis `SerialWrites` is needed (run `overlap`), and that the
  excuses for the gap of a sweep are (`sweep_race`).

Induction over data is out of reach as well; no theorem here needs it, as counts
of claims are handled by the cardinality facts of the library.

## 6. What holds by assumption

The properties of the composed system excuse what is lost in the gap between a
sweep's aggregate read and its deletes, because the code loses it there
(`sweep_race`). They show that nothing *else* is missing: two
processes, failed deletes, lost sweeps and requests in flight in other
workspaces do no harm, and the aggregate read, not the listing and not the grace
period, is what protects a group in use elsewhere. The excuse for a reference
(`overrun`) does not end: the code has no step that would recount it.

`UnusedGroupsCollected` has the same excuse, as a group whose last reference a
sweep deleted late may have been written again and is then listed by nobody. It
is checked for clients that create, update and delete: a repair
(`ReplayRecording`) may write back the group of an SLO deleted meanwhile, whose
references are gone, and then no sweep finds it (section 7). It rests on the
fairness of section 4, and on failures that end (`MaxFaults`).

`ExactAccounting`, `NeverUnderCount`, `AlertsLostOnlyByDelete`, and in the composed
system `AccountsUnlessOverrun`, `GroupsTakenOnlyLate` and `CoveredUnlessTaken`, hold
for clients that do not overlap writes of one SLO and a store whose throwing saves
were not applied; `CoveredUntilFault` and `AlertedUntilFault` need only
the first, as a save that throws is a failure; their theorems state both.
All other contention, of SLOs that share fingerprints, stays in. Run `overlap`
shows what happens without the first. Without the second, that is with
`LostSaves = TRUE` in `MCSloLifecycle.cfg`, one create is enough: its save is applied
and throws, which violates `ExactAccounting`; the rollback releases the references,
which violates `NeverUnderCount` (checked alone), and takes the alert group; and the
SLO stays saved with neither. No run listed here checks that.

`CallsSettle` is checked with a bound on all calls, which bounds the conflicts a
caller can meet; that a call ends after `MaxRetries` attempts under any contention
is in the registry's `TypeOK`, checked and proved.

`GroupFollowsDocument` excepts the SLOs in `disturbed`: those whose writes
overlapped, that were renamed or overwritten, that drifted, or that met a failed
call the code has no compensation for. That exception is where the code makes no
promise; what it does promise, a create whose save fails leaves no group, is not
excepted. An update whose save fails is: its rollback deletes the group that the
SLO, still saved, describes. `GroupLostByDeleteOrRollback` names that as one of
the two ways the server takes a live SLO's group away. The comments at
`slo_lifecycle_service.ts` 221 and 1114 leave a failed rollback to the
reconciler; the reconciler lists references only, and this path has none.

`StaleOnlyWhenOvertaken` excepts what the code does not cover: a create and
another process's write invalidate nothing here, and a read that began before
the write puts the former status back. `StatusesRecent` bounds all three by the
time to live.

The comment at `datasource_circuit_breaker.ts` 66 speaks of one trial in the
half-open state; `isOpen` lets every batch through until one reports, and no
property here says otherwise. `DegradedRecent` says what remains true.

The comment at `alert_service.ts` 76 gives the pool as a cap on concurrent
requests. It caps the turns: a fetch that has timed out is still outstanding when
its worker begins the next.

## 7. Plan

Order of work, most important behaviour first:

1. *Done.* Registry with its refinement; lifecycle; reconciler; their
   composition; repairer; the theorems above.
2. *Done.* The single-group path with the health cache; status reads with cache,
   aggregator and breaker; the alerting fan-out.
3. Lifecycle: the groups left by a repair that overlaps a delete.
4. `DatasourceRegistry`: discovery, and ids handed out by counting that clients
   keep after a restart.
5. `SavedObjectEdits`: notebooks and panels against an abstract sequence of
   edits, for the lost update; integrations builder for partial failure.
6. Pagination and `listStaleZero`'s paging as operators over bounded inputs;
   reconciler `start`/`stop`; more than one expected group in the health checker.

Theorems: every safety property checked so far is proved. Next are those of the
modules above as they are written, and what the accounting becomes with
`LostSaves` (a bound from above in place of the equation). No module that holds
theorems, or is used by one, declares a RECURSIVE operator.

## 8. Running

`tlc -config X.cfg M.tla` with the pairs of `PROJECT.json`, `tlapm M.tla` for
the eight `*Proofs` modules. The longest run takes one to two minutes.
