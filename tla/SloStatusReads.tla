--------------------------- MODULE SloStatusReads ---------------------------
(***************************************************************************)
(* How the live status of SLOs is read: the cache of                       *)
(* common/slo/slo_status_service.ts over the saved objects and over        *)
(* server/services/slo/status_aggregator.ts, which asks each datasource    *)
(* behind a circuit breaker (datasource_circuit_breaker.ts) and lays what  *)
(* the health checker says of the rule groups over the samples.            *)
(*                                                                         *)
(* A read of a batch takes many awaits, and its answers are cached at the  *)
(* end under the time of its beginning.  Meanwhile documents change and    *)
(* are invalidated, other reads fail or succeed on the same breaker, and   *)
(* rule groups come and go.                                                *)
(*                                                                         *)
(* Writes appear by what a read can tell of them: the document changes,    *)
(* and, when this process has updated or deleted it, is invalidated after. *)
(* The health checker appears by what SloSingleGroup shows of its cache    *)
(* (CachedVerdictsRecent): it may say "rules missing" when they were, at   *)
(* some moment less than HealthTTL ago.                                    *)
(***************************************************************************)
EXTENDS Naturals, Sequences, FiniteSets

CONSTANTS
  SloIds,       \* ids of SLOs, saved or not
  Specs,        \* SLO specs
  Enabled,      \* the specs of SLOs that are switched on
  Datasources,  \* Prometheus connections
  DsOf,         \* the datasource of an SLO, the same in all its documents
  Requested,    \* the batches clients ask for
  Readers,      \* slots of status requests in flight
  StatusTTL,    \* how long a status is cached
  HealthTTL,    \* how long a rule-health report is cached
  Threshold,    \* failures that open the breaker
  Window,       \* how long a failure counts
  Cooldown,     \* how long an open breaker stays open
  MaxNow,       \* bound: the clock
  MaxReads,     \* bound: status requests started
  MaxChanges,   \* bound: changes of documents and lapses of rule groups
  NoDoc,        \* no saved object
  NoEntry,      \* nothing cached
  Never,        \* no such moment so far
  Idle          \* a free slot

Docs     == Specs \cup {NoDoc}
Times    == 0..MaxNow
\* "live" is anything derived from a sample read that worked.
Outcomes == {"live", "degraded", "disabled", "stub", "missing"}
Shown    == [outcome : Outcomes, rulesMissing : BOOLEAN]
Entries  == [doc : Docs, shown : Shown, expires : 0..(MaxNow + StatusTTL)]

Batches == [pc    : {"get", "next", "ask", "record"},
            ids   : SUBSET SloIds,           \* the uncached part of the batch
            start : Times,
            ds    : Datasources,             \* the datasource it is busy with
            found : [SloIds -> Docs],        \* the documents it read
            out   : [SloIds -> Shown \cup {NoEntry}]]  \* the statuses so far

ASSUME StatusAssumption ==
  /\ Enabled \subseteq Specs
  /\ DsOf \in [SloIds -> Datasources]
  /\ Requested \subseteq SUBSET SloIds
  /\ StatusTTL \in Nat \ {0} /\ HealthTTL \in Nat \ {0}
  /\ Threshold \in Nat \ {0} /\ Window \in Nat /\ Cooldown \in Nat \ {0}
  /\ MaxNow \in Nat /\ MaxReads \in Nat /\ MaxChanges \in Nat
  /\ NoDoc \notin Specs /\ NoEntry \notin Entries \cup Shown
  /\ Never \notin Times /\ Idle \notin Batches

VARIABLES
  docs,       \* slo-definition saved objects
  cache,      \* the status cache of this process
  failures,   \* breaker: times of recent failures, per datasource
  openUntil,  \* breaker: open until then; 0 when closed
  read,       \* status requests in flight
  pending,    \* SLOs this process has changed and not yet invalidated
  now,        \* the clock
  savedAt,    \* history: when a document was last what it no longer is
  bareAt,     \* history: when the ruler last lacked a rule group of an SLO
  troubleAt,  \* history: when a datasource last failed to answer
  streak,     \* history: failed groups of reads since the last good one
  excused,    \* history: SLOs changed behind the cache's back
  reads,      \* history: status requests started
  changes     \* history: changes of documents and lapses of rule groups

sloVars     == <<docs, pending, savedAt, bareAt, excused, changes>>
breakerVars == <<failures, openUntil>>
vars == <<sloVars, cache, breakerVars, read, now, troubleAt, streak, reads>>

TypeOK ==
  /\ docs \in [SloIds -> Docs]
  /\ cache \in [SloIds -> Entries \cup {NoEntry}]
  /\ \A ds \in Datasources : /\ \A k \in DOMAIN failures[ds] : failures[ds][k] \in Times
                             /\ Len(failures[ds]) <= reads
  /\ openUntil \in [Datasources -> 0..(MaxNow + Cooldown)]
  /\ read \in [Readers -> Batches \cup {Idle}]
  /\ pending \subseteq SloIds
  /\ now \in Times
  /\ savedAt \in [SloIds -> [Docs -> Times]]
  /\ bareAt \in [SloIds -> Times \cup {Never}]
  /\ troubleAt \in [Datasources -> Times \cup {Never}]
  /\ streak \in [Datasources -> 0..MaxReads]
  /\ excused \subseteq SloIds
  /\ reads \in 0..MaxReads /\ changes \in 0..MaxChanges

Init ==
  /\ docs \in [SloIds -> Docs]
  /\ cache = [i \in SloIds |-> NoEntry]
  /\ failures = [ds \in Datasources |-> <<>>]
  /\ openUntil = [ds \in Datasources |-> 0]
  /\ read = [r \in Readers |-> Idle]
  /\ pending = {}
  /\ now = 0
  /\ savedAt = [i \in SloIds |-> [d \in Docs |-> 0]]
  /\ bareAt = [i \in SloIds |-> Never]
  /\ troubleAt = [ds \in Datasources |-> Never]
  /\ streak = [ds \in Datasources |-> 0]
  /\ excused = {}
  /\ reads = 0
  /\ changes = 0

-----------------------------------------------------------------------------
(* The circuit breaker.                                                    *)

\* Mutant of IsOpen: the cooldown never ends.
StaysOpen(ds) == openUntil[ds] > 0

IsOpen(ds) == now < openUntil[ds]

RecordSuccess(ds) ==
  /\ failures' = [failures EXCEPT ![ds] = <<>>]
  /\ openUntil' = [openUntil EXCEPT ![ds] = 0]

\* The failures that have left the window.
Expired(ds) == {k \in DOMAIN failures[ds] : failures[ds][k] + Window < now}

\* Too many failures in the window open it; so does any failure once a
\* cooldown has passed.  Times are appended in clock order, so the filter over
\* them drops the first ones (WindowKept in SloStatusReadsProofs).
RecordFailure(ds) ==
  LET kept   == SubSeq(failures[ds], Cardinality(Expired(ds)) + 1, Len(failures[ds]))
      recent == Append(kept, now)
      trips  == Len(recent) >= Threshold \/ (openUntil[ds] > 0 /\ ~IsOpen(ds))
  IN /\ failures' = [failures EXCEPT ![ds] = recent]
     /\ openUntil' = [openUntil EXCEPT ![ds] = IF trips THEN now + Cooldown ELSE @]

-----------------------------------------------------------------------------
(* A status request.                                                       *)

At(r, p) == read[r] # Idle /\ read[r].pc = p

Live(e)      == e # NoEntry /\ e.expires > now
LastSaved(i, d) == IF docs[i] = d THEN now ELSE savedAt[i][d]

Missing == [outcome |-> "missing", rulesMissing |-> FALSE]

\* What is left of an SLO's status when its datasource is not asked.
NoData(d) == [outcome |-> IF d \in Enabled THEN "degraded" ELSE "disabled", rulesMissing |-> FALSE]

\* The SLOs of a datasource that the batch has still to answer for.
Group(r, ds) == {i \in read[r].ids : read[r].out[i] = NoEntry /\ DsOf[i] = ds}

\* What the batch says of them when it does not ask the datasource.
Unread(r, ds) == [i \in Group(r, ds) |-> NoData(read[r].found[i])]

\* The batch with the statuses v of some SLOs.
Answer(r, v) ==
  [read[r] EXCEPT !.pc = "next",
                  !.out = [i \in SloIds |-> IF i \in DOMAIN v THEN v[i] ELSE @[i]]]

\* Only what is not cached is asked for; a fully cached batch is answered at once.
Begin(r, ids) ==
  /\ read[r] = Idle
  /\ reads < MaxReads
  /\ reads' = reads + 1
  /\ LET uncached == {i \in ids : ~Live(cache[i])} IN
     /\ uncached # {}
     /\ read' = [read EXCEPT ![r] =
          [pc |-> "get", ids |-> uncached, start |-> now, ds |-> CHOOSE ds \in Datasources : TRUE,
           found |-> [i \in SloIds |-> NoDoc], out |-> [i \in SloIds |-> NoEntry]]]
  /\ UNCHANGED <<sloVars, cache, breakerVars, now, troubleAt, streak>>

\* The documents are read in parallel; nothing here relates two of them.
Get(r) ==
  /\ At(r, "get")
  /\ read' = [read EXCEPT ![r].pc = "next",
       ![r].found = [i \in SloIds |-> IF i \in read[r].ids THEN docs[i] ELSE NoDoc],
       ![r].out = [i \in SloIds |-> IF i \in read[r].ids /\ docs[i] = NoDoc THEN Missing ELSE NoEntry]]
  /\ UNCHANGED <<sloVars, cache, breakerVars, now, troubleAt, streak, reads>>

\* One failed read of a document fails the whole batch.
GetFails(r) ==
  /\ At(r, "get")
  /\ read' = [read EXCEPT ![r] = Idle]
  /\ UNCHANGED <<sloVars, cache, breakerVars, now, troubleAt, streak, reads>>

Unanswered(r) == {i \in read[r].ids : read[r].out[i] = NoEntry}

\* Without an aggregation context, or when the aggregator throws, which loses
\* the statuses that it has so far.
Stub(r) ==
  /\ At(r, "next")
  /\ Unanswered(r) # {}
  /\ read' = [read EXCEPT ![r] =
       Answer(r, [i \in {j \in read[r].ids : read[r].found[j] # NoDoc} |->
                   [outcome |-> "stub", rulesMissing |-> FALSE]])]
  /\ UNCHANGED <<sloVars, cache, breakerVars, now, troubleAt, streak, reads>>

\* The next datasource: not asked while its breaker is open.
Enter(r, ds) ==
  /\ At(r, "next")
  /\ Group(r, ds) # {}
  /\ read' = [read EXCEPT ![r] =
       IF IsOpen(ds) THEN Answer(r, Unread(r, ds))
                     ELSE [read[r] EXCEPT !.pc = "ask", !.ds = ds]]
  /\ UNCHANGED <<sloVars, cache, breakerVars, now, troubleAt, streak, reads>>

\* No such datasource, or an error; only the error counts for the breaker.
ResolveFails(r) ==
  LET ds == read[r].ds IN
  /\ At(r, "ask")
  /\ read' = [read EXCEPT ![r] = Answer(r, Unread(r, ds))]
  /\ troubleAt' = [troubleAt EXCEPT ![ds] = now]
  /\ \/ UNCHANGED <<breakerVars, streak>>
     \/ RecordFailure(ds) /\ streak' = [streak EXCEPT ![ds] = @ + 1]
  /\ UNCHANGED <<sloVars, cache, now, reads>>

\* What the overlay of rule health may add: the checker's verdict is at most
\* HealthTTL old, and the grace after a write, or an error, may hide it.
MaySayMissing(i) == bareAt[i] # Never /\ bareAt[i] + HealthTTL > now

\* The sample reads of the SLOs that are switched on, each with its health
\* check.  Those of bad throw.
ReadGroup(r, bad, bare) ==
  LET ds    == read[r].ds
      asked == {i \in Group(r, ds) : read[r].found[i] \in Enabled}
      got   == [i \in Group(r, ds) |->
                  IF i \notin asked THEN NoData(read[r].found[i])
                  ELSE [outcome |-> IF i \in bad THEN "degraded" ELSE "live",
                        rulesMissing |-> i \in bare]]
  IN
  /\ At(r, "ask")
  /\ bad \subseteq asked
  /\ bare \subseteq {i \in asked : MaySayMissing(i)}
  /\ read' = [read EXCEPT ![r] = [Answer(r, got) EXCEPT !.pc = "record"]]
  /\ troubleAt' = IF bad = {} THEN troubleAt ELSE [troubleAt EXCEPT ![ds] = now]
  /\ UNCHANGED <<sloVars, cache, breakerVars, now, streak, reads>>

Some(r, outcome) ==
  \E i \in read[r].ids : DsOf[i] = read[r].ds /\ read[r].out[i].outcome = outcome

\* Mutant of Record: one read that throws is a failure of the datasource.
RecordAnyThrow(r) ==
  IF Some(r, "degraded") THEN RecordFailure(read[r].ds)
  ELSE IF Some(r, "live") THEN RecordSuccess(read[r].ds)
  ELSE UNCHANGED breakerVars

\* One good read is enough; only when all of them threw is it a failure.
Record(r) ==
  IF Some(r, "live") THEN RecordSuccess(read[r].ds)
  ELSE IF Some(r, "degraded") THEN RecordFailure(read[r].ds)
  ELSE UNCHANGED breakerVars

FinishGroup(r) ==
  /\ At(r, "record")
  /\ Record(r)
  /\ streak' = [streak EXCEPT ![read[r].ds] = IF Some(r, "live") THEN 0
                                              ELSE IF Some(r, "degraded") THEN @ + 1 ELSE @]
  /\ troubleAt' = IF Some(r, "live") \/ ~Some(r, "degraded") THEN troubleAt
                  ELSE [troubleAt EXCEPT ![read[r].ds] = now]
  /\ read' = [read EXCEPT ![r].pc = "next"]
  /\ UNCHANGED <<sloVars, cache, now, reads>>

\* Mutant of Fresh: the entry lives from when it is written.
FreshFromNow(r, i) ==
  [doc |-> read[r].found[i], shown |-> read[r].out[i], expires |-> now + StatusTTL]

\* Mutant of Fresh: the health report's time to live is added.
FreshForBoth(r, i) ==
  [doc |-> read[r].found[i], shown |-> read[r].out[i],
   expires |-> read[r].start + StatusTTL + HealthTTL]

\* The entry lives from when the request began.
Fresh(r, i) ==
  [doc |-> read[r].found[i], shown |-> read[r].out[i], expires |-> read[r].start + StatusTTL]

Land(r) ==
  /\ At(r, "next")
  /\ Unanswered(r) = {}
  /\ cache' = [i \in SloIds |-> IF i \notin read[r].ids THEN cache[i]
                             ELSE IF Live(Fresh(r, i)) THEN Fresh(r, i) ELSE NoEntry]
  /\ read' = [read EXCEPT ![r] = Idle]
  /\ UNCHANGED <<sloVars, breakerVars, now, troubleAt, streak, reads>>

-----------------------------------------------------------------------------
(* What changes under the readers.                                         *)

Change ==
  /\ changes < MaxChanges
  /\ changes' = changes + 1

\* A write lands: an update or delete by this process, which will invalidate,
\* or a create, or a write by another process, neither of which does.
Write(i, d, invalidates) ==
  /\ Change
  /\ d # docs[i]
  /\ invalidates => docs[i] # NoDoc
  /\ docs' = [docs EXCEPT ![i] = d]
  /\ savedAt' = [savedAt EXCEPT ![i][docs[i]] = now]
  /\ IF invalidates THEN pending' = pending \cup {i} /\ UNCHANGED excused
                    ELSE excused' = excused \cup {i} /\ UNCHANGED pending
  /\ UNCHANGED <<bareAt, cache, breakerVars, read, now, troubleAt, streak, reads>>

\* A request that has read a document of i that is no longer the saved one.
Overtaken(i) ==
  \E r \in Readers : /\ read[r] # Idle /\ read[r].pc # "get"
                     /\ i \in read[r].ids /\ read[r].found[i] # docs[i]

\* Mutant of Invalidate: the cached status is kept.
InvalidateNothing(i) ==
  /\ i \in pending
  /\ pending' = pending \ {i}
  /\ excused' = IF Overtaken(i) THEN excused \cup {i} ELSE excused \ {i}
  /\ UNCHANGED <<docs, savedAt, bareAt, changes, cache, breakerVars, read, now,
                 troubleAt, streak, reads>>

Invalidate(i) ==
  /\ i \in pending
  /\ pending' = pending \ {i}
  /\ cache' = [cache EXCEPT ![i] = NoEntry]
  /\ excused' = IF Overtaken(i) THEN excused \cup {i} ELSE excused \ {i}
  /\ UNCHANGED <<docs, savedAt, bareAt, changes, breakerVars, read, now,
                 troubleAt, streak, reads>>

\* The ruler lacks a rule group of i just now: it was deleted there, or is new
\* and not loaded yet.  A longer absence is this happening again.
Lapse(i) ==
  /\ Change
  /\ bareAt' = [bareAt EXCEPT ![i] = now]
  /\ UNCHANGED <<docs, pending, savedAt, excused, cache, breakerVars, read, now,
                 troubleAt, streak, reads>>

\* An entry that expires is never served again; the code keeps it until it is
\* overwritten, the model forgets it.
Tick ==
  /\ now < MaxNow
  /\ now' = now + 1
  /\ cache' = [i \in SloIds |->
       IF Live(cache[i]) /\ cache[i].expires > now + 1 THEN cache[i] ELSE NoEntry]
  /\ UNCHANGED <<sloVars, breakerVars, read, troubleAt, streak, reads>>

Next ==
  \/ \E r \in Readers :
       \/ \E ids \in Requested : Begin(r, ids)
       \/ Get(r) \/ GetFails(r)
       \/ Stub(r)
       \/ \E ds \in Datasources : Enter(r, ds)
       \/ ResolveFails(r)
       \/ \E bad, bare \in SUBSET SloIds : ReadGroup(r, bad, bare)
       \/ FinishGroup(r)
       \/ Land(r)
  \/ \E i \in SloIds :
       \/ \E d \in Docs, b \in BOOLEAN : Write(i, d, b)
       \/ Invalidate(i)
       \/ Lapse(i)
  \/ Tick

Spec == Init /\ [][Next]_vars

-----------------------------------------------------------------------------
(* A status that is served from the cache is of a document that was saved  *)
(* at some moment less than StatusTTL ago (or of none, when there was      *)
(* none), though it may be filled after the document's invalidation.       *)
StatusesRecent ==
  \A i \in SloIds : Live(cache[i]) => LastSaved(i, cache[i].doc) + StatusTTL > now

(* Invalidation works but for one race: a served status is of the saved    *)
(* document unless a request that had read the former document was in      *)
(* flight when it was invalidated, or the change came from a create or     *)
(* from another process, which do not invalidate.                          *)
StaleOnlyWhenOvertaken ==
  \A i \in SloIds : Live(cache[i]) /\ cache[i].doc # docs[i] => i \in pending \cup excused

(* Two caches add up: "rules missing" is shown no longer than both times   *)
(* to live together after the rule groups were last missing.               *)
RulesMissingRecent ==
  \A i \in SloIds :
    Live(cache[i]) /\ cache[i].shown.rulesMissing =>
      /\ bareAt[i] # Never
      /\ bareAt[i] + HealthTTL + StatusTTL > now

(* The breaker opens only on a run of failures: since it last let a good   *)
(* read through, at least Threshold groups of reads failed altogether.  A  *)
(* batch in which one SLO's read works never counts against the datasource.*)
OpensOnlyOnStreak ==
  \A ds \in Datasources : openUntil[ds] > 0 => streak[ds] >= Threshold

(* An SLO is shown without data for a datasource's failure no longer than  *)
(* the cooldown and the cache allow after the last such failure: neither   *)
(* the breaker nor reads that it refused keep it there.                    *)
DegradedRecent ==
  \A i \in SloIds :
    Live(cache[i]) /\ cache[i].shown.outcome = "degraded" =>
      /\ troubleAt[DsOf[i]] # Never
      /\ troubleAt[DsOf[i]] + Cooldown + StatusTTL > now
=============================================================================
