------------------------ MODULE SloStatusReadsProofs ------------------------
(***************************************************************************)
(* Proofs about SloStatusReads, for any SLOs, specs, datasources and       *)
(* readers, any times to live and any setting of the breaker.              *)
(***************************************************************************)
EXTENDS SloStatusReads, FiniteSetTheorems, TLAPS

-----------------------------------------------------------------------------
(* The inductive invariant.                                                *)

\* Request r has read its documents, that of i among them.
HasRead(r, i) == read[r] # Idle /\ read[r].pc # "get" /\ i \in read[r].ids

(* TypeOK, with the counters known to be no more than numbers.             *)
Types ==
  /\ docs \in [SloIds -> Docs]
  /\ cache \in [SloIds -> Entries \cup {NoEntry}]
  /\ failures \in [Datasources -> Seq(Times)]
  /\ openUntil \in [Datasources -> 0..(MaxNow + Cooldown)]
  /\ read \in [Readers -> Batches \cup {Idle}]
  /\ pending \subseteq SloIds
  /\ now \in Times
  /\ savedAt \in [SloIds -> [Docs -> Times]]
  /\ bareAt \in [SloIds -> Times \cup {Never}]
  /\ troubleAt \in [Datasources -> Times \cup {Never}]
  /\ streak \in [Datasources -> Nat]
  /\ excused \subseteq SloIds
  /\ reads \in 0..MaxReads /\ changes \in 0..MaxChanges

(* The history has no later moment than now.                               *)
Past ==
  /\ \A i \in SloIds, d \in Docs : savedAt[i][d] <= now
  /\ \A i \in SloIds : bareAt[i] # Never => bareAt[i] <= now
  /\ \A ds \in Datasources : troubleAt[ds] # Never => troubleAt[ds] <= now
  /\ \A ds \in Datasources : \A k \in DOMAIN failures[ds] : failures[ds][k] <= now

(* What is in flight and what is cached is recent: a document was saved    *)
(* when the request began or later; rule groups reported missing were so   *)
(* at most the report's time to live before that; and a status without     *)
(* data goes back to a failure at most a cooldown before that.             *)
Bare(i, t)    == bareAt[i] # Never /\ bareAt[i] + HealthTTL > t
Trouble(i, t) == troubleAt[DsOf[i]] # Never /\ troubleAt[DsOf[i]] + Cooldown > t

JobRecent(r) == read[r] # Idle =>
  /\ read[r].start <= now
  /\ \A i \in SloIds :
       /\ read[r].pc # "get" /\ i \in read[r].ids => read[r].start <= LastSaved(i, read[r].found[i])
       /\ read[r].out[i] # NoEntry /\ read[r].out[i].rulesMissing => Bare(i, read[r].start)
       /\ read[r].out[i] # NoEntry /\ read[r].out[i].outcome = "degraded" => Trouble(i, read[r].start)

EntryRecent(i) == cache[i] # NoEntry =>
  \E start \in Times :
    /\ cache[i].expires = start + StatusTTL
    /\ start <= LastSaved(i, cache[i].doc)
    /\ cache[i].shown.rulesMissing => Bare(i, start)
    /\ cache[i].shown.outcome = "degraded" => Trouble(i, start)

OpenRecent(ds) == openUntil[ds] > 0 =>
  troubleAt[ds] # Never /\ openUntil[ds] <= troubleAt[ds] + Cooldown

Recent ==
  /\ \A r \in Readers : JobRecent(r)
  /\ \A i \in SloIds : EntryRecent(i)
  /\ \A ds \in Datasources : OpenRecent(ds)

(* Only an SLO that waits for its invalidation, or missed it, has an old   *)
(* document read by a request or in the cache.                             *)
Known == pending \cup excused

Saved ==
  /\ \A r \in Readers, i \in SloIds : HasRead(r, i) /\ read[r].found[i] # docs[i] => i \in Known
  /\ \A i \in SloIds : cache[i] # NoEntry /\ cache[i].doc # docs[i] => i \in Known

(* The breaker counts no failure that is not of the streak, in the order   *)
(* of the clock, and was opened by enough of them.                         *)
BreakerCounts ==
  \A ds \in Datasources :
    /\ Len(failures[ds]) <= streak[ds]
    /\ openUntil[ds] > 0 => streak[ds] >= Threshold
    /\ \A j, k \in DOMAIN failures[ds] : j <= k => failures[ds][j] <= failures[ds][k]

(* The requests that have still to say whether datasource ds answers, or   *)
(* are about to: each request says so once at most.                        *)
Owing(ds) ==
  {r \in Readers : /\ read[r] # Idle
                   /\ \/ read[r].pc = "get"
                      \/ read[r].pc \in {"ask", "record"} /\ read[r].ds = ds
                      \/ Group(r, ds) # {}}

OneVerdictEach ==
  /\ \A r \in Readers : At(r, "record") => Group(r, read[r].ds) = {}
  /\ \A ds \in Datasources : /\ IsFiniteSet(Owing(ds))
                             /\ streak[ds] + Cardinality(Owing(ds)) <= reads

IInv == Types /\ Past /\ Recent /\ Saved /\ BreakerCounts /\ OneVerdictEach

-----------------------------------------------------------------------------
(* The breaker.                                                            *)

(* The expired failures can be counted.                                    *)
LEMMA ExpiredCount ==
  ASSUME Types, NEW ds \in Datasources
  PROVE  /\ failures[ds] \in Seq(Times)
         /\ IsFiniteSet(Expired(ds))
         /\ Cardinality(Expired(ds)) \in 0..Len(failures[ds])
<1>1. failures[ds] \in Seq(Times) /\ Len(failures[ds]) \in Nat
  BY DEF Types
<1>2. Expired(ds) \in SUBSET (1..Len(failures[ds]))
  BY <1>1 DEF Expired
<1>3. IsFiniteSet(1..Len(failures[ds])) /\ Cardinality(1..Len(failures[ds])) = Len(failures[ds])
  BY <1>1, FS_Interval
<1>4. IsFiniteSet(Expired(ds)) /\ Cardinality(Expired(ds)) <= Len(failures[ds])
  BY <1>2, <1>3, FS_Subset
<1> QED BY <1>1, <1>4, FS_CardinalityType

(* As failures are in clock order, the expired ones come first.            *)
LEMMA ExpiredFirst ==
  ASSUME Types, BreakerCounts, NEW ds \in Datasources, NEW k \in DOMAIN failures[ds]
  PROVE  k > Cardinality(Expired(ds)) <=> failures[ds][k] + Window >= now
<1>1. /\ failures[ds] \in Seq(Times) /\ IsFiniteSet(Expired(ds))
      /\ Cardinality(Expired(ds)) \in Nat
      /\ k \in 1..Len(failures[ds]) /\ k \in Nat \ {0} /\ Len(failures[ds]) \in Nat
  BY ExpiredCount
<1>2. /\ \A j \in 1..Len(failures[ds]) : failures[ds][j] \in Nat
      /\ \A j, l \in 1..Len(failures[ds]) : j <= l => failures[ds][j] <= failures[ds][l]
      /\ now \in Nat /\ Window \in Nat
  <2>1. \A j \in 1..Len(failures[ds]) : failures[ds][j] \in Times
    BY <1>1
  <2>2. Times \subseteq Nat /\ now \in Nat /\ Window \in Nat
    BY StatusAssumption DEF Times, Types
  <2>3. \A j, l \in DOMAIN failures[ds] : j <= l => failures[ds][j] <= failures[ds][l]
    BY DEF BreakerCounts
  <2>4. DOMAIN failures[ds] = 1..Len(failures[ds])
    BY <1>1
  <2> QED BY <2>1, <2>2, <2>3, <2>4
<1>3. ASSUME failures[ds][k] + Window < now PROVE Cardinality(Expired(ds)) >= k
  <2>1. 1..k \in SUBSET Expired(ds)
    BY <1>1, <1>2, <1>3, SMTT(30) DEF Expired
  <2>2. Cardinality(1..k) = k
    BY <1>1, FS_Interval
  <2> QED BY <1>1, <2>1, <2>2, FS_Subset
<1>4. ASSUME failures[ds][k] + Window >= now PROVE Cardinality(Expired(ds)) < k
  <2>1. \A j \in Expired(ds) : j \in 1..Len(failures[ds]) /\ failures[ds][j] + Window < now
    BY <1>1 DEF Expired
  <2>4. \A j \in Expired(ds) : j < k
    BY <1>1, <1>2, <1>4, <2>1
  <2>5. Expired(ds) \in SUBSET (1..(k - 1))
    BY <1>1, <2>1, <2>4
  <2>2. IsFiniteSet(1..(k - 1)) /\ Cardinality(1..(k - 1)) = k - 1
    <3>1. PICK m \in Nat : m = k - 1
      BY <1>1
    <3>2. IsFiniteSet(1..m) /\ Cardinality(1..m) = m
      BY FS_Interval
    <3> QED BY <3>1, <3>2
  <2>3. Cardinality(Expired(ds)) <= k - 1
    BY <2>2, <2>5, FS_Subset, ZenonT(30)
  <2> QED BY <1>1, <2>3
<1> QED BY <1>1, <1>2, <1>3, <1>4

(* What a recorded failure does: it is appended to some of the failures    *)
(* before it, and opens the breaker when they are many or it was open.     *)
LEMMA FailureRecorded ==
  ASSUME Types, NEW ds \in Datasources, RecordFailure(ds)
  PROVE  /\ failures' \in [Datasources -> Seq(Times)]
         /\ openUntil' \in [Datasources -> 0..(MaxNow + Cooldown)]
         /\ \A e \in Datasources \ {ds} : failures'[e] = failures[e] /\ openUntil'[e] = openUntil[e]
         /\ openUntil'[ds] \in {openUntil[ds], now + Cooldown}
         /\ openUntil'[ds] # openUntil[ds] =>
              Len(failures'[ds]) >= Threshold \/ openUntil[ds] > 0
         /\ \E n \in 0..Len(failures[ds]) :
              /\ Len(failures'[ds]) = n + 1
              /\ failures'[ds][n + 1] = now
              /\ \A k \in 1..n : failures'[ds][k] = failures[ds][k + Len(failures[ds]) - n]
<1> DEFINE f == failures[ds]
           c == Cardinality(Expired(ds))
           kept == SubSeq(f, c + 1, Len(f))
           n == Len(f) - c
<1>1. f \in Seq(Times) /\ c \in 0..Len(f) /\ Len(f) \in Nat /\ now \in Times
  BY ExpiredCount DEF Types
<1> HIDE DEF f, c
<1>2. /\ n \in 0..Len(f) /\ kept \in Seq(Times) /\ Len(kept) = n
      /\ \A k \in 1..n : kept[k] = f[k + Len(f) - n]
  BY <1>1
<1>a. Len(kept) \in Nat /\ n = Len(kept) /\ now \in Times
  BY <1>1, <1>2
<1> HIDE DEF kept, n
<1>3. /\ Append(kept, now) \in Seq(Times) /\ Len(Append(kept, now)) = n + 1
      /\ Append(kept, now)[n + 1] = now
      /\ \A k \in 1..n : Append(kept, now)[k] = f[k + Len(f) - n]
  BY <1>2, <1>a
<1>4. failures' = [failures EXCEPT ![ds] = Append(kept, now)]
  BY DEF RecordFailure, kept, f, c
<1>5. failures' \in [Datasources -> Seq(Times)] /\ failures'[ds] = Append(kept, now)
  BY <1>3, <1>4 DEF Types
<1>6. now + Cooldown \in 0..(MaxNow + Cooldown) /\ openUntil[ds] \in Nat
  BY StatusAssumption DEF Types, Times
<1>7. /\ openUntil' \in [Datasources -> 0..(MaxNow + Cooldown)]
      /\ openUntil'[ds] \in {openUntil[ds], now + Cooldown}
      /\ openUntil'[ds] # openUntil[ds] => Len(Append(kept, now)) >= Threshold \/ openUntil[ds] > 0
  BY <1>6 DEF RecordFailure, Types, kept, f, c
<1>8. \A e \in Datasources \ {ds} : failures'[e] = failures[e] /\ openUntil'[e] = openUntil[e]
  BY DEF RecordFailure, Types
<1> QED BY <1>2, <1>3, <1>5, <1>7, <1>8 DEF f

(* What a recorded success does: it closes the breaker.                    *)
LEMMA SuccessRecorded ==
  ASSUME Types, NEW ds \in Datasources, RecordSuccess(ds)
  PROVE  /\ failures' \in [Datasources -> Seq(Times)]
         /\ openUntil' \in [Datasources -> 0..(MaxNow + Cooldown)]
         /\ \A e \in Datasources \ {ds} : failures'[e] = failures[e] /\ openUntil'[e] = openUntil[e]
         /\ failures'[ds] = <<>> /\ openUntil'[ds] = 0
BY StatusAssumption DEF RecordSuccess, Types

-----------------------------------------------------------------------------
(* Types.                                                                  *)

(* A request in flight is a batch, over some datasource.                   *)
LEMMA BatchType ==
  ASSUME Types, NEW r \in Readers, read[r] # Idle
  PROVE  /\ read[r] \in Batches
         /\ read[r].ids \subseteq SloIds /\ read[r].ds \in Datasources /\ read[r].start \in Times
         /\ read[r].pc \in {"get", "next", "ask", "record"}
         /\ \A i \in SloIds : read[r].found[i] \in Docs /\ read[r].out[i] \in Shown \cup {NoEntry}
BY DEF Types, Batches

(* What is shown when a datasource is not asked, or has no document.       *)
LEMMA ShownType ==
  /\ Missing \in Shown
  /\ \A d : NoData(d) \in Shown
  /\ \A b \in BOOLEAN, o \in Outcomes : [outcome |-> o, rulesMissing |-> b] \in Shown
BY DEF Missing, NoData, Shown, Outcomes

(* A batch with more of its statuses is a batch, and nothing else about it *)
(* changes.                                                                *)
LEMMA AnswerType ==
  ASSUME Types, NEW r \in Readers, read[r] # Idle,
         NEW S \in SUBSET SloIds, NEW v \in [S -> Shown]
  PROVE  /\ Answer(r, v) \in Batches
         /\ Answer(r, v).pc = "next" /\ Answer(r, v).ids = read[r].ids
         /\ Answer(r, v).start = read[r].start /\ Answer(r, v).ds = read[r].ds
         /\ Answer(r, v).found = read[r].found
         /\ \A i \in SloIds : Answer(r, v).out[i] = IF i \in S THEN v[i] ELSE read[r].out[i]
BY BatchType DEF Answer, Batches

(* The statuses that Unread and Stub give.                                 *)
LEMMA UnreadType ==
  ASSUME Types, NEW r \in Readers, read[r] # Idle, NEW ds \in Datasources
  PROVE  /\ Group(r, ds) \in SUBSET SloIds
         /\ Unread(r, ds) \in [Group(r, ds) -> Shown]
BY BatchType, ShownType DEF Group, Unread

-----------------------------------------------------------------------------
(* Steps of requests.                                                      *)

(* What any step of a request in flight does to it: it keeps its SLOs and  *)
(* its beginning, reads its documents once, and adds statuses, those with  *)
(* bad news only when there is some.                                       *)
Moves(r) ==
  \/ Get(r) \/ GetFails(r) \/ Stub(r) \/ (\E ds \in Datasources : Enter(r, ds)) \/ ResolveFails(r)
  \/ (\E bad, bare \in SUBSET SloIds : ReadGroup(r, bad, bare)) \/ FinishGroup(r) \/ Land(r)

News(i, s) ==
  /\ s \in Shown
  /\ s.rulesMissing => MaySayMissing(i)
  /\ s.outcome = "degraded" => IsOpen(DsOf[i]) \/ troubleAt'[DsOf[i]] = now

Keeps(r) ==
  /\ read'[r].pc \in {"next", "ask", "record"}
  /\ read'[r].ids = read[r].ids /\ read'[r].start = read[r].start
  /\ \A i \in SloIds : \/ read'[r].found[i] = read[r].found[i] /\ read[r].pc # "get"
                       \/ read'[r].found[i] = docs[i]
                       \/ i \notin read[r].ids
  /\ \A i \in SloIds : \/ read'[r].out[i] = read[r].out[i]
                       \/ read'[r].out[i] = NoEntry /\ read[r].pc = "get"
                       \/ News(i, read'[r].out[i])

Progress(r) ==
  /\ UNCHANGED <<sloVars, now, reads>>
  /\ read[r] # Idle
  /\ \A q \in Readers \ {r} : read'[q] = read[q]
  /\ read' \in [Readers -> Batches \cup {Idle}]
  /\ read'[r] # Idle => Keeps(r)
  /\ \A ds \in Datasources : troubleAt'[ds] \in {troubleAt[ds], now}
  /\ troubleAt' \in [Datasources -> Times \cup {Never}]

(* A request that goes on as batch b.                                      *)
LEMMA GoesOn ==
  ASSUME Types, NEW r \in Readers, read[r] # Idle, NEW b \in Batches,
         read' = [read EXCEPT ![r] = b]
  PROVE  /\ read' \in [Readers -> Batches \cup {Idle}] /\ read'[r] = b /\ read'[r] # Idle
         /\ \A q \in Readers \ {r} : read'[q] = read[q]
BY StatusAssumption DEF Types

(* Statuses without data of a datasource that failed.                      *)
LEMMA UnreadNews ==
  ASSUME Types, NEW r \in Readers, read[r] # Idle, NEW ds \in Datasources,
         IsOpen(ds) \/ troubleAt'[ds] = now
  PROVE  \A i \in Group(r, ds) : News(i, Unread(r, ds)[i])
BY ShownType DEF Group, Unread, NoData, News

(* The documents are read: those that are missing have their answer.       *)
LEMMA GetProgress ==
  ASSUME Types, NEW r \in Readers, Get(r)
  PROVE  Progress(r)
<1> DEFINE found == [i \in SloIds |-> IF i \in read[r].ids THEN docs[i] ELSE NoDoc]
           out == [i \in SloIds |-> IF i \in read[r].ids /\ docs[i] = NoDoc THEN Missing ELSE NoEntry]
           b == [read[r] EXCEPT !.pc = "next", !.found = found, !.out = out]
<1>1. /\ read[r] # Idle /\ read[r].pc = "get" /\ read[r] \in Batches
      /\ UNCHANGED <<sloVars, now, troubleAt, reads>>
  BY BatchType DEF Get, At
<1>2. found \in [SloIds -> Docs] /\ out \in [SloIds -> Shown \cup {NoEntry}]
  BY ShownType DEF Types, Docs
<1>3. /\ b \in Batches /\ b.pc = "next" /\ b.ids = read[r].ids /\ b.start = read[r].start
      /\ b.found = found /\ b.out = out
  BY <1>1, <1>2 DEF Batches
<1>4. read' = [read EXCEPT ![r] = b]
  BY DEF Get, Types
<1>5. /\ read' \in [Readers -> Batches \cup {Idle}] /\ read'[r] = b
      /\ \A q \in Readers \ {r} : read'[q] = read[q]
  BY <1>1, <1>3, <1>4, GoesOn
<1>6. \A i \in SloIds : /\ out[i] = NoEntry \/ News(i, out[i])
                        /\ found[i] = docs[i] \/ i \notin read[r].ids
  BY ShownType DEF Missing, News
<1> HIDE DEF b, found, out
<1>7. Keeps(r)
  BY <1>1, <1>3, <1>5, <1>6 DEF Keeps
<1> QED BY <1>1, <1>5, <1>7 DEF Progress, Types

(* A stub is no bad news.                                                  *)
LEMMA StubProgress ==
  ASSUME Types, NEW r \in Readers, Stub(r)
  PROVE  Progress(r)
<1> DEFINE S == {j \in read[r].ids : read[r].found[j] # NoDoc}
           stub == [outcome |-> "stub", rulesMissing |-> FALSE]
           v == [i \in S |-> stub]
<1>1. read[r] # Idle /\ read[r].pc = "next" /\ UNCHANGED <<sloVars, now, troubleAt, reads>>
  BY DEF Stub, At
<1>2. stub \in Shown /\ S \in SUBSET SloIds /\ v \in [S -> Shown]
  BY <1>1, ShownType, BatchType DEF Outcomes
<1>3. read' = [read EXCEPT ![r] = Answer(r, v)]
  BY DEF Stub
<1>4. \A i \in S : News(i, v[i])
  BY <1>2 DEF News
<1> HIDE DEF v, S
<1>5. /\ Answer(r, v) \in Batches
      /\ Answer(r, v).pc = "next" /\ Answer(r, v).ids = read[r].ids
      /\ Answer(r, v).start = read[r].start /\ Answer(r, v).found = read[r].found
      /\ \A i \in SloIds : Answer(r, v).out[i] = IF i \in S THEN v[i] ELSE read[r].out[i]
  BY <1>1, <1>2, AnswerType
<1>6. /\ read' \in [Readers -> Batches \cup {Idle}] /\ read'[r] = Answer(r, v)
      /\ \A q \in Readers \ {r} : read'[q] = read[q]
  BY <1>1, <1>3, <1>5, GoesOn
<1>7. Keeps(r)
  BY <1>1, <1>4, <1>5, <1>6 DEF Keeps
<1> QED BY <1>1, <1>6, <1>7 DEF Progress, Types

(* A datasource is asked, or, while its breaker is open, answered for      *)
(* without data.                                                           *)
LEMMA EnterProgress ==
  ASSUME Types, NEW r \in Readers, NEW ds \in Datasources, Enter(r, ds)
  PROVE  /\ Progress(r)
         /\ read'[r].pc # "next" => read'[r].pc = "ask" /\ read'[r].ds = ds
<1>1. /\ read[r] # Idle /\ read[r].pc = "next" /\ read[r] \in Batches
      /\ UNCHANGED <<sloVars, now, troubleAt, reads>>
  BY BatchType DEF Enter, At
<1>2. CASE IsOpen(ds)
  <2> DEFINE v == Unread(r, ds)
             S == Group(r, ds)
  <2>1. S \in SUBSET SloIds /\ v \in [S -> Shown] /\ \A i \in S : News(i, v[i])
    BY <1>1, <1>2, UnreadType, UnreadNews
  <2>2. read' = [read EXCEPT ![r] = Answer(r, v)]
    BY <1>2 DEF Enter
  <2> HIDE DEF v, S
  <2>3. /\ Answer(r, v) \in Batches
        /\ Answer(r, v).pc = "next" /\ Answer(r, v).ids = read[r].ids
        /\ Answer(r, v).start = read[r].start /\ Answer(r, v).found = read[r].found
        /\ \A i \in SloIds : Answer(r, v).out[i] = IF i \in S THEN v[i] ELSE read[r].out[i]
    BY <1>1, <2>1, AnswerType
  <2>4. /\ read' \in [Readers -> Batches \cup {Idle}] /\ read'[r] = Answer(r, v)
        /\ \A q \in Readers \ {r} : read'[q] = read[q]
    BY <1>1, <2>2, <2>3, GoesOn
  <2>5. Keeps(r)
    BY <1>1, <2>1, <2>3, <2>4 DEF Keeps
  <2> QED BY <1>1, <2>3, <2>4, <2>5 DEF Progress, Types
<1>3. CASE ~IsOpen(ds)
  <2> DEFINE b == [read[r] EXCEPT !.pc = "ask", !.ds = ds]
  <2>1. /\ b \in Batches /\ b.pc = "ask" /\ b.ds = ds /\ b.ids = read[r].ids
        /\ b.start = read[r].start /\ b.found = read[r].found /\ b.out = read[r].out
    BY <1>1 DEF Batches
  <2>2. read' = [read EXCEPT ![r] = b]
    BY <1>3 DEF Enter
  <2>3. /\ read' \in [Readers -> Batches \cup {Idle}] /\ read'[r] = b
        /\ \A q \in Readers \ {r} : read'[q] = read[q]
    BY <1>1, <2>1, <2>2, GoesOn
  <2>4. Keeps(r)
    BY <1>1, <2>1, <2>3 DEF Keeps
  <2>5. read'[r].pc = "ask" /\ read'[r].ds = ds
    BY <2>1, <2>3
  <2> HIDE DEF b
  <2>6. Progress(r)
    BY <1>1, <2>3, <2>4 DEF Progress, Types
  <2> QED BY <2>5, <2>6
<1> QED BY <1>2, <1>3

(* A failed resolution answers for the whole datasource.                   *)
LEMMA ResolveProgress ==
  ASSUME Types, NEW r \in Readers, ResolveFails(r)
  PROVE  /\ Progress(r)
         /\ read'[r].pc = "next" /\ read'[r].ds = read[r].ds /\ Group(r, read[r].ds)' = {}
         /\ troubleAt'[read[r].ds] = now
<1> DEFINE ds == read[r].ds
           v == Unread(r, ds)
           S == Group(r, ds)
<1>1. /\ read[r] # Idle /\ read[r].pc = "ask" /\ ds \in Datasources
      /\ UNCHANGED <<sloVars, now, reads>>
  BY BatchType DEF ResolveFails, At
<1>2. troubleAt' = [troubleAt EXCEPT ![ds] = now] /\ now \in Times
  BY DEF ResolveFails, Types
<1>3. read' = [read EXCEPT ![r] = Answer(r, v)]
  BY DEF ResolveFails
<1>4. troubleAt' \in [Datasources -> Times \cup {Never}] /\ troubleAt'[ds] = now
      /\ \A e \in Datasources : troubleAt'[e] \in {troubleAt[e], now}
  BY <1>1, <1>2 DEF Types
<1> HIDE DEF ds
<1>5. S \in SUBSET SloIds /\ v \in [S -> Shown] /\ \A i \in S : News(i, v[i])
  BY <1>1, <1>4, UnreadType, UnreadNews
<1>6. \A i \in SloIds : i \in S <=> i \in read[r].ids /\ read[r].out[i] = NoEntry /\ DsOf[i] = ds
  BY DEF Group
<1> HIDE DEF v, S
<1>7. /\ Answer(r, v) \in Batches
      /\ Answer(r, v).pc = "next" /\ Answer(r, v).ids = read[r].ids
      /\ Answer(r, v).start = read[r].start /\ Answer(r, v).found = read[r].found
      /\ Answer(r, v).ds = ds
      /\ \A i \in SloIds : Answer(r, v).out[i] = IF i \in S THEN v[i] ELSE read[r].out[i]
  BY <1>1, <1>5, AnswerType DEF ds
<1>8. /\ read' \in [Readers -> Batches \cup {Idle}] /\ read'[r] = Answer(r, v)
      /\ \A q \in Readers \ {r} : read'[q] = read[q]
  BY <1>1, <1>3, <1>7, GoesOn
<1>9. Keeps(r)
  BY <1>1, <1>5, <1>7, <1>8 DEF Keeps
<1>10. \A i \in read[r].ids : DsOf[i] = ds => read'[r].out[i] # NoEntry
  BY <1>1, <1>5, <1>6, <1>7, <1>8, BatchType, StatusAssumption
<1>11. Group(r, read[r].ds)' = {}
  BY <1>7, <1>8, <1>10 DEF Group, ds
<1> QED BY <1>1, <1>4, <1>7, <1>8, <1>9, <1>11 DEF Progress, ds

(* A read of a group answers for the whole datasource, too.                *)
LEMMA ReadProgress ==
  ASSUME Types, NEW r \in Readers, NEW bad \in SUBSET SloIds, NEW bare \in SUBSET SloIds,
         ReadGroup(r, bad, bare)
  PROVE  /\ Progress(r)
         /\ read'[r].pc = "record" /\ read'[r].ds = read[r].ds /\ Group(r, read[r].ds)' = {}
<1> DEFINE ds == read[r].ds
           S == Group(r, ds)
           asked == {i \in S : read[r].found[i] \in Enabled}
           v == [i \in S |->
                   IF i \notin asked THEN NoData(read[r].found[i])
                   ELSE [outcome |-> IF i \in bad THEN "degraded" ELSE "live",
                         rulesMissing |-> i \in bare]]
           b == [Answer(r, v) EXCEPT !.pc = "record"]
<1>1. /\ read[r] # Idle /\ read[r].pc = "ask" /\ ds \in Datasources
      /\ UNCHANGED <<sloVars, now, reads>>
  BY BatchType DEF ReadGroup, At
<1>2. troubleAt' = (IF bad = {} THEN troubleAt ELSE [troubleAt EXCEPT ![ds] = now]) /\ now \in Times
  BY DEF ReadGroup, Types
<1>3. bad \subseteq asked /\ \A i \in bare : i \in asked /\ MaySayMissing(i)
  BY DEF ReadGroup
<1>4. read' = [read EXCEPT ![r] = b]
  BY DEF ReadGroup
<1>5. troubleAt' \in [Datasources -> Times \cup {Never}] /\ (bad # {} => troubleAt'[ds] = now)
      /\ \A e \in Datasources : troubleAt'[e] \in {troubleAt[e], now}
  BY <1>1, <1>2 DEF Types
<1> HIDE DEF ds
<1>6. S \in SUBSET SloIds /\ \A i \in S : DsOf[i] = ds
  BY <1>1, UnreadType DEF Group
<1>7. ASSUME NEW i \in S PROVE News(i, v[i])
  <2>1. CASE i \notin asked
    <3>1. v[i] = NoData(read[r].found[i]) /\ read[r].found[i] \notin Enabled
      BY <2>1, <1>7
    <3> QED BY <3>1, ShownType DEF NoData, News
  <2>2. CASE i \in asked
    <3>1. v[i] = [outcome |-> IF i \in bad THEN "degraded" ELSE "live", rulesMissing |-> i \in bare]
      BY <2>2, <1>7
    <3>2. /\ v[i].outcome = (IF i \in bad THEN "degraded" ELSE "live")
          /\ v[i].rulesMissing = (i \in bare)
      BY <3>1
    <3>3. (i \in bare) \in BOOLEAN /\ (IF i \in bad THEN "degraded" ELSE "live") \in Outcomes
      BY DEF Outcomes
    <3>4. v[i] \in Shown
      BY <3>1, <3>3, ShownType
    <3>5. v[i].rulesMissing => MaySayMissing(i)
      BY <1>3, <3>2
    <3>6. v[i].outcome = "degraded" => troubleAt'[DsOf[i]] = now
      BY <1>5, <1>6, <1>7, <3>2
    <3> QED BY <3>4, <3>5, <3>6 DEF News
  <2> QED BY <2>1, <2>2
<1>8. v \in [S -> Shown]
  BY <1>7 DEF News
<1>9. \A i \in SloIds : i \in S <=> i \in read[r].ids /\ read[r].out[i] = NoEntry /\ DsOf[i] = ds
  BY DEF Group
<1> HIDE DEF v, S, asked
<1>10. /\ Answer(r, v) \in Batches
       /\ Answer(r, v).ids = read[r].ids
       /\ Answer(r, v).start = read[r].start /\ Answer(r, v).found = read[r].found
       /\ Answer(r, v).ds = ds
       /\ \A i \in SloIds : Answer(r, v).out[i] = IF i \in S THEN v[i] ELSE read[r].out[i]
  BY <1>1, <1>6, <1>8, AnswerType DEF ds
<1>11. /\ b \in Batches /\ b.pc = "record" /\ b.ids = read[r].ids
       /\ b.start = read[r].start /\ b.found = read[r].found /\ b.ds = ds
       /\ \A i \in SloIds : b.out[i] = IF i \in S THEN v[i] ELSE read[r].out[i]
  BY <1>10 DEF Batches
<1> HIDE DEF b
<1>12. /\ read' \in [Readers -> Batches \cup {Idle}] /\ read'[r] = b
       /\ \A q \in Readers \ {r} : read'[q] = read[q]
  BY <1>1, <1>4, <1>11, GoesOn
<1>13. Keeps(r)
  BY <1>1, <1>7, <1>11, <1>12 DEF Keeps
<1>14. \A i \in read[r].ids : DsOf[i] = ds => read'[r].out[i] # NoEntry
  BY <1>1, <1>8, <1>9, <1>11, <1>12, BatchType, StatusAssumption
<1>15. Group(r, read[r].ds)' = {}
  BY <1>11, <1>12, <1>14 DEF Group, ds
<1>16. Progress(r)
  BY <1>1, <1>5, <1>12, <1>13 DEF Progress
<1> QED BY <1>11, <1>12, <1>15, <1>16 DEF ds

(* Recording the outcome adds no status.                                   *)
LEMMA FinishProgress ==
  ASSUME Types, NEW r \in Readers, FinishGroup(r)
  PROVE  /\ Progress(r)
         /\ read'[r].pc = "next" /\ read'[r].ids = read[r].ids /\ read'[r].out = read[r].out
<1> DEFINE b == [read[r] EXCEPT !.pc = "next"]
<1>1. /\ read[r] # Idle /\ read[r].pc = "record" /\ read[r] \in Batches /\ read[r].ds \in Datasources
      /\ UNCHANGED <<sloVars, now, reads>> /\ now \in Times
  BY BatchType DEF FinishGroup, At, Types
<1>2. /\ b \in Batches /\ b.pc = "next" /\ b.ids = read[r].ids
      /\ b.start = read[r].start /\ b.found = read[r].found /\ b.out = read[r].out
  BY <1>1 DEF Batches
<1>3. read' = [read EXCEPT ![r] = b]
  BY DEF FinishGroup
<1> HIDE DEF b
<1>4. /\ read' \in [Readers -> Batches \cup {Idle}] /\ read'[r] = b
      /\ \A q \in Readers \ {r} : read'[q] = read[q]
  BY <1>1, <1>2, <1>3, GoesOn
<1>5. troubleAt' = troubleAt \/ troubleAt' = [troubleAt EXCEPT ![read[r].ds] = now]
  BY DEF FinishGroup
<1>6. troubleAt' \in [Datasources -> Times \cup {Never}]
      /\ \A e \in Datasources : troubleAt'[e] \in {troubleAt[e], now}
  BY <1>1, <1>5, ZenonT(30) DEF Types
<1>7. Keeps(r)
  BY <1>1, <1>2, <1>4 DEF Keeps
<1> QED BY <1>1, <1>2, <1>4, <1>6, <1>7 DEF Progress

(* A request that ends leaves its slot.                                    *)
LEMMA EndProgress ==
  ASSUME Types, NEW r \in Readers, GetFails(r) \/ Land(r)
  PROVE  Progress(r) /\ read'[r] = Idle
<1>1. /\ read[r] # Idle /\ read' = [read EXCEPT ![r] = Idle]
      /\ UNCHANGED <<sloVars, now, troubleAt, reads>>
  BY DEF GetFails, Land, At
<1>2. /\ read' \in [Readers -> Batches \cup {Idle}] /\ read'[r] = Idle
      /\ \A q \in Readers \ {r} : read'[q] = read[q]
  BY <1>1 DEF Types
<1> QED BY <1>1, <1>2 DEF Progress, Types

(* Every step of a request in flight is of this kind.                      *)
LEMMA MovesProgress ==
  ASSUME Types, NEW r \in Readers, Moves(r)
  PROVE  Progress(r)
BY GetProgress, StubProgress, EnterProgress, ResolveProgress, ReadProgress, FinishProgress,
   EndProgress DEF Moves

(* What a step of a request in flight does to the cache and the breaker.   *)
Failed(ds) ==
  /\ RecordFailure(ds)
  /\ streak' = [streak EXCEPT ![ds] = @ + 1]
  /\ troubleAt'[ds] = now

Worked(ds) ==
  /\ RecordSuccess(ds)
  /\ streak' = [streak EXCEPT ![ds] = 0]

(* Only the end of a request fills the cache, and only a failed resolution *)
(* or the end of a group tells the breaker something.                      *)
LEMMA MovesVerdict ==
  ASSUME Types, NEW r \in Readers, Moves(r)
  PROVE  /\ UNCHANGED cache \/ Land(r)
         /\ \/ UNCHANGED <<breakerVars, streak>>
            \/ /\ ResolveFails(r) \/ FinishGroup(r)
               /\ read[r].ds \in Datasources
               /\ Failed(read[r].ds) \/ Worked(read[r].ds)
<1>1. ASSUME ResolveFails(r)
      PROVE  /\ UNCHANGED cache
             /\ UNCHANGED <<breakerVars, streak>> \/ Failed(read[r].ds)
             /\ read[r].ds \in Datasources
  BY <1>1, ResolveProgress, BatchType DEF ResolveFails, Failed, At
<1>2. ASSUME FinishGroup(r)
      PROVE  /\ UNCHANGED cache
             /\ UNCHANGED <<breakerVars, streak>> \/ Failed(read[r].ds) \/ Worked(read[r].ds)
             /\ read[r].ds \in Datasources
  <2>1. read[r].ds \in Datasources /\ UNCHANGED cache
    BY <1>2, BatchType DEF FinishGroup, At
  <2>2. CASE Some(r, "live")
    BY <1>2, <2>1, <2>2 DEF FinishGroup, Record, Worked
  <2>3. CASE ~Some(r, "live") /\ Some(r, "degraded")
    <3>1. RecordFailure(read[r].ds) /\ streak' = [streak EXCEPT ![read[r].ds] = @ + 1]
      BY <1>2, <2>3 DEF FinishGroup, Record
    <3>2. troubleAt'[read[r].ds] = now
      BY <1>2, <2>1, <2>3 DEF FinishGroup, Types
    <3> QED BY <2>1, <3>1, <3>2 DEF Failed
  <2>4. CASE ~Some(r, "live") /\ ~Some(r, "degraded")
    BY <1>2, <2>1, <2>4 DEF FinishGroup, Record, Types
  <2> QED BY <2>2, <2>3, <2>4
<1>3. ASSUME GetFails(r) \/ Get(r) \/ Stub(r) \/ (\E ds \in Datasources : Enter(r, ds))
             \/ (\E bad, bare \in SUBSET SloIds : ReadGroup(r, bad, bare))
      PROVE  UNCHANGED cache /\ UNCHANGED <<breakerVars, streak>>
  BY <1>3 DEF GetFails, Get, Stub, Enter, ReadGroup
<1>4. ASSUME Land(r) PROVE UNCHANGED <<breakerVars, streak>>
  BY <1>4 DEF Land
<1> QED BY <1>1, <1>2, <1>3, <1>4 DEF Moves

(* What the cache holds after a request has ended: the answers, if they    *)
(* are still fresh, about the SLOs it asked for.                           *)
LEMMA LandCaches ==
  ASSUME Types, NEW r \in Readers, Land(r)
  PROVE  /\ cache' \in [SloIds -> Entries \cup {NoEntry}]
         /\ \A i \in SloIds :
              \/ cache'[i] \in {cache[i], NoEntry}
              \/ /\ i \in read[r].ids /\ read[r].out[i] \in Shown
                 /\ cache'[i] = [doc |-> read[r].found[i], shown |-> read[r].out[i],
                                 expires |-> read[r].start + StatusTTL]
<1>1. /\ read[r] # Idle /\ Unanswered(r) = {}
      /\ cache' = [i \in SloIds |-> IF i \notin read[r].ids THEN cache[i]
                                 ELSE IF Live(Fresh(r, i)) THEN Fresh(r, i) ELSE NoEntry]
  BY DEF Land, At
<1>2. ASSUME NEW i \in SloIds, i \in read[r].ids
      PROVE  /\ read[r].out[i] \in Shown /\ Fresh(r, i) \in Entries
             /\ Fresh(r, i) = [doc |-> read[r].found[i], shown |-> read[r].out[i],
                               expires |-> read[r].start + StatusTTL]
  <2>1. read[r].out[i] # NoEntry
    BY <1>1, <1>2 DEF Unanswered
  <2>2. read[r].out[i] \in Shown /\ read[r].found[i] \in Docs /\ read[r].start \in Times
    BY <1>1, <2>1, BatchType
  <2>3. read[r].start + StatusTTL \in 0..(MaxNow + StatusTTL)
    BY <2>2, StatusAssumption DEF Times
  <2> QED BY <2>2, <2>3 DEF Fresh, Entries
<1> QED BY <1>1, <1>2 DEF Types

-----------------------------------------------------------------------------
(* Types, continued.                                                       *)

(* A request starts with nothing read and nothing answered.                *)
LEMMA BeginType ==
  ASSUME Types, NEW r \in Readers, NEW ids \in Requested, Begin(r, ids)
  PROVE  /\ read' \in [Readers -> Batches \cup {Idle}]
         /\ \A q \in Readers \ {r} : read'[q] = read[q]
         /\ read'[r] # Idle /\ read'[r].pc = "get" /\ read'[r].start = now
         /\ \A i \in SloIds : read'[r].out[i] = NoEntry
         /\ reads' \in 0..MaxReads /\ reads' = reads + 1
         /\ UNCHANGED <<sloVars, cache, breakerVars, now, troubleAt, streak>>
<1> DEFINE uncached == {i \in ids : ~Live(cache[i])}
           b == [pc |-> "get", ids |-> uncached, start |-> now,
                 ds |-> CHOOSE ds \in Datasources : TRUE,
                 found |-> [i \in SloIds |-> NoDoc], out |-> [i \in SloIds |-> NoEntry]]
<1>1. /\ uncached # {} /\ uncached \in SUBSET SloIds /\ read' = [read EXCEPT ![r] = b]
      /\ UNCHANGED <<sloVars, cache, breakerVars, now, troubleAt, streak>>
  BY StatusAssumption DEF Begin
<1>2. (CHOOSE ds \in Datasources : TRUE) \in Datasources
  BY <1>1, StatusAssumption
<1>3. /\ b \in Batches /\ b.pc = "get" /\ b.start = now
      /\ \A i \in SloIds : b.out[i] = NoEntry
  BY <1>1, <1>2 DEF Batches, Types, Docs
<1> HIDE DEF b, uncached
<1>4. /\ read' \in [Readers -> Batches \cup {Idle}] /\ read'[r] = b
      /\ \A q \in Readers \ {r} : read'[q] = read[q]
  BY <1>1, <1>3 DEF Types
<1>5. reads' \in 0..MaxReads /\ reads' = reads + 1
  BY StatusAssumption DEF Begin, Types
<1> QED BY <1>1, <1>3, <1>4, <1>5, StatusAssumption

(* A step of a request keeps the types.                                    *)
LEMMA MovesTypes ==
  ASSUME Types, NEW r \in Readers, Moves(r)
  PROVE  Types'
<1>1. Progress(r)
  BY MovesProgress
<1>2. cache' \in [SloIds -> Entries \cup {NoEntry}]
  BY MovesVerdict, LandCaches DEF Types
<1>3. /\ failures' \in [Datasources -> Seq(Times)]
      /\ openUntil' \in [Datasources -> 0..(MaxNow + Cooldown)]
      /\ streak' \in [Datasources -> Nat]
  <2>1. CASE UNCHANGED <<breakerVars, streak>>
    BY <2>1 DEF Types, breakerVars
  <2>2. CASE read[r].ds \in Datasources /\ Failed(read[r].ds)
    BY <2>2, FailureRecorded DEF Failed, Types
  <2>3. CASE read[r].ds \in Datasources /\ Worked(read[r].ds)
    BY <2>3, SuccessRecorded DEF Worked, Types
  <2> QED BY <2>1, <2>2, <2>3, MovesVerdict
<1> QED BY <1>1, <1>2, <1>3 DEF Progress, sloVars, Types

(* Every step keeps the types.                                             *)
LEMMA StepTypes == Types /\ [Next]_vars => Types'
<1> SUFFICES ASSUME Types, [Next]_vars PROVE Types'
  OBVIOUS
<1>1. ASSUME NEW r \in Readers, NEW ids \in Requested, Begin(r, ids) PROVE Types'
  BY <1>1, BeginType DEF Types, sloVars, breakerVars
<1>2. ASSUME NEW r \in Readers, Moves(r) PROVE Types'
  BY <1>2, MovesTypes
<1>3. ASSUME NEW i \in SloIds, NEW d \in Docs, NEW b \in BOOLEAN, Write(i, d, b) PROVE Types'
  <2>1. changes' \in 0..MaxChanges
    BY <1>3, StatusAssumption DEF Write, Change, Types
  <2>2. docs' \in [SloIds -> Docs] /\ savedAt' \in [SloIds -> [Docs -> Times]]
    BY <1>3 DEF Write, Types
  <2>3. pending' \subseteq SloIds /\ excused' \subseteq SloIds
    BY <1>3 DEF Write, Types
  <2> QED BY <1>3, <2>1, <2>2, <2>3 DEF Write, Types, breakerVars
<1>4. ASSUME NEW i \in SloIds, Invalidate(i) PROVE Types'
  BY <1>4 DEF Invalidate, Types, breakerVars
<1>5. ASSUME NEW i \in SloIds, Lapse(i) PROVE Types'
  BY <1>5, StatusAssumption DEF Lapse, Change, Types, breakerVars
<1>6. ASSUME Tick PROVE Types'
  BY <1>6, StatusAssumption DEF Tick, Times, Types, sloVars, breakerVars
<1>7. ASSUME UNCHANGED vars PROVE Types'
  BY <1>7 DEF vars, sloVars, breakerVars, Types
<1> QED BY <1>1, <1>2, <1>3, <1>4, <1>5, <1>6, <1>7 DEF Next, Moves

-----------------------------------------------------------------------------
(* The history goes forward.                                               *)

Forward ==
  /\ now <= now'
  /\ \A i \in SloIds, d \in Docs : LastSaved(i, d) <= LastSaved(i, d)'
  /\ \A i \in SloIds : bareAt[i] # Never => bareAt'[i] # Never /\ bareAt[i] <= bareAt'[i]
  /\ \A ds \in Datasources :
       troubleAt[ds] # Never => troubleAt'[ds] # Never /\ troubleAt[ds] <= troubleAt'[ds]

(* The moments of the history are numbers.                                 *)
LEMMA Moments ==
  ASSUME Types
  PROVE  /\ now \in Nat /\ Times \subseteq Nat /\ now # Never
         /\ \A i \in SloIds, d \in Docs : savedAt[i][d] \in Nat /\ LastSaved(i, d) \in Nat
         /\ \A i \in SloIds : bareAt[i] # Never => bareAt[i] \in Nat
         /\ \A ds \in Datasources : troubleAt[ds] # Never => troubleAt[ds] \in Nat
<1>1. Times \subseteq Nat /\ now \in Times
  BY StatusAssumption DEF Times, Types
<1>2. \A i \in SloIds, d \in Docs : savedAt[i][d] \in Times
  BY DEF Types
<1> QED BY <1>1, <1>2, StatusAssumption DEF Types, LastSaved

(* Requests do not touch the documents; only failures that they meet now   *)
(* enter the history.                                                      *)
LEMMA RequestForward ==
  ASSUME Types, Types', Past, UNCHANGED <<sloVars, now>>,
         \A ds \in Datasources : troubleAt'[ds] \in {troubleAt[ds], now}
  PROVE  /\ Forward
         /\ \A i \in SloIds, d \in Docs : savedAt'[i][d] <= now'
         /\ \A i \in SloIds : bareAt'[i] # Never => bareAt'[i] <= now'
         /\ \A ds \in Datasources : troubleAt'[ds] # Never => troubleAt'[ds] <= now'
<1>1. UNCHANGED <<docs, savedAt, bareAt, now>>
  BY DEF sloVars
<1>2. \A i \in SloIds, d \in Docs : LastSaved(i, d)' = LastSaved(i, d)
  BY <1>1 DEF LastSaved
<1> QED BY <1>1, <1>2, Moments DEF Forward, Past

(* A write makes its moment the last one of the document it replaces.      *)
LEMMA WriteForward ==
  ASSUME Types, Types', Past, NEW i \in SloIds, NEW d \in Docs, NEW b \in BOOLEAN, Write(i, d, b)
  PROVE  Forward /\ Past'
<1>1. UNCHANGED <<bareAt, failures, openUntil, now, troubleAt>>
  BY DEF Write, breakerVars
<1>2. /\ \A j \in SloIds, e \in Docs :
           savedAt'[j][e] = IF j = i /\ e = docs[i] THEN now ELSE savedAt[j][e]
      /\ \A j \in SloIds : docs'[j] = IF j = i THEN d ELSE docs[j]
      /\ d # docs[i] /\ docs[i] \in Docs
  BY DEF Write, Types
<1>3. ASSUME NEW j \in SloIds, NEW e \in Docs
      PROVE  LastSaved(j, e) <= LastSaved(j, e)' /\ savedAt'[j][e] <= now
  BY <1>1, <1>2, Moments DEF LastSaved, Past
<1>4. Past'
  BY <1>1, <1>3 DEF Past
<1> QED BY <1>1, <1>3, <1>4, Moments DEF Forward

(* The other steps around the requests move no moment back.                *)
LEMMA WorldForward ==
  ASSUME Types, Types', Past,
         UNCHANGED vars \/ Tick \/ \E i \in SloIds : Invalidate(i) \/ Lapse(i)
  PROVE  Forward /\ Past'
<1>1. /\ UNCHANGED <<docs, savedAt, failures, openUntil, troubleAt>>
      /\ now' \in {now, now + 1}
      /\ \A i \in SloIds : bareAt'[i] \in {bareAt[i], now}
  BY DEF vars, sloVars, breakerVars, Tick, Invalidate, Lapse, Types
<1>2. \A i \in SloIds, d \in Docs : LastSaved(i, d) <= LastSaved(i, d)'
  BY <1>1, Moments DEF LastSaved, Past
<1>3. \A ds \in Datasources : \A k \in DOMAIN failures[ds] : failures[ds][k] \in Nat
  BY Moments DEF Types
<1> QED BY <1>1, <1>2, <1>3, Moments DEF Forward, Past

(* The breaker counts no failure of the future.                            *)
LEMMA BreakerPast ==
  ASSUME Types, Types', Past, UNCHANGED now,
         \/ UNCHANGED failures
         \/ \E ds \in Datasources : RecordFailure(ds) \/ RecordSuccess(ds)
  PROVE  \A ds \in Datasources : \A k \in DOMAIN failures'[ds] : failures'[ds][k] <= now'
<1>1. CASE UNCHANGED failures
  BY <1>1 DEF Past
<1>2. ASSUME NEW ds \in Datasources, RecordFailure(ds), NEW e \in Datasources,
             NEW k \in DOMAIN failures'[e]
      PROVE  failures'[e][k] <= now
  <2>1. CASE e # ds
    BY <1>2, <2>1, FailureRecorded DEF Past
  <2>2. CASE e = ds
    <3>1. PICK n \in 0..Len(failures[ds]) :
            /\ Len(failures'[ds]) = n + 1
            /\ failures'[ds][n + 1] = now
            /\ \A l \in 1..n : failures'[ds][l] = failures[ds][l + Len(failures[ds]) - n]
      BY <1>2, FailureRecorded
    <3>2. /\ failures[ds] \in Seq(Times) /\ failures'[ds] \in Seq(Times)
          /\ Len(failures[ds]) \in Nat /\ n \in Nat
      BY DEF Types
    <3>3. k \in 1..(n + 1)
      BY <1>2, <2>2, <3>1, <3>2
    <3>4. CASE k = n + 1
      BY <2>2, <3>1, <3>4, Moments
    <3>5. CASE k \in 1..n
      <4>1. k + Len(failures[ds]) - n \in DOMAIN failures[ds]
        BY <3>2, <3>5
      <4>2. failures[ds][k + Len(failures[ds]) - n] <= now
        BY <4>1 DEF Past
      <4> QED BY <2>2, <3>1, <3>5, <4>2
    <3> QED BY <3>2, <3>3, <3>4, <3>5
  <2> QED BY <2>1, <2>2
<1>3. ASSUME NEW ds \in Datasources, RecordSuccess(ds), NEW e \in Datasources,
             NEW k \in DOMAIN failures'[e]
      PROVE  failures'[e][k] <= now
  BY <1>3, SuccessRecorded, SMTT(30) DEF Past
<1> QED BY <1>1, <1>2, <1>3

(* The steps of requests move no moment back.                              *)
LEMMA RequestPast ==
  ASSUME Types, Types', Past, NEW r \in Readers,
         Moves(r) \/ \E ids \in Requested : Begin(r, ids)
  PROVE  Forward /\ Past'
<1>1. /\ UNCHANGED <<sloVars, now>>
      /\ \A ds \in Datasources : troubleAt'[ds] \in {troubleAt[ds], now}
  BY MovesProgress, BeginType DEF Progress
<1>2. \/ UNCHANGED failures
      \/ \E ds \in Datasources : RecordFailure(ds) \/ RecordSuccess(ds)
  BY MovesVerdict, BeginType DEF Failed, Worked, breakerVars
<1> QED BY <1>1, <1>2, RequestForward, BreakerPast DEF Past

(* Neither does any step.                                                  *)
LEMMA ForwardNext ==
  ASSUME Types, Types', Past, [Next]_vars
  PROVE  Forward /\ Past'
BY RequestPast, WriteForward, WorldForward DEF Next, Moves

-----------------------------------------------------------------------------
(* What is in flight and what is cached stays recent.                      *)

(* What was recent stays recent, and what is new has to be.                *)
LEMMA StaysRecent ==
  ASSUME Types, Types', Recent, Forward,
         \A r \in Readers : read'[r] = read[r] \/ JobRecent(r)',
         \A i \in SloIds : cache'[i] \in {cache[i], NoEntry} \/ EntryRecent(i)',
         \A ds \in Datasources : openUntil'[ds] = openUntil[ds] \/ OpenRecent(ds)'
  PROVE  Recent'
<1>1. /\ \A i \in SloIds, t \in Nat : Bare(i, t) => Bare(i, t)'
      /\ \A i \in SloIds, t \in Nat : Trouble(i, t) => Trouble(i, t)'
  <2>1. \A i \in SloIds : /\ bareAt'[i] \in Nat \/ bareAt'[i] = Never
                          /\ DsOf[i] \in Datasources
                          /\ troubleAt'[DsOf[i]] \in Nat \/ troubleAt'[DsOf[i]] = Never
    BY Moments, StatusAssumption DEF Types
  <2> QED BY <2>1, Moments, StatusAssumption DEF Forward, Bare, Trouble
<1>2. ASSUME NEW r \in Readers, read'[r] = read[r], read[r] # Idle PROVE JobRecent(r)'
  <2>1. /\ JobRecent(r) /\ read[r].start \in Nat
        /\ \A i \in SloIds : read[r].found[i] \in Docs
    BY <1>2, BatchType, Moments DEF Recent
  <2>2. \A i \in SloIds, d \in Docs : LastSaved(i, d)' \in Nat
    BY StatusAssumption DEF Types, LastSaved, Times
  <2>3. now' \in Nat
    BY StatusAssumption DEF Types, Times
  <2> QED BY <1>1, <1>2, <2>1, <2>2, <2>3, Moments DEF Forward, JobRecent
<1>3. ASSUME NEW i \in SloIds, cache'[i] = cache[i], cache[i] # NoEntry PROVE EntryRecent(i)'
  <2>1. PICK start \in Times :
          /\ cache[i].expires = start + StatusTTL
          /\ start <= LastSaved(i, cache[i].doc)
          /\ cache[i].shown.rulesMissing => Bare(i, start)
          /\ cache[i].shown.outcome = "degraded" => Trouble(i, start)
    BY <1>3 DEF Recent, EntryRecent
  <2>2. cache[i].doc \in Docs
    BY <1>3 DEF Types, Entries
  <2>3. start <= LastSaved(i, cache[i].doc)'
    <3>1. LastSaved(i, cache[i].doc) <= LastSaved(i, cache[i].doc)'
      BY <1>3, <2>2 DEF Forward
    <3>2. LastSaved(i, cache[i].doc)' \in Nat
      BY <1>3, <2>2, StatusAssumption, SMTT(30) DEF Types, LastSaved, Times
    <3> QED BY <1>3, <2>1, <2>2, <3>1, <3>2, Moments
  <2> QED BY <1>1, <1>3, <2>1, <2>3, Moments DEF EntryRecent
<1>4. ASSUME NEW ds \in Datasources, openUntil'[ds] = openUntil[ds] PROVE OpenRecent(ds)'
  <2>1. openUntil[ds] \in Nat /\ (troubleAt'[ds] \in Nat \/ troubleAt'[ds] = Never)
    BY StatusAssumption DEF Types, Times
  <2> QED BY <1>4, <2>1, Moments, StatusAssumption DEF Forward, Recent, OpenRecent
<1>5. \A r \in Readers : read'[r] = Idle => JobRecent(r)'
  BY DEF JobRecent
<1>6. \A i \in SloIds : cache'[i] = NoEntry => EntryRecent(i)'
  BY DEF EntryRecent
<1> QED BY <1>2, <1>3, <1>4, <1>5, <1>6 DEF Recent

(* A request that goes on is recent: what it reads is saved now, and its   *)
(* news is fresh.                                                          *)
LEMMA MovesRecent ==
  ASSUME Types, Types', Past, Recent, Forward, NEW r \in Readers, Moves(r)
  PROVE  \A q \in Readers : read'[q] = read[q] \/ JobRecent(q)'
<1> SUFFICES ASSUME read'[r] # Idle PROVE JobRecent(r)'
  BY MovesProgress DEF Progress, JobRecent
<1>1. /\ read[r] # Idle /\ Keeps(r) /\ UNCHANGED <<docs, savedAt, bareAt, now>>
      /\ \A ds \in Datasources : troubleAt'[ds] \in {troubleAt[ds], now}
  BY MovesProgress DEF Progress, sloVars
<1>2. PICK start \in Nat : /\ start <= now /\ start = read[r].start /\ start = read'[r].start
                           /\ read'[r].ids = read[r].ids /\ JobRecent(r)
  BY <1>1, BatchType, Moments DEF Recent, JobRecent, Keeps
<1>a. \A i \in SloIds : \A d : LastSaved(i, d)' = LastSaved(i, d)
  BY <1>1 DEF LastSaved
<1>3. ASSUME NEW i \in SloIds, i \in read[r].ids
      PROVE  start <= LastSaved(i, read'[r].found[i])
  <2>1. CASE read'[r].found[i] = docs[i]
    BY <1>1, <1>2, <2>1 DEF LastSaved
  <2>2. CASE read'[r].found[i] = read[r].found[i] /\ read[r].pc # "get"
    BY <1>1, <1>2, <1>3, <2>2 DEF LastSaved, JobRecent
  <2> QED BY <1>1, <1>3, <2>1, <2>2 DEF Keeps
<1>4. ASSUME NEW i \in SloIds, News(i, read'[r].out[i])
      PROVE  /\ read'[r].out[i].rulesMissing => Bare(i, start)'
             /\ read'[r].out[i].outcome = "degraded" => Trouble(i, start)'
  <2>1. DsOf[i] \in Datasources /\ HealthTTL \in Nat /\ Cooldown \in Nat \ {0}
    BY StatusAssumption
  <2>2. ASSUME read'[r].out[i].rulesMissing PROVE Bare(i, start)'
    BY <1>1, <1>2, <1>4, <2>1, <2>2, Moments DEF News, MaySayMissing, Bare
  <2>3. ASSUME read'[r].out[i].outcome = "degraded" PROVE Trouble(i, start)'
    <3>1. CASE IsOpen(DsOf[i])
      <4>1. openUntil[DsOf[i]] \in Nat /\ openUntil[DsOf[i]] > 0
        <5>1. openUntil[DsOf[i]] \in 0..(MaxNow + Cooldown)
          BY <2>1 DEF Types
        <5> QED BY <3>1, <5>1, Moments, StatusAssumption DEF IsOpen
      <4>2. /\ troubleAt[DsOf[i]] # Never /\ troubleAt[DsOf[i]] \in Nat
            /\ openUntil[DsOf[i]] <= troubleAt[DsOf[i]] + Cooldown
        BY <2>1, <4>1, Moments DEF Recent, OpenRecent
      <4>3. troubleAt[DsOf[i]] + Cooldown > start
        BY <1>2, <2>1, <3>1, <4>1, <4>2, Moments DEF IsOpen
      <4>4. troubleAt'[DsOf[i]] # Never /\ troubleAt'[DsOf[i]] \in {troubleAt[DsOf[i]], now}
        BY <1>1, <2>1, <4>2, Moments
      <4> QED BY <1>1, <1>2, <2>1, <4>2, <4>3, <4>4, Moments DEF Trouble
    <3>2. CASE troubleAt'[DsOf[i]] = now
      BY <1>1, <1>2, <2>1, <3>2, Moments DEF Trouble
    <3> QED BY <1>4, <2>3, <3>1, <3>2 DEF News
  <2> QED BY <2>2, <2>3
<1>5. ASSUME NEW i \in SloIds, read'[r].out[i] = read[r].out[i], read[r].out[i] # NoEntry
      PROVE  /\ read'[r].out[i].rulesMissing => Bare(i, start)'
             /\ read'[r].out[i].outcome = "degraded" => Trouble(i, start)'
  <2>1. /\ read[r].out[i].rulesMissing => Bare(i, start)
        /\ read[r].out[i].outcome = "degraded" => Trouble(i, start)
    BY <1>1, <1>2, <1>5 DEF JobRecent
  <2>2. Trouble(i, start) => Trouble(i, start)'
    BY <1>1, <1>2, Moments, StatusAssumption DEF Forward, Trouble
  <2>3. Bare(i, start) => Bare(i, start)'
    BY <1>1, <1>2 DEF Bare
  <2> QED BY <1>5, <2>1, <2>2, <2>3
<1>6. ASSUME NEW i \in SloIds, read'[r].out[i] # NoEntry
      PROVE  /\ read'[r].out[i].rulesMissing => Bare(i, start)'
             /\ read'[r].out[i].outcome = "degraded" => Trouble(i, start)'
  BY <1>1, <1>4, <1>5, <1>6 DEF Keeps
<1>7. \A i \in SloIds : i \in read'[r].ids => start <= LastSaved(i, read'[r].found[i])
  BY <1>2, <1>3
<1> QED BY <1>1, <1>2, <1>a, <1>6, <1>7 DEF JobRecent

(* Every step keeps what is known of the age of statuses.                  *)
LEMMA RecentNext ==
  ASSUME Types, Types', Past, Recent, [Next]_vars
  PROVE  Recent'
<1>1. Forward
  BY ForwardNext
<1>2. ASSUME NEW r \in Readers, NEW ids \in Requested, Begin(r, ids) PROVE Recent'
  <2>1. JobRecent(r)'
    BY <1>2, BeginType, Moments DEF JobRecent
  <2> QED BY <1>1, <1>2, <2>1, BeginType, StaysRecent DEF breakerVars
<1>3. ASSUME NEW r \in Readers, Moves(r) PROVE Recent'
  <2>1. \A q \in Readers : read'[q] = read[q] \/ JobRecent(q)'
    BY <1>1, <1>3, MovesRecent
  <2>2. ASSUME NEW i \in SloIds, cache'[i] \notin {cache[i], NoEntry} PROVE EntryRecent(i)'
    <3>1. /\ Land(r) /\ i \in read[r].ids /\ read[r].out[i] \in Shown
          /\ cache'[i] = [doc |-> read[r].found[i], shown |-> read[r].out[i],
                          expires |-> read[r].start + StatusTTL]
      BY <1>3, <2>2, MovesVerdict, LandCaches
    <3>2. /\ read[r] # Idle /\ read[r].pc = "next" /\ JobRecent(r)
          /\ UNCHANGED <<docs, savedAt, bareAt, troubleAt, now>>
      BY <3>1 DEF Land, At, sloVars, Recent
    <3>3. PICK start \in Times : start = read[r].start
      BY <3>2, BatchType
    <3>4. read[r].out[i] # NoEntry
      BY <3>1, StatusAssumption
    <3>5. /\ start <= LastSaved(i, read[r].found[i])
          /\ read[r].out[i].rulesMissing => Bare(i, start)
          /\ read[r].out[i].outcome = "degraded" => Trouble(i, start)
      BY <3>1, <3>2, <3>3, <3>4 DEF JobRecent
    <3>6. /\ start <= LastSaved(i, cache'[i].doc)
          /\ cache'[i].shown.rulesMissing => Bare(i, start)
          /\ cache'[i].shown.outcome = "degraded" => Trouble(i, start)
          /\ cache'[i].expires = start + StatusTTL
      BY <3>1, <3>3, <3>5
    <3>7. /\ \A d : LastSaved(i, d)' = LastSaved(i, d)
          /\ Bare(i, start)' <=> Bare(i, start)
          /\ Trouble(i, start)' <=> Trouble(i, start)
      BY <3>2 DEF LastSaved, Bare, Trouble
    <3> QED BY <3>6, <3>7 DEF EntryRecent
  <2>3. ASSUME NEW ds \in Datasources, openUntil'[ds] # openUntil[ds] PROVE OpenRecent(ds)'
    <3>1. PICK e \in Datasources : Failed(e) \/ Worked(e)
      BY <1>3, <2>3, MovesVerdict DEF breakerVars
    <3>2. CASE Worked(e)
      BY <2>3, <3>1, <3>2, SuccessRecorded DEF Worked, OpenRecent
    <3>3. CASE Failed(e)
      <4>1. ds = e /\ openUntil'[ds] = now + Cooldown /\ troubleAt'[ds] = now
        BY <2>3, <3>1, <3>3, FailureRecorded DEF Failed
      <4> QED BY <4>1, Moments, StatusAssumption DEF OpenRecent
    <3> QED BY <3>1, <3>2, <3>3
  <2> QED BY <1>1, <2>1, <2>2, <2>3, StaysRecent
<1>4. ASSUME \/ UNCHANGED vars \/ Tick
             \/ \E i \in SloIds : \/ \E d \in Docs, b \in BOOLEAN : Write(i, d, b)
                                  \/ Invalidate(i) \/ Lapse(i)
      PROVE  Recent'
  <2>1. UNCHANGED <<read, openUntil>> /\ \A i \in SloIds : cache'[i] \in {cache[i], NoEntry}
    BY <1>4 DEF vars, sloVars, breakerVars, Tick, Write, Invalidate, Lapse, Types
  <2> QED BY <1>1, <2>1, StaysRecent
<1> QED BY <1>2, <1>3, <1>4 DEF Next, Moves

-----------------------------------------------------------------------------
(* Old documents.                                                          *)

(* An invalidation takes the cached status, and excuses its SLO if a       *)
(* request holds the old document.                                         *)
LEMMA SavedNext ==
  ASSUME Types, Saved, [Next]_vars
  PROVE  Saved'
<1>1. ASSUME NEW r \in Readers, NEW ids \in Requested, Begin(r, ids) PROVE Saved'
  BY <1>1, BeginType DEF Saved, HasRead, Known, sloVars
<1>2. ASSUME NEW r \in Readers, Moves(r) PROVE Saved'
  <2>1. UNCHANGED <<docs, pending, excused>> /\ read[r] # Idle
    BY <1>2, MovesProgress DEF Progress, sloVars
  <2>2. ASSUME NEW q \in Readers, NEW i \in SloIds, HasRead(q, i)', read'[q].found[i] # docs[i]
        PROVE  i \in Known
    <3>1. CASE q # r
      BY <1>2, <2>2, <3>1, MovesProgress DEF Progress, Saved, HasRead
    <3>2. CASE q = r
      BY <1>2, <2>1, <2>2, <3>2, MovesProgress DEF Progress, Keeps, Saved, HasRead
    <3> QED BY <3>1, <3>2
  <2>3. ASSUME NEW i \in SloIds, cache'[i] # NoEntry, cache'[i].doc # docs[i]
        PROVE  i \in Known
    <3>1. CASE cache'[i] = cache[i]
      BY <2>3, <3>1 DEF Saved
    <3>2. CASE cache'[i] # cache[i]
      <4>0. Land(r)
        BY <1>2, <3>2, MovesVerdict
      <4>1. Land(r) /\ i \in read[r].ids /\ cache'[i].doc = read[r].found[i]
        <5>1. /\ i \in read[r].ids
              /\ cache'[i] = [doc |-> read[r].found[i], shown |-> read[r].out[i],
                              expires |-> read[r].start + StatusTTL]
          BY <2>3, <3>2, <4>0, LandCaches
        <5> QED BY <4>0, <5>1
      <4>2. HasRead(r, i)
        BY <4>1 DEF Land, At, HasRead
      <4> QED BY <2>3, <4>1, <4>2 DEF Saved
    <3> QED BY <3>1, <3>2
  <2>4. UNCHANGED Known
    BY <2>1 DEF Known
  <2> QED BY <2>1, <2>2, <2>3, <2>4 DEF Saved
<1>3. ASSUME NEW i \in SloIds, NEW d \in Docs, NEW b \in BOOLEAN, Write(i, d, b) PROVE Saved'
  <2>1. /\ UNCHANGED <<cache, read>> /\ \A j \in SloIds \ {i} : docs'[j] = docs[j]
        /\ Known \subseteq Known' /\ i \in Known'
    BY <1>3 DEF Write, Types, Known
  <2> QED BY <2>1 DEF Saved, HasRead
<1>4. ASSUME NEW i \in SloIds, Invalidate(i) PROVE Saved'
  <2>1. /\ UNCHANGED <<docs, read>> /\ cache'[i] = NoEntry
        /\ \A j \in SloIds \ {i} : cache'[j] = cache[j] /\ (j \in Known => j \in Known')
        /\ Overtaken(i) => i \in Known'
    BY <1>4 DEF Invalidate, Types, Known
  <2> QED BY <2>1 DEF Saved, HasRead, Overtaken
<1>5. ASSUME Tick \/ UNCHANGED vars \/ \E i \in SloIds : Lapse(i) PROVE Saved'
  <2>1. /\ UNCHANGED <<docs, pending, excused, read>>
        /\ \A i \in SloIds : cache'[i] \in {cache[i], NoEntry}
    BY <1>5 DEF Tick, Lapse, vars, sloVars, Types
  <2> QED BY <2>1 DEF Saved, HasRead, Known
<1> QED BY <1>1, <1>2, <1>3, <1>4, <1>5 DEF Next, Moves

-----------------------------------------------------------------------------
(* The breaker's counts.                                                   *)

(* A failure adds one to the streak, and at most one to the failures that  *)
(* are counted, which stay in clock order.                                 *)
LEMMA FailedCounts ==
  ASSUME Types, Past, BreakerCounts, NEW ds \in Datasources, Failed(ds)
  PROVE  /\ Len(failures'[ds]) <= streak'[ds]
         /\ openUntil'[ds] > 0 => streak'[ds] >= Threshold
         /\ \A j, k \in DOMAIN failures'[ds] : j <= k => failures'[ds][j] <= failures'[ds][k]
<1>1. /\ failures[ds] \in Seq(Times) /\ Len(failures[ds]) \in Nat /\ streak[ds] \in Nat
      /\ openUntil[ds] \in Nat /\ Threshold \in Nat
      /\ streak'[ds] = streak[ds] + 1 /\ RecordFailure(ds)
  BY StatusAssumption DEF Types, Failed
<1>2. PICK n \in 0..Len(failures[ds]) :
        /\ Len(failures'[ds]) = n + 1
        /\ failures'[ds][n + 1] = now
        /\ \A k \in 1..n : failures'[ds][k] = failures[ds][k + Len(failures[ds]) - n]
  BY <1>1, FailureRecorded
<1>3. Len(failures[ds]) <= streak[ds] /\ (openUntil[ds] > 0 => streak[ds] >= Threshold)
  BY DEF BreakerCounts
<1>4. Len(failures'[ds]) <= streak'[ds]
  BY <1>1, <1>2, <1>3
<1>5. openUntil'[ds] > 0 => streak'[ds] >= Threshold
  <2>1. openUntil'[ds] # openUntil[ds] => Len(failures'[ds]) >= Threshold \/ openUntil[ds] > 0
    BY <1>1, FailureRecorded
  <2> QED BY <1>1, <1>2, <1>3, <1>4, <2>1
<1>6. ASSUME NEW j \in DOMAIN failures'[ds], NEW k \in DOMAIN failures'[ds], j <= k
      PROVE  failures'[ds][j] <= failures'[ds][k]
  <2>1. n \in Nat /\ j \in 1..(n + 1) /\ k \in 1..(n + 1)
    <3>1. failures'[ds] \in Seq(Times)
      BY <1>1, FailureRecorded
    <3> QED BY <1>1, <1>2, <1>6, <3>1
  <2>2. ASSUME NEW l \in 1..n
        PROVE  /\ l + Len(failures[ds]) - n \in DOMAIN failures[ds]
               /\ failures'[ds][l] = failures[ds][l + Len(failures[ds]) - n]
               /\ failures'[ds][l] <= now
    <3>1. l + Len(failures[ds]) - n \in DOMAIN failures[ds]
      BY <1>1, <1>2, <2>1
    <3>2. failures'[ds][l] = failures[ds][l + Len(failures[ds]) - n]
      BY <1>2
    <3> QED BY <3>1, <3>2 DEF Past
  <2>3. CASE k = n + 1 /\ j = n + 1
    BY <1>2, <2>3, Moments
  <2>4. CASE k = n + 1 /\ j \in 1..n
    BY <1>2, <2>2, <2>4
  <2>5. CASE k \in 1..n /\ j \in 1..n
    <3>1. j + Len(failures[ds]) - n <= k + Len(failures[ds]) - n
      BY <1>1, <1>6, <2>1, <2>5
    <3> QED BY <2>2, <2>5, <3>1 DEF BreakerCounts
  <2> QED BY <1>6, <2>1, <2>3, <2>4, <2>5
<1> QED BY <1>4, <1>5, <1>6

(* Every step keeps the counts of the breaker.                             *)
LEMMA CountsNext ==
  ASSUME Types, Past, BreakerCounts, [Next]_vars
  PROVE  BreakerCounts'
<1>1. CASE UNCHANGED <<breakerVars, streak>>
  BY <1>1 DEF BreakerCounts, breakerVars
<1>2. ASSUME NEW ds \in Datasources, Worked(ds) PROVE BreakerCounts'
  <2>1. /\ failures'[ds] = <<>> /\ openUntil'[ds] = 0 /\ streak'[ds] = 0
        /\ \A e \in Datasources \ {ds} : /\ failures'[e] = failures[e] /\ openUntil'[e] = openUntil[e]
                                        /\ streak'[e] = streak[e]
    BY <1>2, SuccessRecorded DEF Worked, Types
  <2> QED BY <2>1 DEF BreakerCounts
<1>3. ASSUME NEW ds \in Datasources, Failed(ds) PROVE BreakerCounts'
  <2>1. \A e \in Datasources \ {ds} : /\ failures'[e] = failures[e] /\ openUntil'[e] = openUntil[e]
                                      /\ streak'[e] = streak[e]
    BY <1>3, FailureRecorded DEF Failed, Types
  <2> QED BY <1>3, <2>1, FailedCounts DEF BreakerCounts
<1>4. ASSUME NEW r \in Readers, Moves(r) PROVE BreakerCounts'
  BY <1>1, <1>2, <1>3, <1>4, MovesVerdict
<1>5. ASSUME ~\E r \in Readers : Moves(r) PROVE UNCHANGED <<breakerVars, streak>>
  BY <1>5 DEF Next, Moves, Begin, Write, Invalidate, Lapse, Tick, vars
<1> QED BY <1>1, <1>4, <1>5

-----------------------------------------------------------------------------
(* Every request has one verdict on a datasource at most.                  *)

(* What a start adds to those owing, and a verdict takes away.             *)
LEMMA Counting ==
  ASSUME NEW S, NEW T, NEW x, IsFiniteSet(S), NEW n \in Nat, NEW m \in Nat,
         n + Cardinality(S) <= m
  PROVE  /\ T \subseteq S => IsFiniteSet(T) /\ n + Cardinality(T) <= m
         /\ T \subseteq S \cup {x} => IsFiniteSet(T) /\ n + Cardinality(T) <= m + 1
         /\ x \in S /\ T \subseteq S \ {x} => IsFiniteSet(T) /\ (n + 1) + Cardinality(T) <= m
<1>1. Cardinality(S) \in Nat
  BY FS_CardinalityType
<1>2. ASSUME T \subseteq S PROVE IsFiniteSet(T) /\ n + Cardinality(T) <= m
  <2>1. IsFiniteSet(T) /\ Cardinality(T) <= Cardinality(S)
    BY <1>2, FS_Subset
  <2> QED BY <1>1, <2>1, FS_CardinalityType
<1>3. ASSUME T \subseteq S \cup {x} PROVE IsFiniteSet(T) /\ n + Cardinality(T) <= m + 1
  <2>1. IsFiniteSet(S \cup {x}) /\ Cardinality(S \cup {x}) \in {Cardinality(S), Cardinality(S) + 1}
    BY FS_AddElement
  <2>2. IsFiniteSet(T) /\ Cardinality(T) <= Cardinality(S \cup {x})
    BY <1>3, <2>1, FS_Subset
  <2>3. Cardinality(T) \in Nat /\ Cardinality(S \cup {x}) \in Nat
    BY <2>1, <2>2, FS_CardinalityType
  <2> QED BY <1>1, <2>1, <2>2, <2>3
<1>4. ASSUME x \in S, T \subseteq S \ {x} PROVE IsFiniteSet(T) /\ (n + 1) + Cardinality(T) <= m
  <2>1. IsFiniteSet(S \ {x}) /\ Cardinality(S \ {x}) = Cardinality(S) - 1
    BY <1>4, FS_RemoveElement
  <2>2. IsFiniteSet(T) /\ Cardinality(T) <= Cardinality(S \ {x})
    BY <1>4, <2>1, FS_Subset
  <2>3. Cardinality(T) \in Nat
    BY <2>2, FS_CardinalityType
  <2> QED BY <1>1, <2>1, <2>2, <2>3
<1> QED BY <1>2, <1>3, <1>4


(* A request that goes on owes no more than before.                        *)
LEMMA OwesLess ==
  ASSUME Types, OneVerdictEach, NEW r \in Readers, Moves(r)
  PROVE  /\ \A q \in Readers : At(q, "record")' => Group(q, read[q].ds)' = {}
         /\ \A ds \in Datasources : Owing(ds)' \subseteq Owing(ds)
         /\ \A ds \in Datasources :
              ds = read[r].ds /\ (ResolveFails(r) \/ FinishGroup(r)) =>
                r \in Owing(ds) /\ r \notin Owing(ds)'
<1>1. /\ read[r] # Idle /\ \A q \in Readers \ {r} : read'[q] = read[q]
      /\ read'[r] # Idle => Keeps(r) /\ read'[r] \in Batches
  BY MovesProgress DEF Progress
<1>2. \A i \in SloIds : \A s : News(i, s) => s # NoEntry
  BY StatusAssumption DEF News
<1>3. ASSUME NEW ds \in Datasources, read'[r] # Idle, read[r].pc # "get"
      PROVE  Group(r, ds)' \subseteq Group(r, ds)
  BY <1>1, <1>2, <1>3, BatchType DEF Keeps, Group
<1>4. ASSUME read'[r] # Idle, read'[r].pc # "next"
      PROVE  \/ \E ds \in Datasources : Enter(r, ds) /\ read'[r].pc = "ask" /\ read'[r].ds = ds
             \/ /\ At(r, "ask") /\ read'[r].pc = "record" /\ read'[r].ds = read[r].ds
                /\ Group(r, read[r].ds)' = {}
  <2>1. ~Get(r)
    BY <1>1, <1>4, ZenonT(30) DEF Get, Types, Batches
  <2>2. ~Stub(r)
    BY <1>1, <1>4, ZenonT(60) DEF Stub, Answer, Types, Batches
  <2>3. ASSUME NEW bad \in SUBSET SloIds, NEW bare \in SUBSET SloIds, ReadGroup(r, bad, bare)
        PROVE  /\ At(r, "ask") /\ read'[r].pc = "record" /\ read'[r].ds = read[r].ds
               /\ Group(r, read[r].ds)' = {}
    BY <2>3, ReadProgress DEF ReadGroup
  <2> QED BY <1>4, <2>1, <2>2, <2>3, EnterProgress, ResolveProgress, FinishProgress, EndProgress
          DEF Moves
<1>5. ASSUME NEW q \in Readers, At(q, "record")' PROVE Group(q, read[q].ds)' = {}
  <2>1. CASE q = r
    BY <1>4, <1>5, <2>1 DEF At
  <2>2. CASE q # r
    BY <1>1, <1>5, <2>2 DEF OneVerdictEach, At, Group
  <2> QED BY <2>1, <2>2
<1>6. ASSUME NEW ds \in Datasources, NEW q \in Readers, q \in Owing(ds)' PROVE q \in Owing(ds)
  <2>1. CASE q # r
    BY <1>1, <1>6, <2>1 DEF Owing, Group
  <2>2. CASE q = r /\ Group(r, ds)' # {}
    BY <1>1, <1>3, <1>6, <2>2 DEF Owing
  <2>3. CASE q = r /\ read'[r].pc # "next" /\ read'[r].ds = ds
    <3>1. CASE Enter(r, ds)
      BY <1>1, <2>3, <3>1 DEF Enter, Owing
    <3>2. CASE At(r, "ask") /\ read'[r].ds = read[r].ds
      BY <1>1, <2>3, <3>2 DEF At, Owing
    <3> QED BY <1>4, <1>6, <2>3, <3>1, <3>2 DEF Owing
  <2> QED BY <1>1, <1>6, <2>1, <2>2, <2>3 DEF Owing, Keeps
<1>7. ASSUME NEW ds \in Datasources, ds = read[r].ds, ResolveFails(r) \/ FinishGroup(r)
      PROVE  r \in Owing(ds) /\ r \notin Owing(ds)'
  <2>1. r \in Owing(ds)
    BY <1>1, <1>7 DEF ResolveFails, FinishGroup, At, Owing
  <2>2. read'[r].pc = "next"
    BY <1>7, ResolveProgress, FinishProgress
  <2>3. CASE ResolveFails(r)
    <3>1. Group(r, ds)' = {}
      BY <1>7, <2>3, ResolveProgress DEF Group
    <3> QED BY <2>1, <2>2, <3>1 DEF Owing
  <2>4. CASE FinishGroup(r)
    <3>1. Group(r, ds) = {}
      BY <1>7, <2>4 DEF FinishGroup, OneVerdictEach
    <3>2. Group(r, ds)' = Group(r, ds)
      BY <2>4, FinishProgress DEF Group
    <3> QED BY <2>1, <2>2, <3>1, <3>2 DEF Owing
  <2> QED BY <1>7, <2>3, <2>4
<1>8. \A ds \in Datasources : Owing(ds)' \subseteq Owing(ds)
  BY <1>6 DEF Owing
<1> QED BY <1>5, <1>7, <1>8

(* Every step keeps that a request has one verdict at most.                *)
LEMMA OneVerdictNext ==
  ASSUME Types, Types', OneVerdictEach, [Next]_vars
  PROVE  OneVerdictEach'
<1>1. \A ds \in Datasources : /\ IsFiniteSet(Owing(ds)) /\ streak[ds] \in Nat /\ reads \in Nat
                             /\ streak[ds] + Cardinality(Owing(ds)) <= reads
  BY StatusAssumption DEF OneVerdictEach, Types
<1>2. ASSUME NEW r \in Readers, NEW ids \in Requested, Begin(r, ids) PROVE OneVerdictEach'
  <2>1. /\ \A q \in Readers \ {r} : read'[q] = read[q]
        /\ read'[r].pc = "get" /\ reads' = reads + 1 /\ UNCHANGED streak
    BY <1>2, BeginType
  <2>2. \A q \in Readers : At(q, "record")' => Group(q, read[q].ds)' = {}
    BY <2>1 DEF OneVerdictEach, At, Group
  <2>3. \A ds \in Datasources : Owing(ds)' \subseteq Owing(ds) \cup {r}
    BY <2>1 DEF Owing, Group
  <2>4. ASSUME NEW ds \in Datasources
        PROVE  IsFiniteSet(Owing(ds)') /\ streak[ds] + Cardinality(Owing(ds)') <= reads + 1
    BY <1>1, <2>3, Counting
  <2> QED BY <2>1, <2>2, <2>4 DEF OneVerdictEach
<1>3. ASSUME NEW r \in Readers, Moves(r) PROVE OneVerdictEach'
  <2>1. UNCHANGED reads
    BY <1>3, MovesProgress DEF Progress
  <2>2. ASSUME NEW ds \in Datasources
        PROVE  IsFiniteSet(Owing(ds)') /\ streak'[ds] + Cardinality(Owing(ds)') <= reads
    <3>1. Owing(ds)' \subseteq Owing(ds)
      BY <1>3, OwesLess
    <3>2. CASE streak'[ds] = streak[ds]
      BY <1>1, <3>1, <3>2, Counting
    <3>3. CASE streak'[ds] = 0
      <4>1. 0 + Cardinality(Owing(ds)) <= reads
        BY <1>1, FS_CardinalityType
      <4> QED BY <1>1, <3>1, <3>3, <4>1, Counting
    <3>4. CASE ds = read[r].ds /\ (ResolveFails(r) \/ FinishGroup(r)) /\ streak'[ds] = streak[ds] + 1
      <4>1. r \in Owing(ds) /\ Owing(ds)' \subseteq Owing(ds) \ {r}
        BY <1>3, <3>1, <3>4, OwesLess
      <4> QED BY <1>1, <3>4, <4>1, Counting
    <3>5. \/ UNCHANGED streak
          \/ /\ ResolveFails(r) \/ FinishGroup(r)
             /\ read[r].ds \in Datasources
             /\ \/ streak' = [streak EXCEPT ![read[r].ds] = @ + 1]
                \/ streak' = [streak EXCEPT ![read[r].ds] = 0]
      BY <1>3, MovesVerdict DEF Failed, Worked
    <3>6. streak \in [Datasources -> Nat]
      BY DEF Types
    <3> QED BY <3>2, <3>3, <3>4, <3>5, <3>6
  <2> QED BY <1>3, <2>1, <2>2, OwesLess DEF OneVerdictEach
<1>4. ASSUME UNCHANGED <<read, streak, reads>> PROVE OneVerdictEach'
  BY <1>4 DEF OneVerdictEach, At, Group, Owing
<1>5. ASSUME ~\E r \in Readers : Moves(r) \/ \E ids \in Requested : Begin(r, ids)
      PROVE  UNCHANGED <<read, streak, reads>>
  BY <1>5 DEF Next, Moves, Write, Invalidate, Lapse, Tick, vars
<1> QED BY <1>2, <1>3, <1>4, <1>5

-----------------------------------------------------------------------------
(* The invariant, and what follows from it.                                *)

(* The invariant holds initially.                                          *)
LEMMA InitIInv == Init => IInv
<1> SUFFICES ASSUME Init PROVE IInv
  OBVIOUS
<1>1. Types
  <2>1. 0 \in Times /\ 0 \in 0..(MaxNow + Cooldown) /\ 0 \in 0..MaxReads /\ 0 \in 0..MaxChanges
    BY StatusAssumption DEF Times
  <2>2. <<>> \in Seq(Times)
    OBVIOUS
  <2> QED BY <2>1, <2>2 DEF Init, Types
<1>2. Past /\ Saved /\ BreakerCounts
  BY DEF Init, Past, Saved, HasRead, BreakerCounts
<1>3. Recent
  BY DEF Init, Recent, JobRecent, EntryRecent, OpenRecent
<1>4. OneVerdictEach
  <2>1. \A ds \in Datasources : Owing(ds) = {} /\ streak[ds] = 0
    BY DEF Init, Owing
  <2>2. IsFiniteSet({}) /\ Cardinality({}) = 0 /\ reads = 0
    BY FS_EmptySet DEF Init
  <2>3. \A r \in Readers : ~At(r, "record")
    BY DEF Init, At
  <2> QED BY <2>1, <2>2, <2>3 DEF OneVerdictEach
<1> QED BY <1>1, <1>2, <1>3, <1>4 DEF IInv

(* Every step keeps the invariant.                                         *)
LEMMA StepIInv == IInv /\ [Next]_vars => IInv'
BY StepTypes, ForwardNext, RecentNext, SavedNext, CountsNext, OneVerdictNext DEF IInv

(* The invariant holds in every reachable state.                           *)
LEMMA Invariance == Spec => []IInv
BY InitIInv, StepIInv, PTL DEF Spec

(* The model of status reads is type correct: no streak is longer than the *)
(* number of requests, and no breaker counts more failures than those.     *)
THEOREM TypeCorrect == Spec => []TypeOK
<1>1. IInv => TypeOK
  <2> SUFFICES ASSUME IInv PROVE TypeOK
    OBVIOUS
  <2>1. ASSUME NEW ds \in Datasources
        PROVE  /\ streak[ds] \in 0..MaxReads /\ Len(failures[ds]) <= reads
               /\ \A k \in DOMAIN failures[ds] : failures[ds][k] \in Times
    <3>1. /\ Types /\ streak[ds] \in Nat /\ reads \in 0..MaxReads
          /\ Len(failures[ds]) <= streak[ds] /\ failures[ds] \in Seq(Times)
          /\ IsFiniteSet(Owing(ds)) /\ streak[ds] + Cardinality(Owing(ds)) <= reads
      BY DEF IInv, Types, BreakerCounts, OneVerdictEach
    <3>2. Cardinality(Owing(ds)) \in Nat /\ Len(failures[ds]) \in Nat
      BY <3>1, FS_CardinalityType
    <3> QED BY <3>1, <3>2, StatusAssumption
  <2> QED BY <2>1 DEF IInv, Types, TypeOK
<1> QED BY <1>1, Invariance, PTL

(* What RecordFailure keeps of the failures is what the filter of the code *)
(* keeps: exactly those that are still in the window.                      *)
THEOREM WindowKept ==
  Spec => [](\A ds \in Datasources : \A k \in DOMAIN failures[ds] :
               k > Cardinality(Expired(ds)) <=> failures[ds][k] + Window >= now)
<1>1. IInv => \A ds \in Datasources : \A k \in DOMAIN failures[ds] :
                k > Cardinality(Expired(ds)) <=> failures[ds][k] + Window >= now
  BY ExpiredFirst DEF IInv
<1> QED BY <1>1, Invariance, PTL

(* A served status is of a document that was saved less than the time to   *)
(* live ago.                                                               *)
THEOREM StatusesAreRecent == Spec => []StatusesRecent
<1>1. IInv => StatusesRecent
  <2> SUFFICES ASSUME IInv, NEW i \in SloIds, Live(cache[i])
               PROVE  LastSaved(i, cache[i].doc) + StatusTTL > now
    BY DEF StatusesRecent
  <2>1. Types /\ cache[i] # NoEntry /\ cache[i].expires > now /\ EntryRecent(i)
    BY DEF Live, IInv, Recent
  <2>2. PICK start \in Times : cache[i].expires = start + StatusTTL /\ start <= LastSaved(i, cache[i].doc)
    BY <2>1 DEF EntryRecent
  <2>3. cache[i].doc \in Docs
    BY <2>1 DEF Types, Entries
  <2> QED BY <2>1, <2>2, <2>3, Moments, StatusAssumption
<1> QED BY <1>1, Invariance, PTL

(* An old document is served only for an SLO that is about to be           *)
(* invalidated, or whose invalidation a request overtook or nobody sent.   *)
THEOREM StaleIsExcused == Spec => []StaleOnlyWhenOvertaken
<1>1. IInv => StaleOnlyWhenOvertaken
  BY DEF IInv, Saved, Known, Live, StaleOnlyWhenOvertaken
<1> QED BY <1>1, Invariance, PTL

(* The ages of the two caches add up, and to no more than both times to    *)
(* live.                                                                   *)
THEOREM RulesMissingIsRecent == Spec => []RulesMissingRecent
<1>1. IInv => RulesMissingRecent
  <2> SUFFICES ASSUME IInv, NEW i \in SloIds, Live(cache[i]), cache[i].shown.rulesMissing
               PROVE  bareAt[i] # Never /\ bareAt[i] + HealthTTL + StatusTTL > now
    BY DEF RulesMissingRecent
  <2>1. Types /\ cache[i] # NoEntry /\ cache[i].expires > now /\ EntryRecent(i)
    BY DEF Live, IInv, Recent
  <2>2. PICK start \in Times : cache[i].expires = start + StatusTTL /\ Bare(i, start)
    BY <2>1 DEF EntryRecent
  <2> QED BY <2>1, <2>2, Moments, StatusAssumption DEF Bare
<1> QED BY <1>1, Invariance, PTL

(* The breaker opens only on a run of Threshold failures, for every        *)
(* threshold, window and number of overlapping batches.                    *)
THEOREM BreakerOpensOnStreak == Spec => []OpensOnlyOnStreak
<1>1. IInv => OpensOnlyOnStreak
  BY DEF IInv, BreakerCounts, OpensOnlyOnStreak
<1> QED BY <1>1, Invariance, PTL

(* No SLO is shown without data longer than the cooldown and the cache     *)
(* allow after its datasource failed.                                      *)
THEOREM DegradedIsRecent == Spec => []DegradedRecent
<1>1. IInv => DegradedRecent
  <2> SUFFICES ASSUME IInv, NEW i \in SloIds, Live(cache[i]), cache[i].shown.outcome = "degraded"
               PROVE  /\ troubleAt[DsOf[i]] # Never
                      /\ troubleAt[DsOf[i]] + Cooldown + StatusTTL > now
    BY DEF DegradedRecent
  <2>1. Types /\ cache[i] # NoEntry /\ cache[i].expires > now /\ EntryRecent(i)
    BY DEF Live, IInv, Recent
  <2>2. PICK start \in Times : cache[i].expires = start + StatusTTL /\ Trouble(i, start)
    BY <2>1 DEF EntryRecent
  <2>3. DsOf[i] \in Datasources
    BY StatusAssumption
  <2> QED BY <2>1, <2>2, <2>3, Moments, StatusAssumption DEF Trouble
<1> QED BY <1>1, Invariance, PTL
=============================================================================
