------------------------ MODULE SloSingleGroupProofs ------------------------
(***************************************************************************)
(* Proofs about SloSingleGroup, for any SLOs, names, specs and request     *)
(* slots, and any time to live.                                            *)
(***************************************************************************)
EXTENDS SloSingleGroup, TLAPS

-----------------------------------------------------------------------------
(* The inductive invariant.                                                *)

(* Which kinds of request are at which awaits.                             *)
Kinds ==
  \A r \in Requests : req[r] # Idle =>
    /\ req[r].kind \in {"create", "update"} <=> req[r].pc \in {"name", "upsert", "save", "rollback"}
    /\ req[r].kind = "delete" <=> req[r].pc \in {"unprovision", "drop"}
    /\ req[r].pc \in {"replay", "recheck"} => req[r].kind = "repair"
    /\ req[r].wrote => req[r].kind = "repair" /\ req[r].pc \in {"recheck", "probe", "fill", "decide"}

(* A verdict that a check has found, and one that is cached, was true when *)
(* the check began or later; the history has no later moment than now.     *)
JobRecent(r) ==
  /\ req[r].start <= now
  /\ req[r].pc = "fill" => req[r].start <= LastHeld(Target(r), req[r].verdict)

EntryRecent(i) ==
  cache[i].expires <= LastHeld(cache[i].group, cache[i].verdict) + HealthTTL

Recent ==
  /\ \A g \in Groups, v \in Verdicts : heldAt[g][v] <= now
  /\ \A r \in Requests : req[r] # Idle => JobRecent(r)
  /\ \A i \in SloIds : cache[i] # NoEntry => EntryRecent(i)

(* What a repair has written stays ok until it is removed, and is what the *)
(* repair finds.                                                           *)
OwnWrite(r) ==
  req[r] # Idle /\ req[r].wrote /\ r \notin undone =>
    /\ Truth(Target(r)) = "ok"
    /\ req[r].pc \in {"fill", "decide"} => req[r].verdict \in {"ok", "unreachable"}

OwnWrites == \A r \in Requests : OwnWrite(r)

(* The ruler has of i exactly the group of its document.                   *)
Agree(i) ==
  \A n \in Names :
    IF docs[i] # NoDoc /\ n = NameOf[docs[i]]
    THEN groups[<<i, n>>] # Absent /\ groups[<<i, n>>].spec = docs[i]
    ELSE groups[<<i, n>>] = Absent

(* What an undisturbed request that may write has made of its SLO so far,  *)
(* when its job is j.                                                      *)
Stage(j) ==
  /\ j.pc \notin {"save", "rollback", "drop"} => Agree(j.id)
  /\ j.pc \notin {"save", "rollback", "drop", "name", "upsert"} => docs[j.id] = j.want
  /\ j.pc = "save" =>
       /\ groups[<<j.id, NameOf[j.want]>>] # Absent
       /\ groups[<<j.id, NameOf[j.want]>>].spec = j.want
       /\ \A n \in Names : groups[<<j.id, n>>] # Absent /\ n # NameOf[j.want] =>
            docs[j.id] # NoDoc /\ n = NameOf[docs[j.id]]
  /\ j.pc = "rollback" =>
       /\ docs[j.id] = NoDoc
       /\ \A n \in Names : n # NameOf[j.want] => groups[<<j.id, n>>] = Absent
  /\ j.pc = "drop" => \A n \in Names : groups[<<j.id, n>>] = Absent

\* Request r is one that may write SLO i.
MayWrite(r, i) == req[r] # Idle /\ req[r].id = i /\ Changes(req[r].kind)

(* An undisturbed SLO has one request at most that may write, which has    *)
(* come as far as its stage says; without one, documents and ruler agree.  *)
InStep ==
  \A i \in SloIds \ disturbed :
    /\ \A q, r \in Requests : MayWrite(q, i) /\ MayWrite(r, i) => q = r
    /\ (\A r \in Requests : ~MayWrite(r, i)) => Agree(i)
    /\ \A r \in Requests : MayWrite(r, i) => Stage(req[r])

IInv == TypeOK /\ Kinds /\ Recent /\ OwnWrites /\ InStep

-----------------------------------------------------------------------------
(* Types.                                                                  *)

(* A request in flight names an SLO and a group of its own.                *)
LEMMA TargetType ==
  ASSUME TypeOK, NEW r \in Requests, req[r] # Idle
  PROVE  /\ req[r] \in Jobs /\ req[r].id \in SloIds /\ req[r].want \in Specs
         /\ Target(r) \in Groups /\ Target(r) = <<req[r].id, NameOf[req[r].want]>>
BY SingleGroupAssumption DEF TypeOK, Jobs, Target, Own, Groups

(* A write of a group keeps the ruler and its history typed.               *)
LEMMA UpsertGroupType ==
  ASSUME TypeOK, NEW g \in Groups, NEW s \in Specs, UpsertGroup(g, s)
  PROVE  /\ groups' \in [Groups -> Rules \cup {Absent}]
         /\ heldAt' \in [Groups -> [Verdicts -> Times]]
         /\ undone' = undone
<1>1. Truth(g) \in Verdicts
  BY SingleGroupAssumption DEF TypeOK, Truth, Verdicts, Present, Rules
<1>2. [spec |-> s, age |-> "ok"] \in Rules
  BY DEF Rules, Present
<1> QED
  BY <1>1, <1>2 DEF UpsertGroup, TypeOK

(* So does the removal of one.                                             *)
LEMMA DeleteGroupType ==
  ASSUME TypeOK, NEW g \in Groups, DeleteGroup(g)
  PROVE  /\ groups' \in [Groups -> Rules \cup {Absent}]
         /\ heldAt' \in [Groups -> [Verdicts -> Times]]
         /\ undone' \subseteq Requests
<1>1. Truth(g) \in Verdicts
  BY SingleGroupAssumption DEF TypeOK, Truth, Verdicts, Present, Rules
<1> QED
  BY <1>1 DEF DeleteGroup, TypeOK

(* The request in slot r goes on as job j.                                 *)
LEMMA JobType ==
  ASSUME TypeOK, NEW r \in Requests, NEW j \in Jobs \cup {Idle}, req' = [req EXCEPT ![r] = j]
  PROVE  req' \in [Requests -> Jobs \cup {Idle}]
BY DEF TypeOK

(* A request that goes on to another await keeps the requests typed.       *)
LEMMA GoToType ==
  ASSUME TypeOK, NEW r \in Requests, req[r] # Idle, NEW p, GoTo(r, p),
         p \in {"name", "upsert", "save", "rollback", "unprovision", "drop",
                "check", "probe", "fill", "decide", "replay", "recheck"}
  PROVE  req' \in [Requests -> Jobs \cup {Idle}]
<1>1. [req[r] EXCEPT !.pc = p] \in Jobs
  BY DEF TypeOK, Jobs
<1> QED BY <1>1 DEF GoTo, TypeOK

(* A request that ends keeps the requests typed.                           *)
LEMMA EndType ==
  ASSUME TypeOK, NEW r \in Requests, End(r)
  PROVE  req' \in [Requests -> Jobs \cup {Idle}]
BY DEF TypeOK, End

(* The initial state is typed.                                             *)
LEMMA InitType == Init => TypeOK
<1> SUFFICES ASSUME Init PROVE TypeOK
  OBVIOUS
<1>1. \A g \in Groups : docs[g[1]] # NoDoc => [spec |-> docs[g[1]], age |-> "outdated"] \in Rules
  BY DEF Init, Groups, Rules, Present
<1> QED
  BY <1>1, SingleGroupAssumption DEF Init, TypeOK, Times

(* The start of a request keeps the types.                                 *)
LEMMA StartsType ==
  ASSUME TypeOK, NEW r \in Requests, Starts(r)
  PROVE  TypeOK'
<1>1. ASSUME NEW i \in SloIds, NEW s \in Specs,
             NEW kind \in {"create", "update", "delete", "repair", "check"},
             NEW p \in {"name", "upsert", "unprovision", "check"}, Begin(r, kind, p, i, s)
      PROVE  TypeOK'
  <2>1. [kind |-> kind, pc |-> p, id |-> i, want |-> s, start |-> 0, verdict |-> "ok",
         wrote |-> FALSE] \in Jobs
    BY SingleGroupAssumption DEF Jobs, Times, Verdicts, Present
  <2> QED BY <1>1, <2>1, SingleGroupAssumption DEF Begin, TypeOK
<1>2. ASSUME NEW i \in SloIds, docs[i] # NoDoc PROVE docs[i] \in Specs
  BY <1>2 DEF TypeOK
<1>3. ASSUME NEW i \in SloIds, NEW s \in Specs, BeginCreate(r, i, s) PROVE TypeOK'
  BY <1>1, <1>3 DEF BeginCreate
<1>4. ASSUME NEW i \in SloIds, NEW s \in Specs, BeginUpdate(r, i, s) PROVE TypeOK'
  <2>1. CASE NameOf[s] = NameOf[docs[i]]
    BY <1>1, <1>4, <2>1 DEF BeginUpdate
  <2>2. CASE NameOf[s] # NameOf[docs[i]]
    BY <1>1, <1>4, <2>2 DEF BeginUpdate
  <2> QED BY <2>1, <2>2
<1>5. ASSUME NEW i \in SloIds, BeginDelete(r, i) \/ BeginRepair(r, i) \/ BeginCheck(r, i) PROVE TypeOK'
  BY <1>1, <1>2, <1>5 DEF BeginDelete, BeginRepair, BeginCheck
<1> QED BY <1>3, <1>4, <1>5 DEF Starts

(* A step of a write keeps the types.                                      *)
LEMMA WritesType ==
  ASSUME TypeOK, NEW r \in Requests, Writes(r)
  PROVE  TypeOK'
<1> USE DEF rulerVars, history
<1>1. ASSUME CheckName(r) PROVE TypeOK'
  BY <1>1, GoToType, EndType DEF CheckName, TypeOK, At
<1>2. ASSUME Upsert(r) PROVE TypeOK'
  BY <1>2, TargetType, UpsertGroupType, GoToType DEF Upsert, At, TypeOK
<1>3. ASSUME UpsertFails(r) PROVE TypeOK'
  BY <1>3, TargetType, UpsertGroupType, EndType, SingleGroupAssumption
     DEF UpsertFails, At, TypeOK, Disturb, Fault
<1>4. ASSUME Save(r) PROVE TypeOK'
  BY <1>4, TargetType, EndType DEF Save, At, TypeOK
<1>5. ASSUME SaveFails(r) PROVE TypeOK'
  BY <1>5, TargetType, GoToType, SingleGroupAssumption DEF SaveFails, At, TypeOK, Disturb, Fault
<1>6. ASSUME Rollback(r) PROVE TypeOK'
  BY <1>6, TargetType, DeleteGroupType, EndType DEF Rollback, At, TypeOK
<1>7. ASSUME RollbackFails(r) PROVE TypeOK'
  BY <1>7, TargetType, EndType DEF RollbackFails, At, TypeOK, Disturb
<1>8. ASSUME Unprovision(r) PROVE TypeOK'
  BY <1>8, TargetType, DeleteGroupType, GoToType DEF Unprovision, At, TypeOK
<1>9. ASSUME UnprovisionFails(r) PROVE TypeOK'
  BY <1>9, TargetType, DeleteGroupType, EndType, SingleGroupAssumption, SMTT(30)
     DEF UnprovisionFails, At, TypeOK, Disturb, Fault
<1>10. ASSUME Drop(r) PROVE TypeOK'
  BY <1>10, TargetType, EndType DEF Drop, At, TypeOK
<1>11. ASSUME DropFails(r) PROVE TypeOK'
  BY <1>11, TargetType, EndType, SingleGroupAssumption DEF DropFails, At, TypeOK, Disturb, Fault
<1> QED
  BY <1>1, <1>2, <1>3, <1>4, <1>5, <1>6, <1>7, <1>8, <1>9, <1>10, <1>11 DEF Writes

(* What a check takes from the cache is a report, and it begins a probe    *)
(* now.                                                                    *)
LEMMA ConsultType ==
  ASSUME TypeOK, NEW r \in Requests, req[r] # Idle, NEW entry \in Reports \cup {NoEntry},
         Consult(r, entry)
  PROVE  /\ req' \in [Requests -> Jobs \cup {Idle}]
         /\ cache' \in [SloIds -> Reports \cup {NoEntry}]
<1>1. CASE Live(entry)
  <2>1. entry \in Reports /\ entry.verdict \in Verdicts
    BY <1>1 DEF Live, Reports
  <2>2. [req[r] EXCEPT !.pc = "decide", !.verdict = entry.verdict] \in Jobs
    BY <2>1 DEF TypeOK, Jobs
  <2> QED BY <1>1, <2>1, <2>2 DEF Consult, TypeOK
<1>2. CASE ~Live(entry)
  <2>1. [req[r] EXCEPT !.pc = "probe", !.start = now] \in Jobs
    BY DEF TypeOK, Jobs
  <2> QED BY <1>2, <2>1 DEF Consult, TypeOK
<1> QED BY <1>1, <1>2

(* A step of a check or a repair keeps the types.                          *)
LEMMA ChecksType ==
  ASSUME TypeOK, NEW r \in Requests, Checks(r)
  PROVE  TypeOK'
<1> USE DEF rulerVars, history
<1>1. ASSUME LookUp(r) PROVE TypeOK'
  <2>1. req[r] # Idle /\ cache[req[r].id] \in Reports \cup {NoEntry}
    BY <1>1, TargetType DEF LookUp, At, TypeOK
  <2> QED BY <1>1, <2>1, ConsultType DEF LookUp, TypeOK
<1>2. ASSUME Probe(r) PROVE TypeOK'
  <2>1. Truth(Target(r)) \in Verdicts
    BY <1>2, TargetType, SingleGroupAssumption DEF Probe, At, TypeOK, Truth, Verdicts, Present, Rules
  <2>2. [req[r] EXCEPT !.pc = "fill", !.verdict = Truth(Target(r))] \in Jobs
    BY <1>2, <2>1, ZenonT(30) DEF Probe, At, TypeOK, Jobs
  <2> QED BY <1>2, <2>2 DEF Probe, TypeOK
<1>3. ASSUME ProbeFails(r) PROVE TypeOK'
  <2>1. [req[r] EXCEPT !.pc = "fill", !.verdict = "unreachable"] \in Jobs /\ "unreachable" \in Verdicts
    BY <1>3, ZenonT(30) DEF ProbeFails, At, TypeOK, Jobs, Verdicts
  <2>2. req' \in [Requests -> Jobs \cup {Idle}]
    BY <1>3, <2>1, EndType DEF ProbeFails, TypeOK
  <2>3. heldAt' \in [Groups -> [Verdicts -> Times]]
    <3>1. \/ heldAt' = heldAt
          \/ heldAt' = [heldAt EXCEPT ![Target(r)]["unreachable"] = now]
      BY <1>3 DEF ProbeFails
    <3>2. Target(r) \in Groups /\ now \in Times
      BY <1>3, TargetType DEF ProbeFails, At, TypeOK
    <3> QED BY <2>1, <3>1, <3>2 DEF TypeOK
  <2> QED BY <1>3, <2>2, <2>3, SingleGroupAssumption DEF ProbeFails, TypeOK, Fault
<1>4. ASSUME Fill(r) PROVE TypeOK'
  <2>1. [group |-> Target(r), verdict |-> req[r].verdict, expires |-> req[r].start + HealthTTL] \in Reports
    BY <1>4, TargetType, SingleGroupAssumption DEF Fill, At, Reports, Jobs, Times
  <2> QED BY <1>4, <2>1, GoToType DEF Fill, At, TypeOK
<1>5. ASSUME Decide(r) PROVE TypeOK'
  BY <1>5, GoToType, EndType DEF Decide, At, TypeOK
<1>6. ASSUME Replay(r) PROVE TypeOK'
  <2>1. [req[r] EXCEPT !.pc = "recheck", !.wrote = TRUE] \in Jobs
    BY <1>6, ZenonT(30) DEF Replay, At, TypeOK, Jobs
  <2> QED BY <1>6, <2>1, TargetType, UpsertGroupType DEF Replay, At, TypeOK
<1>7. ASSUME ReplayFails(r) PROVE TypeOK'
  BY <1>7, TargetType, UpsertGroupType, EndType, SingleGroupAssumption
     DEF ReplayFails, At, TypeOK, Disturb, Fault
<1>8. ASSUME Recheck(r) PROVE TypeOK'
  BY <1>8, ConsultType DEF Recheck, At, TypeOK
<1> QED
  BY <1>1, <1>2, <1>3, <1>4, <1>5, <1>6, <1>7, <1>8 DEF Checks

(* Every step keeps the types.                                             *)
LEMMA StepType == TypeOK /\ [Next]_vars => TypeOK'
<1> SUFFICES ASSUME TypeOK, [Next]_vars PROVE TypeOK'
  OBVIOUS
<1>1. ASSUME NEW g \in Groups, Drift(g) PROVE TypeOK'
  <2>1. g[1] \in SloIds
    BY DEF Groups
  <2> QED BY <1>1, <2>1, DeleteGroupType, SingleGroupAssumption DEF Drift, Fault, TypeOK
<1>2. ASSUME Tick PROVE TypeOK'
  BY <1>2, SingleGroupAssumption DEF Tick, TypeOK, Times, rulerVars, history
<1>3. ASSUME Crash PROVE TypeOK'
  BY <1>3, SingleGroupAssumption DEF Crash, Fault, TypeOK, rulerVars
<1>4. CASE UNCHANGED vars
  BY <1>4 DEF vars, TypeOK
<1> QED BY <1>1, <1>2, <1>3, <1>4, StartsType, WritesType, ChecksType DEF Next

(* The model is type correct, whatever the constants.                      *)
THEOREM TypeCorrect == Spec => []TypeOK
BY InitType, StepType, PTL DEF Spec

-----------------------------------------------------------------------------
(* Kinds and awaits.                                                       *)

(* A request starts at an await of its kind.                               *)
LEMMA KindsStarts ==
  ASSUME TypeOK, Kinds, NEW r \in Requests, Starts(r)
  PROVE  Kinds'
BY DEF Starts, BeginCreate, BeginUpdate, BeginDelete, BeginRepair, BeginCheck, Begin, TypeOK, Kinds

(* A step of a write goes on to an await of its kind.                      *)
LEMMA KindsWrites ==
  ASSUME TypeOK, Kinds, NEW r \in Requests, Writes(r)
  PROVE  Kinds'
BY DEF Writes, CheckName, Upsert, UpsertFails, Save, SaveFails, Rollback, RollbackFails,
       Unprovision, UnprovisionFails, Drop, DropFails, GoTo, End, At, TypeOK, Jobs, Kinds

(* So does a step of a check or a repair.                                  *)
LEMMA KindsChecks ==
  ASSUME TypeOK, Kinds, NEW r \in Requests, Checks(r)
  PROVE  Kinds'
BY DEF Checks, LookUp, Probe, ProbeFails, Fill, Decide, Replay, ReplayFails, Recheck,
       Consult, GoTo, End, At, TypeOK, Jobs, Kinds

-----------------------------------------------------------------------------
(* How recent verdicts are.                                                *)

(* The ruler's history only moves forward: the last moment at which a      *)
(* group was what a verdict says is never taken back.                      *)
Forward ==
  /\ \A g \in Groups, v \in Verdicts : LastHeld(g, v) <= LastHeld(g, v)'
  /\ \A g \in Groups, v \in Verdicts : heldAt'[g][v] <= now'

(* What a probe finds of a group is a verdict, and never that the ruler    *)
(* cannot be reached.                                                      *)
LEMMA TruthType ==
  ASSUME TypeOK, NEW g \in Groups
  PROVE  Truth(g) \in Verdicts /\ Truth(g) # "unreachable"
BY SingleGroupAssumption DEF TypeOK, Truth, Verdicts, Present, Rules

(* A write of a group moves no moment of its history back.                 *)
LEMMA UpsertForward ==
  ASSUME TypeOK, Recent, NEW g \in Groups, NEW s \in Specs, UpsertGroup(g, s), UNCHANGED now
  PROVE  Forward
BY TruthType DEF UpsertGroup, Forward, LastHeld, Truth, TypeOK, Recent, Times

(* Neither does a removal.                                                 *)
LEMMA DeleteForward ==
  ASSUME TypeOK, Recent, NEW g \in Groups, DeleteGroup(g), UNCHANGED now
  PROVE  Forward
BY TruthType DEF DeleteGroup, Forward, LastHeld, Truth, TypeOK, Recent, Times

(* Neither does a step that leaves the groups alone.                       *)
LEMMA StayForward ==
  ASSUME TypeOK, Recent, UNCHANGED <<groups, heldAt>>, now' \in {now, now + 1}
  PROVE  Forward
BY TruthType DEF Forward, LastHeld, Truth, TypeOK, Recent, Times

(* What was recent stays recent, and what is new has to be.                *)
LEMMA RecentStep ==
  ASSUME TypeOK, TypeOK', Recent, Forward, now <= now',
         \A r \in Requests : req'[r] \in {req[r], Idle} \/ JobRecent(r)',
         \A i \in SloIds : cache'[i] \in {cache[i], NoEntry} \/ EntryRecent(i)'
  PROVE  Recent'
<1> now \in Nat /\ now' \in Nat /\ HealthTTL \in Nat
  BY SingleGroupAssumption DEF TypeOK, Times
<1>1. ASSUME NEW r \in Requests, req'[r] # Idle PROVE JobRecent(r)'
  <2>1. CASE req'[r] = req[r]
    <3>1. /\ JobRecent(r) /\ req[r] # Idle /\ req[r].start \in Nat
          /\ Target(r) \in Groups /\ Target(r)' = Target(r) /\ req[r].verdict \in Verdicts
      BY <1>1, <2>1, TargetType DEF Recent, Jobs, Times, Target
    <3>2. /\ LastHeld(Target(r), req[r].verdict) \in Nat
          /\ LastHeld(Target(r), req[r].verdict)' \in Nat
          /\ LastHeld(Target(r), req[r].verdict) <= LastHeld(Target(r), req[r].verdict)'
      <4>1. /\ heldAt \in [Groups -> [Verdicts -> Nat]]
            /\ heldAt' \in [Groups -> [Verdicts -> Nat]]
        BY DEF TypeOK, Times
      <4> QED BY <2>1, <3>1, <4>1 DEF Forward, LastHeld
    <3> QED BY <2>1, <3>1, <3>2 DEF JobRecent
  <2> QED BY <1>1, <2>1
<1>2. ASSUME NEW i \in SloIds, cache'[i] # NoEntry PROVE EntryRecent(i)'
  <2>1. CASE cache'[i] = cache[i]
    <3>1. /\ EntryRecent(i) /\ cache[i].expires \in Nat
          /\ cache[i].group \in Groups /\ cache[i].verdict \in Verdicts
      BY <1>2, <2>1 DEF Recent, Reports, TypeOK
    <3>2. /\ LastHeld(cache[i].group, cache[i].verdict) \in Nat
          /\ LastHeld(cache[i].group, cache[i].verdict)' \in Nat
          /\ LastHeld(cache[i].group, cache[i].verdict) <= LastHeld(cache[i].group, cache[i].verdict)'
      <4>1. /\ heldAt \in [Groups -> [Verdicts -> Nat]]
            /\ heldAt' \in [Groups -> [Verdicts -> Nat]]
        BY DEF TypeOK, Times
      <4> QED BY <2>1, <3>1, <4>1 DEF Forward, LastHeld
    <3> QED BY <2>1, <3>1, <3>2 DEF EntryRecent
  <2> QED BY <1>2, <2>1
<1> QED BY <1>1, <1>2 DEF Recent, Forward

(* A start keeps what is known of the age of verdicts.                     *)
LEMMA RecentStarts ==
  ASSUME TypeOK, TypeOK', Recent, NEW r \in Requests, Starts(r)
  PROVE  Recent'
<1>1. /\ UNCHANGED <<groups, heldAt, cache, now>>
      /\ \A q \in Requests : req'[q] = req[q] \/ (req'[q].start = 0 /\ req'[q].pc # "fill")
  BY DEF Starts, BeginCreate, BeginUpdate, BeginDelete, BeginRepair, BeginCheck, Begin, TypeOK
<1>2. \A q \in Requests : req'[q] \in {req[q], Idle} \/ JobRecent(q)'
  BY <1>1 DEF JobRecent, TypeOK, Times
<1>3. now <= now' /\ Forward
  BY <1>1, StayForward DEF TypeOK, Times
<1> QED BY <1>1, <1>2, <1>3, RecentStep

(* So does a step of a write.                                              *)
LEMMA RecentWrites ==
  ASSUME TypeOK, TypeOK', Recent, NEW r \in Requests, Writes(r)
  PROVE  Recent'
<1>1. /\ UNCHANGED <<cache, now>>
      /\ req[r] # Idle
      /\ \A q \in Requests : req'[q] \in {req[q], Idle} \/ JobRecent(q)'
  <2> SUFFICES ASSUME NEW q \in Requests
               PROVE  /\ UNCHANGED <<cache, now>> /\ req[r] # Idle
                      /\ \/ req'[q] \in {req[q], Idle}
                         \/ req'[q].start = req[q].start /\ req'[q].pc # "fill" /\ req[q] # Idle
    BY DEF JobRecent, Recent, TypeOK
  <2> QED
    BY DEF Writes, CheckName, Upsert, UpsertFails, Save, SaveFails, Rollback, RollbackFails,
       Unprovision, UnprovisionFails, Drop, DropFails, GoTo, End, At, TypeOK, Jobs
<1>2. \/ UNCHANGED <<groups, heldAt>>
      \/ UpsertGroup(Target(r), req[r].want)
      \/ DeleteGroup(Target(r))
  BY DEF Writes, CheckName, Upsert, UpsertFails, Save, SaveFails, Rollback, RollbackFails,
       Unprovision, UnprovisionFails, Drop, DropFails, rulerVars
<1>3. Forward /\ now <= now'
  BY <1>1, <1>2, TargetType, StayForward, UpsertForward, DeleteForward DEF TypeOK, Times
<1> QED BY <1>1, <1>3, RecentStep

(* A look-up takes what the cache has, or drops it and begins now.         *)
LEMMA ConsultRecent ==
  ASSUME TypeOK, TypeOK', Recent, NEW r \in Requests, req[r] # Idle,
         NEW entry \in {cache[req[r].id], NoEntry}, Consult(r, entry), UNCHANGED <<groups, heldAt, now>>
  PROVE  Recent'
<1>1. \A q \in Requests : req'[q] \in {req[q], Idle} \/ JobRecent(q)'
  <2>1. ASSUME NEW q \in Requests
        PROVE  \/ req'[q] = req[q]
               \/ req'[q].pc # "fill" /\ req'[q].start \in {req[r].start, now}
    BY DEF Consult, TypeOK, Jobs
  <2> QED BY <2>1 DEF JobRecent, Recent, TypeOK, Times
<1>2. \A i \in SloIds : cache'[i] \in {cache[i], NoEntry} \/ EntryRecent(i)'
  BY DEF Consult, TypeOK
<1>3. Forward /\ now <= now'
  BY StayForward DEF TypeOK, Times
<1> QED BY <1>1, <1>2, <1>3, RecentStep

(* So does a step of a check or a repair: a probe finds what holds now,    *)
(* and the cache is filled with what was found since the check began.      *)
LEMMA RecentChecks ==
  ASSUME TypeOK, TypeOK', Recent, NEW r \in Requests, Checks(r)
  PROVE  Recent'
<1> USE DEF rulerVars
<1>0. UNCHANGED now /\ now <= now' /\ req[r] # Idle
  BY DEF Checks, LookUp, Probe, ProbeFails, Fill, Decide, Replay, ReplayFails, Recheck, At, TypeOK, Times
<1>1. ASSUME LookUp(r) PROVE Recent'
  BY <1>0, <1>1, ConsultRecent DEF LookUp
<1>2. ASSUME Recheck(r) PROVE Recent'
  BY <1>0, <1>2, ConsultRecent DEF Recheck
<1>3. ASSUME Probe(r) PROVE Recent'
  <2>1. Forward /\ UNCHANGED <<cache, groups, heldAt>>
    BY <1>3, StayForward DEF Probe
  <2>2. \A q \in Requests \ {r} : req'[q] = req[q]
    BY <1>3 DEF Probe, TypeOK
  <2>3. JobRecent(r)'
    <3>1. /\ req'[r].start = req[r].start /\ req'[r].verdict = Truth(Target(r)) /\ Target(r)' = Target(r)
      BY <1>0, <1>3, TargetType DEF Probe, Jobs, Target, TypeOK
    <3> QED BY <1>0, <2>1, <3>1 DEF JobRecent, Recent, LastHeld, Truth
  <2> QED BY <1>0, <2>1, <2>2, <2>3, RecentStep
<1>4. ASSUME ProbeFails(r) PROVE Recent'
  <2>1. CASE End(r) /\ UNCHANGED heldAt
    <3>1. Forward /\ UNCHANGED cache
      BY <1>0, <1>4, <2>1, StayForward DEF ProbeFails
    <3>2. \A q \in Requests : req'[q] \in {req[q], Idle}
      BY <2>1 DEF End, TypeOK
    <3> QED BY <1>0, <3>1, <3>2, RecentStep
  <2>2. CASE /\ req' = [req EXCEPT ![r].pc = "fill", ![r].verdict = "unreachable"]
             /\ heldAt' = [heldAt EXCEPT ![Target(r)]["unreachable"] = now]
    <3>1. /\ req'[r].start = req[r].start /\ req'[r].verdict = "unreachable" /\ Target(r)' = Target(r)
          /\ \A q \in Requests \ {r} : req'[q] = req[q]
          /\ Target(r) \in Groups
      BY <1>0, <2>2, TargetType DEF Jobs, Target, TypeOK
    <3>2. UNCHANGED <<groups, cache>>
      BY <1>4 DEF ProbeFails
    <3>3. Forward
      BY <1>0, <2>2, <3>1, <3>2, TruthType DEF Forward, LastHeld, Truth, TypeOK, Recent, Times, Verdicts
    <3>4. JobRecent(r)'
      BY <1>0, <2>2, <3>1, <3>2 DEF JobRecent, Recent, LastHeld, Truth, TypeOK, Verdicts
    <3> QED BY <1>0, <3>1, <3>2, <3>3, <3>4, RecentStep
  <2> QED BY <1>4, <2>1, <2>2 DEF ProbeFails
<1>5. ASSUME Fill(r) PROVE Recent'
  <2>1. Forward
    BY <1>0, <1>5, StayForward DEF Fill
  <2>2. \A q \in Requests : req'[q] \in {req[q], Idle} \/ JobRecent(q)'
    BY <1>0, <1>5 DEF Fill, GoTo, JobRecent, Recent, TypeOK, Jobs
  <2>3. \A i \in SloIds : cache'[i] \in {cache[i], NoEntry} \/ EntryRecent(i)'
    <3>1. /\ req[r].start <= LastHeld(Target(r), req[r].verdict)
          /\ req[r].start \in Nat /\ LastHeld(Target(r), req[r].verdict) \in Nat
          /\ HealthTTL \in Nat /\ req[r].id \in SloIds
      <4>1. Target(r) \in Groups /\ req[r].verdict \in Verdicts /\ req[r].start \in Nat
        BY <1>0, TargetType DEF Jobs, Times
      <4> QED BY <1>0, <1>5, <4>1, TargetType, SingleGroupAssumption
              DEF Fill, At, Recent, JobRecent, LastHeld, TypeOK, Times
    <3>2. /\ cache'[req[r].id].group = Target(r) /\ cache'[req[r].id].verdict = req[r].verdict
          /\ cache'[req[r].id].expires = req[r].start + HealthTTL
          /\ \A i \in SloIds \ {req[r].id} : cache'[i] = cache[i]
      BY <1>5, <3>1 DEF Fill, TypeOK
    <3>3. LastHeld(Target(r), req[r].verdict) =
            (IF Truth(Target(r)) = req[r].verdict THEN now' ELSE heldAt'[Target(r)][req[r].verdict])
      BY <1>0, <1>5 DEF Fill, LastHeld
    <3>4. groups' = groups
      BY <1>5 DEF Fill
    <3> QED BY <3>1, <3>2, <3>3, <3>4 DEF EntryRecent, LastHeld, Truth
  <2> QED BY <1>0, <2>1, <2>2, <2>3, RecentStep
<1>6. ASSUME Decide(r) \/ Replay(r) \/ ReplayFails(r) PROVE Recent'
  <2>1. \/ UNCHANGED <<groups, heldAt>>
        \/ UpsertGroup(Target(r), req[r].want)
    BY <1>6 DEF Decide, Replay, ReplayFails
  <2>2. Forward /\ UNCHANGED cache
    BY <1>0, <1>6, <2>1, TargetType, StayForward, UpsertForward DEF Decide, Replay, ReplayFails
  <2>3. \A q \in Requests :
          \/ req'[q] \in {req[q], Idle}
          \/ req'[q].start = req[q].start /\ req'[q].pc # "fill" /\ req[q] # Idle
    BY <1>6 DEF Decide, Replay, ReplayFails, GoTo, End, At, TypeOK, Jobs
  <2>4. \A q \in Requests : req'[q] \in {req[q], Idle} \/ JobRecent(q)'
    BY <1>0, <2>3 DEF JobRecent, Recent
  <2> QED BY <1>0, <2>2, <2>4, RecentStep
<1> QED BY <1>1, <1>2, <1>3, <1>4, <1>5, <1>6 DEF Checks

(* So does every step.                                                     *)
LEMMA RecentNext ==
  ASSUME TypeOK, TypeOK', Recent, [Next]_vars
  PROVE  Recent'
<1>1. ASSUME NEW g \in Groups, Drift(g) PROVE Recent'
  <2>1. Forward /\ now <= now' /\ UNCHANGED <<req, cache>>
    BY <1>1, DeleteForward DEF Drift, TypeOK, Times
  <2> QED BY <2>1, RecentStep
<1>2. ASSUME Tick \/ UNCHANGED vars PROVE Recent'
  <2>1. UNCHANGED <<groups, heldAt, req, cache>> /\ now' \in {now, now + 1}
    BY <1>2 DEF Tick, rulerVars, vars
  <2>2. Forward /\ now <= now'
    BY <2>1, StayForward DEF TypeOK, Times
  <2> QED BY <2>1, <2>2, RecentStep
<1>3. ASSUME Crash PROVE Recent'
  <2>1. Forward /\ now <= now'
    BY <1>3, StayForward DEF Crash, rulerVars, TypeOK, Times
  <2>2. /\ \A r \in Requests : req'[r] = Idle
        /\ \A i \in SloIds : cache'[i] = NoEntry
    BY <1>3 DEF Crash
  <2> QED BY <2>1, <2>2, RecentStep
<1> QED BY <1>1, <1>2, <1>3, RecentStarts, RecentWrites, RecentChecks DEF Next

-----------------------------------------------------------------------------
(* What repairs wrote.                                                     *)

\* A step of the ruler: at most one group is written or removed.
RulerStep ==
  \/ UNCHANGED <<groups, undone>>
  \/ \E g \in Groups, s \in Specs : UpsertGroup(g, s)
  \/ \E g \in Groups : DeleteGroup(g)

(* A group that is ok stays so until it is removed, which is noted for the *)
(* repairs that wrote it.                                                  *)
LEMMA OkStays ==
  ASSUME TypeOK, RulerStep, NEW r \in Requests, req[r] # Idle, req[r].wrote, r \notin undone',
         Truth(Target(r)) = "ok"
  PROVE  /\ groups'[Target(r)] # Absent /\ groups'[Target(r)].age = "ok"
         /\ r \notin undone
<1>1. Target(r) \in Groups
  BY TargetType
<1>2. groups[Target(r)] # Absent /\ groups[Target(r)].age = "ok"
  BY DEF Truth
<1>3. ASSUME NEW g \in Groups, NEW s \in Specs, UpsertGroup(g, s)
      PROVE  groups'[Target(r)] # Absent /\ groups'[Target(r)].age = "ok" /\ r \notin undone
  <2>1. [spec |-> s, age |-> "ok"] \in Rules
    BY DEF Rules, Present
  <2> QED
    BY <1>1, <1>2, <1>3, <2>1, SingleGroupAssumption DEF UpsertGroup, TypeOK
<1>4. ASSUME NEW g \in Groups, DeleteGroup(g)
      PROVE  groups'[Target(r)] # Absent /\ groups'[Target(r)].age = "ok" /\ r \notin undone
  BY <1>1, <1>2, <1>4 DEF DeleteGroup, TypeOK
<1> QED BY <1>2, <1>3, <1>4 DEF RulerStep

(* What the other repairs wrote is left to them.                           *)
LEMMA OwnWritesStep ==
  ASSUME TypeOK, OwnWrites, RulerStep, NEW r \in Requests,
         \A q \in Requests \ {r} : req'[q] \in {req[q], Idle},
         OwnWrite(r)'
  PROVE  OwnWrites'
<1> SUFFICES ASSUME NEW q \in Requests \ {r} PROVE OwnWrite(q)'
  BY DEF OwnWrites
<1>1. CASE req'[q] = req[q] /\ req[q] # Idle /\ req[q].wrote /\ q \notin undone'
  <2>1. q \notin undone
    BY <1>1 DEF RulerStep, UpsertGroup, DeleteGroup
  <2>2. /\ Truth(Target(q)) = "ok"
        /\ req[q].pc \in {"fill", "decide"} => req[q].verdict \in {"ok", "unreachable"}
    BY <1>1, <2>1 DEF OwnWrites, OwnWrite
  <2>3. groups'[Target(q)] # Absent /\ groups'[Target(q)].age = "ok" /\ Target(q)' = Target(q)
    BY <1>1, <2>2, OkStays DEF Target
  <2> QED BY <1>1, <2>2, <2>3 DEF OwnWrite, Truth
<1> QED BY <1>1 DEF OwnWrite

(* A start has not written, and takes away nothing.                        *)
LEMMA OwnWritesStarts ==
  ASSUME TypeOK, OwnWrites, NEW r \in Requests, Starts(r)
  PROVE  OwnWrites'
<1>1. /\ UNCHANGED groups /\ undone' = undone \ {r}
      /\ \A q \in Requests \ {r} : req'[q] = req[q]
      /\ req'[r].wrote = FALSE
  BY DEF Starts, BeginCreate, BeginUpdate, BeginDelete, BeginRepair, BeginCheck, Begin, TypeOK
<1> QED BY <1>1 DEF OwnWrites, OwnWrite, Truth, Target

(* A write of another request leaves a repaired group ok, or is recorded   *)
(* as its undoing.                                                         *)
LEMMA OwnWritesWrites ==
  ASSUME TypeOK, Kinds, OwnWrites, NEW r \in Requests, Writes(r)
  PROVE  OwnWrites'
<1>1. /\ \A q \in Requests \ {r} : req'[q] = req[q]
      /\ req[r] # Idle /\ (req'[r] # Idle => req'[r].wrote = req[r].wrote)
      /\ req[r].pc \notin {"recheck", "probe", "fill", "decide"}
  BY DEF Writes, CheckName, Upsert, UpsertFails, Save, SaveFails, Rollback, RollbackFails,
     Unprovision, UnprovisionFails, Drop, DropFails, GoTo, End, At, TypeOK, Jobs
<1>2. OwnWrite(r)'
  BY <1>1 DEF Kinds, OwnWrite
<1>3. RulerStep
  BY <1>1, TargetType DEF Writes, CheckName, Upsert, UpsertFails, Save, SaveFails, Rollback,
     RollbackFails, Unprovision, UnprovisionFails, Drop, DropFails, rulerVars, RulerStep
<1> QED BY <1>1, <1>2, <1>3, OwnWritesStep

(* A repair that has written finds its group ok, as its next check asks    *)
(* the ruler and not the cache.                                            *)
LEMMA OwnWritesChecks ==
  ASSUME TypeOK, Kinds, OwnWrites, NEW r \in Requests, Checks(r)
  PROVE  OwnWrites'
<1> USE DEF rulerVars
<1>1. /\ \A q \in Requests \ {r} : req'[q] = req[q]
      /\ req[r] # Idle
  BY DEF Checks, LookUp, Probe, ProbeFails, Fill, Decide, Replay, ReplayFails, Recheck, Consult,
     GoTo, End, At, TypeOK
<1>2. RulerStep
  BY <1>1, TargetType DEF Checks, LookUp, Probe, ProbeFails, Fill, Decide, Replay, ReplayFails,
     Recheck, RulerStep
<1>3. ASSUME Probe(r) PROVE OwnWrite(r)'
  <2>1. /\ UNCHANGED <<groups, undone>> /\ Target(r)' = Target(r)
        /\ (req'[r].wrote => req[r].wrote) /\ req'[r].verdict = Truth(Target(r))
    BY <1>1, <1>3 DEF Probe, TypeOK, Jobs, Target
  <2>2. OwnWrite(r) /\ Truth(Target(r))' = Truth(Target(r))
    BY <2>1 DEF OwnWrites, Truth
  <2> QED BY <1>1, <2>1, <2>2 DEF OwnWrite
<1>4. ASSUME Replay(r) PROVE OwnWrite(r)'
  <2>1. req'[r].pc = "recheck" /\ Target(r)' = Target(r)
    BY <1>1, <1>4 DEF Replay, TypeOK, Jobs, Target
  <2>2. groups'[Target(r)] = [spec |-> req[r].want, age |-> "ok"] /\ groups'[Target(r)] # Absent
    <3>1. [spec |-> req[r].want, age |-> "ok"] \in Rules
      BY <1>1, TargetType DEF Rules, Present
    <3> QED BY <1>1, <1>4, <3>1, TargetType, SingleGroupAssumption DEF Replay, UpsertGroup, TypeOK
  <2> QED BY <2>1, <2>2 DEF OwnWrite, Truth
<1>5. ASSUME LookUp(r) \/ Fill(r) \/ Decide(r) \/ ReplayFails(r) \/ ProbeFails(r) \/ Recheck(r)
      PROVE  OwnWrite(r)'
  <2>1. CASE req'[r] = Idle
    BY <2>1 DEF OwnWrite
  <2>2. CASE req'[r] # Idle /\ ~req'[r].wrote
    BY <2>2 DEF OwnWrite
  <2>3. CASE req'[r] # Idle /\ req'[r].wrote
    <3>1. /\ UNCHANGED <<groups, undone>> /\ Target(r)' = Target(r) /\ req[r].wrote
          /\ req'[r].pc \in {"fill", "decide"} =>
               \/ req'[r].verdict = "unreachable"
               \/ req[r].pc \in {"fill", "decide"} /\ req'[r].verdict = req[r].verdict
      BY <1>1, <1>5, <2>3 DEF Kinds, LookUp, ProbeFails, Fill, Decide, ReplayFails, Recheck, Consult, Live,
         GoTo, End, At, TypeOK, Jobs, Target
    <3>2. OwnWrite(r) /\ Truth(Target(r))' = Truth(Target(r))
      BY <3>1 DEF OwnWrites, Truth
    <3>3. r \notin undone' => Truth(Target(r)) = "ok"
      BY <1>1, <3>1, <3>2 DEF OwnWrite
    <3>4. r \notin undone' /\ req'[r].pc \in {"fill", "decide"} => req'[r].verdict \in {"ok", "unreachable"}
      BY <1>1, <3>1, <3>2 DEF OwnWrite
    <3> QED BY <3>2, <3>3, <3>4 DEF OwnWrite
  <2> QED BY <2>1, <2>2, <2>3
<1> QED BY <1>1, <1>2, <1>3, <1>4, <1>5, OwnWritesStep DEF Checks

(* Every step keeps what repairs have written.                             *)
LEMMA OwnWritesNext ==
  ASSUME TypeOK, Kinds, OwnWrites, [Next]_vars
  PROVE  OwnWrites'
<1>1. ASSUME RulerStep, \A q \in Requests : req'[q] \in {req[q], Idle}
      PROVE  OwnWrites'
  <2> SUFFICES ASSUME NEW q \in Requests PROVE OwnWrite(q)'
    BY DEF OwnWrites
  <2>1. CASE req'[q] = Idle
    BY <2>1 DEF OwnWrite
  <2>2. CASE req'[q] = req[q] /\ req[q] # Idle /\ req[q].wrote /\ q \notin undone'
    <3>1. q \notin undone
      BY <1>1, <2>2 DEF RulerStep, UpsertGroup, DeleteGroup
    <3>2. OwnWrite(q)
      BY DEF OwnWrites
    <3>3. groups'[Target(q)] # Absent /\ groups'[Target(q)].age = "ok" /\ Target(q)' = Target(q)
      BY <1>1, <2>2, <3>1, <3>2, OkStays DEF OwnWrite, Target
    <3> QED BY <2>2, <3>1, <3>2, <3>3 DEF OwnWrite, Truth
  <2> QED BY <1>1, <2>1, <2>2 DEF OwnWrite
<1>2. ASSUME NEW g \in Groups, Drift(g) PROVE OwnWrites'
  BY <1>1, <1>2 DEF Drift, RulerStep
<1>3. ASSUME Tick \/ UNCHANGED vars PROVE OwnWrites'
  BY <1>1, <1>3 DEF Tick, vars, rulerVars, RulerStep
<1>4. ASSUME Crash PROVE OwnWrites'
  BY <1>1, <1>4 DEF Crash, rulerVars, RulerStep
<1> QED BY <1>2, <1>3, <1>4, OwnWritesStarts, OwnWritesWrites, OwnWritesChecks DEF Next

-----------------------------------------------------------------------------
(* Documents and ruler.                                                    *)

(* A write of one's own group.                                             *)
LEMMA OwnGroupWritten ==
  ASSUME TypeOK, NEW r \in Requests, req[r] # Idle, UpsertGroup(Target(r), req[r].want)
  PROVE  /\ groups'[Target(r)] # Absent /\ groups'[Target(r)].spec = req[r].want
         /\ \A i \in SloIds, n \in Names :
              i # req[r].id \/ n # NameOf[req[r].want] => groups'[<<i, n>>] = groups[<<i, n>>]
<1>1. [spec |-> req[r].want, age |-> "ok"] \in Rules
  BY TargetType DEF Rules, Present
<1>2. groups'[Target(r)] = [spec |-> req[r].want, age |-> "ok"]
  BY TargetType DEF UpsertGroup, TypeOK
<1>3. ASSUME NEW i \in SloIds, NEW n \in Names, i # req[r].id \/ n # NameOf[req[r].want]
      PROVE  groups'[<<i, n>>] = groups[<<i, n>>]
  BY <1>3, TargetType DEF UpsertGroup, TypeOK, Groups
<1> QED BY <1>1, <1>2, <1>3, SingleGroupAssumption

(* A removal takes the request's own group and leaves the others.          *)
LEMMA OwnGroupRemoved ==
  ASSUME TypeOK, NEW r \in Requests, req[r] # Idle, DeleteGroup(Target(r))
  PROVE  /\ groups'[Target(r)] = Absent
         /\ \A i \in SloIds, n \in Names :
              i # req[r].id \/ n # NameOf[req[r].want] => groups'[<<i, n>>] = groups[<<i, n>>]
BY TargetType DEF DeleteGroup, TypeOK, Groups

\* Nothing of SLO i is touched.
Untouched(i) == docs'[i] = docs[i] /\ \A n \in Names : groups'[<<i, n>>] = groups[<<i, n>>]

(* An SLO whose document and groups are left alone is in step as before.   *)
LEMMA UntouchedStays ==
  ASSUME NEW i \in SloIds, Untouched(i)
  PROVE  /\ Agree(i) => Agree(i)'
         /\ \A j \in Jobs : j.id = i /\ Stage(j) => Stage(j)'
<1>1. Agree(i)' <=> Agree(i)
  BY DEF Untouched, Agree
<1>2. ASSUME NEW j \in Jobs, j.id = i, Stage(j) PROVE Stage(j)'
  <2>1. NameOf[j.want] \in Names
    BY SingleGroupAssumption DEF Jobs
  <2> QED BY <1>1, <1>2, <2>1 DEF Untouched, Stage
<1> QED BY <1>1, <1>2

(* A step of request r, which goes on as job j and touches only its SLO.   *)
LEMMA InStepStep ==
  ASSUME TypeOK, InStep, disturbed \subseteq disturbed',
         NEW r \in Requests, req[r] # Idle, NEW k \in SloIds, req[r].id = k,
         NEW j \in Jobs \cup {Idle}, req' = [req EXCEPT ![r] = j],
         j # Idle => j.id = k /\ j.kind = req[r].kind,
         \A i \in SloIds \ {k} : Untouched(i),
         IF ~Changes(req[r].kind) THEN Untouched(k)
         ELSE k \notin disturbed' => (j = Idle => Agree(k)') /\ (j # Idle => Stage(j)')
  PROVE  InStep'
<1>1. \A q \in Requests, i \in SloIds : MayWrite(q, i)' => MayWrite(q, i)
  BY DEF MayWrite, TypeOK
<1>2. ASSUME NEW i \in SloIds, i \notin disturbed', NEW q \in Requests, NEW p \in Requests,
             MayWrite(p, i)', MayWrite(q, i)'
      PROVE  p = q
  BY <1>1, <1>2 DEF InStep
<1>3. ASSUME NEW i \in SloIds, i \notin disturbed', Untouched(i), i # k \/ ~Changes(req[r].kind)
      PROVE  /\ (\A q \in Requests : ~MayWrite(q, i)') => Agree(i)'
             /\ \A q \in Requests : MayWrite(q, i)' => Stage(req[q])'
  <2>1. \A q \in Requests : MayWrite(q, i) <=> MayWrite(q, i)'
    BY <1>3 DEF MayWrite, TypeOK
  <2>2. (\A q \in Requests : ~MayWrite(q, i)') => Agree(i)'
    BY <1>3, <2>1, UntouchedStays DEF InStep
  <2>3. ASSUME NEW q \in Requests, MayWrite(q, i)' PROVE Stage(req[q])'
    <3>1. /\ q # r /\ req'[q] = req[q] /\ req[q] \in Jobs /\ req[q].id = i /\ Stage(req[q])
      BY <1>3, <2>1, <2>3 DEF InStep, MayWrite, TypeOK
    <3>2. \A job \in Jobs : job.id = i /\ Stage(job) => Stage(job)'
      BY <1>3, UntouchedStays
    <3> QED BY <3>1, <3>2 DEF Stage, Agree
  <2> QED BY <2>2, <2>3
<1>4. ASSUME k \notin disturbed', Changes(req[r].kind)
      PROVE  /\ (\A q \in Requests : ~MayWrite(q, k)') => Agree(k)'
             /\ \A q \in Requests : MayWrite(q, k)' => Stage(req[q])'
  <2>1. \A q \in Requests : MayWrite(q, k)' => q = r
    <3>1. MayWrite(r, k) /\ k \notin disturbed
      BY <1>4 DEF MayWrite
    <3> QED BY <1>1, <3>1 DEF InStep
  <2>2. j # Idle => MayWrite(r, k)'
    BY <1>4 DEF MayWrite, TypeOK
  <2>3. req'[r] = j
    BY DEF TypeOK
  <2>4. CASE j = Idle
    BY <1>4, <2>1, <2>3, <2>4 DEF MayWrite
  <2>5. CASE j # Idle
    <3>1. Stage(req[r])'
      BY <1>4, <2>3, <2>5 DEF Stage, Agree
    <3> QED BY <2>1, <2>2, <2>5, <3>1
  <2> QED BY <2>4, <2>5
<1>5. ASSUME NEW i \in SloIds, i \notin disturbed'
      PROVE  /\ (\A q \in Requests : ~MayWrite(q, i)') => Agree(i)'
             /\ \A q \in Requests : MayWrite(q, i)' => Stage(req[q])'
  <2>1. CASE i = k /\ Changes(req[r].kind)
    BY <1>4, <1>5, <2>1
  <2>2. CASE ~(i = k /\ Changes(req[r].kind))
    <3>1. Untouched(i)
      BY <2>2
    <3> QED BY <1>3, <1>5, <2>2, <3>1
  <2> QED BY <2>1, <2>2
<1> QED BY <1>2, <1>5 DEF InStep

(* A start leaves the undisturbed SLOs in step: a second request that may  *)
(* write disturbs its SLO.                                                 *)
LEMMA InStepBegin ==
  ASSUME TypeOK, InStep, NEW r \in Requests, NEW i \in SloIds, NEW s \in Specs,
         NEW kind \in {"create", "update", "delete", "repair", "check"},
         NEW p \in {"name", "upsert", "unprovision", "check"}, Begin(r, kind, p, i, s),
         p \in {"name", "upsert"} \/ docs[i] = s
  PROVE  InStep'
<1> DEFINE job == [kind |-> kind, pc |-> p, id |-> i, want |-> s, start |-> 0,
                   verdict |-> "ok", wrote |-> FALSE]
<1>1. /\ req[r] = Idle /\ req'[r] = job /\ \A q \in Requests \ {r} : req'[q] = req[q]
      /\ UNCHANGED <<docs, groups>> /\ disturbed \subseteq disturbed'
      /\ Changes(kind) /\ Overlaps(i) => i \in disturbed'
  BY DEF Begin, TypeOK
<1>2. job \in Jobs /\ job # Idle
  <2>1. job \in Jobs
    BY SingleGroupAssumption DEF Jobs, Verdicts, Present, Times
  <2> QED BY <2>1, SingleGroupAssumption
<1>3. \A k \in SloIds : Untouched(k)
  BY <1>1 DEF Untouched
<1>4. ASSUME NEW k \in SloIds, k \notin disturbed', NEW q \in Requests, MayWrite(q, k)'
      PROVE  \/ q # r /\ MayWrite(q, k) /\ req'[q] = req[q]
             \/ q = r /\ k = i /\ Changes(kind) /\ \A o \in Requests : ~MayWrite(o, k)
  BY <1>1, <1>2, <1>4 DEF MayWrite, Overlaps
<1>5. ASSUME NEW k \in SloIds, k \notin disturbed', NEW q \in Requests, MayWrite(q, k)'
      PROVE  Stage(req[q])'
  <2>1. CASE q # r
    <3>1. MayWrite(q, k) /\ req'[q] = req[q] /\ req[q] \in Jobs /\ req[q].id = k
      BY <1>4, <1>5, <2>1 DEF MayWrite, TypeOK
    <3>2. Stage(req[q])
      BY <1>1, <1>5, <3>1 DEF InStep
    <3>3. \A j \in Jobs : j.id = k /\ Stage(j) => Stage(j)'
      BY <1>3, UntouchedStays
    <3> QED BY <3>1, <3>2, <3>3 DEF Stage, Agree
  <2>2. CASE q = r
    <3>1. Agree(i)
      BY <1>1, <1>4, <1>5, <2>2 DEF InStep
    <3>2. Agree(i)'
      BY <1>3, <3>1, UntouchedStays
    <3> QED BY <1>1, <2>2, <3>2 DEF Stage, Agree
  <2> QED BY <2>1, <2>2
<1>6. ASSUME NEW k \in SloIds, k \notin disturbed', \A q \in Requests : ~MayWrite(q, k)'
      PROVE  Agree(k)'
  <2>1. \A q \in Requests : ~MayWrite(q, k)
    BY <1>1, <1>6 DEF MayWrite
  <2>2. Agree(k)
    BY <1>1, <1>6, <2>1 DEF InStep
  <2> QED BY <1>3, <2>2, UntouchedStays
<1>7. ASSUME NEW k \in SloIds, k \notin disturbed', NEW o \in Requests, NEW q \in Requests,
             MayWrite(o, k)', MayWrite(q, k)'
      PROVE  o = q
  BY <1>1, <1>4, <1>7 DEF InStep
<1> QED BY <1>5, <1>6, <1>7 DEF InStep

(* So does every kind of start.                                            *)
LEMMA InStepStarts ==
  ASSUME TypeOK, InStep, NEW r \in Requests, Starts(r)
  PROVE  InStep'
<1>1. ASSUME NEW i \in SloIds, NEW s \in Specs, BeginCreate(r, i, s) \/ BeginUpdate(r, i, s)
      PROVE  InStep'
  BY <1>1, InStepBegin DEF BeginCreate, BeginUpdate
<1>2. ASSUME NEW i \in SloIds, BeginDelete(r, i) \/ BeginRepair(r, i) \/ BeginCheck(r, i)
      PROVE  InStep'
  <2>1. docs[i] \in Specs
    BY <1>2 DEF BeginDelete, BeginRepair, BeginCheck, TypeOK
  <2> QED BY <1>2, <2>1, InStepBegin DEF BeginDelete, BeginRepair, BeginCheck
<1> QED BY <1>1, <1>2 DEF Starts

(* What an undisturbed request that writes may rely on.                    *)
LEMMA AtStage ==
  ASSUME TypeOK, Kinds, InStep, NEW r \in Requests, req[r] # Idle, req[r].id \notin disturbed,
         Changes(req[r].kind)
  PROVE  Stage(req[r])
BY TargetType DEF InStep, MayWrite

(* A step of a write takes its SLO from one stage to the next, or disturbs *)
(* it, and leaves every other SLO alone.                                   *)
LEMMA InStepWrites ==
  ASSUME TypeOK, TypeOK', Kinds, InStep, NEW r \in Requests, Writes(r)
  PROVE  InStep'
<1> USE DEF rulerVars
<1>1. req[r] # Idle /\ disturbed \subseteq disturbed' /\ Changes(req[r].kind)
  BY DEF Writes, CheckName, Upsert, UpsertFails, Save, SaveFails, Rollback, RollbackFails, Disturb,
     Unprovision, UnprovisionFails, Drop, DropFails, At, Kinds, Changes
<1>2. PICK k \in SloIds : k = req[r].id
  BY <1>1, TargetType
<1>3. PICK w \in Specs : w = req[r].want
  BY <1>1, TargetType
<1>4. PICK j \in Jobs \cup {Idle} :
        /\ req' = [req EXCEPT ![r] = j]
        /\ j # Idle => j.id = k /\ j.kind = req[r].kind /\ j.want = w
  <2>1. req' = [req EXCEPT ![r] = req'[r]]
    BY DEF Writes, CheckName, Upsert, UpsertFails, Save, SaveFails, Rollback, RollbackFails, GoTo, End,
       Unprovision, UnprovisionFails, Drop, DropFails, TypeOK
  <2>2. req'[r] # Idle => req'[r].id = k /\ req'[r].kind = req[r].kind /\ req'[r].want = w
    BY <1>1, <1>2, <1>3
    DEF Writes, CheckName, Upsert, UpsertFails, Save, SaveFails, Rollback, RollbackFails, GoTo, End,
       Unprovision, UnprovisionFails, Drop, DropFails, TypeOK, Jobs
  <2> QED BY <2>1, <2>2 DEF TypeOK
<1>5. \A i \in SloIds \ {k} : Untouched(i)
  <2>1. \A i \in SloIds \ {k} : docs'[i] = docs[i]
    BY <1>2 DEF Writes, CheckName, Upsert, UpsertFails, Save, SaveFails, Rollback, RollbackFails,
       Unprovision, UnprovisionFails, Drop, DropFails, TypeOK
  <2>2. \/ UNCHANGED groups
        \/ UpsertGroup(Target(r), req[r].want)
        \/ DeleteGroup(Target(r))
    BY DEF Writes, CheckName, Upsert, UpsertFails, Save, SaveFails, Rollback, RollbackFails,
       Unprovision, UnprovisionFails, Drop, DropFails
  <2>3. \A i \in SloIds \ {k}, n \in Names : groups'[<<i, n>>] = groups[<<i, n>>]
    <3>1. CASE UpsertGroup(Target(r), req[r].want)
      BY <1>1, <1>2, <3>1, OwnGroupWritten
    <3>2. CASE DeleteGroup(Target(r))
      BY <1>1, <1>2, <3>2, OwnGroupRemoved
    <3> QED BY <2>2, <3>1, <3>2
  <2> QED BY <2>1, <2>3 DEF Untouched
<1>6. ASSUME k \notin disturbed' PROVE (j = Idle => Agree(k)') /\ (j # Idle => Stage(j)')
  <2>0. /\ Stage(req[r]) /\ j = req'[r] /\ NameOf[w] \in Names
        /\ docs[k] # NoDoc => NameOf[docs[k]] \in Names
    BY <1>1, <1>2, <1>4, <1>6, AtStage, SingleGroupAssumption DEF TypeOK
  <2>1. ASSUME CheckName(r) PROVE (j = Idle => Agree(k)') /\ (j # Idle => Stage(j)')
    BY <1>1, <1>2, <1>3, <1>4, <2>0, <2>1 DEF Agree, Stage, CheckName, GoTo, End, At, TypeOK, Jobs
  <2>2. ASSUME Upsert(r) PROVE (j = Idle => Agree(k)') /\ (j # Idle => Stage(j)')
    <3>1. /\ j # Idle /\ j.pc = "save" /\ j.id = k /\ j.want = w /\ UNCHANGED docs /\ Agree(k)
      BY <1>1, <1>2, <1>3, <1>4, <2>0, <2>2, SingleGroupAssumption DEF Stage, Upsert, GoTo, At, TypeOK, Jobs
    <3>2. /\ groups'[<<k, NameOf[w]>>] # Absent /\ groups'[<<k, NameOf[w]>>].spec = w
          /\ \A n \in Names : n # NameOf[w] => groups'[<<k, n>>] = groups[<<k, n>>]
      BY <1>1, <1>2, <1>3, <2>2, TargetType, OwnGroupWritten DEF Upsert
    <3> QED BY <3>1, <3>2 DEF Agree, Stage
  <2>3. ASSUME Save(r) PROVE (j = Idle => Agree(k)') /\ (j # Idle => Stage(j)')
    <3>1. /\ j = Idle /\ docs'[k] = w /\ w # NoDoc /\ UNCHANGED groups
          /\ docs[k] # NoDoc => NameOf[docs[k]] = NameOf[w]
      BY <1>1, <1>2, <1>3, <1>4, <1>6, <2>0, <2>3, SingleGroupAssumption DEF Save, Renames, End, At, TypeOK
    <3>2. /\ groups[<<k, NameOf[w]>>] # Absent /\ groups[<<k, NameOf[w]>>].spec = w
          /\ \A n \in Names : groups[<<k, n>>] # Absent => n = NameOf[w]
      BY <1>2, <1>3, <2>0, <2>3, <3>1 DEF Stage, Agree, Save, At
    <3>3. Agree(k)'
      BY <3>1, <3>2 DEF Agree
    <3> QED BY <3>1, <3>3
  <2>4. ASSUME SaveFails(r) PROVE (j = Idle => Agree(k)') /\ (j # Idle => Stage(j)')
    <3>1. /\ j # Idle /\ j.pc = "rollback" /\ j.id = k /\ j.want = w
          /\ docs[k] = NoDoc /\ UNCHANGED <<docs, groups>>
      BY <1>1, <1>2, <1>3, <1>4, <1>6, <2>0, <2>4, SingleGroupAssumption
         DEF Stage, SaveFails, Disturb, GoTo, At, TypeOK, Jobs
    <3>2. \A n \in Names : n # NameOf[w] => groups[<<k, n>>] = Absent
      BY <1>2, <1>3, <2>0, <2>4, <3>1 DEF Stage, SaveFails, At
    <3> QED BY <3>1, <3>2 DEF Stage
  <2>5. ASSUME Rollback(r) PROVE (j = Idle => Agree(k)') /\ (j # Idle => Stage(j)')
    <3>1. /\ j = Idle /\ UNCHANGED docs /\ docs[k] = NoDoc
          /\ \A n \in Names : n # NameOf[w] => groups[<<k, n>>] = Absent
      BY <1>2, <1>3, <1>4, <2>0, <2>5 DEF Stage, Rollback, End, At, TypeOK
    <3>2. \A n \in Names : groups'[<<k, n>>] = Absent
      BY <1>1, <1>2, <1>3, <2>5, <3>1, TargetType, OwnGroupRemoved DEF Rollback
    <3>3. Agree(k)'
      BY <3>1, <3>2 DEF Agree
    <3> QED BY <3>1, <3>3
  <2>6. ASSUME Unprovision(r) PROVE (j = Idle => Agree(k)') /\ (j # Idle => Stage(j)')
    <3>1. /\ j # Idle /\ j.pc = "drop" /\ j.id = k /\ j.want = w
          /\ docs[k] = w /\ w # NoDoc /\ Agree(k)
      BY <1>1, <1>2, <1>3, <1>4, <2>0, <2>6, SingleGroupAssumption
      DEF Stage, Unprovision, GoTo, At, TypeOK, Jobs
    <3>2. /\ groups'[<<k, NameOf[w]>>] = Absent
          /\ \A n \in Names : n # NameOf[w] => groups'[<<k, n>>] = groups[<<k, n>>]
      BY <1>1, <1>2, <1>3, <2>6, TargetType, OwnGroupRemoved DEF Unprovision
    <3>3. \A n \in Names : groups'[<<k, n>>] = Absent
      BY <3>1, <3>2 DEF Agree
    <3> QED BY <3>1, <3>3 DEF Stage
  <2>7. ASSUME Drop(r) PROVE (j = Idle => Agree(k)') /\ (j # Idle => Stage(j)')
    <3>1. j = Idle /\ docs'[k] = NoDoc /\ UNCHANGED groups
      BY <1>2, <1>4, <2>0, <2>7 DEF Drop, End, TypeOK
    <3>2. \A n \in Names : groups[<<k, n>>] = Absent
      BY <1>2, <2>0, <2>7 DEF Stage, Drop, At
    <3> QED BY <3>1, <3>2 DEF Agree
  <2>8. ASSUME UpsertFails(r) \/ RollbackFails(r) \/ UnprovisionFails(r) \/ DropFails(r)
        PROVE  (j = Idle => Agree(k)') /\ (j # Idle => Stage(j)')
    BY <1>1, <1>2, <1>3, <1>4, <1>6, <2>0, <2>8
       DEF Agree, Stage, UpsertFails, RollbackFails, UnprovisionFails, DropFails, Disturb, End, At, TypeOK
  <2> QED BY <2>1, <2>2, <2>3, <2>4, <2>5, <2>6, <2>7, <2>8 DEF Writes
<1> QED BY <1>1, <1>2, <1>4, <1>5, <1>6, InStepStep

(* A check, and the checking part of a repair, touch nothing.              *)
LEMMA InStepChecks ==
  ASSUME TypeOK, TypeOK', Kinds, InStep, NEW r \in Requests, Checks(r)
  PROVE  InStep'
<1> USE DEF rulerVars
<1>1. req[r] # Idle /\ disturbed \subseteq disturbed'
  BY DEF Checks, LookUp, Probe, ProbeFails, Fill, Decide, Replay, ReplayFails, Recheck, Disturb, At
<1>2. PICK k \in SloIds : k = req[r].id
  BY <1>1, TargetType
<1>3. PICK w \in Specs : w = req[r].want
  BY <1>1, TargetType
<1>4. PICK j \in Jobs \cup {Idle} :
        /\ req' = [req EXCEPT ![r] = j]
        /\ j # Idle => /\ j.id = k /\ j.kind = req[r].kind /\ j.want = w
                       /\ j.pc \notin {"name", "upsert", "save", "rollback", "drop"}
  <2>1. req' = [req EXCEPT ![r] = req'[r]]
    BY DEF Checks, LookUp, Probe, ProbeFails, Fill, Decide, Replay, ReplayFails, Recheck, Consult,
       GoTo, End, TypeOK
  <2>2. req'[r] # Idle => /\ req'[r].id = k /\ req'[r].kind = req[r].kind /\ req'[r].want = w
                          /\ req'[r].pc \notin {"name", "upsert", "save", "rollback", "drop"}
    BY <1>1, <1>2, <1>3 DEF Checks, LookUp, Probe, ProbeFails, Fill, Decide, Replay, ReplayFails,
       Recheck, Consult, GoTo, End, TypeOK, Jobs
  <2> QED BY <2>1, <2>2 DEF TypeOK
<1>5. UNCHANGED docs
  BY DEF Checks, LookUp, Probe, ProbeFails, Fill, Decide, Replay, ReplayFails, Recheck
<1>6. \/ UNCHANGED groups
      \/ UpsertGroup(Target(r), req[r].want) /\ req[r].kind = "repair"
                                             /\ req[r].pc \notin {"name", "upsert", "save", "rollback", "drop"}
  BY DEF Checks, LookUp, Probe, ProbeFails, Fill, Decide, Replay, ReplayFails, Recheck, At, Kinds
<1>7. CASE UNCHANGED groups
  <2>1. \A i \in SloIds : Untouched(i)
    BY <1>5, <1>7 DEF Untouched
  <2>2. ASSUME k \notin disturbed', Changes(req[r].kind)
        PROVE  (j = Idle => Agree(k)') /\ (j # Idle => Stage(j)')
    <3>1. /\ Stage(req[r]) /\ req[r].pc \notin {"name", "upsert", "save", "rollback", "drop"}
      BY <1>1, <1>2, <2>2, AtStage DEF Checks, LookUp, Probe, ProbeFails, Fill, Decide, Replay,
         ReplayFails, Recheck, At
    <3>2. Agree(k) /\ docs[k] = w
      BY <1>2, <1>3, <3>1 DEF Stage
    <3>3. Agree(k)' /\ docs'[k] = w
      BY <1>5, <2>1, <3>2, UntouchedStays
    <3> QED BY <1>4, <3>3 DEF Stage, Agree
  <2> QED BY <1>1, <1>2, <1>4, <2>1, <2>2, InStepStep
<1>8. CASE UpsertGroup(Target(r), req[r].want) /\ req[r].kind = "repair"
            /\ req[r].pc \notin {"name", "upsert", "save", "rollback", "drop"}
  <2>1. \A i \in SloIds \ {k} : Untouched(i)
    BY <1>1, <1>2, <1>5, <1>8, OwnGroupWritten DEF Untouched
  <2>2. /\ groups'[<<k, NameOf[w]>>] # Absent /\ groups'[<<k, NameOf[w]>>].spec = w
        /\ \A n \in Names : n # NameOf[w] => groups'[<<k, n>>] = groups[<<k, n>>]
    BY <1>1, <1>2, <1>3, <1>8, TargetType, OwnGroupWritten
  <2>3. ASSUME k \notin disturbed' PROVE (j = Idle => Agree(k)') /\ (j # Idle => Stage(j)')
    <3>1. Agree(k) /\ docs[k] = w
      BY <1>1, <1>2, <1>3, <1>8, <2>3, AtStage DEF Stage, Changes
    <3>2. Agree(k)' /\ docs'[k] = w
      BY <1>5, <2>2, <3>1, SingleGroupAssumption DEF Agree
    <3> QED BY <1>4, <3>2 DEF Stage, Agree
  <2> QED BY <1>1, <1>2, <1>4, <1>8, <2>1, <2>3, InStepStep DEF Changes
<1> QED BY <1>6, <1>7, <1>8

(* Every step leaves the undisturbed SLOs in step.                         *)
LEMMA InStepNext ==
  ASSUME TypeOK, TypeOK', Kinds, InStep, [Next]_vars
  PROVE  InStep'
<1>1. ASSUME UNCHANGED req, disturbed \subseteq disturbed', \A i \in SloIds \ disturbed' : Untouched(i)
      PROVE  InStep'
  <2>1. \A r \in Requests, i \in SloIds : MayWrite(r, i) <=> MayWrite(r, i)'
    BY <1>1 DEF MayWrite
  <2>2. ASSUME NEW i \in SloIds, i \notin disturbed', NEW r \in Requests, MayWrite(r, i)'
        PROVE  Stage(req[r])'
    <3>1. Stage(req[r]) /\ req'[r] = req[r] /\ req[r] \in Jobs /\ req[r].id = i
      BY <1>1, <2>1, <2>2 DEF InStep, MayWrite, TypeOK
    <3>2. \A j \in Jobs : j.id = i /\ Stage(j) => Stage(j)'
      BY <1>1, <2>2, UntouchedStays
    <3> QED BY <3>1, <3>2 DEF Stage, Agree
  <2>3. ASSUME NEW i \in SloIds, i \notin disturbed', \A r \in Requests : ~MayWrite(r, i)'
        PROVE  Agree(i)'
    BY <1>1, <2>1, <2>3, UntouchedStays DEF InStep
  <2> QED BY <1>1, <2>1, <2>2, <2>3 DEF InStep
<1>2. ASSUME NEW g \in Groups, Drift(g) PROVE InStep'
  <2>1. g[1] \in SloIds /\ disturbed' = disturbed \cup {g[1]} /\ UNCHANGED <<docs, req>>
    BY <1>2 DEF Drift, Groups
  <2>2. \A i \in SloIds \ {g[1]}, n \in Names : groups'[<<i, n>>] = groups[<<i, n>>]
    BY <1>2 DEF Drift, DeleteGroup, TypeOK, Groups
  <2> QED BY <1>1, <2>1, <2>2 DEF Untouched
<1>3. ASSUME Tick \/ UNCHANGED vars PROVE InStep'
  BY <1>1, <1>3 DEF Tick, vars, rulerVars, Untouched
<1>4. ASSUME Crash PROVE InStep'
  <2>1. /\ \A r \in Requests, i \in SloIds : ~MayWrite(r, i)'
        /\ \A i \in SloIds : Untouched(i)
        /\ disturbed \subseteq disturbed'
    BY <1>4 DEF Crash, MayWrite, Untouched, rulerVars
  <2>2. ASSUME NEW i \in SloIds, i \notin disturbed' PROVE Agree(i)'
    <3>1. \A r \in Requests : ~MayWrite(r, i)
      BY <1>4, <2>2 DEF Crash, Overlaps, MayWrite
    <3>2. Agree(i)
      BY <2>1, <2>2, <3>1 DEF InStep
    <3> QED BY <2>1, <3>2, UntouchedStays
  <2> QED BY <2>1, <2>2 DEF InStep
<1> QED BY <1>2, <1>3, <1>4, InStepStarts, InStepWrites, InStepChecks DEF Next

-----------------------------------------------------------------------------
(* The theorems.                                                           *)

(* The invariant holds initially.                                          *)
LEMMA InitIInv == Init => IInv
<1> SUFFICES ASSUME Init PROVE IInv
  OBVIOUS
<1>1. TypeOK
  BY InitType
<1>2. Kinds /\ OwnWrites
  BY DEF Init, Kinds, OwnWrites, OwnWrite
<1>3. Recent
  BY DEF Init, Recent
<1>4. InStep
  <2>1. ASSUME NEW i \in SloIds PROVE Agree(i)
    <3>1. ASSUME NEW n \in Names
          PROVE  IF docs[i] # NoDoc /\ n = NameOf[docs[i]]
                 THEN groups[<<i, n>>] # Absent /\ groups[<<i, n>>].spec = docs[i]
                 ELSE groups[<<i, n>>] = Absent
      <4>1. groups[<<i, n>>] = IF docs[i] # NoDoc /\ n = NameOf[docs[i]]
                               THEN [spec |-> docs[i], age |-> "outdated"] ELSE Absent
        BY DEF Init, Groups, Own
      <4>2. docs[i] # NoDoc => [spec |-> docs[i], age |-> "outdated"] \in Rules
        BY DEF Init, Rules, Present
      <4> QED BY <4>1, <4>2, SingleGroupAssumption
    <3> QED BY <3>1 DEF Agree
  <2> QED BY <2>1 DEF Init, InStep, MayWrite
<1> QED BY <1>1, <1>2, <1>3, <1>4 DEF IInv

(* Every step keeps the invariant.                                         *)
LEMMA StepIInv == IInv /\ [Next]_vars => IInv'
<1> SUFFICES ASSUME IInv, [Next]_vars PROVE IInv'
  OBVIOUS
<1>1. TypeOK'
  BY StepType DEF IInv
<1>2. Kinds'
  <2>1. ASSUME \A r \in Requests : req'[r] \in {req[r], Idle} PROVE Kinds'
    BY <2>1 DEF IInv, Kinds
  <2>2. ASSUME Tick \/ UNCHANGED vars \/ \E g \in Groups : Drift(g) PROVE Kinds'
    BY <2>1, <2>2 DEF Tick, Drift, vars
  <2>3. ASSUME Crash PROVE Kinds'
    BY <2>1, <2>3 DEF Crash
  <2> QED BY <2>2, <2>3, KindsStarts, KindsWrites, KindsChecks DEF IInv, Next
<1>3. Recent' /\ OwnWrites' /\ InStep'
  BY <1>1, RecentNext, OwnWritesNext, InStepNext DEF IInv
<1> QED BY <1>1, <1>2, <1>3 DEF IInv

(* The invariant holds in every reachable state.                           *)
LEMMA Invariance == Spec => []IInv
BY InitIInv, StepIInv, PTL DEF Spec

(* What the health cache says of a group was true less than the time to    *)
(* live ago, for every time to live and any number of requests.            *)
THEOREM VerdictsRecent == Spec => []CachedVerdictsRecent
<1>1. IInv => CachedVerdictsRecent
  <2> SUFFICES ASSUME IInv, NEW i \in SloIds, Live(cache[i])
               PROVE  LastHeld(cache[i].group, cache[i].verdict) + HealthTTL > now
    BY DEF CachedVerdictsRecent
  <2>1. cache[i] # NoEntry /\ cache[i].expires > now /\ EntryRecent(i)
    BY DEF Live, IInv, Recent
  <2>2. cache[i].expires \in Nat /\ cache[i].group \in Groups /\ cache[i].verdict \in Verdicts
    BY <2>1 DEF IInv, TypeOK, Reports
  <2>3. LastHeld(cache[i].group, cache[i].verdict) \in Nat /\ now \in Nat /\ HealthTTL \in Nat
    BY <2>2, SingleGroupAssumption DEF IInv, TypeOK, Times, LastHeld
  <2> QED BY <2>1, <2>2, <2>3 DEF EntryRecent
<1> QED BY <1>1, Invariance, PTL

(* A repair that rewrote its group does not report it missing or outdated, *)
(* unless it was removed again.                                            *)
THEOREM RepairsSeeOwnWrites == Spec => []RepairReportsOwnWrite
<1>1. IInv => RepairReportsOwnWrite
  BY DEF IInv, OwnWrites, OwnWrite, RepairReportsOwnWrite, At
<1> QED BY <1>1, Invariance, PTL

(* The ruler has exactly the group of a settled SLO's document, for any    *)
(* SLOs, names, specs, requests, and any number of faults.                 *)
THEOREM GroupsFollowDocuments == Spec => []GroupFollowsDocument
<1>1. IInv => GroupFollowsDocument
  <2> SUFFICES ASSUME IInv, NEW i \in SloIds, Settled(i)
               PROVE  IF docs[i] = NoDoc THEN GroupsOf(i) = {}
                      ELSE /\ GroupsOf(i) = {Own(i, docs[i])}
                           /\ groups[Own(i, docs[i])].spec = docs[i]
    BY DEF GroupFollowsDocument
  <2>1. Agree(i)
    BY DEF IInv, InStep, Settled, Overlaps, MayWrite
  <2>2. \A g \in Groups : g[1] = i => g[2] \in Names /\ g = <<i, g[2]>>
    BY DEF Groups
  <2>3. CASE docs[i] = NoDoc
    BY <2>1, <2>2, <2>3 DEF Agree, GroupsOf
  <2>4. CASE docs[i] # NoDoc
    <3>1. NameOf[docs[i]] \in Names
      BY <2>4, SingleGroupAssumption DEF IInv, TypeOK
    <3> DEFINE own == <<i, NameOf[docs[i]]>>
    <3>2. own \in Groups /\ own = Own(i, docs[i]) /\ own[1] = i /\ own[2] = NameOf[docs[i]]
      BY <3>1 DEF Own, Groups
    <3> HIDE DEF own
    <3>3. groups[own] # Absent /\ groups[own].spec = docs[i]
      BY <2>1, <2>4, <3>1, <3>2 DEF Agree, Own
    <3>4. \A g \in Groups : g[1] = i /\ groups[g] # Absent => g = own
      BY <2>1, <2>2, <2>4, <3>1, <3>2 DEF Agree, Own
    <3>5. GroupsOf(i) = {own}
      BY <3>2, <3>3, <3>4 DEF GroupsOf
    <3> QED BY <2>4, <3>2, <3>3, <3>5
  <2> QED BY <2>3, <2>4
<1> QED BY <1>1, Invariance, PTL

(* A group that is lost in a step of request r is taken by an unprovision  *)
(* or a rollback of r, whose own group it is.                              *)
LEMMA LostByRequest ==
  ASSUME IInv, NEW g \in Groups, groups[g] # Absent, groups'[g] = Absent,
         NEW r \in Requests, Starts(r) \/ Writes(r) \/ Checks(r)
  PROVE  /\ At(r, "unprovision") \/ At(r, "rollback")
         /\ Target(r) = g
         /\ req'[r] # req[r]
<1>1. TypeOK /\ ~UNCHANGED groups
  BY DEF IInv
<1>2. ASSUME req[r] # Idle, UpsertGroup(Target(r), req[r].want) PROVE FALSE
  <2>1. Target(r) \in Groups /\ req[r].want \in Specs
    BY <1>1, <1>2, TargetType
  <2>2. [spec |-> req[r].want, age |-> "ok"] \in Rules
    BY <2>1 DEF Rules, Present
  <2>3. [spec |-> req[r].want, age |-> "ok"] # Absent
    BY <2>2, SingleGroupAssumption
  <2> QED BY <1>1, <1>2, <2>1, <2>3 DEF UpsertGroup, TypeOK
<1>3. ASSUME req[r] # Idle, DeleteGroup(Target(r)) PROVE Target(r) = g
  BY <1>1, <1>3, TargetType DEF DeleteGroup, TypeOK
<1>4. ~Starts(r)
  BY <1>1 DEF Starts, BeginCreate, BeginUpdate, BeginDelete, BeginRepair, BeginCheck, Begin
<1>5. ~Checks(r)
  BY <1>1, <1>2 DEF Checks, LookUp, Probe, ProbeFails, Fill, Decide, Replay, ReplayFails,
     Recheck, At, rulerVars
<1>6. Rollback(r) \/ Unprovision(r) \/ UnprovisionFails(r)
  BY <1>1, <1>2, <1>4, <1>5 DEF Writes, CheckName, Upsert, UpsertFails, Save, SaveFails,
     RollbackFails, Drop, DropFails, At, rulerVars
<1>7. req[r] # Idle /\ DeleteGroup(Target(r)) /\ (At(r, "unprovision") \/ At(r, "rollback"))
  BY <1>1, <1>6 DEF Rollback, Unprovision, UnprovisionFails, At, rulerVars
<1>8. req[r] \in Jobs /\ req'[r] # req[r]
  BY <1>1, <1>6, <1>7, SingleGroupAssumption
  DEF Rollback, Unprovision, UnprovisionFails, GoTo, End, At, TypeOK, Jobs
<1> QED BY <1>3, <1>7, <1>8

(* A saved SLO's group is taken by hand, by its delete or by a rollback of *)
(* its own save, and by nothing else.                                      *)
THEOREM GroupsLostByDeleteOrRollback == Spec => GroupLostByDeleteOrRollback
<1>1. ASSUME IInv, [Next]_vars, NEW i \in SloIds, docs[i] # NoDoc,
             groups[Own(i, docs[i])] # Absent, groups'[Own(i, docs[i])] = Absent
      PROVE  \/ faults' > faults /\ req' = req
             \/ \E r \in Requests : /\ At(r, "unprovision") \/ At(r, "rollback")
                                    /\ req[r].id = i /\ req'[r] # req[r]
  <2>1. PICK g \in Groups : g = Own(i, docs[i]) /\ g[1] = i
    BY <1>1, SingleGroupAssumption DEF IInv, TypeOK, Own, Groups
  <2>2. groups[g] # Absent /\ groups'[g] = Absent
    BY <1>1, <2>1
  <2>3. ASSUME NEW r \in Requests, Starts(r) \/ Writes(r) \/ Checks(r)
        PROVE  /\ At(r, "unprovision") \/ At(r, "rollback")
               /\ req[r].id = i /\ req'[r] # req[r]
    <3>1. /\ At(r, "unprovision") \/ At(r, "rollback")
          /\ Target(r) = g /\ req'[r] # req[r]
      BY <1>1, <2>2, <2>3, LostByRequest
    <3>2. req[r].id = i
      BY <1>1, <2>1, <3>1, TargetType DEF IInv, At
    <3> QED BY <3>1, <3>2
  <2>4. ASSUME NEW h \in Groups, Drift(h) PROVE faults' > faults /\ req' = req
    BY <1>1, <2>4, SingleGroupAssumption DEF Drift, Fault, IInv, TypeOK
  <2>5. ~Tick /\ ~Crash /\ ~UNCHANGED vars
    BY <2>2 DEF Tick, Crash, vars, rulerVars
  <2> QED BY <1>1, <2>3, <2>4, <2>5 DEF Next
<1>2. IInv /\ [Next]_vars =>
        [\A i \in SloIds :
           /\ docs[i] # NoDoc
           /\ groups[Own(i, docs[i])] # Absent
           /\ groups'[Own(i, docs[i])] = Absent
           => \/ faults' > faults /\ req' = req
              \/ \E r \in Requests : /\ At(r, "unprovision") \/ At(r, "rollback")
                                     /\ req[r].id = i /\ req'[r] # req[r]]_vars
  BY <1>1
<1> QED BY <1>2, Invariance, PTL DEF Spec, GroupLostByDeleteOrRollback
=============================================================================
