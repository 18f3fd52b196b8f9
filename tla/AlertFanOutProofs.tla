-------------------------- MODULE AlertFanOutProofs --------------------------
(***************************************************************************)
(* Proofs about AlertFanOut, for any number of datasources and workers,    *)
(* any timeout and any set of resolvers that hang.                         *)
(***************************************************************************)
EXTENDS AlertFanOut, FiniteSetTheorems, FunctionTheorems, TLAPS

Outcomes == {"success", "error", "timeout"}

Busy(i) == phase[i] \in {"resolving", "fetching"}

(* Workers and turns are in step: a worker awaits a turn that is on, no    *)
(* two workers the same one, and every turn that is on is awaited.         *)
Hands ==
  /\ \A w \in Workers : worker[w] # 0 => Busy(worker[w])
  /\ \A v, w \in Workers : worker[v] = worker[w] /\ worker[v] # 0 => v = w
  /\ \A i \in Positions : Busy(i) => \E w \in Workers : worker[w] = i

(* The cursor divides the turns that have begun from those that have not,  *)
(* and a turn is over when its result is there.                            *)
Turns ==
  /\ \A i \in Positions : phase[i] = "waiting" <=> i > cursor
  /\ \A i \in Positions : result[i] = "none" <=> phase[i] # "over"

Inv == TypeOK /\ Hands /\ Turns

(* Before the first take nothing is awaited and nothing is over.           *)
LEMMA InitInv == Init => Inv
  BY FanOutAssumption DEF Init, Inv, TypeOK, Hands, Turns, Busy, Positions, Workers, Times

(* The end of a turn, whichever way it ends.                               *)
LEMMA SettleInv ==
  ASSUME Inv, NEW i \in Positions, Busy(i), NEW o \in Outcomes, Settle(i, o),
         UNCHANGED <<stuck, cursor, due, now>>, onWire' \subseteq Positions
  PROVE  Inv'
<1>1. TypeOK'
  BY FanOutAssumption, SMTT(30) DEF Inv, TypeOK, Settle, Outcomes, Positions, Workers
<1>2. Hands'
  BY DEF Inv, TypeOK, Hands, Busy, Settle, Positions, Workers
<1>3. Turns'
  BY DEF Inv, TypeOK, Turns, Busy, Settle, Outcomes, Positions
<1> QED
  BY <1>1, <1>2, <1>3 DEF Inv

(* Worker w takes the next datasource, and resolves or fetches.            *)
LEMMA TakeInv ==
  ASSUME Inv, NEW w \in Workers, Take(w)
  PROVE  Inv'
<1> DEFINE i == cursor + 1
<1>1. i \in Positions /\ worker[w] = 0
  BY FanOutAssumption DEF Inv, TypeOK, Take, MayTake, Positions
<1>2. phase[i] = "waiting" /\ ~Busy(i)
  BY <1>1 DEF Inv, TypeOK, Turns, Busy, Positions
<1>3. \A v \in Workers : worker[v] # i
  BY <1>1, <1>2, FanOutAssumption DEF Inv, Hands, Positions
<1>4. PICK p \in {"resolving", "fetching"} : phase' = [phase EXCEPT ![i] = p]
  BY DEF Take, Fetch
<1>5. /\ cursor' = i /\ worker' = [worker EXCEPT ![w] = i]
      /\ result' = result /\ stuck' = stuck /\ now' = now
  BY DEF Take
<1>6. due' \in [Positions -> Nat] /\ onWire' \subseteq Positions
  BY <1>1, FanOutAssumption DEF Inv, TypeOK, Take, Fetch, Times
<1>7. TypeOK'
  <2>1. cursor' \in 0..N /\ worker' \in [Workers -> 0..N]
    BY <1>1, <1>5, FanOutAssumption DEF Inv, TypeOK, Positions
  <2>2. phase' \in [Positions -> {"waiting", "resolving", "fetching", "over"}]
    BY <1>1, <1>4 DEF Inv, TypeOK
  <2> QED
    BY <1>5, <1>6, <2>1, <2>2 DEF Inv, TypeOK
<1>8. Hands'
  BY <1>1, <1>2, <1>3, <1>4, <1>5 DEF Inv, TypeOK, Hands, Busy, Positions, Workers
<1>9. Turns'
  BY <1>1, <1>2, <1>4, <1>5 DEF Inv, TypeOK, Turns, Positions
<1> QED
  BY <1>7, <1>8, <1>9 DEF Inv

(* A client that resolves turns the resolution into a fetch.               *)
LEMMA ResolvedInv ==
  ASSUME Inv, NEW i \in Positions, Resolved(i)
  PROVE  Inv'
<1>1. TypeOK'
  BY FanOutAssumption DEF Inv, TypeOK, Resolved, Fetch, Times
<1>2. Hands'
  BY DEF Inv, TypeOK, Hands, Busy, Resolved, Fetch, Positions, Workers
<1>3. Turns'
  BY DEF Inv, TypeOK, Turns, Resolved, Fetch, Positions
<1> QED
  BY <1>1, <1>2, <1>3 DEF Inv

(* An answer ends the turn it is waited for in, and is dropped otherwise.  *)
LEMMA AnswerInv ==
  ASSUME Inv, NEW i \in Positions, NEW o \in Outcomes, Answer(i, o)
  PROVE  Inv'
<1>1. onWire' \subseteq Positions /\ UNCHANGED <<stuck, cursor, due, now>>
  BY DEF Inv, TypeOK, Answer
<1>2. CASE phase[i] = "fetching"
  BY <1>1, <1>2, SettleInv DEF Answer, Busy
<1>3. CASE phase[i] # "fetching"
  <2>1. UNCHANGED <<result, phase, worker>>
    BY <1>3 DEF Answer
  <2> QED
    BY <1>1, <2>1 DEF Inv, TypeOK, Hands, Turns, Busy
<1> QED
  BY <1>2, <1>3

(* Every step keeps workers, turns and the cursor consistent.              *)
LEMMA NextInv == Inv /\ [Next]_vars => Inv'
<1> SUFFICES ASSUME Inv, [Next]_vars PROVE Inv'
  OBVIOUS
<1>1. CASE \E w \in Workers : Take(w)
  BY <1>1, TakeInv
<1>2. ASSUME NEW i \in Positions, Resolved(i) PROVE Inv'
  BY <1>2, ResolvedInv
<1>3. ASSUME NEW i \in Positions, ResolverThrows(i) PROVE Inv'
  <2>1. Busy(i) /\ onWire' \subseteq Positions /\ UNCHANGED <<stuck, cursor, due, now>>
    BY <1>3 DEF ResolverThrows, Busy, Inv, TypeOK
  <2> QED
    BY <1>3, <2>1, SettleInv DEF ResolverThrows, Outcomes
<1>4. ASSUME NEW i \in Positions, Answer(i, "success") \/ Answer(i, "error") PROVE Inv'
  BY <1>4, AnswerInv DEF Outcomes
<1>5. ASSUME NEW i \in Positions, TimeOut(i) PROVE Inv'
  <2>1. Busy(i) /\ onWire' \subseteq Positions /\ UNCHANGED <<stuck, cursor, due, now>>
    BY <1>5 DEF TimeOut, Busy, Inv, TypeOK
  <2> QED
    BY <1>5, <2>1, SettleInv DEF TimeOut, Outcomes
<1>6. CASE Tick
  BY <1>6, FanOutAssumption DEF Tick, Inv, TypeOK, Hands, Turns, Busy, Times
<1>7. CASE UNCHANGED vars
  BY <1>7 DEF vars, Inv, TypeOK, Hands, Turns, Busy
<1> QED
  BY <1>1, <1>2, <1>3, <1>4, <1>5, <1>6, <1>7 DEF Next

(* In every reachable state, workers, turns and the cursor are consistent. *)
THEOREM Invariance == Spec => []Inv
<1> QED
  BY InitInv, NextInv, PTL DEF Spec

(* The fan-out is type correct, for every N, Concurrency and Timeout.      *)
THEOREM TypeCorrect == Spec => []TypeOK
<1>1. Inv => TypeOK
  BY DEF Inv
<1> QED
  BY <1>1, Invariance, PTL

(* A taken datasource without a result is awaited by exactly one worker.   *)
LEMMA HandsOnce == Inv => EachInOneHand
<1> SUFFICES ASSUME Inv PROVE EachInOneHand
  OBVIOUS
<1>1. ASSUME NEW i \in Positions
      PROVE  Cardinality({w \in Workers : worker[w] = i}) =
               (IF i <= cursor /\ result[i] = "none" THEN 1 ELSE 0)
  <2>1. CASE Busy(i)
    <3>1. PICK w \in Workers : worker[w] = i
      BY <2>1 DEF Inv, Hands
    <3>2. {v \in Workers : worker[v] = i} = {w}
      BY <3>1 DEF Inv, Hands, Positions
    <3>3. i <= cursor /\ result[i] = "none"
      BY <2>1 DEF Inv, Turns, TypeOK, Busy, Positions
    <3> QED
      BY <3>2, <3>3, FS_Singleton
  <2>2. CASE ~Busy(i)
    <3>1. {v \in Workers : worker[v] = i} = {}
      BY <2>2 DEF Inv, Hands, Positions
    <3>2. ~(i <= cursor /\ result[i] = "none")
      BY <2>2 DEF Inv, Turns, TypeOK, Busy, Positions
    <3> QED
      BY <3>1, <3>2, FS_EmptySet
  <2> QED
    BY <2>1, <2>2
<1>2. \A i \in Positions : i > cursor => result[i] = "none"
  BY DEF Inv, Turns, TypeOK
<1> QED
  BY <1>1, <1>2 DEF EachInOneHand

(* The shared cursor gives every datasource to exactly one worker.         *)
THEOREM OneHandEach == Spec => []EachInOneHand
<1> QED
  BY HandsOnce, Invariance, PTL

(* Only a turn that is still on is settled, so a result is never replaced. *)
LEMMA KeepsResults ==
  Inv /\ [Next]_vars =>
    [\A i \in Positions : result[i] # "none" => result'[i] = result[i]]_vars
<1> SUFFICES ASSUME Inv, [Next]_vars, NEW i \in Positions, result[i] # "none"
             PROVE  result'[i] = result[i]
  OBVIOUS
<1>1. phase[i] = "over"
  BY DEF Inv, TypeOK, Turns
<1>2. ASSUME NEW j \in Positions, NEW o, Settle(j, o), Busy(j) PROVE result'[i] = result[i]
  BY <1>1, <1>2 DEF Settle, Busy, Inv, TypeOK
<1>3. ASSUME NEW j \in Positions, NEW o, Answer(j, o) PROVE result'[i] = result[i]
  BY <1>2, <1>3 DEF Answer, Busy
<1>4. ASSUME NEW j \in Positions, ResolverThrows(j) \/ TimeOut(j) PROVE result'[i] = result[i]
  BY <1>2, <1>4 DEF ResolverThrows, TimeOut, Busy
<1>5. CASE UNCHANGED result
  BY <1>5
<1> QED
  BY <1>3, <1>4, <1>5 DEF Next, vars, Take, Resolved, Tick

(* An answer after the timeout changes nothing.                            *)
THEOREM FinalResults == Spec => ResultsAreFinal
<1> QED
  BY KeepsResults, Invariance, PTL DEF Spec, ResultsAreFinal
-----------------------------------------------------------------------------
(* TurnsKept.  Timed says how late each turn can be.  It is kept because   *)
(* every worker is busy while a turn waits, and a hung resolver holds at   *)
(* most one of them: among the others, one is at a turn at least Live      *)
(* places earlier in the list, whose own bound applies.                    *)

Live     == Cardinality(Workers) - Cardinality(stuck)
Round(i) == (i - 1) \div Live
Span     == ResolveTime + Timeout

Timed ==
  Live > 0 =>
    \A i \in Positions \ stuck :
      /\ phase[i] = "waiting" => now <= Round(i) * Span
      /\ phase[i] = "resolving" => now <= due[i] /\ due[i] <= Round(i) * Span + ResolveTime
      /\ phase[i] = "fetching" => now <= due[i] /\ due[i] <= Round(i) * Span + Span

(* Dividing by the number of live workers: that many places later is at    *)
(* least one round later.                                                  *)
LEMMA DivStep ==
  ASSUME NEW m \in Nat \ {0}, NEW a \in Nat, NEW b \in Nat, a + m <= b
  PROVE  /\ a \div m \in Nat /\ b \div m \in Nat
         /\ (a \div m) + 1 <= b \div m
<1> DEFINE p == a \div m
           q == b \div m
<1>1. p \in Int /\ q \in Int
  OBVIOUS
<1>2. m * p <= a /\ a < m * p + m
  OBVIOUS
<1>3. m * q <= b /\ b < m * q + m
  OBVIOUS
<1>4. m * p + m < m * q + m
  BY <1>1, <1>2, <1>3
<1> QED
  BY <1>1, <1>2, <1>3, <1>4

(* The counts that Live is made of are numbers.                            *)
LEMMA FiniteStuck ==
  ASSUME Inv
  PROVE  IsFiniteSet(Workers) /\ IsFiniteSet(stuck)
<1>1. IsFiniteSet(Workers) /\ IsFiniteSet(Positions)
  BY FS_Interval, FanOutAssumption DEF Workers, Positions
<1>2. stuck \in SUBSET Positions
  BY DEF Inv, TypeOK
<1> QED
  BY <1>1, <1>2, FS_Subset

(* Live is positive if and only if fewer resolvers hang than there are     *)
(* workers.                                                                *)
LEMMA LiveType ==
  ASSUME Inv
  PROVE  /\ Live \in Int
         /\ Live > 0 <=> Cardinality(stuck) < Cardinality(Workers)
  BY FiniteStuck, FS_CardinalityType DEF Live

(* While turn i waits and every worker is busy, one of them is at a turn   *)
(* that is not hung and at least Live places before i.                     *)
LEMMA SomeoneAhead ==
  ASSUME Inv, Live > 0, \A w \in Workers : worker[w] # 0,
         NEW i \in Positions, phase[i] = "waiting"
  PROVE  \E j \in Positions \ stuck : Busy(j) /\ j + Live <= i
<1> DEFINE B == {worker[w] : w \in Workers}
           A == B \ stuck
           L == Live
<1>1. \A j \in B : j \in Positions /\ Busy(j) /\ j < i
  BY FanOutAssumption DEF Inv, TypeOK, Hands, Turns, Busy, Positions
<1>2. IsFiniteSet(Workers) /\ IsFiniteSet(B) /\ Cardinality(B) = Cardinality(Workers)
  <2>1. worker \in [Workers -> B] /\ \A b \in B : \E w \in Workers : worker[w] = b
    BY DEF Inv, TypeOK
  <2>2. \A v, w \in Workers : worker[v] = worker[w] => v = w
    BY DEF Inv, Hands
  <2>3. worker \in Bijection(Workers, B)
    BY <2>1, <2>2, Fun_IsBij
  <2>4. IsFiniteSet(Workers)
    BY FS_Interval, FanOutAssumption DEF Workers
  <2> QED
    BY <2>3, <2>4, FS_Bijection DEF ExistsBijection
<1>3. IsFiniteSet(stuck)
  BY FiniteStuck
<1>4. IsFiniteSet(A) /\ Cardinality(A) \in Nat /\ Cardinality(A) >= L
  <2>1. /\ IsFiniteSet(A)
        /\ Cardinality(A) = Cardinality(B) - Cardinality(B \cap stuck)
    BY <1>2, FS_Difference
  <2>2. /\ IsFiniteSet(B \cap stuck)
        /\ Cardinality(B \cap stuck) <= Cardinality(stuck)
    BY <1>3, FS_Subset
  <2>3. /\ Cardinality(A) \in Nat /\ Cardinality(B) \in Nat
        /\ Cardinality(B \cap stuck) \in Nat /\ Cardinality(stuck) \in Nat
    BY <1>2, <1>3, <2>1, <2>2, FS_CardinalityType
  <2> QED
    BY <1>2, <2>1, <2>2, <2>3 DEF Live
<1>5. L \in Nat \ {0}
  BY LiveType
<1>6. SUFFICES ASSUME \A j \in A : ~(j + L <= i) PROVE FALSE
  BY <1>1
<1>7. A \subseteq (i - L + 1)..(i - 1)
  BY <1>1, <1>5, <1>6 DEF Positions
<1>8. Cardinality((i - L + 1)..(i - 1)) = L - 1 /\ IsFiniteSet((i - L + 1)..(i - 1))
  <2>1. i - L + 1 \in Int /\ i - 1 \in Int
    BY <1>5 DEF Positions
  <2> QED
    BY <1>5, <2>1, FS_Interval DEF Positions
<1>9. Cardinality(A) <= L - 1
  BY <1>7, <1>8, FS_Subset
<1> QED
  BY <1>4, <1>5, <1>9

(* The bound of a turn that waits covers one round and a whole turn of one *)
(* that is Live places earlier.                                            *)
LEMMA RoundStep ==
  ASSUME Inv, Live > 0, NEW i \in Positions, NEW j \in Positions, j + Live <= i
  PROVE  Round(j) * Span + Span <= Round(i) * Span
<1>1. /\ Live \in Nat \ {0} /\ j - 1 \in Nat /\ i - 1 \in Nat
      /\ (j - 1) + Live <= i - 1
  BY LiveType, FanOutAssumption DEF Positions
<1>2. Round(j) \in Nat /\ Round(i) \in Nat /\ Round(j) + 1 <= Round(i)
  BY <1>1, DivStep DEF Round
<1>3. Span \in Nat
  BY FanOutAssumption DEF Span
<1>4. \A a, b, c \in Nat : a + 1 <= b => a * c + c <= b * c
  OBVIOUS
<1> QED
  BY <1>2, <1>3, <1>4

(* A round is a number.                                                    *)
LEMMA RoundType ==
  ASSUME Inv, Live > 0, NEW i \in Positions
  PROVE  Round(i) * Span \in Nat
<1>1. Live \in Nat \ {0} /\ i - 1 \in Nat
  BY LiveType, FanOutAssumption DEF Positions
<1>2. Round(i) \in Nat
  BY <1>1, DivStep DEF Round
<1> QED
  BY <1>2, FanOutAssumption DEF Span

(* Time passes only while no turn is due, so no turn outlives its bound.   *)
LEMMA TickTimed ==
  ASSUME Inv, Timed, Tick
  PROVE  Timed'
<1> SUFFICES ASSUME Live > 0, NEW i \in Positions \ stuck
    PROVE  /\ phase[i] = "waiting" => now + 1 <= Round(i) * Span
           /\ phase[i] = "resolving" => now + 1 <= due[i]
           /\ phase[i] = "fetching" => now + 1 <= due[i]
  BY DEF Tick, Timed, Live, Round
<1>1. now \in Nat /\ due[i] \in Nat /\ i \in Positions
  BY DEF Inv, TypeOK, Times
<1>2. \A j \in Positions \ stuck : Busy(j) => ~(due[j] <= now)
  BY DEF Tick, Urgent, Busy
<1>3. CASE Busy(i)
  BY <1>1, <1>2, <1>3 DEF Busy
<1>4. CASE phase[i] = "waiting"
  <2>1. cursor < N
    BY <1>4, FanOutAssumption DEF Inv, TypeOK, Turns, Positions
  <2>2. \A w \in Workers : worker[w] # 0
    BY <2>1 DEF Tick, Urgent, MayTake
  <2>3. PICK j \in Positions \ stuck : Busy(j) /\ j + Live <= i
    BY <1>4, <2>2, SomeoneAhead
  <2>4. /\ due[j] \in Nat /\ now + 1 <= due[j] /\ j \in Positions
    BY <1>1, <1>2, <2>3 DEF Inv, TypeOK
  <2>5. due[j] <= Round(j) * Span + Span
    BY <2>3, <2>4, RoundType, FanOutAssumption DEF Timed, Busy, Span
  <2>6. Round(j) * Span + Span <= Round(i) * Span
    BY <1>1, <2>3, RoundStep
  <2> QED
    BY <1>1, <1>4, <2>4, <2>5, <2>6, RoundType, FanOutAssumption DEF Span
<1> QED
  BY <1>3, <1>4 DEF Busy

(* What a step other than Tick leaves of the clock: a turn that begins, or *)
(* goes over to its fetch, does so no later than its bound.                *)
LEMMA StepTimed ==
  ASSUME Inv, Timed, UNCHANGED <<stuck, now>>,
         \A i \in Positions :
           \/ phase'[i] = "over"
           \/ phase'[i] = phase[i] /\ due'[i] = due[i]
           \/ phase[i] = "waiting" /\ phase'[i] = "resolving" /\ due'[i] = now + ResolveTime
           \/ /\ phase[i] \in {"waiting", "resolving"} /\ phase'[i] = "fetching"
              /\ due'[i] = now + Timeout
  PROVE  Timed'
<1> SUFFICES ASSUME Live > 0, NEW i \in Positions \ stuck
    PROVE  /\ phase'[i] = "waiting" => now <= Round(i) * Span
           /\ phase'[i] = "resolving" => now <= due'[i] /\ due'[i] <= Round(i) * Span + ResolveTime
           /\ phase'[i] = "fetching" => now <= due'[i] /\ due'[i] <= Round(i) * Span + Span
  BY DEF Timed, Live, Round
<1>1. now \in Nat /\ due[i] \in Nat /\ Round(i) * Span \in Nat /\ i \in Positions
  BY RoundType DEF Inv, TypeOK, Times
<1>2. /\ phase[i] = "waiting" => now <= Round(i) * Span
      /\ phase[i] = "resolving" => now <= due[i] /\ due[i] <= Round(i) * Span + ResolveTime
      /\ phase[i] = "fetching" => now <= due[i] /\ due[i] <= Round(i) * Span + Span
  BY DEF Timed
<1> DEFINE bound == Round(i) * Span
<1> HIDE DEF bound
<1> QED
  BY <1>1, <1>2, FanOutAssumption DEF Span

(* Every step keeps each turn within the bound of its place.               *)
LEMMA NextTimed == Inv /\ Timed /\ [Next]_vars => Timed'
<1> SUFFICES ASSUME Inv, Timed, [Next]_vars PROVE Timed'
  OBVIOUS
<1>1. ASSUME NEW w \in Workers, Take(w) PROVE Timed'
  <2>1. cursor + 1 \in Positions /\ phase[cursor + 1] = "waiting"
    BY <1>1, FanOutAssumption DEF Inv, TypeOK, Turns, Take, MayTake, Positions
  <2> QED
    BY <1>1, <2>1, StepTimed DEF Take, Fetch, Inv, TypeOK
<1>2. ASSUME NEW i \in Positions, Resolved(i) PROVE Timed'
  BY <1>2, StepTimed DEF Resolved, Fetch, Inv, TypeOK
<1>3. ASSUME NEW i \in Positions, NEW o, Settle(i, o), UNCHANGED <<stuck, due, now>> PROVE Timed'
  BY <1>3, StepTimed DEF Settle, Inv, TypeOK
<1>4. ASSUME NEW i \in Positions, ResolverThrows(i) \/ TimeOut(i) PROVE Timed'
  BY <1>3, <1>4 DEF ResolverThrows, TimeOut
<1>5. ASSUME NEW i \in Positions, NEW o, Answer(i, o) PROVE Timed'
  <2>1. UNCHANGED <<stuck, due, now>> /\ (Settle(i, o) \/ UNCHANGED phase)
    BY <1>5 DEF Answer
  <2> QED
    BY <1>3, <2>1, StepTimed
<1>6. CASE Tick
  BY <1>6, TickTimed
<1>7. CASE UNCHANGED vars
  BY <1>7, StepTimed DEF vars
<1> QED
  BY <1>1, <1>2, <1>4, <1>5, <1>6, <1>7 DEF Next

(* Every datasource whose client resolves has its result in the time its   *)
(* place in the list allows, for any number of datasources, of workers and *)
(* of hung resolvers fewer than these.                                     *)
THEOREM TurnsInTime == Spec => []TurnsKept
<1>1. Init => Timed
  BY FanOutAssumption, InitInv, RoundType DEF Init, Timed
<1>2. Inv /\ Timed => TurnsKept
  <2> SUFFICES ASSUME Inv, Timed, Cardinality(stuck) < Cardinality(Workers),
                      NEW i \in Positions \ stuck, result[i] = "none"
               PROVE  now <= (Round(i) + 1) * Span
    BY DEF TurnsKept, Round, Live, Span
  <2>1. Live > 0 /\ Live \in Nat \ {0} /\ i - 1 \in Nat
    BY LiveType, FanOutAssumption DEF Positions
  <2>2. Round(i) \in Nat /\ Span \in Nat
    BY <2>1, DivStep, FanOutAssumption DEF Round, Span
  <2>3. (Round(i) + 1) * Span = Round(i) * Span + Span /\ Round(i) * Span \in Nat
    BY <2>2
  <2>4. now \in Nat /\ due[i] \in Nat /\ phase[i] \in {"waiting", "resolving", "fetching"}
    BY DEF Inv, TypeOK, Turns, Times
  <2>5. \/ now <= Round(i) * Span
        \/ now <= due[i] /\ due[i] <= Round(i) * Span + ResolveTime
        \/ now <= due[i] /\ due[i] <= Round(i) * Span + Span
    BY <2>1, <2>4 DEF Timed
  <2>6. ResolveTime \in Nat /\ ResolveTime <= Span
    BY FanOutAssumption DEF Span
  <2> QED
    BY <2>2, <2>3, <2>4, <2>5, <2>6
<1> QED
  BY <1>1, <1>2, InitInv, NextInv, NextTimed, PTL DEF Spec
=============================================================================
