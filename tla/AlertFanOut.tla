----------------------------- MODULE AlertFanOut -----------------------------
(***************************************************************************)
(* The unified views of server/services/alerting/alert_service.ts: one     *)
(* request asks every datasource for its alerts (getUnifiedAlerts) or its  *)
(* rules (getUnifiedRules) through a pool of workers, and gives up on a    *)
(* datasource after a timeout.                                             *)
(*                                                                         *)
(* A datasource's turn has two parts.  Its client is resolved first, with  *)
(* no timeout; then the fetch races a timer.  The timer abandons the       *)
(* fetch, it does not cancel it, so an answer may come after the result.   *)
(*                                                                         *)
(* Time is counted from the request.  Timers fire when they are due and    *)
(* workers take their next datasource at once: the event loop is not held  *)
(* up by other work.                                                       *)
(***************************************************************************)
EXTENDS Naturals, FiniteSets

CONSTANTS
  N,            \* how many datasources are asked
  Concurrency,  \* FANOUT_CONCURRENCY
  Direct,       \* the datasources no client is resolved for (CloudWatch)
  ResolveTime,  \* how long a client resolver takes at most, if it answers
  Timeout,      \* timeoutMs
  MaxNow        \* bound: the clock

Positions == 1..N
Workers   == 1..(IF Concurrency < N THEN Concurrency ELSE N)
Times     == 0..MaxNow

ASSUME FanOutAssumption ==
  /\ N \in Nat \ {0} /\ Concurrency \in Nat \ {0}
  /\ Direct \subseteq Positions
  /\ ResolveTime \in Nat /\ Timeout \in Nat \ {0} /\ MaxNow \in Nat

VARIABLES
  stuck,   \* the datasources whose resolver never answers
  cursor,  \* how many datasources have been taken
  worker,  \* the datasource each worker awaits, 0 between two of them
  phase,   \* how far each datasource's turn is
  due,     \* when the resolver will have answered, or the timer fires
  onWire,  \* fetches the datasource has not answered yet
  result,  \* what the response will say of each datasource
  now      \* the clock

vars == <<stuck, cursor, worker, phase, due, onWire, result, now>>

TypeOK ==
  /\ stuck \subseteq Positions \ Direct
  /\ cursor \in 0..N
  /\ worker \in [Workers -> 0..N]
  /\ phase \in [Positions -> {"waiting", "resolving", "fetching", "over"}]
  /\ due \in [Positions -> Nat]
  /\ onWire \subseteq Positions
  /\ result \in [Positions -> {"none", "success", "error", "timeout"}]
  /\ now \in Times

Init ==
  /\ stuck \in SUBSET (Positions \ Direct)
  /\ cursor = 0
  /\ worker = [w \in Workers |-> 0]
  /\ phase = [i \in Positions |-> "waiting"]
  /\ due = [i \in Positions |-> 0]
  /\ onWire = {}
  /\ result = [i \in Positions |-> "none"]
  /\ now = 0

-----------------------------------------------------------------------------
(* The pool.                                                               *)

\* Mutant of MayTake: off by one at the end of the list.
MayTakeOneMore(w) == cursor <= N /\ worker[w] = 0

\* Mutant of MayTake: the next batch starts when the whole of the last is over.
MayTakeBatch(w) ==
  /\ cursor < N /\ worker[w] = 0
  /\ cursor % Cardinality(Workers) = 0 => \A v \in Workers : worker[v] = 0

MayTake(w) == cursor < N /\ worker[w] = 0

Fetch(i) ==
  /\ phase' = [phase EXCEPT ![i] = "fetching"]
  /\ due' = [due EXCEPT ![i] = now + Timeout]
  /\ onWire' = onWire \cup {i}

Take(w) ==
  LET i == cursor + 1 IN
  /\ MayTake(w)
  /\ cursor' = i
  /\ worker' = [worker EXCEPT ![w] = i]
  /\ IF i \in Direct THEN Fetch(i)
     ELSE /\ phase' = [phase EXCEPT ![i] = "resolving"]
          /\ due' = [due EXCEPT ![i] = now + ResolveTime]
          /\ UNCHANGED onWire
  /\ UNCHANGED <<stuck, result, now>>

\* Mutant of Settle: a worker moves on, and the result is left to the caller.
SettleNothing(i, outcome) ==
  /\ result' = result
  /\ phase' = [phase EXCEPT ![i] = "over"]
  /\ worker' = [w \in Workers |-> IF worker[w] = i THEN 0 ELSE worker[w]]

\* A result is recorded, and the worker that awaited it is free.
Settle(i, outcome) ==
  /\ result' = [result EXCEPT ![i] = outcome]
  /\ phase' = [phase EXCEPT ![i] = "over"]
  /\ worker' = [w \in Workers |-> IF worker[w] = i THEN 0 ELSE worker[w]]

-----------------------------------------------------------------------------
(* One datasource's turn.                                                  *)

Resolved(i) ==
  /\ phase[i] = "resolving" /\ i \notin stuck
  /\ Fetch(i)
  /\ UNCHANGED <<stuck, cursor, worker, result, now>>

ResolverThrows(i) ==
  /\ phase[i] = "resolving" /\ i \notin stuck
  /\ Settle(i, "error")
  /\ UNCHANGED <<stuck, cursor, due, onWire, now>>

\* Mutant of Answer: an answer after the timeout counts all the same.
AnswerLate(i, outcome) ==
  /\ i \in onWire
  /\ onWire' = onWire \ {i}
  /\ Settle(i, outcome)
  /\ UNCHANGED <<stuck, cursor, due, now>>

\* The datasource answers, or the call fails.  After the timeout nobody listens.
Answer(i, outcome) ==
  /\ i \in onWire
  /\ onWire' = onWire \ {i}
  /\ IF phase[i] = "fetching" THEN Settle(i, outcome)
     ELSE UNCHANGED <<result, phase, worker>>
  /\ UNCHANGED <<stuck, cursor, due, now>>

TimeOut(i) ==
  /\ phase[i] = "fetching" /\ due[i] <= now
  /\ Settle(i, "timeout")
  /\ UNCHANGED <<stuck, cursor, due, onWire, now>>

\* What happens no later than now.
Urgent ==
  \/ \E w \in Workers : MayTake(w)
  \/ \E i \in Positions : phase[i] = "fetching" /\ due[i] <= now
  \/ \E i \in Positions \ stuck : phase[i] = "resolving" /\ due[i] <= now

Tick ==
  /\ now < MaxNow
  /\ ~Urgent
  /\ now' = now + 1
  /\ UNCHANGED <<stuck, cursor, worker, phase, due, onWire, result>>

Next ==
  \/ \E w \in Workers : Take(w)
  \/ \E i \in Positions :
       \/ Resolved(i) \/ ResolverThrows(i)
       \/ Answer(i, "success") \/ Answer(i, "error")
       \/ TimeOut(i)
  \/ Tick

Spec == Init /\ [][Next]_vars

\* Resolvers that are not stuck answer, timers fire, and time goes on.  The
\* datasources owe no answer.
Fairness ==
  /\ \A w \in Workers : WF_vars(Take(w))
  /\ \A i \in Positions : WF_vars(Resolved(i) \/ ResolverThrows(i)) /\ WF_vars(TimeOut(i))
  /\ WF_vars(Tick)

FairSpec == Spec /\ Fairness

-----------------------------------------------------------------------------
(* The shared cursor neither repeats nor drops a datasource: one taken and *)
(* without a result is awaited by exactly one worker, and a worker awaits  *)
(* no other.  Hence, when the workers come to their end, the response has  *)
(* one result for every datasource.                                        *)
EachInOneHand ==
  /\ \A i \in Positions :
       Cardinality({w \in Workers : worker[w] = i}) =
         (IF i <= cursor /\ result[i] = "none" THEN 1 ELSE 0)
  /\ \A i \in Positions : i > cursor => result[i] = "none"

(* The answer a datasource gives after its timeout changes nothing: a      *)
(* result, once there, stays.                                              *)
ResultsAreFinal ==
  [][\A i \in Positions : result[i] # "none" => result'[i] = result[i]]_vars

(* A slow or hung datasource costs the others one worker and no more: with *)
(* k resolvers that hang, the i-th datasource has its result within as     *)
(* many turns as Concurrency - k workers need to come to it, whatever the  *)
(* other datasources do.                                                   *)
TurnsKept ==
  LET m == Cardinality(Workers) - Cardinality(stuck) IN
  Cardinality(stuck) < Cardinality(Workers) =>
    \A i \in Positions \ stuck :
      result[i] = "none" => now <= ((i - 1) \div m + 1) * (ResolveTime + Timeout)

(* While fewer resolvers hang than there are workers, every other          *)
(* datasource gets its result, though no datasource may ever answer.       *)
OthersSettle ==
  Cardinality(stuck) < Cardinality(Workers) =>
    \A i \in Positions : i \notin stuck => <>(result[i] # "none")
=============================================================================
