----------------------------- MODULE AnalyzeLoop -----------------------------
(***************************************************************************)
(* When an AnalyzeTask calls its policies.  One loop walks over all of     *)
(* them, analyses those whose interval is over since their last successful *)
(* analysis, and sleeps for the smallest interval it has seen.  Time       *)
(* passes in an analysis and in a sleep, and nowhere else.                 *)
(***************************************************************************)
EXTENDS Naturals, FiniteSets, FiniteSetsExt

CONSTANTS
  Count,         \* how many policies the task has
  Periods,       \* analyze_interval; 0 is what one that cannot be parsed yields
  InitialPeriod, \* analyze_period of a new task
  MaxDuration,   \* bound on the time of one analysis
  MaxRaises      \* bound on exceptions outside the policies

ConstantAssumption ==
  /\ Count \in Nat \ {0} /\ IsFiniteSet(Periods) /\ Periods # {} /\ Periods \subseteq Nat
  /\ InitialPeriod \in Nat /\ MaxDuration \in Nat /\ MaxRaises \in Nat

VARIABLES
  intervals,     \* the interval of each policy, in the order of the dictionary
  turn,          \* "scan", "analyze" or "sleep"
  policy,        \* the policy the scan has reached, Count + 1 after the last
  seen,          \* analyze_periods
  analyze_period,
  left,          \* what is left of the analysis or the sleep
  since,         \* the time since last_analyze_run
  waited,        \* history: the time since the policy was last called
  raises

loopVars == <<intervals, turn, policy, seen, analyze_period, left, since, waited, raises>>

Index == 1..Count
Round == Max({InitialPeriod} \union Periods) + Count * MaxDuration
\* The clocks stop when they tell nothing more.
Over == Max(Periods) + 1
Long == Max(Periods) + (MaxRaises + 1) * Round + 1

Init ==
  /\ intervals \in [Index -> Periods]
  /\ turn = "scan" /\ policy = 1 /\ seen = {} /\ analyze_period = InitialPeriod /\ left = 0
  /\ since = [i \in Index |-> 0] /\ waited = [i \in Index |-> 0] /\ raises = 0

-----------------------------------------------------------------------------
Due(i) == intervals[i] = 0 \/ since[i] > intervals[i]

Scan ==
  /\ turn = "scan" /\ policy \in Index
  /\ seen' = seen \union {intervals[policy]}
  /\ IF Due(policy)
     THEN /\ turn' = "analyze" /\ left' \in 0..MaxDuration
          /\ waited' = [waited EXCEPT ![policy] = 0] /\ UNCHANGED policy
     ELSE policy' = policy + 1 /\ UNCHANGED <<turn, left, waited>>
  /\ UNCHANGED <<intervals, analyze_period, since, raises>>

\* A policy that fails stays due.  The interval 0 ends the scan, not the task.
Analyzed ==
  /\ turn = "analyze" /\ left = 0 /\ turn' = "scan"
  /\ since' \in {since, [since EXCEPT ![policy] = 0]}
  /\ policy' = IF intervals[policy] = 0 THEN Count + 1 ELSE policy + 1
  /\ UNCHANGED <<intervals, seen, analyze_period, left, waited, raises>>

\* Deviation: the task sleeps for the longest interval.
SleepLongest ==
  /\ turn = "scan" /\ policy = Count + 1 /\ turn' = "sleep" /\ policy' = 1
  /\ analyze_period' = Max(seen) /\ left' = Max(seen) /\ seen' = {}
  /\ UNCHANGED <<intervals, since, waited, raises>>

Sleep ==
  /\ turn = "scan" /\ policy = Count + 1 /\ turn' = "sleep" /\ policy' = 1
  /\ analyze_period' = Min(seen) /\ left' = Min(seen) /\ seen' = {}
  /\ UNCHANGED <<intervals, since, waited, raises>>

\* The telemetry cannot be read, the application is gone or the policies change: the
\* scan is given up, and what it has seen stays for the next one.
Raise ==
  /\ \/ turn = "analyze" /\ left = 0
     \/ turn = "scan" /\ policy \in Index
  /\ raises < MaxRaises /\ raises' = raises + 1
  /\ turn' = "sleep" /\ policy' = 1 /\ left' = analyze_period
  /\ UNCHANGED <<intervals, seen, analyze_period, since, waited>>

WakeUp ==
  /\ turn = "sleep" /\ left = 0 /\ turn' = "scan"
  /\ UNCHANGED <<intervals, policy, seen, analyze_period, left, since, waited, raises>>

Later(clock, bound) == [i \in Index |-> Min({clock[i] + 1, bound})]

Tick ==
  /\ left > 0 /\ left' = left - 1
  /\ since' = Later(since, Over) /\ waited' = Later(waited, Long)
  /\ UNCHANGED <<intervals, turn, policy, seen, analyze_period, raises>>

Next == Scan \/ Analyzed \/ Sleep \/ Raise \/ WakeUp \/ Tick

-----------------------------------------------------------------------------
(* What must hold. *)

TypeOK ==
  /\ intervals \in [Index -> Periods]
  /\ turn \in {"scan", "analyze", "sleep"} /\ policy \in 1..(Count + 1)
  /\ seen \subseteq Periods /\ analyze_period \in Periods \union {InitialPeriod}
  /\ left \in 0..Round
  /\ since \in [Index -> 0..Over] /\ waited \in [Index -> 0..Long] /\ raises \in 0..MaxRaises

\* A policy is called when its interval is over, after at most one more sleep and one
\* analysis of every policy, and after a whole sleep for each exception; the policies
\* that come after one with the interval 0 are never called.
AnalyzedInTime ==
  \A i \in Index :
    (\A j \in Index : j < i => intervals[j] # 0) =>
      waited[i] <= intervals[i] + Min({intervals[j] : j \in Index}) + Count * MaxDuration
                   + raises * Round
=============================================================================
