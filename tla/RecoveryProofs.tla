--------------------------- MODULE RecoveryProofs ---------------------------
(***************************************************************************)
(* The recovery loop, for every stage, number of rounds and repairs, and   *)
(* every deterministic fix: its counters stay typed and bounded, its       *)
(* records agree, and it is a run of RecoveryPromise.                      *)
(***************************************************************************)
EXTENDS RecoveryProperties, TLAPS

-----------------------------------------------------------------------------
(* The inductive invariant *)

\* Where the loop stands: what it has spent in earlier rounds and in this one.
\* In the loop the record is never behind.
Counters ==
  /\ co.round \in 1..Rounds
  /\ co.total = log.calls
  /\ sum # None
  /\ sum.status = "running" /\ sum.repairs = log.calls
  /\ co.phase = "generate" =>
       co.total <= MaxRepairs * (co.round - 1) /\ log.gens <= co.round - 1
  /\ co.phase # "generate" =>
       /\ sum.round = co.round /\ log.gens <= co.round
       /\ co.total <= MaxRepairs * co.round
       /\ co.total <= MaxRepairs * (co.round - 1) + co.this

\* What is being validated, or was, is on disk, unless an edit took it away.
OnDisk == draft = co.cur \/ (co.edited /\ (Stage = 5 => draft = None))

\* The candidate and the failure that a phase works on.
Working ==
  /\ co.phase \in {"validate", "passed"} /\ SavesCandidates => OnDisk
  /\ co.phase \in {"validate", "failed", "repair", "passed"} => co.cur \in Codes
  /\ co.phase \in {"failed", "repair"} => co.found \in Failure
  /\ co.phase = "prepare" /\ co.pending # None => co.cur \in Codes

\* What the records of a run say of each other, also after a stop between
\* two of their writes.
Records ==
  /\ sum = None => log = EmptyLog
  /\ sum # None =>
       /\ sum.round <= Rounds /\ log.gens <= Rounds
       /\ log.calls <= MaxRepairs * sum.round
       /\ sum.repairs <= log.calls /\ log.calls <= sum.repairs + 1
       /\ sum.status # "running" => sum.repairs = log.calls /\ log.gens <= sum.round

\* How the last run ended; only one that passed can be taken up again, and
\* then stage 5 has the template that passed.
Ended ==
  /\ co.outcome # None => co.phase = "idle"
  /\ co.phase = "passed" \/ co.outcome = "passed" => sum # None /\ sum.status = "passed"
  /\ co.outcome = "passed" /\ Stage = 5 => draft \in Codes
  /\ co.outcome \in {"failed", "exhausted", "error"} => sum # None /\ sum.status = "failed"
  /\ ExhaustedClears
  /\ failure # None => Stage = 5 /\ co.phase = "idle" /\ draft \in Codes
  /\ failure # None \/ (co.phase = "prepare" /\ co.pending # None) =>
       sum # None /\ sum.status = "passed"

Inv == TypeOK /\ (Running => Counters) /\ Working /\ Records /\ Ended
-----------------------------------------------------------------------------
(* Arithmetic of the bounds *)

LEMMA RoundsType == Rounds \in Nat /\ Rounds >= 1
  BY RecoveryAssumption DEF Rounds

\* One more round is worth MaxRepairs more repairs.
LEMMA Budgets ==
  ASSUME NEW r \in Nat, r >= 1
  PROVE  /\ MaxRepairs * (r - 1) \in Nat /\ MaxRepairs * r \in Nat
         /\ MaxRepairs * (r - 1) + MaxRepairs = MaxRepairs * r
  <1>1. MaxRepairs \in Nat /\ r - 1 \in Nat
    BY RecoveryAssumption
  <1> QED
    BY <1>1

LEMMA Monotone ==
  ASSUME NEW r \in Nat, NEW t \in Nat, r <= t
  PROVE  MaxRepairs * r <= MaxRepairs * t
  <1>1. MaxRepairs \in Nat /\ t - r \in Nat
    BY RecoveryAssumption
  <1>2. MaxRepairs * (t - r) \in Nat
    BY <1>1
  <1>3. MaxRepairs * t = MaxRepairs * r + MaxRepairs * (t - r)
    BY <1>1
  <1>4. MaxRepairs * r \in Nat
    BY <1>1
  <1> QED
    BY <1>2, <1>3, <1>4

-----------------------------------------------------------------------------
(* Types *)

LEMMA FrameType ==
  ASSUME NEW x \in Nat, NEW y \in Nat, NEW z \in Nat
  PROVE  NewFrame(x, y, z) \in Frame /\ Idle \in Frame
  <1> USE DEF Frame, NewFrame, Idle
  <1>1. \A i, j, k \in Nat : NewFrame(i, j, k) \in Frame
    OBVIOUS
  <1>2. Idle \in Frame
    BY <1>1
  <1> QED
    BY <1>1, <1>2

LEMMA NoneIsNoOutcome == None # "interrupted" /\ \A x \in Outcome : x # None
  BY NoneAssumption DEF Outcome

\* Ending a run, in whatever way, leaves an idle frame.
LEMMA EndedFrame ==
  ASSUME NEW x \in Outcome, NEW y \in Codes \cup {None}, NEW z \in BOOLEAN
  PROVE  /\ [Idle EXCEPT !.outcome = x, !.cur = y, !.edited = z] \in Frame
         /\ [Idle EXCEPT !.phase = "passed", !.cur = y, !.edited = z] \in Frame
         /\ [Idle EXCEPT !.outcome = x] \in Frame
  <1>1. 0 \in Nat
    OBVIOUS
  <1> QED
    BY <1>1, FrameType, ZenonT(60) DEF Frame

LEMMA StopFrame ==
  ASSUME Stops
  PROVE  co' \in Frame /\ co'.phase = "idle" /\ co'.outcome = "interrupted" /\ ~Running'
  <1>1. co' = [Idle EXCEPT !.outcome = "interrupted"] /\ Idle \in Frame
    BY FrameType DEF Stops
  <1>2. Idle.phase = "idle" /\ "interrupted" \in Outcome
    BY DEF Idle, NewFrame, Outcome
  <1> HIDE DEF Idle
  <1> QED
    BY <1>1, <1>2 DEF Frame, Running

LEMMA SummaryType ==
  ASSUME TypeOK, sum # None, NEW x \in Nat, NEW y \in Nat,
         NEW status \in {"running", "passed", "failed"}
  PROVE  /\ Recorded(x, y) \in StageRecoverySummary
         /\ FinishedAs(status) \in StageRecoverySummary
  BY DEF TypeOK, StageRecoverySummary, Recorded, FinishedAs, Frame

LEMMA FixType ==
  ASSUME NEW x \in Codes
  PROVE  Fixed(x) \in Codes \cup {None}
  BY RecoveryAssumption DEF Fixed

LEMMA SubmittedType ==
  ASSUME TypeOK, NEW x \in Codes
  PROVE  Submitted(x) \in Frame /\ Saved(x) \in Codes \cup {None}
  BY DEF TypeOK, Frame, Submitted, Saved

\* What Begin makes of the template and of the failure.
LEMMA PreparedType ==
  ASSUME NEW d \in Codes \cup {None}, NEW f \in Failure \cup {None}
  PROVE  [Idle EXCEPT !.phase = "prepare", !.cur = d, !.pending = f] \in Frame
  <1>1. 0 \in Nat
    OBVIOUS
  <1> QED
    BY <1>1, FrameType DEF Frame

\* Every step keeps the types, given what the invariant says of the phases.
LEMMA TypeStep == Inv /\ [Next]_vars => TypeOK'
  <1> SUFFICES ASSUME Inv, [Next]_vars PROVE TypeOK'
    OBVIOUS
  <1> USE DEF Inv, TypeOK
  <1>0. /\ sum # None => sum \in StageRecoverySummary
        /\ Running => sum # None
        /\ co.round \in Nat /\ co.total \in Nat /\ co.this \in Nat
        /\ log.calls \in Nat /\ log.gens \in Nat /\ log.inRound \in Nat
        /\ co.cur \in Codes \cup {None}
    BY DEF Counters, Frame, RunLog
  <1>1. CASE Start
    <2>1. co' \in Frame
      BY <1>1, FrameType DEF Start, StartRound, AttemptsAtStart
    <2> QED
      BY <1>1, <2>1 DEF Start, StageRecoverySummary, EmptyLog, RunLog
  <1>2. CASE Resume
    <2>1. /\ sum \in StageRecoverySummary /\ co.cur \in Codes /\ co.pending \in Failure
      BY <1>0, <1>2 DEF Resume, Ended, Working, Frame
    <2>2. /\ StartRound(sum.round) \in Nat /\ sum.repairs \in Nat
          /\ AttemptsAtStart(TRUE, sum.repairs) \in Nat
      BY <2>1 DEF StageRecoverySummary, StartRound, AttemptsAtStart
    <2> DEFINE f == NewFrame(StartRound(sum.round), AttemptsAtStart(TRUE, sum.repairs), sum.repairs)
    <2>4. f \in Frame
      BY <2>2, FrameType
    <2>5. co' = [f EXCEPT !.phase = "validate", !.cur = co.cur, !.pending = co.pending] \/ Stops
      BY <1>2 DEF Resume
    <2> HIDE DEF f
    <2>6. co' \in Frame
      BY <2>1, <2>4, <2>5, StopFrame, ZenonT(60) DEF Frame
    <2>7. sum' \in StageRecoverySummary
      BY <1>0, <1>2, <2>1, <2>2 DEF Resume, StageRecoverySummary
    <2>8. draft' \in Codes \cup {None}
      BY <1>2, <2>1, SubmittedType DEF Resume, Saved
    <2> QED
      BY <1>2, <2>6, <2>7, <2>8 DEF Resume
  <1>3. ASSUME NEW x \in Codes, GenerateReturns(x) PROVE TypeOK'
    <2>1. co' \in Frame /\ draft' \in Codes \cup {None}
      BY <1>3, SubmittedType, StopFrame DEF GenerateReturns
    <2>a. log.gens + 1 \in Nat /\ 0 \in Nat
      BY <1>0
    <2>2. log' \in RunLog
      BY <1>3, <2>a DEF GenerateReturns, Generated, RunLog
    <2>3. sum # None
      BY <1>0, <1>3 DEF GenerateReturns, Running
    <2>4. sum' \in StageRecoverySummary
      BY <1>3, <1>0, <2>3, SummaryType DEF GenerateReturns
    <2> QED
      BY <1>3, <2>1, <2>2, <2>4 DEF GenerateReturns
  <1>4. ASSUME NEW x \in Codes, RepairReturns(x) PROVE TypeOK'
    <2>1. Submitted(x) \in Frame /\ draft' \in Codes \cup {None}
      BY <1>4, SubmittedType DEF RepairReturns
    <2> DEFINE f == Submitted(x)
    <2>a. co' = [f EXCEPT !.this = @ + 1, !.total = @ + 1] \/ Stops
      BY <1>4 DEF RepairReturns
    <2>b. f \in Frame /\ f.this + 1 \in Nat /\ f.total + 1 \in Nat
      BY <2>1 DEF Frame
    <2> HIDE DEF f
    <2>2. co' \in Frame
      BY <2>a, <2>b, StopFrame DEF Frame
    <2>c. log.calls + 1 \in Nat /\ log.inRound + 1 \in Nat
      BY <1>0
    <2>3. log' \in RunLog
      BY <1>4, <2>c DEF RepairReturns, Called, RunLog
    <2>4. sum # None /\ log.calls + 1 \in Nat
      BY <1>0, <1>4 DEF RepairReturns, Running
    <2>5. sum' \in StageRecoverySummary
      BY <1>4, <1>0, <2>4, SummaryType DEF RepairReturns
    <2> QED
      BY <1>4, <2>1, <2>2, <2>3, <2>5 DEF RepairReturns
  <1>5. ASSUME NEW kind \in Kinds, ValidateFails(kind) PROVE TypeOK'
    <2>1. co.cur \in Codes /\ sum # None
      BY <1>0, <1>5 DEF ValidateFails, Working, Running
    <2>2. [kind |-> kind, of |-> co.cur] \in Failure
      BY <2>1 DEF Failure
    <2>3. co' \in Frame
      <3>2. CASE co.pending # None /\ co' = [co EXCEPT !.phase = "failed", !.found = co.pending,
                                                       !.pending = None]
        BY <3>2 DEF Frame
      <3>3. CASE co' = [co EXCEPT !.phase = "failed", !.found = [kind |-> kind, of |-> co.cur]]
        BY <2>2, <3>3 DEF Frame
      <3> QED
        BY <1>5, <3>2, <3>3 DEF ValidateFails, Found
    <2>4. sum' \in StageRecoverySummary
      BY <1>5, <1>0, <2>1, SummaryType DEF ValidateFails
    <2> QED
      BY <1>5, <2>3, <2>4 DEF ValidateFails
  <1>6. CASE ValidatePasses
    <2>a. co.edited \in BOOLEAN
      BY DEF Frame
    <2>1. co' \in Frame
      BY <1>0, <1>6, <2>a, EndedFrame DEF ValidatePasses, Outcome
    <2>2. sum' \in StageRecoverySummary
      BY <1>0, <1>6, SummaryType DEF ValidatePasses, Running
    <2> QED
      BY <1>6, <2>1, <2>2 DEF ValidatePasses
  <1>7. ASSUME Running, NEW x \in Outcome, EndsAs(x)
        PROVE  co' \in Frame /\ sum' \in StageRecoverySummary
    <2>1. co' \in Frame
      BY <1>7, EndedFrame DEF EndsAs
    <2>2. sum' \in StageRecoverySummary
      BY <1>0, <1>7, SummaryType DEF EndsAs
    <2> QED
      BY <2>1, <2>2
  <1>8. CASE RouteElsewhere
    <2>1. EndsAs("failed") /\ Running /\ "failed" \in Outcome
      BY <1>8 DEF RouteElsewhere, Running, Outcome
    <2> QED
      BY <1>7, <1>8, <2>1 DEF RouteElsewhere
  <1>9. CASE Fix
    <2>1. Fixed(co.cur) \in Codes
      BY <1>9, FixType DEF Fix, FixApplies, Repairable, Working
    <2>2. Submitted(Fixed(co.cur)) \in Frame /\ draft' \in Codes \cup {None}
      BY <1>9, <2>1, SubmittedType DEF Fix
    <2>3. co' \in Frame
      BY <1>9, <2>1, <2>2 DEF Fix, Frame
    <2> QED
      BY <1>9, <2>2, <2>3 DEF Fix
  <1>10. CASE FixRefused
    <2>1. co' \in Frame
      BY <1>10 DEF FixRefused, Frame
    <2>2. draft' \in Codes \cup {None}
      BY <1>10, FixType DEF FixRefused, FixApplies, Repairable, Working, Saved
    <2> QED
      BY <1>10, <2>1, <2>2 DEF FixRefused
  <1>11. CASE Exhaust
    <2>1. draft' \in Codes \cup {None}
      BY <1>11 DEF Exhaust, Cleared
    <2>2. CASE co.round < Rounds
      <3> DEFINE f == NewFrame(co.round + 1, AttemptsAtStart(FALSE, co.total), co.total)
      <3>1. f \in Frame
        BY <1>0, FrameType DEF AttemptsAtStart
      <3>2. co' = [f EXCEPT !.fixes = co.fixes, !.pending = co.pending]
        BY <1>11, <2>2 DEF Exhaust
      <3> HIDE DEF f
      <3>3. co' \in Frame
        BY <3>1, <3>2 DEF Frame
      <3> QED
        BY <1>11, <2>1, <2>2, <3>3 DEF Exhaust
    <2>3. CASE ~(co.round < Rounds)
      <3>1. Running /\ "exhausted" \in Outcome
        BY <1>11 DEF Exhaust, Running, Outcome
      <3>2. EndsAs("exhausted") \/ (Stops /\ UNCHANGED sum)
        BY <1>11, <2>3 DEF Exhaust
      <3> QED
        BY <1>7, <1>11, <2>1, <3>1, <3>2, StopFrame DEF Exhaust
    <2> QED
      BY <2>2, <2>3
  <1>12. CASE EnvironmentStops
    <2>1. EndsAs("error") /\ Running /\ "error" \in Outcome
      BY <1>12 DEF EnvironmentStops, Awaits, Running, Outcome
    <2> QED
      BY <1>7, <1>12, <2>1 DEF EnvironmentStops
  <1>13. CASE Interrupted
    BY <1>13, StopFrame DEF Interrupted
  <1>14. ASSUME NEW kind \in DownstreamKinds, DownstreamFails(kind) PROVE TypeOK'
    BY <1>14 DEF DownstreamFails, Frame
  <1>15. CASE PreparationFails
    BY <1>15, FrameType DEF PreparationFails
  <1>16. CASE UNCHANGED vars
    BY <1>16 DEF vars
  <1>17. CASE Begin
    <2> DEFINE f == IF failure = None THEN None ELSE [kind |-> failure, of |-> draft]
    <2>1. f \in Failure \cup {None}
      BY DEF Ended, Failure, Kinds, DownstreamKinds
    <2>2. co' = [Idle EXCEPT !.phase = "prepare", !.cur = draft, !.pending = f]
      BY <1>17 DEF Begin
    <2> HIDE DEF f
    <2>3. co' \in Frame
      BY <2>1, <2>2, PreparedType
    <2> QED
      BY <1>17, <2>3 DEF Begin
  <1>18. CASE SaveResult
    <2>a. co.edited \in BOOLEAN
      BY DEF Frame
    <2>1. co' \in Frame
      BY <1>0, <1>18, <2>a, EndedFrame DEF SaveResult, Outcome
    <2> QED
      BY <1>0, <1>18, <2>1 DEF SaveResult
  <1>19. ASSUME NEW x \in Codes \cup {None}, Edited(x) PROVE TypeOK'
    <2>1. co' \in Frame
      BY <1>19, FrameType, ZenonT(60) DEF Edited, Frame
    <2> QED
      BY <1>19, <2>1 DEF Edited
  <1>20. ASSUME NEW x \in Codes, UpdateSolution(x) PROVE TypeOK'
    <2>1. PICK y \in Codes \cup {None} : Edited(y)
      BY <1>20 DEF UpdateSolution
    <2> QED
      BY <1>19, <2>1
  <1>21. ASSUME NEW x \in Codes \cup {None}, SaveUserDraft(x) PROVE TypeOK'
    BY <1>19, <1>21 DEF SaveUserDraft
  <1> QED
    BY <1>1, <1>2, <1>3, <1>4, <1>5, <1>6, <1>8, <1>9, <1>10, <1>11, <1>12, <1>13, <1>14,
       <1>15, <1>16, <1>17, <1>18, <1>20, <1>21 DEF Next, Turn

-----------------------------------------------------------------------------
(* The invariant *)

LEMMA InvInit == Init => Inv
  <1> SUFFICES ASSUME Init PROVE Inv
    OBVIOUS
  <1>1. TypeOK
    BY FrameType DEF Init, TypeOK, EmptyLog, RunLog
  <1>2. co.phase = "idle" /\ co.outcome = None
    BY DEF Init, Idle, NewFrame
  <1> QED
    BY <1>1, <1>2, NoneIsNoOutcome
    DEF Outcome, Init, Inv, Running, Working, Records, Ended, ExhaustedClears

\* A live run has not ended, and nothing waits to be resumed.
LEMMA LiveFacts ==
  ASSUME Inv, Running
  PROVE  /\ co.outcome = None /\ failure = None /\ Counters /\ co \in Frame
         /\ sum \in StageRecoverySummary /\ log \in RunLog
  BY DEF Inv, Ended, Counters, TypeOK, Running

\* The process may stop wherever a run is, with whatever records are sound.
LEMMA StopKeepsInv ==
  ASSUME Inv, TypeOK', co.phase # "idle", Stops, UNCHANGED failure, Records'
  PROVE  Inv'
  <1>1. co'.phase = "idle" /\ co'.outcome = "interrupted" /\ ~Running'
    BY StopFrame
  <1>2. failure' = None
    BY DEF Inv, Ended
  <1>3. Ended'
    BY <1>1, <1>2 DEF Ended, ExhaustedClears
  <1> QED
    BY <1>1, <1>3 DEF Inv, Working

\* What has been generated and spent in a live run is within what the round
\* it has reached allows.
LEMMA RoundReached ==
  ASSUME Inv, Running
  PROVE  /\ co.round \in Nat /\ co.round >= 1 /\ co.round <= Rounds
         /\ log.calls <= MaxRepairs * co.round /\ log.gens <= co.round
  <1>1. /\ co.round \in Nat /\ co.round >= 1 /\ co.round <= Rounds
        /\ log.calls \in Nat /\ log.gens \in Nat /\ MaxRepairs \in Nat
    BY LiveFacts, RoundsType, RecoveryAssumption DEF Counters, RunLog
  <1>2. CASE co.phase = "generate"
    <2>1. log.calls <= MaxRepairs * (co.round - 1) /\ log.gens <= co.round - 1
      BY <1>2, LiveFacts DEF Counters
    <2> QED
      BY <1>1, <2>1, Budgets
  <1>3. CASE co.phase # "generate"
    BY <1>1, <1>3, LiveFacts DEF Counters
  <1> QED
    BY <1>2, <1>3

\* Records written with the counts of the loop are sound.
LEMMA RecordsOfRound ==
  ASSUME Inv, TypeOK', Running, UNCHANGED log,
         sum' # None, sum'.round = co.round, sum'.repairs = log.calls
  PROVE  Records'
  <1>1. log.calls \in Nat /\ log.gens \in Nat /\ Rounds \in Nat
    BY LiveFacts, RoundsType DEF RunLog
  <1> QED
    BY <1>1, RoundReached DEF Records

\* Ending a run as failed is sound from every phase of a live run, when the
\* draft that an exhausted run must not leave is gone.
LEMMA EndKeepsInv ==
  ASSUME Inv, TypeOK', Running, NEW x \in {"failed", "exhausted", "error"}, EndsAs(x),
         UNCHANGED <<log, failure>>, x = "exhausted" /\ CanRegenerate => draft' = None
  PROVE  Inv'
  <1>1. /\ co'.phase = "idle" /\ co'.outcome = x
        /\ sum'.status = "failed" /\ sum'.round = co.round /\ sum'.repairs = co.total
        /\ sum' # None
    <2>1. co' = [Idle EXCEPT !.outcome = x] /\ Idle \in Frame
      BY FrameType DEF EndsAs
    <2>2. sum' = [status |-> "failed", round |-> co.round, repairs |-> co.total]
      BY DEF EndsAs, FinishedAs
    <2>3. sum' # None
      BY LiveFacts, SummaryType, NoneAssumption DEF Inv, Counters, EndsAs
    <2> QED
      BY <2>1, <2>2, <2>3 DEF Frame, Idle, NewFrame
  <1>2. Records'
    BY <1>1, LiveFacts, RecordsOfRound DEF Counters
  <1>3. Ended'
    BY <1>1, LiveFacts, NoneIsNoOutcome DEF Ended, ExhaustedClears, Outcome
  <1> QED
    BY <1>1, <1>2, <1>3 DEF Inv, Running, Working

\* A step inside a round, to a phase other than generate, that makes
\* repairs in number made: what it must show of the counters.
LEMMA TurnKeepsInv ==
  ASSUME Inv, TypeOK', Running, NEW made \in {0, 1},
         co'.phase \in {"validate", "failed", "repair"},
         co'.round = co.round, co'.outcome = None, failure' = failure,
         co'.total = co.total + made, co'.this = co.this + made,
         made = 1 => co.phase # "generate" /\ co.this < MaxRepairs,
         log'.calls = log.calls + made,
         log'.gens = IF co.phase = "generate" THEN log.gens + 1 ELSE log.gens,
         sum' \in StageRecoverySummary,
         sum'.status = "running", sum'.round = co.round, sum'.repairs = log'.calls,
         Working'
  PROVE  Inv'
  <1>1. /\ co.round \in Nat /\ co.round >= 1 /\ co.round <= Rounds /\ Rounds \in Nat
        /\ co.total \in Nat /\ co.this \in Nat /\ co.total = log.calls
        /\ log.gens \in Nat /\ MaxRepairs \in Nat
    BY LiveFacts, RoundsType, RecoveryAssumption DEF Counters, Frame, RunLog
  <1> DEFINE before == MaxRepairs * (co.round - 1)
             upto == MaxRepairs * co.round
  <1>2. before \in Nat /\ upto \in Nat /\ before + MaxRepairs = upto
    BY <1>1, Budgets
  <1>3. co.phase = "generate" => co.total <= before /\ log.gens <= co.round - 1
    BY LiveFacts DEF Counters
  <1>4. co.phase # "generate" =>
          co.total <= upto /\ co.total <= before + co.this /\ log.gens <= co.round
    BY LiveFacts DEF Counters
  <1>5. sum' # None
    BY NoneAssumption
  <1> HIDE DEF before, upto
  <1>6. /\ co'.total <= upto /\ co'.total <= before + co'.this /\ log'.gens <= co.round
        /\ log'.gens \in Nat /\ log'.calls \in Nat
    BY <1>1, <1>2, <1>3, <1>4
  <1>7. Counters'
    BY <1>1, <1>5, <1>6 DEF Counters, before, upto
  <1>8. Records'
    BY <1>1, <1>5, <1>6 DEF Records, upto
  <1>9. Ended'
    BY LiveFacts, NoneIsNoOutcome DEF Ended, ExhaustedClears, Outcome
  <1> QED
    BY <1>7, <1>8, <1>9 DEF Inv

\* A step in which the validator, a fix or the lack of one leads to the next
\* phase with the same counters.
LEMMA SameCounters ==
  ASSUME Inv, TypeOK', Running, co.phase # "generate", UNCHANGED <<log, failure>>,
         co'.phase \in {"validate", "failed", "repair"}, co'.round = co.round,
         co'.outcome = co.outcome, co'.total = co.total, co'.this = co.this,
         sum' = sum \/ sum' = Recorded(co.round, log.calls), Working'
  PROVE  Inv'
  <1>1. /\ sum' \in StageRecoverySummary /\ sum'.status = "running"
        /\ sum'.round = co.round /\ sum'.repairs = log.calls
    <2>1. CASE sum' = sum
      BY <2>1, LiveFacts DEF Counters
    <2>2. CASE sum' = Recorded(co.round, log.calls)
      <3>1. sum' = [sum EXCEPT !.round = co.round, !.repairs = log.calls]
        BY <2>2 DEF Recorded
      <3>2. sum' \in StageRecoverySummary
        <4>1. co.round \in Nat /\ log.calls \in Nat
          BY LiveFacts DEF Frame, RunLog
        <4> QED
          BY <2>2, <4>1, LiveFacts, SummaryType DEF Inv, Counters
      <3> QED
        BY <3>1, <3>2, LiveFacts DEF Counters, StageRecoverySummary
    <2> QED
      BY <2>1, <2>2
  <1>2. co'.total = co.total + 0 /\ co'.this = co.this + 0 /\ log'.calls = log.calls + 0
    BY LiveFacts DEF Frame, RunLog
  <1> QED
    BY <1>1, <1>2, LiveFacts, TurnKeepsInv

LEMMA BeginKeepsInv == Inv /\ TypeOK' /\ Begin => Inv'
  <1> SUFFICES ASSUME Inv, TypeOK', Begin PROVE Inv'
    OBVIOUS
  <1> DEFINE f == IF failure = None THEN None ELSE [kind |-> failure, of |-> draft]
  <1>1. co' = [Idle EXCEPT !.phase = "prepare", !.cur = draft, !.pending = f] /\ Idle \in Frame
    BY FrameType DEF Begin
  <1>2. f # None => failure # None
    OBVIOUS
  <1> HIDE DEF f
  <1>3. /\ co'.phase = "prepare" /\ co'.cur = draft /\ co'.pending = f /\ co'.outcome = None
        /\ failure' = None /\ UNCHANGED <<sum, log, draft>>
    BY <1>1 DEF Begin, Frame, Idle, NewFrame
  <1>4. Working'
    BY <1>2, <1>3 DEF Working, Inv, Ended
  <1>5. Ended'
    BY <1>2, <1>3, NoneIsNoOutcome DEF Ended, ExhaustedClears, Inv, Outcome
  <1>6. Records'
    BY <1>3 DEF Records, Inv
  <1> QED
    BY <1>3, <1>4, <1>5, <1>6 DEF Inv, Running

LEMMA StartKeepsInv == Inv /\ TypeOK' /\ Start => Inv'
  <1> SUFFICES ASSUME Inv, TypeOK', Start PROVE Inv'
    OBVIOUS
  <1>1. /\ co'.phase = "generate" /\ co'.round = 1 /\ co'.total = 0 /\ co'.outcome = None
        /\ sum' = [status |-> "running", round |-> 0, repairs |-> 0] /\ sum' # None
        /\ log'.calls = 0 /\ log'.gens = 0
    <2>1. sum' \in StageRecoverySummary
      BY DEF Start, StageRecoverySummary
    <2> QED
      BY <2>1, NoneAssumption DEF Start, NewFrame, StartRound, EmptyLog
  <1>2. MaxRepairs * 0 = 0 /\ MaxRepairs * (1 - 1) = 0
    BY RecoveryAssumption
  <1>3. Counters'
    BY <1>1, <1>2, RoundsType DEF Counters
  <1>4. Records'
    BY <1>1, <1>2, RoundsType DEF Records
  <1>5. Working'
    BY <1>1 DEF Working
  <1>6. failure' = None
    BY DEF Start, Inv, Ended
  <1>7. Ended'
    BY <1>1, <1>6, NoneIsNoOutcome DEF Ended, ExhaustedClears, Outcome
  <1> QED
    BY <1>3, <1>4, <1>5, <1>7 DEF Inv

LEMMA ResumeKeepsInv == Inv /\ TypeOK' /\ Resume => Inv'
  <1> SUFFICES ASSUME Inv, TypeOK', Resume PROVE Inv'
    OBVIOUS
  <1> DEFINE r == StartRound(sum.round)
  <1>1. /\ sum \in StageRecoverySummary /\ sum # None /\ sum.status = "passed"
        /\ co.cur \in Codes /\ log \in RunLog
        /\ log.calls \in Nat /\ log.gens \in Nat /\ sum.round \in Nat
        /\ sum.repairs = log.calls /\ log.gens <= sum.round
    BY DEF Resume, Inv, Ended, Working, TypeOK, Records, StageRecoverySummary, RunLog
  <1>2. /\ r \in Nat /\ r >= 1 /\ r <= Rounds /\ sum.round <= r
        /\ r = sum.round \/ sum.round = 0
    BY <1>1, RoundsType DEF StartRound, Inv, Records
  <1>3. log.gens <= r /\ log.calls <= MaxRepairs * r
    <2>1. log.calls <= MaxRepairs * sum.round
      BY <1>1 DEF Inv, Records
    <2>2. CASE r = sum.round
      BY <1>1, <2>1, <2>2
    <2>3. CASE sum.round = 0
      <3>1. log.calls <= 0
        BY <2>1, <2>3, RecoveryAssumption
      <3>2. MaxRepairs * r \in Nat
        BY <1>2, Budgets
      <3> QED
        BY <1>1, <1>2, <2>1, <3>1, <3>2
    <2> QED
      BY <1>2, <2>2, <2>3
  <1>4. MaxRepairs * (r - 1) \in Nat
    BY <1>2, Budgets
  <1>5. /\ sum'.status = "running" /\ sum'.round = r /\ sum'.repairs = log.calls /\ sum' # None
    <2>1. sum' \in StageRecoverySummary
      BY <1>1, <1>2 DEF Resume, StageRecoverySummary
    <2>2. sum' = [sum EXCEPT !.status = "running", !.round = r, !.repairs = log.calls]
      BY DEF Resume
    <2> HIDE DEF r
    <2> QED
      BY <1>1, <2>1, <2>2, NoneAssumption DEF StageRecoverySummary
  <1>6. log' = log /\ failure' = failure /\ co.phase = "prepare" /\ failure = None
    BY DEF Resume, Inv, Ended
  <1>7. /\ Rounds \in Nat
        /\ \/ Stops
           \/ /\ co'.phase = "validate" /\ co'.round = r /\ co'.total = log.calls
              /\ co'.this = log.calls /\ co'.cur = co.cur /\ co'.outcome = None
              /\ draft' = Saved(co.cur)
    BY <1>1, RoundsType DEF Resume, NewFrame, AttemptsAtStart
  <1> HIDE DEF r
  <1>8. Records'
    BY <1>1, <1>2, <1>3, <1>5, <1>6, <1>7 DEF Records
  <1>9. CASE Stops
    BY <1>6, <1>8, <1>9, StopKeepsInv
  <1>10. CASE ~Stops
    <2>1. log.calls <= MaxRepairs * (r - 1) + log.calls
      BY <1>1, <1>4
    <2>2. Counters'
      BY <1>1, <1>2, <1>3, <1>5, <1>6, <1>7, <1>10, <2>1 DEF Counters
    <2>3. Working'
      BY <1>1, <1>7, <1>10 DEF Working, OnDisk, Saved
    <2>4. Ended'
      BY <1>6, <1>7, <1>10, NoneIsNoOutcome DEF Ended, ExhaustedClears, Outcome
    <2> QED
      BY <1>8, <2>2, <2>3, <2>4 DEF Inv
  <1> QED
    BY <1>9, <1>10

LEMMA GenerateKeepsInv ==
  ASSUME Inv, TypeOK', NEW x \in Codes, GenerateReturns(x)
  PROVE  Inv'
  <1>1. Running /\ co.phase = "generate"
    BY DEF GenerateReturns, Running
  <1>2. log'.calls = log.calls /\ log'.gens = log.gens + 1 /\ failure' = failure
    BY <1>1, LiveFacts DEF GenerateReturns, Generated, RunLog
  <1>3. ASSUME sum' = Recorded(co.round, log.calls)
        PROVE  /\ sum' \in StageRecoverySummary /\ sum' # None /\ sum'.status = "running"
               /\ sum'.round = co.round /\ sum'.repairs = log.calls
    <2>1. sum' = [sum EXCEPT !.round = co.round, !.repairs = log.calls]
      BY <1>3 DEF Recorded
    <2>2. co.round \in Nat /\ log.calls \in Nat
      BY <1>1, LiveFacts DEF Frame, RunLog
    <2>3. sum' \in StageRecoverySummary
      BY <1>1, <1>3, <2>2, LiveFacts, SummaryType DEF Inv, Counters
    <2> QED
      BY <1>1, <2>1, <2>3, LiveFacts, NoneAssumption DEF Counters, StageRecoverySummary
  <1>4. CASE Stops
    <2>1. /\ log.gens <= co.round - 1 /\ co.round <= Rounds /\ co.round \in Nat
          /\ log.gens \in Nat /\ log.calls \in Nat /\ Rounds \in Nat
      BY <1>1, LiveFacts, RoundsType, RoundReached DEF Counters, RunLog
    <2>2. ASSUME sum' = sum PROVE Records'
      BY <1>1, <1>2, <2>1, <2>2, LiveFacts DEF Records, Inv, Counters
    <2>3. ASSUME sum' = Recorded(co.round, log.calls) PROVE Records'
      BY <1>1, <1>2, <1>3, <2>1, <2>3, RoundReached DEF Records
    <2>4. Stops => sum' = sum \/ sum' = Recorded(co.round, log.calls)
      BY DEF GenerateReturns
    <2> QED
      BY <1>1, <1>2, <1>4, <2>2, <2>3, <2>4, StopKeepsInv
  <1>5. CASE ~Stops
    <2>1. co' = Submitted(x) /\ sum' = Recorded(co.round, log.calls) /\ draft' = Saved(x)
      BY <1>5 DEF GenerateReturns
    <2>2. /\ co'.phase = "validate" /\ co'.cur = x /\ co'.round = co.round
          /\ co'.outcome = None /\ co'.total = co.total /\ co'.this = co.this
      BY <1>1, <2>1, LiveFacts DEF Submitted, Frame
    <2>3. Working'
      BY <2>1, <2>2 DEF Working, OnDisk, Saved
    <2>4. co'.total = co.total + 0 /\ co'.this = co.this + 0 /\ log'.calls = log.calls + 0
      BY <1>1, <1>2, <2>2, LiveFacts DEF Frame, RunLog
    <2> QED
      BY <1>1, <1>2, <1>3, <2>1, <2>2, <2>3, <2>4, TurnKeepsInv
  <1> QED
    BY <1>4, <1>5

LEMMA RepairKeepsInv ==
  ASSUME Inv, TypeOK', NEW x \in Codes, RepairReturns(x)
  PROVE  Inv'
  <1>1. Running /\ co.phase = "repair" /\ co.this < MaxRepairs /\ failure' = failure
    BY DEF RepairReturns, Running
  <1>2. ASSUME sum' = Recorded(co.round, log.calls + 1)
        PROVE  /\ sum' \in StageRecoverySummary /\ sum' # None /\ sum'.status = "running"
               /\ sum'.round = co.round /\ sum'.repairs = log.calls + 1
    <2>1. sum' = [sum EXCEPT !.round = co.round, !.repairs = log.calls + 1]
      BY <1>2 DEF Recorded
    <2>2. co.round \in Nat /\ log.calls + 1 \in Nat
      BY <1>1, LiveFacts DEF Frame, RunLog
    <2>3. sum' \in StageRecoverySummary
      BY <1>1, <1>2, <2>2, LiveFacts, SummaryType DEF Inv, Counters
    <2> QED
      BY <1>1, <2>1, <2>3, LiveFacts, NoneAssumption DEF Counters, StageRecoverySummary
  <1>3. ASSUME Called PROVE log'.calls = log.calls + 1 /\ log'.gens = log.gens
    BY <1>1, <1>3, LiveFacts DEF Called, RunLog
  <1>4. CASE Stops
    <2>1. CASE UNCHANGED <<sum, log>>
      BY <1>1, <1>4, <2>1, StopKeepsInv DEF Inv, Records
    <2>2. CASE Called /\ sum' \in {sum, Recorded(co.round, log.calls + 1)}
      <3>1. /\ co.round \in Nat /\ co.round <= Rounds /\ Rounds \in Nat /\ log.gens <= co.round
            /\ log.gens \in Nat /\ log.calls \in Nat /\ sum.round = co.round /\ sum # None
            /\ sum.status = "running" /\ sum.repairs = log.calls
        BY <1>1, LiveFacts, RoundsType, RoundReached DEF Counters, RunLog
      <3>2. log.calls + 1 <= MaxRepairs * co.round
        <4>1. /\ co.round \in Nat /\ co.round >= 1 /\ co.this \in Nat /\ MaxRepairs \in Nat
              /\ log.calls <= MaxRepairs * (co.round - 1) + co.this
          BY <1>1, LiveFacts, RoundReached, RecoveryAssumption DEF Counters, Frame
        <4> DEFINE before == MaxRepairs * (co.round - 1)
                   upto == MaxRepairs * co.round
        <4>2. before \in Nat /\ upto \in Nat /\ before + MaxRepairs = upto
          BY <4>1, Budgets
        <4>3. log.calls <= before + co.this
          BY <4>1
        <4> HIDE DEF before, upto
        <4>4. log.calls + 1 <= upto
          BY <1>1, <3>1, <4>1, <4>2, <4>3
        <4> QED
          BY <4>4 DEF upto
      <3>3. Records'
        <4>1. CASE sum' = sum
          BY <1>3, <2>2, <3>1, <3>2, <4>1 DEF Records
        <4>2. CASE sum' = Recorded(co.round, log.calls + 1)
          BY <1>2, <1>3, <2>2, <3>1, <3>2, <4>2 DEF Records
        <4> QED
          BY <2>2, <4>1, <4>2
      <3> QED
        BY <1>1, <1>4, <3>3, StopKeepsInv
    <2>3. co' # [Submitted(x) EXCEPT !.this = @ + 1, !.total = @ + 1]
      <3> DEFINE f == Submitted(x)
      <3>1. f \in Frame /\ f.phase = "validate" /\ co'.phase = "idle"
        BY <1>1, <1>4, LiveFacts, SubmittedType, StopFrame DEF Inv, Submitted, Frame
      <3> HIDE DEF f
      <3>2. co' # [f EXCEPT !.this = @ + 1, !.total = @ + 1]
        BY <3>1 DEF Frame
      <3> QED
        BY <3>2 DEF f
    <2> QED
      BY <2>1, <2>2, <2>3 DEF RepairReturns
  <1>5. CASE ~Stops
    <2>1. /\ co' = [Submitted(x) EXCEPT !.this = @ + 1, !.total = @ + 1] /\ Called
          /\ sum' = Recorded(co.round, log.calls + 1) /\ draft' = Saved(x)
      BY <1>5 DEF RepairReturns
    <2>2. /\ co'.phase = "validate" /\ co'.cur = x /\ co'.round = co.round
          /\ co'.outcome = None /\ co'.total = co.total + 1 /\ co'.this = co.this + 1
      BY <1>1, <2>1, LiveFacts DEF Submitted, Frame
    <2>3. Working'
      BY <2>1, <2>2 DEF Working, OnDisk, Saved
    <2> QED
      BY <1>1, <1>2, <1>3, <2>1, <2>2, <2>3, TurnKeepsInv
  <1> QED
    BY <1>4, <1>5

LEMMA ValidateFailsKeepsInv ==
  ASSUME Inv, TypeOK', NEW kind \in Kinds, ValidateFails(kind)
  PROVE  Inv'
  <1>1. Running /\ co.phase = "validate" /\ co.cur \in Codes /\ co \in Frame
    BY LiveFacts DEF ValidateFails, Running, Inv, Working
  <1>2. /\ co'.phase = "failed" /\ co'.cur = co.cur /\ co'.found \in Failure
        /\ co'.round = co.round /\ co'.outcome = co.outcome
        /\ co'.total = co.total /\ co'.this = co.this
    <2>1. CASE co' = [co EXCEPT !.phase = "failed", !.found = [kind |-> kind, of |-> co.cur]]
      <3>1. [kind |-> kind, of |-> co.cur] \in Failure
        BY <1>1 DEF Failure
      <3> QED
        BY <1>1, <2>1, <3>1 DEF Frame
    <2>2. CASE /\ co.pending # None
               /\ co' = [co EXCEPT !.phase = "failed", !.found = co.pending, !.pending = None]
      BY <1>1, <2>2 DEF Frame
    <2> QED
      BY <2>1, <2>2 DEF ValidateFails, Found
  <1>3. Working'
    BY <1>1, <1>2 DEF Working
  <1> QED
    BY <1>1, <1>2, <1>3, SameCounters DEF ValidateFails

LEMMA FixKeepsInv == Inv /\ TypeOK' /\ Fix => Inv'
  <1> SUFFICES ASSUME Inv, TypeOK', Fix PROVE Inv'
    OBVIOUS
  <1> DEFINE x == Fixed(co.cur)
  <1>1. Running /\ co.phase = "failed" /\ co \in Frame /\ x \in Codes
    BY FixType, LiveFacts DEF Fix, FixApplies, Repairable, Running, Inv, Working
  <1>2. co' = [Submitted(x) EXCEPT !.fixes = @ \cup {x}] /\ draft' = Saved(x)
    BY DEF Fix
  <1> HIDE DEF x
  <1>3. /\ co'.phase = "validate" /\ co'.cur = x /\ co'.round = co.round
        /\ co'.outcome = co.outcome /\ co'.total = co.total /\ co'.this = co.this
    BY <1>1, <1>2 DEF Submitted, Frame
  <1>4. Working'
    BY <1>1, <1>2, <1>3 DEF Working, OnDisk, Saved
  <1> QED
    BY <1>1, <1>3, <1>4, SameCounters DEF Fix

LEMMA FixRefusedKeepsInv == Inv /\ TypeOK' /\ FixRefused => Inv'
  <1> SUFFICES ASSUME Inv, TypeOK', FixRefused PROVE Inv'
    OBVIOUS
  <1>1. /\ Running /\ co.phase = "failed" /\ co \in Frame
        /\ co.cur \in Codes /\ co.found \in Failure
    BY LiveFacts DEF FixRefused, Repairable, Running, Inv, Working
  <1>2. /\ co'.phase = "repair" /\ co'.cur = co.cur /\ co'.found = co.found
        /\ co'.round = co.round /\ co'.outcome = co.outcome
        /\ co'.total = co.total /\ co'.this = co.this
    BY <1>1 DEF FixRefused, Frame
  <1>3. Working'
    BY <1>1, <1>2 DEF Working
  <1> QED
    BY <1>1, <1>2, <1>3, SameCounters DEF FixRefused

LEMMA PassKeepsInv == Inv /\ TypeOK' /\ ValidatePasses => Inv'
  <1> SUFFICES ASSUME Inv, TypeOK', ValidatePasses PROVE Inv'
    OBVIOUS
  <1>1. /\ Running /\ co.phase = "validate" /\ Counters /\ failure = None /\ co \in Frame
        /\ UNCHANGED <<log, draft, failure>>
    BY LiveFacts DEF ValidatePasses, Running
  <1>2. /\ co'.phase = "passed" /\ co'.outcome = None /\ co'.cur = co.cur
        /\ co'.edited = co.edited
    <2>1. co' = [Idle EXCEPT !.phase = "passed", !.cur = co.cur, !.edited = co.edited] /\ Idle \in Frame
      BY FrameType DEF ValidatePasses
    <2> QED
      BY <2>1 DEF Frame, Idle, NewFrame
  <1>3. /\ sum' # None /\ sum'.status = "passed" /\ sum'.round = co.round
        /\ sum'.repairs = co.total
    <2>1. sum' = [status |-> "passed", round |-> co.round, repairs |-> co.total]
      BY DEF ValidatePasses, FinishedAs
    <2>2. sum' \in StageRecoverySummary
      BY <1>1, SummaryType DEF ValidatePasses, Inv, Counters
    <2> QED
      BY <2>1, <2>2, NoneAssumption
  <1>4. Records'
    BY <1>1, <1>3, RecordsOfRound DEF Counters
  <1>5. Working'
    BY <1>1, <1>2 DEF Working, OnDisk, Inv
  <1>6. Ended'
    BY <1>1, <1>2, <1>3, NoneIsNoOutcome DEF Ended, ExhaustedClears, Outcome
  <1> QED
    BY <1>2, <1>4, <1>5, <1>6 DEF Inv, Running

LEMMA SaveResultKeepsInv == Inv /\ TypeOK' /\ SaveResult => Inv'
  <1> SUFFICES ASSUME Inv, TypeOK', SaveResult PROVE Inv'
    OBVIOUS
  <1>1. /\ co.phase = "passed" /\ co.cur \in Codes /\ failure' = None
        /\ UNCHANGED <<sum, log>> /\ sum # None /\ sum.status = "passed"
    BY DEF SaveResult, Inv, Working, Ended
  <1>2. co'.phase = "idle" /\ co'.outcome = "passed"
    <2>1. /\ co' = [Idle EXCEPT !.outcome = "passed", !.cur = co.cur, !.edited = co.edited]
          /\ Idle \in Frame
      BY FrameType DEF SaveResult
    <2> QED
      BY <2>1 DEF Frame, Idle, NewFrame
  <1>3. Stage = 5 => draft' \in Codes
    BY <1>1 DEF SaveResult, CanRegenerate
  <1>4. Ended'
    BY <1>1, <1>2, <1>3, NoneIsNoOutcome DEF Ended, ExhaustedClears
  <1>5. Records'
    BY <1>1 DEF Records, Inv
  <1> QED
    BY <1>2, <1>4, <1>5 DEF Inv, Running, Working

LEMMA ExhaustKeepsInv == Inv /\ TypeOK' /\ Exhaust => Inv'
  <1> SUFFICES ASSUME Inv, TypeOK', Exhaust PROVE Inv'
    OBVIOUS
  <1>1. /\ Running /\ co.phase = "repair" /\ Counters /\ failure = None /\ co \in Frame
        /\ UNCHANGED <<log, failure>>
    BY LiveFacts DEF Exhaust, Running
  <1>2. CASE co.round < Rounds
    <2> DEFINE f == NewFrame(co.round + 1, AttemptsAtStart(FALSE, co.total), co.total)
    <2>1. /\ f \in Frame /\ f.phase = "generate" /\ f.round = co.round + 1
          /\ f.total = co.total /\ f.outcome = None
      BY <1>1, FrameType DEF AttemptsAtStart, NewFrame, Frame
    <2>2. co' = [f EXCEPT !.fixes = co.fixes, !.pending = co.pending] /\ UNCHANGED <<sum, log, failure>>
      BY <1>2 DEF Exhaust
    <2> HIDE DEF f
    <2>3. /\ co'.phase = "generate" /\ co'.round = co.round + 1
          /\ co'.total = co.total /\ co'.outcome = None
      BY <2>1, <2>2 DEF Frame
    <2>4. /\ co.round \in Nat /\ co'.round \in 1..Rounds /\ co'.round - 1 = co.round
      BY <1>1, <1>2, <2>3, RoundsType DEF Counters
    <2>5. Counters'
      BY <1>1, <2>2, <2>3, <2>4 DEF Counters
    <2>6. Records'
      BY <2>2 DEF Records, Inv
    <2>7. Ended'
      BY <1>1, <2>2, <2>3, NoneIsNoOutcome DEF Ended, ExhaustedClears, Outcome
    <2> QED
      BY <2>3, <2>5, <2>6, <2>7 DEF Inv, Working
  <1>3. CASE ~(co.round < Rounds)
    <2>1. EndsAs("exhausted") \/ (Stops /\ UNCHANGED sum)
      BY <1>3 DEF Exhaust
    <2>2. CanRegenerate => draft' = None
      BY DEF Exhaust, Cleared
    <2>3. CASE EndsAs("exhausted")
      BY <1>1, <2>2, <2>3, EndKeepsInv
    <2>4. CASE Stops /\ UNCHANGED sum
      BY <1>1, <2>4, StopKeepsInv DEF Records, Inv
    <2> QED
      BY <2>1, <2>3, <2>4
  <1> QED
    BY <1>2, <1>3

\* An edit, at an await of the loop or between two runs.
LEMMA EditKeepsInv ==
  ASSUME Inv, TypeOK', NEW x \in Codes \cup {None}, Edited(x),
         co.phase \in {"idle", "prepare"} \/ Awaits,
         co.phase # "idle" /\ Stage = 5 => x = None
  PROVE  Inv'
  <1>1. co \in Frame /\ failure' = None /\ draft' = x /\ UNCHANGED <<sum, log>>
    BY DEF Inv, TypeOK, Edited
  <1>2. Records'
    BY <1>1 DEF Inv, Records
  <1>3. CASE co.phase = "idle"
    <2>1. co'.phase = "idle" /\ co'.outcome = None
      BY <1>3 DEF Edited, Idle, NewFrame
    <2>2. Ended'
      BY <1>1, <2>1, NoneIsNoOutcome DEF Ended, ExhaustedClears, Outcome
    <2> QED
      BY <1>2, <2>1, <2>2 DEF Inv, Working, Running
  <1>4. CASE co.phase # "idle"
    <2>1. /\ co'.phase = co.phase /\ co'.outcome = co.outcome /\ co'.edited = TRUE
          /\ co'.cur = co.cur /\ co'.found = co.found /\ co'.round = co.round
          /\ co'.total = co.total /\ co'.this = co.this /\ co'.pending = co.pending
      BY <1>1, <1>4 DEF Edited, Frame
    <2>2. co.outcome = None
      BY <1>4 DEF Inv, Ended
    <2>3. Running' => Counters'
      BY <1>1, <2>1 DEF Inv, Counters, Running
    <2>4. Working'
      BY <1>1, <1>4, <2>1 DEF Inv, Working, OnDisk
    <2>5. Ended'
      BY <1>1, <2>1, <2>2, NoneIsNoOutcome DEF Inv, Ended, ExhaustedClears, Outcome
    <2> QED
      BY <1>2, <2>3, <2>4, <2>5 DEF Inv
  <1> QED
    BY <1>3, <1>4

LEMMA DownstreamKeepsInv ==
  ASSUME Inv, TypeOK', NEW kind \in DownstreamKinds, DownstreamFails(kind)
  PROVE  Inv'
  <1>1. /\ co.phase = "idle" /\ co \in Frame /\ sum # None /\ sum.status = "passed"
        /\ draft \in Codes /\ Stage = 5
    BY DEF DownstreamFails, Inv, TypeOK, Ended
  <1>2. co'.phase = "idle" /\ co'.outcome = None /\ UNCHANGED <<sum, log, draft>>
    BY <1>1 DEF DownstreamFails, Frame
  <1>3. Ended'
    BY <1>1, <1>2, NoneIsNoOutcome DEF Ended, ExhaustedClears, Outcome
  <1>4. Records'
    BY <1>2 DEF Records, Inv
  <1> QED
    BY <1>2, <1>3, <1>4 DEF Inv, Running, Working

LEMMA InvStep == Inv /\ [Next]_vars => Inv'
  <1> SUFFICES ASSUME Inv, [Next]_vars PROVE Inv'
    OBVIOUS
  <1>1. TypeOK'
    BY TypeStep
  <1>2. CASE RouteElsewhere
    <2>1. EndsAs("failed") /\ Running /\ UNCHANGED <<log, failure>>
      BY <1>2 DEF RouteElsewhere, Running
    <2> QED
      BY <1>1, <2>1, EndKeepsInv
  <1>3. CASE EnvironmentStops
    <2>1. EndsAs("error") /\ Running /\ UNCHANGED <<log, failure>>
      BY <1>3 DEF EnvironmentStops, Awaits, Running
    <2> QED
      BY <1>1, <2>1, EndKeepsInv
  <1>4. CASE PreparationFails
    <2>1. co'.phase = "idle" /\ co'.outcome = None /\ UNCHANGED <<sum, log, draft, failure>>
      BY <1>4 DEF PreparationFails, Idle, NewFrame
    <2>2. Ended' /\ Records'
      BY <1>4, <2>1, NoneIsNoOutcome
      DEF PreparationFails, Ended, Records, ExhaustedClears, Inv, Outcome
    <2> QED
      BY <1>1, <2>1, <2>2 DEF Inv, Running, Working
  <1>5. CASE UNCHANGED vars
    BY <1>5 DEF vars, Inv, TypeOK, Running, Counters, Working, OnDisk, Records, Ended,
       ExhaustedClears
  <1>6. CASE Interrupted
    BY <1>1, <1>6, StopKeepsInv DEF Interrupted, Inv, Records
  <1>7. ASSUME NEW x \in Codes, UpdateSolution(x) PROVE Inv'
    <2> DEFINE y == CASE Stage = 1 -> draft [] Stage = 2 -> x [] OTHER -> None
    <2>1. y \in Codes \cup {None} /\ (Stage = 5 => y = None)
      BY DEF Inv, TypeOK
    <2>2. Edited(y) /\ (co.phase \in {"idle", "prepare"} \/ Awaits)
      BY <1>7 DEF UpdateSolution
    <2> HIDE DEF y
    <2> QED
      BY <1>1, <2>1, <2>2, EditKeepsInv
  <1>8. ASSUME NEW x \in Codes \cup {None}, SaveUserDraft(x) PROVE Inv'
    BY <1>1, <1>8, EditKeepsInv DEF SaveUserDraft
  <1> QED
    BY <1>1, <1>2, <1>3, <1>4, <1>5, <1>6, <1>7, <1>8, BeginKeepsInv, StartKeepsInv,
       ResumeKeepsInv, GenerateKeepsInv, RepairKeepsInv, ValidateFailsKeepsInv, PassKeepsInv,
       SaveResultKeepsInv, FixKeepsInv, FixRefusedKeepsInv, ExhaustKeepsInv, DownstreamKeepsInv
    DEF Next, Turn

THEOREM Invariance == Spec => []Inv
  BY InvInit, InvStep, PTL DEF Spec

-----------------------------------------------------------------------------
(* The theorems *)

\* The summary, the manifest, the draft and the loop stay within their types.
THEOREM TypeCorrect == Spec => []TypeOK
  <1>1. Inv => TypeOK
    BY DEF Inv
  <1> QED
    BY <1>1, Invariance, PTL

\* Repairs and generations stay within the rounds reached, however often a
\* run is resumed.
THEOREM BudgetKept == Spec => [](RepairsBounded /\ GenerationsBounded)
  <1>1. Inv => RepairsBounded /\ GenerationsBounded
    BY DEF Inv, Records, RepairsBounded, GenerationsBounded
  <1> QED
    BY <1>1, Invariance, PTL

\* The loop, the manifest and the record agree but for one call that a stop
\* kept from the record, and tell how a run ended.
THEOREM BooksKept == Spec => []BooksAgree
  <1>1. Inv => BooksAgree
    <2> SUFFICES ASSUME Inv, sum # None PROVE BooksAgree
      BY DEF BooksAgree
    <2>1. Running => sum.repairs = log.calls /\ co.total = log.calls /\ sum.status = "running"
      BY DEF Inv, Counters
    <2>2. /\ sum.repairs <= log.calls /\ log.calls <= sum.repairs + 1
          /\ sum.status # "running" => sum.repairs = log.calls
      BY DEF Inv, Records
    <2>3. sum \in StageRecoverySummary /\ sum.status \in {"running", "passed", "failed"}
      BY DEF Inv, TypeOK, StageRecoverySummary
    <2> QED
      BY <2>1, <2>2, <2>3 DEF Inv, Ended, BooksAgree
  <1> QED
    BY <1>1, Invariance, PTL

\* What a passed run leaves on disk is what was validated, unless the solution
\* was replaced meanwhile; then stage 5 has no template.
THEOREM VerifiedKept == Spec => []PassedIsVerified
  <1>1. Inv => PassedIsVerified
    BY DEF Inv, Working, OnDisk, PassedIsVerified
  <1> QED
    BY <1>1, Invariance, PTL

\* An exhausted run of a stage that can regenerate leaves no candidate.
THEOREM ClearedKept == Spec => []ExhaustedClears
  <1>1. Inv => ExhaustedClears
    BY DEF Inv, Ended
  <1> QED
    BY <1>1, Invariance, PTL

-----------------------------------------------------------------------------
(* The loop implements its promise *)

\* A repair is made within the budget of all rounds.
LEMMA WithinBudget ==
  ASSUME Inv, NEW x \in Codes, RepairReturns(x)
  PROVE  log.calls < MaxRepairs * Rounds
  <1>1. Running /\ co.phase = "repair" /\ co.this < MaxRepairs
    BY DEF RepairReturns, Running
  <1>2. /\ co.round \in Nat /\ co.round >= 1 /\ co.round <= Rounds /\ Rounds \in Nat
        /\ co.this \in Nat /\ log.calls \in Nat /\ MaxRepairs \in Nat
    BY <1>1, LiveFacts, RoundsType, RecoveryAssumption DEF Counters, Frame, RunLog
  <1> DEFINE before == MaxRepairs * (co.round - 1)
             upto == MaxRepairs * co.round
             budget == MaxRepairs * Rounds
  <1>3. before \in Nat /\ upto \in Nat /\ before + MaxRepairs = upto
    BY <1>2, Budgets
  <1>4. upto <= budget /\ budget \in Nat
    BY <1>2, Monotone, Budgets, RoundsType
  <1>5. log.calls <= before + co.this
    BY <1>1, LiveFacts DEF Counters
  <1> HIDE DEF before, upto, budget
  <1>6. log.calls < budget
    BY <1>1, <1>2, <1>3, <1>4, <1>5
  <1> QED
    BY <1>6 DEF budget

LEMMA PromiseStep == Inv /\ [Next]_vars => [Promise!Next]_(Promise!vars)
  <1> SUFFICES ASSUME Inv, [Next]_vars PROVE [Promise!Next]_(Promise!vars)
    OBVIOUS
  <1> USE DEF Promise!Next, Promise!vars, Promise!Begin, Promise!Repair, Promise!End
  <1>0. log \in RunLog /\ co \in Frame
    BY DEF Inv, TypeOK
  <1>b. /\ Running => Running = TRUE
        /\ ~Running => Running = FALSE
        /\ Running' => Running' = TRUE
        /\ ~Running' => Running' = FALSE
    BY DEF Running
  <1>1. CASE Start
    <2>1. Running' /\ ~Running /\ log'.calls = 0
      BY <1>1 DEF Start, NewFrame, EmptyLog, Running
    <2> QED
      BY <2>1
  <1>2. CASE Resume
    <2>1. ~Running /\ log' = log /\ co.phase = "prepare"
      BY <1>2 DEF Resume, Running
    <2>3. CASE Running'
      BY <1>b, <2>1, <2>3
    <2>4. CASE ~Running'
      BY <1>b, <2>1, <2>4
    <2> QED
      BY <2>3, <2>4
  <1>3. ASSUME NEW x \in Codes, GenerateReturns(x) PROVE [Promise!Next]_(Promise!vars)
    <2>1. Running /\ log'.calls = log.calls
      BY <1>0, <1>3 DEF GenerateReturns, Generated, RunLog, Running
    <2>2. CASE Running'
      BY <1>b, <2>1, <2>2
    <2>3. CASE ~Running'
      BY <1>b, <2>1, <2>3
    <2> QED
      BY <2>2, <2>3
  <1>4. ASSUME NEW x \in Codes, RepairReturns(x) PROVE [Promise!Next]_(Promise!vars)
    <2>1. log.calls < MaxRepairs * Rounds
      BY <1>4, WithinBudget
    <2>2. Running /\ (log'.calls = log.calls + 1 \/ (log' = log /\ Stops))
      BY <1>0, <1>4 DEF RepairReturns, Called, RunLog, Running
    <2>3. CASE Running'
      <3>1. ~Stops
        BY <2>3, StopFrame
      <3> QED
        BY <2>1, <2>2, <2>3, <3>1
    <2>4. CASE ~Running'
      BY <1>b, <2>1, <2>2, <2>4
    <2> QED
      BY <2>3, <2>4
  <1>5. ASSUME NEW kind \in Kinds, ValidateFails(kind) PROVE [Promise!Next]_(Promise!vars)
    <2>1. Running /\ Running' /\ log' = log
      BY <1>0, <1>5 DEF ValidateFails, Found, Frame, Running
    <2> QED
      BY <2>1
  <1>6. ASSUME log' = log, Running => ~Running' \/ Running', ~Running => ~Running'
        PROVE  [Promise!Next]_(Promise!vars)
    <2>1. CASE Running /\ ~Running'
      BY <1>b, <1>6, <2>1
    <2>2. CASE Running /\ Running'
      BY <1>b, <1>6, <2>2
    <2>3. CASE ~Running /\ ~Running'
      BY <1>b, <1>6, <2>3
    <2> QED
      BY <1>6, <2>1, <2>2, <2>3
  <1>7. ASSUME NEW x, EndsAs(x) PROVE ~Running'
    BY <1>7 DEF EndsAs, Idle, NewFrame, Running
  <1>8. CASE ValidatePasses \/ SaveResult \/ PreparationFails \/ Begin
    <2>1. ~Running' /\ log' = log
      BY <1>8, ZenonT(60) DEF ValidatePasses, SaveResult, PreparationFails, Begin, Idle, NewFrame, Running
    <2> QED
      BY <1>6, <2>1
  <1>9. CASE RouteElsewhere \/ EnvironmentStops
    <2>1. ~Running' /\ log' = log
      BY <1>7, <1>9 DEF RouteElsewhere, EnvironmentStops
    <2> QED
      BY <1>6, <2>1
  <1>10. CASE Fix
    <2>1. Running /\ Running' /\ log' = log
      BY <1>0, <1>10 DEF Fix, Repairable, Submitted, Frame, Running
    <2> QED
      BY <2>1
  <1>11. CASE FixRefused
    <2>1. Running /\ Running' /\ log' = log
      BY <1>0, <1>11 DEF FixRefused, Repairable, Frame, Running
    <2> QED
      BY <2>1
  <1>12. CASE Exhaust
    <2>1. Running /\ log' = log
      BY <1>12 DEF Exhaust, Running
    <2> QED
      BY <1>6, <2>1
  <1>13. CASE Interrupted
    <2>1. ~Running' /\ log' = log
      BY <1>13, StopFrame DEF Interrupted
    <2> QED
      BY <1>6, <2>1
  <1>14. ASSUME NEW kind \in DownstreamKinds, DownstreamFails(kind)
         PROVE  [Promise!Next]_(Promise!vars)
    <2>1. ~Running /\ ~Running' /\ log' = log
      BY <1>0, <1>14 DEF DownstreamFails, Frame, Running
    <2> QED
      BY <1>6, <2>1
  <1>15. ASSUME NEW x, Edited(x) PROVE [Promise!Next]_(Promise!vars)
    <2>1. log' = log /\ co'.phase = co.phase
      BY <1>0, <1>15 DEF Edited, Frame, Idle, NewFrame
    <2> QED
      BY <1>6, <2>1 DEF Running
  <1>16. CASE UNCHANGED vars
    BY <1>16 DEF vars, Running
  <1>17. ASSUME NEW x \in Codes, UpdateSolution(x) PROVE [Promise!Next]_(Promise!vars)
    BY <1>15, <1>17 DEF UpdateSolution
  <1>18. ASSUME NEW x \in Codes \cup {None}, SaveUserDraft(x)
         PROVE  [Promise!Next]_(Promise!vars)
    BY <1>15, <1>18 DEF SaveUserDraft
  <1> QED
    BY <1>1, <1>2, <1>3, <1>4, <1>5, <1>8, <1>9, <1>10, <1>11, <1>12, <1>13, <1>14,
       <1>16, <1>17, <1>18 DEF Next, Turn

\* However it is resumed, the loop is a run that spends at most MaxRepairs
\* calls for each of its rounds.
THEOREM Implements == Spec => PromiseSafe
  <1>1. Init => Promise!Init
    BY DEF Init, Promise!Init, Idle, NewFrame, EmptyLog, Running
  <1> QED
    BY <1>1, PromiseStep, Invariance, PTL DEF Spec, PromiseSafe, Promise!Safety

-----------------------------------------------------------------------------
(* Evidence, where nothing is resumed *)

\* Only stage 5 is prepared, and given evidence from outside.
EvidenceInv ==
  /\ failure = None /\ co.pending = None /\ co.phase # "prepare"
  /\ EvidenceIsCurrent

\* A frame that ends a run, or waits for its caller, has no evidence.
LEMMA AtRest ==
  ASSUME EvidenceInv, UNCHANGED failure, Stops \/ (\E x \in Outcome : EndsAs(x)) \/ ValidatePasses \/ SaveResult
  PROVE  EvidenceInv'
  <1>1. Idle \in Frame /\ Idle.phase = "idle" /\ Idle.pending = None
    BY FrameType DEF Idle, NewFrame
  <1>2. co'.phase \in {"idle", "passed"} /\ co'.pending = None
    BY <1>1 DEF Stops, EndsAs, ValidatePasses, SaveResult, Frame
  <1> QED
    BY <1>2 DEF EvidenceInv, EvidenceIsCurrent

\* At every stage but 5, what is fixed or repaired is what failed.
THEOREM EvidenceKept == ASSUME Stage # 5 PROVE Spec => []EvidenceIsCurrent
  <1>1. Init => EvidenceInv
    BY DEF Init, Idle, NewFrame, EvidenceInv, EvidenceIsCurrent
  <1>2. Inv /\ EvidenceInv /\ [Next]_vars => EvidenceInv'
    <2> SUFFICES ASSUME Inv, EvidenceInv, [Next]_vars PROVE EvidenceInv'
      OBVIOUS
    <2> USE DEF EvidenceInv, EvidenceIsCurrent
    <2>0. co \in Frame /\ co.phase # "prepare"
      BY DEF Inv, TypeOK
    <2>1. CASE Start
      BY <2>1 DEF Start, NewFrame
    <2>2. CASE Resume \/ Begin \/ PreparationFails
      BY <2>0, <2>2 DEF Resume, Begin, PreparationFails
    <2>3. ASSUME NEW x \in Codes, GenerateReturns(x) PROVE EvidenceInv'
      <3>1. CASE Stops
        BY <2>3, <3>1, AtRest DEF GenerateReturns
      <3>2. CASE ~Stops
        BY <2>0, <2>3, <3>2 DEF GenerateReturns, Submitted, Frame
      <3> QED
        BY <3>1, <3>2
    <2>4. ASSUME NEW x \in Codes, RepairReturns(x) PROVE EvidenceInv'
      <3>1. CASE Stops
        BY <2>4, <3>1, AtRest DEF RepairReturns
      <3>2. CASE ~Stops
        BY <2>0, <2>4, <3>2 DEF RepairReturns, Submitted, Frame
      <3> QED
        BY <3>1, <3>2
    <2>5. ASSUME NEW kind \in Kinds, ValidateFails(kind) PROVE EvidenceInv'
      <3> DEFINE f == [kind |-> kind, of |-> co.cur]
      <3>1. co' = [co EXCEPT !.phase = "failed", !.found = f] /\ failure' = failure
        BY <2>5 DEF ValidateFails, Found
      <3>2. f.of = co.cur
        OBVIOUS
      <3> HIDE DEF f
      <3>3. co'.found = f /\ co'.cur = co.cur /\ co'.pending = None /\ co'.phase = "failed"
        BY <2>0, <3>1 DEF Frame
      <3> QED
        BY <3>1, <3>2, <3>3
    <2>6. CASE ValidatePasses \/ SaveResult \/ RouteElsewhere \/ EnvironmentStops \/ Interrupted
      <3>1. UNCHANGED failure
        BY <2>6 DEF ValidatePasses, SaveResult, RouteElsewhere, EnvironmentStops, Interrupted
      <3>2. Stops \/ (\E x \in Outcome : EndsAs(x)) \/ ValidatePasses \/ SaveResult
        BY <2>6 DEF RouteElsewhere, EnvironmentStops, Interrupted, Outcome
      <3> QED
        BY <3>1, <3>2, AtRest
    <2>7. CASE Fix
      BY <2>0, <2>7 DEF Fix, Submitted, Frame
    <2>8. CASE FixRefused
      BY <2>0, <2>8 DEF FixRefused, Repairable, Frame
    <2>9. CASE Exhaust
      <3>1. CASE co.round < Rounds
        BY <2>9, <3>1 DEF Exhaust, NewFrame
      <3>2. CASE ~(co.round < Rounds)
        <4>1. Stops \/ (\E x \in Outcome : EndsAs(x))
          BY <2>9, <3>2 DEF Exhaust, Outcome
        <4> QED
          BY <2>9, <4>1, AtRest DEF Exhaust
      <3> QED
        BY <3>1, <3>2
    <2>10. ASSUME NEW kind \in DownstreamKinds, DownstreamFails(kind) PROVE EvidenceInv'
      BY <2>10 DEF DownstreamFails
    <2>11. ASSUME NEW x, Edited(x) PROVE EvidenceInv'
      BY <2>0, <2>11 DEF Edited, Frame, Idle, NewFrame
    <2>12. ASSUME NEW x \in Codes, UpdateSolution(x) PROVE EvidenceInv'
      BY <2>11, <2>12 DEF UpdateSolution
    <2>13. ASSUME NEW x \in Codes \cup {None}, SaveUserDraft(x) PROVE EvidenceInv'
      BY <2>11, <2>13 DEF SaveUserDraft
    <2>14. CASE UNCHANGED vars
      BY <2>14 DEF vars
    <2> QED
      BY <2>1, <2>2, <2>3, <2>4, <2>5, <2>6, <2>7, <2>8, <2>9, <2>10, <2>12, <2>13, <2>14
      DEF Next, Turn
  <1> QED
    BY <1>1, <1>2, Invariance, PTL DEF Spec, EvidenceInv

-----------------------------------------------------------------------------
(* Repairs, where nothing is resumed *)

\* The loop's count of the repairs of a round is the number of them.
SpentInv ==
  /\ failure = None /\ co.phase # "prepare"
  /\ co.this <= MaxRepairs
  /\ co.phase = "generate" => co.this = 0
  /\ co.phase \in {"validate", "failed", "repair"} => log.inRound = co.this

LEMMA SpentInit == Init => SpentInv
BY RecoveryAssumption DEF Init, Idle, NewFrame, SpentInv

\* A frame that ends a run, or waits for its caller, has made no repairs.
LEMMA NoneSpent ==
  ASSUME SpentInv, UNCHANGED failure, Stops \/ (\E x \in Outcome : EndsAs(x)) \/ ValidatePasses \/ SaveResult
  PROVE  SpentInv'
<1>1. Idle \in Frame /\ Idle.phase = "idle" /\ Idle.this = 0
  BY FrameType DEF Idle, NewFrame
<1>2. co'.phase \in {"idle", "passed"} /\ co'.this = 0
  BY <1>1 DEF Stops, EndsAs, ValidatePasses, SaveResult, Frame
<1> QED BY <1>2, RecoveryAssumption DEF SpentInv

LEMMA SpentStep == Stage # 5 /\ Inv /\ SpentInv /\ [Next]_vars => SpentInv'
<1> SUFFICES ASSUME Stage # 5, Inv, SpentInv, [Next]_vars PROVE SpentInv'
  OBVIOUS
<1> USE DEF SpentInv
<1>1. co \in Frame /\ log \in RunLog /\ MaxRepairs \in Nat /\ co.phase # "prepare"
  BY RecoveryAssumption DEF Inv, TypeOK
<1>2. CASE Start
  BY <1>1, <1>2 DEF Start, NewFrame, AttemptsAtStart
<1>3. CASE Resume \/ Begin \/ PreparationFails
  BY <1>1, <1>3 DEF Resume, Begin, PreparationFails
<1>4. ASSUME NEW x \in Codes, GenerateReturns(x) PROVE SpentInv'
  <2>1. CASE Stops
    BY <1>4, <2>1, NoneSpent DEF GenerateReturns
  <2>2. CASE ~Stops
    <3>a. Submitted(x).this = co.this /\ Submitted(x).phase = "validate"
      BY <1>1 DEF Submitted, Frame
    <3>b. Generated /\ co' = Submitted(x)
      BY <1>4, <2>2 DEF GenerateReturns
    <3>c. log'.inRound = 0
      BY <1>1, <3>b DEF Generated, RunLog
    <3>1. log'.inRound = 0 /\ co'.this = co.this /\ co'.phase = "validate"
      BY <3>a, <3>b, <3>c
    <3> QED BY <1>1, <1>4, <3>1 DEF GenerateReturns
  <2> QED BY <2>1, <2>2
<1>5. ASSUME NEW x \in Codes, RepairReturns(x) PROVE SpentInv'
  <2>1. CASE Stops
    BY <1>5, <2>1, NoneSpent DEF RepairReturns
  <2>2. CASE ~Stops
    <3>a. Submitted(x).this = co.this /\ Submitted(x).phase = "validate" /\ Submitted(x) \in Frame
      BY <1>1, SubmittedType DEF Submitted, Frame, Inv
    <3>b. Called /\ co' = [Submitted(x) EXCEPT !.this = @ + 1, !.total = @ + 1]
      BY <1>5, <2>2 DEF RepairReturns
    <3>c. co'.this = co.this + 1 /\ co'.phase = "validate"
      BY <3>a, <3>b DEF Frame
    <3>d. log'.inRound = log.inRound + 1
      BY <1>1, <3>b DEF Called, RunLog
    <3>1. log'.inRound = log.inRound + 1 /\ co'.this = co.this + 1 /\ co'.phase = "validate"
      BY <3>c, <3>d
    <3>2. co.this \in Nat /\ co.this < MaxRepairs /\ log.inRound = co.this /\ failure' = None
      BY <1>1, <1>5 DEF RepairReturns, Frame
    <3> QED BY <1>1, <3>1, <3>2
  <2> QED BY <2>1, <2>2
<1>6. ASSUME NEW kind \in Kinds, ValidateFails(kind) PROVE SpentInv'
  <2>1. co'.this = co.this /\ co'.phase = "failed" /\ log' = log /\ failure' = failure
    BY <1>1, <1>6 DEF ValidateFails, Found, Frame
  <2> QED BY <1>6, <2>1 DEF ValidateFails
<1>7. CASE ValidatePasses \/ SaveResult \/ RouteElsewhere \/ EnvironmentStops \/ Interrupted
  <2>1. UNCHANGED failure
    BY <1>7 DEF ValidatePasses, SaveResult, RouteElsewhere, EnvironmentStops, Interrupted
  <2>2. Stops \/ (\E x \in Outcome : EndsAs(x)) \/ ValidatePasses \/ SaveResult
    BY <1>7 DEF RouteElsewhere, EnvironmentStops, Interrupted, Outcome
  <2> QED BY <2>1, <2>2, NoneSpent
<1>8. CASE Fix
  <2>1. co'.this = co.this /\ co'.phase = "validate" /\ log' = log /\ failure' = failure
    BY <1>1, <1>8 DEF Fix, Submitted, Frame
  <2> QED BY <1>8, <2>1 DEF Fix, Repairable
<1>9. CASE FixRefused
  <2>1. co'.this = co.this /\ co'.phase = "repair" /\ log' = log /\ failure' = failure
    BY <1>1, <1>9 DEF FixRefused, Frame
  <2> QED BY <1>9, <2>1 DEF FixRefused, Repairable
<1>10. CASE Exhaust
  <2>1. CASE co.round < Rounds
    <3>1. AttemptsAtStart(FALSE, co.total) = 0
      BY DEF AttemptsAtStart
    <3>2. co'.this = 0 /\ co'.phase = "generate" /\ failure' = failure
      BY <1>10, <2>1, <3>1 DEF Exhaust, NewFrame
    <3> QED BY <1>1, <3>2
  <2>2. CASE ~ (co.round < Rounds)
    <3>1. Stops \/ (\E x \in Outcome : EndsAs(x))
      BY <1>10, <2>2 DEF Exhaust, Outcome
    <3> QED BY <1>10, <3>1, NoneSpent DEF Exhaust
  <2> QED BY <2>1, <2>2
<1>11. ASSUME NEW kind \in DownstreamKinds, DownstreamFails(kind) PROVE SpentInv'
  BY <1>11 DEF DownstreamFails
<1>12. ASSUME NEW x, Edited(x) PROVE SpentInv'
  <2>1. Idle.phase = "idle" /\ Idle.this = 0
    BY DEF Idle, NewFrame
  <2>2. CASE co.phase = "idle"
    BY <1>1, <1>12, <2>1, <2>2 DEF Edited
  <2>3. CASE co.phase # "idle"
    BY <1>1, <1>12, <2>3 DEF Edited, Frame
  <2> QED BY <2>2, <2>3
<1>13. ASSUME NEW x \in Codes, UpdateSolution(x) PROVE SpentInv'
  BY <1>12, <1>13 DEF UpdateSolution
<1>14. ASSUME NEW x \in Codes \cup {None}, SaveUserDraft(x) PROVE SpentInv'
  BY <1>12, <1>14 DEF SaveUserDraft
<1>15. CASE UNCHANGED vars
  BY <1>15 DEF vars
<1> QED
  BY <1>2, <1>3, <1>4, <1>5, <1>6, <1>7, <1>8, <1>9, <1>10, <1>11, <1>13, <1>14, <1>15
  DEF Next, Turn

\* At every stage but 5, a round is given up only after all the repairs it is allowed
\* were made in it (agent_recovery.py:230); fixes, which cost none, do not count.
THEOREM RoundsSpent == ASSUME Stage # 5 PROVE Spec => ExhaustedWhenSpent
<1>1. Inv /\ SpentInv /\ [Next]_vars => [Exhaust => RoundSpent]_vars
  <2>1. ASSUME Inv, SpentInv, Exhaust PROVE RoundSpent
    <3>1. co.this \in Nat /\ MaxRepairs \in Nat
      BY <2>1, RecoveryAssumption DEF Inv, TypeOK, Frame
    <3>2. co.this >= MaxRepairs /\ co.this <= MaxRepairs /\ log.inRound = co.this
      BY <2>1 DEF Exhaust, SpentInv
    <3> QED BY <3>1, <3>2 DEF RoundSpent
  <2> QED BY <2>1
<1> QED
  BY <1>1, SpentInit, SpentStep, Invariance, PTL DEF Spec, ExhaustedWhenSpent
=============================================================================
