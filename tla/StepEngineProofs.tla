--------------------------- MODULE StepEngineProofs ---------------------------
(***************************************************************************)
(* Proofs, for any workflow definition, validation level and plugin        *)
(* answers, of the safety properties of StepEngine.                        *)
(*                                                                         *)
(* FailureIsFinal speaks of the step that failed; to be inductive it needs *)
(* what the retry loop knows all the time: how many calls belong to the    *)
(* attempt at hand (CountsOK), and that no failure is in the log of a run  *)
(* that goes on (its second conjunct says so already).  The validation     *)
(* property needs the same fact for every phase, not only for "execute".   *)
(*                                                                         *)
(* That a run ends is proved up to the fairness of the scheduler: a rank   *)
(* goes down with every step, and a run that has not returned has a step   *)
(* to take.                                                                *)
(***************************************************************************)
EXTENDS StepEngine, SequenceTheorems, WellFoundedInduction, TLAPS

Statuses == {"completed", "failed", "skipped", "retried"}

LogEntries == [index : Int, status : Statuses, retry_count : Nat]

StepTypeOK ==
    /\ top \in Nat /\ sub \in Nat /\ attempt \in Nat /\ calls \in Nat
    /\ logs \in Seq(LogEntries)

\* calls counts the first call and the retries; the fallback is reached, and a
\* failure after retries written, when all of them have been made.
CountsOK ==
    /\ phase \in {"entry", "next", "execute", "exit"} => attempt = 0 /\ calls = 0
    /\ phase \in {"retry", "fallback"} => calls = attempt + 1
    /\ phase = "fallback" => attempt = MaxRetries

\* Under Strict an invalid message is either the output of a retry or a fallback,
\* or the one that ended the run.
StrictOK ==
    validate = "strict" /\ ~Valid(message) => via \in {"retry", "fallback"} \/ phase = "err"

StepInv == StepTypeOK /\ CountsOK /\ StrictOK /\ MessagesAreValidated /\ FailureIsFinal

-----------------------------------------------------------------------------
\* The invariant holds before the entry message is validated.
LEMMA StepInitInv == Init => StepInv
BY DEF Init, StepInv, StepTypeOK, CountsOK, StrictOK, MessagesAreValidated, FailureIsFinal,
       Valid

\* Steps that only move the engine on: the log, the counters and the message stay.
LEMMA MoveKeeps ==
    ASSUME StepInv, ValidateEntry \/ ValidateExit \/ Finish \/ EnterBranch \/ BeginStep
    PROVE  StepInv'
<1> USE DEF ValidateEntry, ValidateExit, Finish, EnterBranch, BeginStep
<1>1. /\ phase \in {"entry", "exit", "next"} /\ phase' \notin {"retry", "fallback"}
      /\ UNCHANGED <<validate, attempt, message, logs, calls, via>>
      /\ phase' \in {"entry", "next", "execute", "exit", "err", "ok"}
      /\ top' \in Nat /\ sub' \in Nat
  BY DEF StepInv, StepTypeOK
<1>2. StepTypeOK'
  BY <1>1 DEF StepInv, StepTypeOK
<1>3. CountsOK'
  BY <1>1 DEF StepInv, CountsOK
<1>4. StrictOK' 
  BY <1>1 DEF StepInv, StrictOK, Valid
<1>5. MessagesAreValidated'
  <2>1. phase' = "ok" /\ AtEdges' => Valid(message')
    BY <1>1 DEF Valid, AtEdges
  <2>2. (validate = "strict" /\ phase = "next" /\ ~Valid(message)) => via \in {"retry", "fallback"}
    BY DEF StepInv, StrictOK
  <2> QED
    BY <1>1, <2>1, <2>2 DEF MessagesAreValidated, Valid
<1>6. FailureIsFinal'
  <2>1. \A i \in DOMAIN logs : logs[i].status # "failed"
    BY <1>1 DEF StepInv, FailureIsFinal
  <2> QED
    BY <1>1, <2>1 DEF FailureIsFinal
<1> QED
  BY <1>2, <1>3, <1>4, <1>5, <1>6 DEF StepInv

\* Advance leads to the next step with fresh counters.
LEMMA AdvanceResets ==
    ASSUME StepTypeOK, Advance
    PROVE  phase' = "next" /\ attempt' = 0 /\ calls' = 0 /\ top' \in Nat /\ sub' \in Nat
BY DEF Advance, NextPosition, StepTypeOK

\* What appending an entry does to a log without failures.
LEMMA AppendToCleanLog ==
    ASSUME StepTypeOK, \A i \in DOMAIN logs : logs[i].status # "failed",
           NEW e \in LogEntries, logs' = Append(logs, e)
    PROVE  /\ logs' \in Seq(LogEntries)
           /\ \A i \in DOMAIN logs' :
                 logs'[i].status = "failed" => i = Len(logs') /\ logs'[i] = e
<1>1. logs \in Seq(LogEntries)
  BY DEF StepTypeOK
<1>2. /\ logs' \in Seq(LogEntries) /\ Len(logs') = Len(logs) + 1
      /\ DOMAIN logs = 1 .. Len(logs) /\ DOMAIN logs' = 1 .. Len(logs) + 1 /\ Len(logs) \in Nat
      /\ logs'[Len(logs) + 1] = e /\ \A i \in 1 .. Len(logs) : logs'[i] = logs[i]
  BY <1>1
<1> QED
  BY <1>2

\* The entry of the current step, and its parts.
LEMMA EntryOfStep ==
    ASSUME StepTypeOK, NEW status \in Statuses, NEW n \in Nat
    PROVE  /\ LogEntry(Index, status, n) \in LogEntries
           /\ LogEntry(Index, status, n).status = status
           /\ LogEntry(Index, status, n).retry_count = n
<1>1. Index \in Int
  BY DEF StepTypeOK, Index
<1> QED
  BY <1>1 DEF LogEntry, LogEntries

-----------------------------------------------------------------------------
(* The calls *)

\* A run that goes on to its next step with a log without failures is fine; what
\* it needs is that the new message is accounted for.
LEMMA NextStepKeeps ==
    ASSUME StepTypeOK', phase' = "next", attempt' = 0, calls' = 0,
           \A i \in DOMAIN logs' : logs'[i].status # "failed",
           StrictOK'
    PROVE  StepInv'
BY DEF StepInv, CountsOK, MessagesAreValidated, FailureIsFinal

\* A run in one of the phases of a step has no failure in its log.
LEMMA LogIsClean ==
    ASSUME StepInv, phase # "err"
    PROVE  \A i \in DOMAIN logs : logs[i].status # "failed"
BY DEF StepInv, FailureIsFinal

\* A successful call, retry or fallback keeps the invariant.
LEMMA SuccessKeeps ==
    ASSUME StepInv, NEW out \in Messages,
           StepSucceeds(out) \/ RetrySucceeds(out) \/ FallbackSucceeds(out)
    PROVE  StepInv'
<1>0. StepTypeOK /\ \A i \in DOMAIN logs : logs[i].status # "failed"
  BY LogIsClean DEF StepInv, StepSucceeds, RetrySucceeds, FallbackSucceeds
<1>1. CASE StepSucceeds(out)
  <2>1. /\ logs' = Append(logs, LogEntry(Index, "completed", attempt))
        /\ via' = "call" /\ message' = out /\ UNCHANGED <<steps, validate>>
        /\ attempt = 0 /\ calls = 0
    BY <1>1 DEF StepSucceeds, Log, StepInv, CountsOK
  <2>2. /\ logs' \in Seq(LogEntries)
        /\ \A i \in DOMAIN logs' : logs'[i].status # "failed"
    <3>1. /\ LogEntry(Index, "completed", attempt) \in LogEntries
          /\ LogEntry(Index, "completed", attempt).status = "completed"
      BY <1>0, EntryOfStep DEF StepTypeOK, Statuses
    <3> QED
      BY <1>0, <2>1, <3>1, AppendToCleanLog
  <2>3. CASE validate = "strict" /\ ~Valid(out)
    <3>1. phase' = "err" /\ UNCHANGED <<top, branch, sub, attempt, calls>>
      BY <1>1, <2>3 DEF StepSucceeds, Stay
    <3> QED
      BY <1>0, <2>1, <2>2, <3>1
      DEF StepInv, StepTypeOK, CountsOK, StrictOK, MessagesAreValidated, FailureIsFinal
  <2>4. CASE ~(validate = "strict" /\ ~Valid(out))
    <3>1. Advance
      BY <1>1, <2>4 DEF StepSucceeds
    <3>2. StepTypeOK'
      BY <1>0, <2>2, <3>1, AdvanceResets DEF StepTypeOK
    <3>3. StrictOK'
      BY <2>1, <2>4 DEF StrictOK, Valid
    <3> QED
      BY <1>0, <2>2, <3>1, <3>2, <3>3, AdvanceResets, NextStepKeeps
  <2> QED
    BY <2>3, <2>4
<1>2. CASE RetrySucceeds(out)
  <2>1. /\ logs' = Append(logs, LogEntry(Index, "retried", attempt + 1))
        /\ via' = "retry" /\ Advance
    BY <1>2 DEF RetrySucceeds
  <2>2. /\ LogEntry(Index, "retried", attempt + 1) \in LogEntries
        /\ LogEntry(Index, "retried", attempt + 1).status = "retried"
    BY <1>0, EntryOfStep DEF StepTypeOK, Statuses
  <2>3. /\ logs' \in Seq(LogEntries)
        /\ \A i \in DOMAIN logs' : logs'[i].status # "failed"
    BY <1>0, <2>1, <2>2, AppendToCleanLog
  <2>4. StepTypeOK' /\ StrictOK'
    BY <1>0, <2>1, <2>3, AdvanceResets DEF StepTypeOK, StrictOK
  <2> QED
    BY <1>0, <2>1, <2>3, <2>4, AdvanceResets, NextStepKeeps
<1>3. CASE FallbackSucceeds(out)
  <2>1. via' = "fallback" /\ Advance /\ UNCHANGED logs
    BY <1>3 DEF FallbackSucceeds
  <2>2. StepTypeOK' /\ StrictOK'
    BY <1>0, <2>1, AdvanceResets DEF StepTypeOK, StrictOK
  <2> QED
    BY <1>0, <2>1, <2>2, AdvanceResets, NextStepKeeps
<1> QED
  BY <1>1, <1>2, <1>3

\* Writing a failure to the log keeps the invariant: a failed step ends the run
\* with the counters it failed with.
LEMMA LogFailureKeeps ==
    ASSUME StepInv, NEW status \in {"failed", "skipped"}, LogFailure(status),
           phase \notin Final,
           UNCHANGED <<steps, validate, message, via>>,
           attempt > 0 => attempt = MaxRetries /\ calls = MaxRetries + 1
    PROVE  StepInv'
<1>0. StepTypeOK /\ StrictOK /\ \A i \in DOMAIN logs : logs[i].status # "failed"
  BY LogIsClean DEF StepInv, Final
<1>1. CASE message.splits
  <2>1. phase' = "panic" /\ UNCHANGED <<top, branch, sub, attempt, calls, logs>>
    BY <1>1 DEF LogFailure, Stay
  <2>2. StrictOK'
    BY <1>0, <2>1 DEF StrictOK, Valid, Final
  <2> QED
    BY <1>0, <2>1, <2>2
    DEF StepInv, StepTypeOK, CountsOK, MessagesAreValidated, FailureIsFinal
<1>2. CASE ~message.splits
  <2>1. logs' = Append(logs, LogEntry(Index, status, attempt))
    BY <1>2 DEF LogFailure, Log
  <2>2. /\ LogEntry(Index, status, attempt) \in LogEntries
        /\ LogEntry(Index, status, attempt).status = status
        /\ LogEntry(Index, status, attempt).retry_count = attempt
    BY <1>0, EntryOfStep DEF StepTypeOK, Statuses
  <2>3. /\ logs' \in Seq(LogEntries)
        /\ \A i \in DOMAIN logs' : logs'[i].status = "failed" =>
              i = Len(logs') /\ logs'[i] = LogEntry(Index, status, attempt)
    BY <1>0, <2>1, <2>2, AppendToCleanLog
  <2>4. CASE status = "failed"
    <3>1. phase' = "err" /\ UNCHANGED <<top, branch, sub, attempt, calls>>
      BY <1>2, <2>4 DEF LogFailure, Stay
    <3>2. MaxRetries' = MaxRetries
      BY <3>1 DEF MaxRetries, Current
    <3>3. FailureIsFinal'
      BY <2>2, <2>3, <3>1, <3>2 DEF FailureIsFinal
    <3> QED
      BY <1>0, <2>3, <3>1, <3>3
      DEF StepInv, StepTypeOK, CountsOK, StrictOK, MessagesAreValidated
  <2>5. CASE status = "skipped"
    <3>1. Advance
      BY <1>2, <2>5 DEF LogFailure
    <3>2. StepTypeOK' /\ StrictOK'
      BY <1>0, <2>3, <3>1, AdvanceResets DEF StepTypeOK, StrictOK, Valid, Final
    <3> QED
      BY <1>0, <2>2, <2>3, <2>5, <3>1, <3>2, AdvanceResets, NextStepKeeps
  <2> QED
    BY <2>4, <2>5
<1> QED
  BY <1>1, <1>2

\* A failed first call keeps the invariant, whatever its strategy makes of it.
LEMMA StepFailsKeeps ==
    ASSUME StepInv, NEW severity \in Severities, StepFails(severity)
    PROVE  StepInv'
<1>0. /\ StepTypeOK /\ StrictOK /\ \A i \in DOMAIN logs : logs[i].status # "failed"
      /\ phase = "execute" /\ attempt = 0 /\ calls = 0
      /\ UNCHANGED <<steps, validate, message, via>>
  BY LogIsClean DEF StepInv, CountsOK, StepFails
<1>1. CASE LogFailure("failed") \/ LogFailure("skipped")
  BY <1>0, <1>1, LogFailureKeeps DEF Final
<1>2. CASE Advance /\ UNCHANGED logs
  <2>1. StepTypeOK' /\ StrictOK'
    BY <1>0, <1>2, AdvanceResets DEF StepTypeOK, StrictOK, Valid
  <2> QED
    BY <1>0, <1>2, <2>1, AdvanceResets, NextStepKeeps
<1>3. CASE phase' = "retry" /\ calls' = calls + 1 /\ UNCHANGED <<top, branch, sub, attempt, logs>>
  BY <1>0, <1>3 DEF StepInv, StepTypeOK, CountsOK, StrictOK, MessagesAreValidated,
                    FailureIsFinal, Valid
<1> QED
  BY <1>1, <1>2, <1>3 DEF StepFails

\* Failed retries, exhausted ones and a failed fallback keep the invariant.
LEMMA RetryOrFallbackFailsKeeps ==
    ASSUME StepInv, RetryFails \/ RetriesExhausted \/ FallbackFails
    PROVE  StepInv'
<1>0. /\ StepTypeOK /\ StrictOK /\ \A i \in DOMAIN logs : logs[i].status # "failed"
      /\ phase \in {"retry", "fallback"} /\ calls = attempt + 1
      /\ phase = "fallback" => attempt = MaxRetries
      /\ UNCHANGED <<steps, validate, message, via>>
  BY LogIsClean DEF StepInv, CountsOK, RetryFails, RetriesExhausted, FallbackFails
<1>1. CASE RetryFails
  BY <1>0, <1>1 DEF RetryFails, StepInv, StepTypeOK, CountsOK, StrictOK, MessagesAreValidated,
                    FailureIsFinal, Valid
<1>2. CASE RetriesExhausted /\ Current.fallback
  <2>1. /\ phase' = "fallback" /\ attempt = MaxRetries
        /\ UNCHANGED <<top, branch, sub, attempt, calls, logs>>
    BY <1>2 DEF RetriesExhausted, Stay
  <2>2. MaxRetries' = MaxRetries
    BY <1>0, <2>1 DEF MaxRetries, Current
  <2> QED
    BY <1>0, <2>1, <2>2 DEF StepInv, StepTypeOK, CountsOK, StrictOK, MessagesAreValidated,
                            FailureIsFinal, Valid
<1>3. CASE RetriesExhausted /\ ~Current.fallback
  <2>1. LogFailure("failed") /\ attempt = MaxRetries
    BY <1>3 DEF RetriesExhausted
  <2> QED
    BY <1>0, <2>1, LogFailureKeeps DEF Final
<1>4. CASE FallbackFails
  <2>1. LogFailure("failed") /\ attempt = MaxRetries
    BY <1>0, <1>4 DEF FallbackFails
  <2> QED
    BY <1>0, <2>1, LogFailureKeeps DEF Final
<1> QED
  BY <1>1, <1>2, <1>3, <1>4

-----------------------------------------------------------------------------
(* The theorems *)

\* Every step of a run keeps the invariant.
LEMMA StepNextInv == StepInv /\ [Next]_vars => StepInv'
<1> SUFFICES ASSUME StepInv, [Next]_vars PROVE StepInv'
  OBVIOUS
<1>1. CASE UNCHANGED vars
  BY <1>1 DEF vars, StepInv, StepTypeOK, CountsOK, StrictOK, MessagesAreValidated,
              FailureIsFinal, MaxRetries, Current, Branch, AtEdges, Valid
<1>2. CASE Done
  BY <1>1, <1>2 DEF Done
<1>3. CASE EngineStep
  BY <1>3, MoveKeeps, SuccessKeeps, StepFailsKeeps, RetryOrFallbackFailsKeeps DEF EngineStep
<1> QED
  BY <1>1, <1>2, <1>3 DEF Next

\* A run of a workflow's steps never leaves the invariant.
THEOREM StepInvariant == Spec => []StepInv
BY StepInitInv, StepNextInv, PTL DEF Spec

\* Whatever path the steps took, a run that succeeds under Edges or Strict returns
\* a valid message, and under Strict only a retry or a fallback can have handed an
\* invalid one to a step.
THEOREM ReturnedMessagesAreValid == Spec => []MessagesAreValidated
<1>1. StepInv => MessagesAreValidated
  BY DEF StepInv
<1> QED
  BY <1>1, StepInvariant, PTL

\* A step that is logged as failed ended the run, after all of its retries, if any
\* were made, and so is the fallback the last resort.
THEOREM FailuresEndTheRun == Spec => []FailureIsFinal
<1>1. StepInv => FailureIsFinal
  BY DEF StepInv
<1> QED
  BY <1>1, StepInvariant, PTL

-----------------------------------------------------------------------------
(* Why a run ends *)

StepDefs == CallDefs \cup ConditionDefs

Phases == {"entry", "next", "execute", "retry", "fallback", "exit"} \cup Final

\* Where the engine can be: at a step of the workflow or of a branch, and in a
\* call only at a step that is one, with no more retries than it may have.
PlaceOK ==
    /\ steps \in Seq(StepDefs)
    /\ phase \in Phases
    /\ top \in 1 .. Len(steps) + 1
    /\ branch \in {"none", "then", "else"}
    /\ sub \in Nat /\ attempt \in Nat
    /\ branch # "none" =>
          /\ top <= Len(steps) /\ steps[top].condition
          /\ sub \in 1 .. Len(Branch(steps[top], branch))
    /\ phase \in {"execute", "retry", "fallback"} =>
          /\ top <= Len(steps) /\ ~Current.condition
          /\ attempt <= MaxRetries

\* What is left of a run, most significant first: steps of the workflow, whether
\* a branch is still to be chosen, steps of the branch, phases of the step,
\* retries.
StepsLeft == Len(steps) + 1 - top
ToChoose == IF branch = "none" THEN 1 ELSE 0
BranchLeft == IF branch = "none" THEN 0 ELSE Len(Branch(steps[top], branch)) - sub
PhasesLeft ==
    CASE phase = "entry"    -> 6
      [] phase = "next"     -> 5
      [] phase = "execute"  -> 4
      [] phase = "retry"    -> 3
      [] phase = "fallback" -> 2
      [] phase = "exit"     -> 1
      [] OTHER              -> 0
RetriesLeft == IF phase = "retry" THEN MaxRetries - attempt ELSE 0

Rank == <<StepsLeft, ToChoose, BranchLeft, PhasesLeft, RetriesLeft>>

Ranks == [1 .. 5 -> Nat]

Below == LexProductOrdering(OpToRel(<, Nat), Nat, 5)

\* The same order, on the five numbers.
Lower(a1, a2, a3, a4, a5, b1, b2, b3, b4, b5) ==
    \/ a1 < b1
    \/ a1 = b1 /\ \/ a2 < b2
                  \/ a2 = b2 /\ \/ a3 < b3
                                \/ a3 = b3 /\ \/ a4 < b4
                                              \/ a4 = b4 /\ a5 < b5

LEMMA LowerIsBelow ==
    ASSUME NEW a1 \in Nat, NEW a2 \in Nat, NEW a3 \in Nat, NEW a4 \in Nat, NEW a5 \in Nat,
           NEW b1 \in Nat, NEW b2 \in Nat, NEW b3 \in Nat, NEW b4 \in Nat, NEW b5 \in Nat,
           Lower(a1, a2, a3, a4, a5, b1, b2, b3, b4, b5)
    PROVE  <<<<a1, a2, a3, a4, a5>>, <<b1, b2, b3, b4, b5>>>> \in Below
<1> DEFINE a == <<a1, a2, a3, a4, a5>>
           b == <<b1, b2, b3, b4, b5>>
<1>1. \A x \in Nat, y \in Nat : x < y => <<x, y>> \in OpToRel(<, Nat)
  BY DEF OpToRel
<1>2. /\ a \in Ranks /\ b \in Ranks
      /\ a[1] = a1 /\ a[2] = a2 /\ a[3] = a3 /\ a[4] = a4 /\ a[5] = a5
      /\ b[1] = b1 /\ b[2] = b2 /\ b[3] = b3 /\ b[4] = b4 /\ b[5] = b5
  BY DEF Ranks
<1> HIDE DEF a, b
<1>3. \E j \in 1 .. 5 : (\A i \in 1 .. (j - 1) : a[i] = b[i]) /\ a[j] < b[j]
  BY <1>2 DEF Lower
<1>4. \E j \in 1 .. 5 : /\ \A i \in 1 .. (j - 1) : a[i] = b[i]
                        /\ <<a[j], b[j]>> \in OpToRel(<, Nat)
  BY <1>1, <1>2, <1>3 DEF Ranks
<1>5. <<a, b>> \in Below
  BY <1>2, <1>4 DEF Below, LexProductOrdering, Ranks
<1> QED
  BY <1>5 DEF a, b

\* The order on ranks has no infinite descent.
LEMMA BelowIsWellFounded == IsWellFoundedOn(Below, Ranks)
<1>1. 5 \in Nat
  OBVIOUS
<1> QED
  BY <1>1, NatLessThanWellFounded, WFLexProductOrdering DEF Below, Ranks

\* What is known of the step a position names.
LEMMA StepAt ==
    ASSUME steps \in Seq(StepDefs), NEW i \in 1 .. Len(steps)
    PROVE  /\ steps[i] \in StepDefs
           /\ steps[i].condition \in BOOLEAN /\ steps[i].max_retries \in Nat
           /\ \A which \in {"then", "else"} :
                 /\ Branch(steps[i], which) \in Seq(CallDefs)
                 /\ Len(Branch(steps[i], which)) \in Nat
<1>1. PICK s : s = steps[i]
  OBVIOUS
<1>2. s \in StepDefs
  BY <1>1
<1>3. s.condition \in BOOLEAN /\ s.max_retries \in Nat
  <2>1. CASE s \in CallDefs
    <3>1. s.condition = FALSE /\ s.max_retries \in Nat
      BY <2>1 DEF CallDefs
    <3> QED
      BY <3>1
  <2>2. CASE s \in ConditionDefs
    <3>1. s.condition = TRUE /\ s.max_retries = 0
      BY <2>2 DEF ConditionDefs
    <3>2. s.max_retries \in Nat
      BY <3>1
    <3> QED
      BY <3>1, <3>2, Zenon
  <2> QED
    BY <1>2, <2>1, <2>2 DEF StepDefs
<1>4. <<>> \in Seq(CallDefs)
  OBVIOUS
<1>5. s.then_steps \in Seq(CallDefs) /\ s.else_steps \in Seq(CallDefs)
  BY <1>2, <1>4 DEF StepDefs, CallDefs, ConditionDefs
<1>6. \A which \in {"then", "else"} : Branch(s, which) \in Seq(CallDefs)
  BY <1>5 DEF Branch
<1> QED
  BY <1>1, <1>2, <1>3, <1>6

\* The current step is one, and says how often it may be retried.
LEMMA CurrentIsStep ==
    ASSUME PlaceOK, top <= Len(steps)
    PROVE  /\ Current.condition \in BOOLEAN /\ MaxRetries \in Nat
           /\ branch # "none" => ~Current.condition
<1>1. top \in 1 .. Len(steps) /\ steps \in Seq(StepDefs)
  BY DEF PlaceOK
<1>2. CASE branch = "none"
  BY <1>1, <1>2, StepAt DEF Current, MaxRetries
<1>3. CASE branch # "none"
  <2>1. branch \in {"then", "else"} /\ sub \in 1 .. Len(Branch(steps[top], branch))
    BY <1>3 DEF PlaceOK
  <2>2. Branch(steps[top], branch) \in Seq(CallDefs)
    BY <1>1, <2>1, StepAt
  <2>3. Current \in CallDefs
    BY <1>3, <2>1, <2>2 DEF Current
  <2>4. Current.condition = FALSE /\ Current.max_retries \in Nat
    BY <2>3 DEF CallDefs
  <2>5. MaxRetries \in Nat
    BY <2>4 DEF MaxRetries
  <2> QED
    BY <2>4, <2>5
<1> QED
  BY <1>2, <1>3

RankOK ==
    /\ StepsLeft \in Nat /\ ToChoose \in Nat /\ BranchLeft \in Nat
    /\ PhasesLeft \in Nat /\ RetriesLeft \in Nat

LEMMA RankIsNatural == PlaceOK => RankOK
<1> SUFFICES ASSUME PlaceOK PROVE RankOK
  OBVIOUS
<1>1. StepsLeft \in Nat /\ ToChoose \in Nat /\ PhasesLeft \in Nat
  <2>1. Len(steps) \in Nat
    BY DEF PlaceOK
  <2> QED
    BY <2>1 DEF PlaceOK, StepsLeft, ToChoose, PhasesLeft
<1>2. BranchLeft \in Nat
  <2>1. CASE branch = "none"
    BY <2>1 DEF BranchLeft
  <2>2. CASE branch # "none"
    <3>1. top \in 1 .. Len(steps) /\ branch \in {"then", "else"} /\ steps \in Seq(StepDefs)
          /\ sub \in 1 .. Len(Branch(steps[top], branch))
      BY <2>2 DEF PlaceOK
    <3>2. Len(Branch(steps[top], branch)) \in Nat
      BY <3>1, StepAt
    <3> QED
      BY <2>2, <3>1, <3>2 DEF BranchLeft
  <2> QED
    BY <2>1, <2>2
<1>3. RetriesLeft \in Nat
  <2>1. CASE phase = "retry"
    BY <2>1, CurrentIsStep DEF PlaceOK, RetriesLeft
  <2>2. CASE phase # "retry"
    BY <2>2 DEF RetriesLeft
  <2> QED
    BY <2>1, <2>2
<1> QED
  BY <1>1, <1>2, <1>3 DEF RankOK

Descends ==
    Lower(StepsLeft', ToChoose', BranchLeft', PhasesLeft', RetriesLeft',
          StepsLeft, ToChoose, BranchLeft, PhasesLeft, RetriesLeft)

\* Going on to the next step, in the branch or after it.
LEMMA AdvanceDescends ==
    ASSUME PlaceOK, phase \in {"execute", "retry", "fallback"}, Advance, steps' = steps
    PROVE  PlaceOK' /\ Descends
<1>1. /\ phase' = "next" /\ attempt' = 0 /\ top \in 1 .. Len(steps) /\ steps \in Seq(StepDefs)
      /\ Len(steps) \in Nat /\ top \in Nat
  BY DEF PlaceOK, Advance
<1>2. CASE branch # "none" /\ sub < Len(Branch(steps[top], branch))
  <2>1. top' = top /\ branch' = branch /\ sub' = sub + 1 /\ branch \in {"then", "else"} /\ sub \in Nat
        /\ sub \in 1 .. Len(Branch(steps[top], branch)) /\ steps[top].condition
    BY <1>2 DEF Advance, NextPosition, PlaceOK
  <2>2. Len(Branch(steps[top], branch)) \in Nat
    BY <1>1, <2>1, StepAt
  <2>3. PICK n \in Nat : n = Len(Branch(steps[top], branch))
    BY <2>2
  <2>4. Len(Branch(steps'[top'], branch')) = n
    BY <2>1, <2>3
  <2>5. sub' \in 1 .. n
    BY <1>2, <2>1, <2>3
  <2>6. PlaceOK'
    BY <1>1, <1>2, <2>1, <2>4, <2>5 DEF PlaceOK, Phases
  <2>7. StepsLeft' = StepsLeft /\ ToChoose' = ToChoose
    BY <2>1 DEF StepsLeft, ToChoose
  <2>8. BranchLeft' < BranchLeft
    <3>1. BranchLeft = n - sub /\ BranchLeft' = n - (sub + 1)
      BY <1>2, <2>1, <2>3, <2>4 DEF BranchLeft
    <3> QED
      BY <2>1, <3>1
  <2> QED
    BY <2>6, <2>7, <2>8 DEF Descends, Lower
<1>3. CASE ~(branch # "none" /\ sub < Len(Branch(steps[top], branch)))
  <2>1. top' = top + 1 /\ branch' = "none" /\ sub' = 0
    BY <1>3 DEF Advance, NextPosition
  <2>2. PlaceOK'
    BY <1>1, <2>1 DEF PlaceOK, Phases
  <2>3. StepsLeft' < StepsLeft
    BY <1>1, <2>1 DEF StepsLeft
  <2> QED
    BY <2>2, <2>3 DEF Descends, Lower
<1> QED
  BY <1>2, <1>3

\* Another phase of the same step, closer to its end.
LEMMA LaterPhaseDescends ==
    ASSUME PlaceOK, UNCHANGED <<steps, top, branch, sub>>, phase' \in Phases, PhasesLeft' < PhasesLeft,
           attempt' = attempt, attempt = 0 \/ phase \in {"retry", "fallback"},
           phase' \in {"execute", "retry", "fallback"} => top <= Len(steps) /\ ~Current.condition
    PROVE  PlaceOK' /\ Descends
<1>1. /\ StepsLeft' = StepsLeft /\ ToChoose' = ToChoose /\ BranchLeft' = BranchLeft
      /\ Current' = Current /\ MaxRetries' = MaxRetries
  BY DEF StepsLeft, ToChoose, BranchLeft, Current, MaxRetries
<1>2. phase' \in {"execute", "retry", "fallback"} => attempt <= MaxRetries
  BY CurrentIsStep DEF PlaceOK
<1> QED
  BY <1>1, <1>2 DEF PlaceOK, Descends, Lower

\* A run that ends leaves the place it ended at.
LEMMA EndDescends ==
    ASSUME PlaceOK, phase \notin Final, phase' \in Final, Stay, steps' = steps
    PROVE  PlaceOK' /\ Descends
<1>1. /\ StepsLeft' = StepsLeft /\ ToChoose' = ToChoose /\ BranchLeft' = BranchLeft
      /\ UNCHANGED <<steps, top, branch, sub, attempt>>
  BY DEF Stay, StepsLeft, ToChoose, BranchLeft
<1>2. PhasesLeft' = 0 /\ PhasesLeft > 0
  BY DEF PhasesLeft, Final, PlaceOK, Phases
<1>3. PhasesLeft' < PhasesLeft
  BY <1>2
<1>4. PlaceOK'
  BY <1>1 DEF PlaceOK, Phases, Final
<1> QED
  BY <1>1, <1>3, <1>4 DEF Descends, Lower

LEMMA LogFailureDescends ==
    ASSUME PlaceOK, phase \in {"execute", "retry", "fallback"}, NEW status, LogFailure(status),
           steps' = steps
    PROVE  PlaceOK' /\ Descends
<1>1. (phase' \in Final /\ Stay) \/ Advance
  BY DEF LogFailure, Final
<1>2. phase \notin Final
  BY DEF Final
<1> QED
  BY <1>1, <1>2, EndDescends, AdvanceDescends

\* The walk over the steps.
LEMMA MoveDescends ==
    ASSUME PlaceOK, CountsOK, ValidateEntry \/ ValidateExit \/ Finish \/ EnterBranch \/ BeginStep
    PROVE  PlaceOK' /\ Descends
<1>1. CASE ValidateEntry \/ ValidateExit \/ Finish \/ BeginStep
  <2>1. UNCHANGED <<steps, top, branch, sub, attempt>> /\ attempt = 0
        /\ phase \in {"entry", "exit", "next"} /\ phase' \in Phases
    BY <1>1 DEF ValidateEntry, ValidateExit, Finish, BeginStep, CountsOK, Phases, Final
  <2>2. PhasesLeft' < PhasesLeft
    BY <1>1 DEF ValidateEntry, ValidateExit, Finish, BeginStep, PhasesLeft
  <2>3. phase' \in {"execute", "retry", "fallback"} => top <= Len(steps) /\ ~Current.condition
    BY <1>1 DEF ValidateEntry, ValidateExit, Finish, BeginStep
  <2> QED
    BY <2>1, <2>2, <2>3, LaterPhaseDescends
<1>2. CASE EnterBranch
  <2>1. /\ phase = "next" /\ phase' = "next" /\ top \in 1 .. Len(steps) /\ branch = "none"
        /\ steps[top].condition /\ UNCHANGED <<steps, attempt>>
        /\ steps \in Seq(StepDefs) /\ Len(steps) \in Nat /\ top \in Nat
    BY <1>2 DEF EnterBranch, PlaceOK
  <2>2. PICK which \in {"then", "else"} :
          IF Branch(steps[top], which) = <<>>
          THEN top' = top + 1 /\ UNCHANGED <<branch, sub>>
          ELSE branch' = which /\ sub' = 1 /\ UNCHANGED top
    BY <1>2 DEF EnterBranch
  <2>3. CASE top' = top + 1 /\ UNCHANGED <<branch, sub>>
    <3>1. StepsLeft' < StepsLeft
      BY <2>1, <2>3 DEF StepsLeft
    <3>2. PlaceOK'
      BY <2>1, <2>3 DEF PlaceOK, Phases
    <3> QED
      BY <3>1, <3>2 DEF Descends, Lower
  <2>4. CASE branch' = which /\ sub' = 1 /\ UNCHANGED top /\ Branch(steps[top], which) # <<>>
    <3>1. Branch(steps[top], which) \in Seq(CallDefs)
      BY <2>1, StepAt
    <3>2. 1 \in 1 .. Len(Branch(steps[top], which))
      BY <2>4, <3>1, EmptySeq, LenProperties
    <3>3. PlaceOK'
      BY <2>1, <2>4, <3>2 DEF PlaceOK, Phases
    <3>4. StepsLeft' = StepsLeft /\ ToChoose' < ToChoose
      BY <2>1, <2>4 DEF StepsLeft, ToChoose
    <3> QED
      BY <3>3, <3>4 DEF Descends, Lower
  <2> QED
    BY <2>2, <2>3, <2>4
<1> QED
  BY <1>1, <1>2

\* The calls of a step.
LEMMA CallDescends ==
    ASSUME PlaceOK, CountsOK,
           \/ RetryFails \/ RetriesExhausted \/ FallbackFails
           \/ \E out \in Messages : StepSucceeds(out) \/ RetrySucceeds(out) \/ FallbackSucceeds(out)
           \/ \E severity \in Severities : StepFails(severity)
    PROVE  PlaceOK' /\ Descends
<1>1. phase \in {"execute", "retry", "fallback"} /\ steps' = steps /\ phase \notin Final
      /\ top <= Len(steps) /\ ~Current.condition
  BY DEF RetryFails, RetriesExhausted, FallbackFails, StepSucceeds, RetrySucceeds, FallbackSucceeds,
         StepFails, Final, PlaceOK
<1>2. CASE RetryFails
  <2>1. /\ phase = "retry" /\ phase' = "retry" /\ attempt < MaxRetries /\ attempt' = attempt + 1
        /\ UNCHANGED <<steps, top, branch, sub>> /\ attempt \in Nat
    BY <1>2 DEF RetryFails, PlaceOK
  <2>2. MaxRetries' = MaxRetries /\ Current' = Current /\ MaxRetries \in Nat
    BY <1>1, <2>1, CurrentIsStep DEF MaxRetries, Current
  <2>3. StepsLeft' = StepsLeft /\ ToChoose' = ToChoose /\ BranchLeft' = BranchLeft
        /\ PhasesLeft' = PhasesLeft
    BY <2>1 DEF StepsLeft, ToChoose, BranchLeft, PhasesLeft
  <2>4. RetriesLeft' < RetriesLeft
    BY <2>1, <2>2 DEF RetriesLeft
  <2>5. attempt' <= MaxRetries'
    BY <2>1, <2>2
  <2>6. PlaceOK'
    BY <1>1, <2>1, <2>2, <2>5 DEF PlaceOK
  <2> QED
    BY <2>3, <2>4, <2>6 DEF Descends, Lower
<1>3. CASE RetriesExhausted
  <2>1. CASE phase' = "fallback" /\ Stay
    <3>1. UNCHANGED <<steps, top, branch, sub, attempt>> /\ phase = "retry"
      BY <1>1, <1>3, <2>1 DEF Stay, RetriesExhausted
    <3>2. PhasesLeft' < PhasesLeft
      BY <2>1, <3>1 DEF PhasesLeft
    <3> QED
      BY <1>1, <2>1, <3>1, <3>2, LaterPhaseDescends DEF Phases
  <2>2. CASE LogFailure("failed")
    BY <1>1, <2>2, LogFailureDescends
  <2> QED
    BY <1>3, <2>1, <2>2 DEF RetriesExhausted
<1>4. CASE FallbackFails
  BY <1>1, <1>4, LogFailureDescends DEF FallbackFails
<1>5. CASE \E out \in Messages : StepSucceeds(out) \/ RetrySucceeds(out) \/ FallbackSucceeds(out)
  <2>1. Advance \/ (phase' \in Final /\ Stay)
    BY <1>5 DEF StepSucceeds, RetrySucceeds, FallbackSucceeds, Final
  <2> QED
    BY <1>1, <2>1, AdvanceDescends, EndDescends
<1>6. CASE \E severity \in Severities : StepFails(severity)
  <2>1. /\ phase = "execute"
        /\ \/ \E status : LogFailure(status)
           \/ Advance
           \/ phase' = "retry" /\ UNCHANGED <<top, branch, sub, attempt>>
    BY <1>6 DEF StepFails
  <2>2. CASE phase' = "retry" /\ UNCHANGED <<top, branch, sub, attempt>>
    <3>1. attempt = 0 /\ PhasesLeft' < PhasesLeft
      BY <2>1, <2>2 DEF CountsOK, PhasesLeft
    <3> QED
      BY <1>1, <2>2, <3>1, LaterPhaseDescends DEF Phases
  <2> QED
    BY <1>1, <2>1, <2>2, AdvanceDescends, LogFailureDescends
<1> QED
  BY <1>2, <1>3, <1>4, <1>5, <1>6

LEMMA PlaceInductive ==
    /\ Init => PlaceOK
    /\ PlaceOK /\ CountsOK /\ EngineStep => PlaceOK' /\ Descends
    /\ PlaceOK /\ CountsOK /\ [Next]_vars => PlaceOK'
<1>1. ASSUME Init PROVE PlaceOK
  <2>1. steps \in Seq(StepDefs)
    BY <1>1, DefinitionsAssumption DEF Init, StepDefs
  <2>2. Len(steps) \in Nat
    BY <2>1
  <2> QED
    BY <1>1, <2>1, <2>2 DEF Init, PlaceOK, Phases
<1>2. ASSUME PlaceOK, CountsOK, EngineStep PROVE PlaceOK' /\ Descends
  BY <1>2, MoveDescends, CallDescends DEF EngineStep
<1>3. ASSUME PlaceOK, UNCHANGED vars PROVE PlaceOK'
  BY <1>3 DEF PlaceOK, vars, Current, MaxRetries
<1> QED
  BY <1>1, <1>2, <1>3 DEF Next, Done

\* Where a run can be is an invariant.
LEMMA PlaceInvariant == Spec => [](PlaceOK /\ CountsOK)
<1>1. StepInv => CountsOK
  BY DEF StepInv
<1> QED
  BY <1>1, StepInvariant, PlaceInductive, PTL DEF Spec

\* Every step of a run brings it closer to its end: the rank of the state, which
\* counts what is left of the steps, of the branch, of the phases of the current
\* step and of its retries, goes down in an order without infinite descent,
\* whatever the workflow, the conditions' values and the plugins' answers are.
\* So a run cannot go on for ever (execute_steps).
THEOREM EveryStepDescends ==
    /\ Spec => [][(<<Rank', Rank>> \in Below)]_vars
    /\ IsWellFoundedOn(Below, Ranks)
<1>1. ASSUME PlaceOK, CountsOK, PlaceOK', [Next]_vars PROVE [(<<Rank', Rank>> \in Below)]_vars
  <2>1. CASE UNCHANGED vars
    BY <2>1
  <2>2. CASE EngineStep
    <3>1. Descends
      BY <1>1, <2>2, PlaceInductive
    <3>2. RankOK
      BY <1>1, RankIsNatural
    <3>3. RankOK'
      BY <1>1, RankIsNatural, PTL
    <3>4. Rank' = <<StepsLeft', ToChoose', BranchLeft', PhasesLeft', RetriesLeft'>>
      BY DEF Rank
    <3> QED
      BY <3>1, <3>2, <3>3, <3>4, LowerIsBelow DEF Descends, Rank, RankOK
  <2> QED
    BY <1>1, <2>1, <2>2 DEF Next, Done
<1>2. Spec => [][(<<Rank', Rank>> \in Below)]_vars
  BY <1>1, PlaceInvariant, PTL DEF Spec
<1> QED
  BY <1>2, BelowIsWellFounded

\* The conditions under which the engine has something to do next.
CanGoOn ==
    \/ phase \in {"entry", "execute", "fallback", "exit"}
    \/ /\ phase = "next"
       /\ top > Len(steps) \/ (branch = "none" /\ steps[top].condition) \/ ~Current.condition
    \/ phase = "retry" /\ (attempt < MaxRetries \/ attempt = MaxRetries)

\* A run that has not returned is never stuck between two steps: a step inside a
\* branch is never a condition (validate_step), so it can be called, and the
\* retry loop ends exactly at max_retries.  With EveryStepDescends this is all
\* of RunReturns but for the fairness of the scheduler.
THEOREM RunsAreNeverStuck == Spec => [](phase \in Final \/ CanGoOn)
<1>1. PlaceOK => phase \in Final \/ CanGoOn
  <2>1. SUFFICES ASSUME PlaceOK, phase \in {"next", "retry"} PROVE CanGoOn
    BY DEF PlaceOK, Phases, CanGoOn
  <2>2. CASE phase = "retry"
    BY <2>1, <2>2, CurrentIsStep DEF PlaceOK, CanGoOn
  <2>3. CASE phase = "next"
    <3>1. CASE top > Len(steps)
      BY <2>3, <3>1 DEF CanGoOn
    <3>2. CASE top <= Len(steps) /\ branch = "none"
      BY <2>1, <2>3, <3>2, CurrentIsStep DEF CanGoOn, Current
    <3>3. CASE top <= Len(steps) /\ branch # "none"
      BY <2>1, <2>3, <3>3, CurrentIsStep DEF CanGoOn
    <3>4. top > Len(steps) \/ top <= Len(steps)
      BY <2>1 DEF PlaceOK
    <3> QED
      BY <3>1, <3>2, <3>3, <3>4
  <2> QED
    BY <2>1, <2>2, <2>3
<1> QED
  BY <1>1, PlaceInvariant, PTL
=============================================================================
