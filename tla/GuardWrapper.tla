---------------------------- MODULE GuardWrapper ----------------------------
(* contracts/runtime-guard-wrapper: calls of a wrapped contract between guards *)
(* that count, log and measure. A call that returns an error is undone by the  *)
(* host with all it recorded.                                                  *)
EXTENDS Naturals, Sequences, SequencesExt

CONSTANTS LogCap,        \* 100 in log_execution
          MetricsCap,    \* 1000 in record_metrics
          HealthyLimit,  \* HEALTHY_STORAGE_LIMIT, 64
          MaxCalls       \* bound: the calls that succeed

ASSUME WrapperAssumption ==
  /\ LogCap \in Nat \ {0} /\ MetricsCap \in Nat \ {0}
  /\ HealthyLimit \in 1..LogCap /\ HealthyLimit <= MetricsCap /\ MaxCalls \in Nat

VARIABLES wrapped,   \* the wrapped contract's address is set
          book,      \* persistent storage: checked, log, failures, metrics
          calls      \* history: the functions of the calls that succeeded

wrapperVars == <<wrapped, book, calls>>

\* "none" is the symbol validate_function_name refuses, "other" one no wrapped
\* function has.
Functions == {"ping", "echo", "sum", "other", "none"}

WrapperInit ==
  /\ wrapped = FALSE /\ calls = <<>>
  /\ book = [checked |-> 0, log |-> <<>>, failures |-> <<>>, metrics |-> 0]

\* An init that starts over each time.
WrapperSetupAgain ==
  /\ wrapped' = TRUE
  /\ book' = [checked |-> 0, log |-> <<>>, failures |-> <<>>, metrics |-> 0]
  /\ UNCHANGED calls

\* init is idempotent: a second one only raises an event.
WrapperSetup ==
  /\ ~wrapped
  /\ wrapped' = TRUE
  /\ book' = [checked |-> 0, log |-> <<>>, failures |-> <<>>, metrics |-> 0]
  /\ UNCHANGED calls

\* expected_arg_count; 9 stands for None.
Expected == [ping |-> 0, echo |-> 1, sum |-> 2, other |-> 9, none |-> 9]

RecordFailure(b, f) == [b EXCEPT !.failures = Append(@, f)]
RecordMetrics(b) == [b EXCEPT !.metrics = IF @ + 1 > MetricsCap THEN MetricsCap ELSE @ + 1]
\* Trimming one entry too early.
LogExecutionShort(b, fn) ==
  LET log == Append(b.log, fn) IN
  [b EXCEPT !.log = IF Len(log) >= LogCap THEN Tail(log) ELSE log]

LogExecution(b, fn) ==
  LET log == Append(b.log, fn) IN
  [b EXCEPT !.log = IF Len(log) > LogCap THEN Tail(log) ELSE log]
PostGuards(b) == [b EXCEPT !.checked = @ + 1]

\* execute_guarded: the book it leaves, and whether it returns Ok. numbers: the
\* arguments convert to u32, which only sum asks for.
ExecuteGuarded(b, fn, args, numbers) ==
  IF fn = "none" \/ ~wrapped THEN [ok |-> FALSE, book |-> b]
  ELSE IF fn = "other" THEN [ok |-> FALSE, book |-> RecordFailure(b, "missing_function")]
  ELSE IF args # Expected[fn] THEN [ok |-> FALSE, book |-> RecordFailure(b, "arg_mismatch")]
  ELSE IF fn = "sum" /\ ~numbers
  THEN [ok |-> FALSE, book |-> RecordFailure(b, "wrapped_call_error")]
  ELSE [ok |-> TRUE, book |-> LogExecution(PostGuards(RecordMetrics(b)), fn)]

\* The host keeps what a call wrote only when it returns Ok.
Invoke(fn, args, numbers) ==
  LET r == ExecuteGuarded(book, fn, args, numbers) IN
  /\ book' = IF r.ok THEN r.book ELSE book
  /\ calls' = IF r.ok THEN Append(calls, fn) ELSE calls
  /\ UNCHANGED wrapped

HealthCheck == wrapped /\ book.metrics < HealthyLimit /\ Len(book.log) < HealthyLimit

WrapperNext ==
  \/ WrapperSetup
  \/ /\ Len(calls) < MaxCalls
     /\ \E fn \in Functions, args \in 0..2, numbers \in BOOLEAN : Invoke(fn, args, numbers)

WrapperSpec == WrapperInit /\ [][WrapperNext]_wrapperVars

WrapperTypeOK ==
  /\ wrapped \in BOOLEAN /\ calls \in Seq(Functions)
  /\ book.checked \in Nat /\ book.metrics \in 0..MetricsCap

(* The counters and the capped log say what happened: one check per call that  *)
(* succeeded, the log the most recent of them in order, and no failure is ever *)
(* on record (log_execution, record_metrics, record_guard_failure).            *)
BookTellsTheCalls ==
  LET n == Len(calls) IN
  /\ book.checked = n
  /\ book.log = SubSeq(calls, IF n > LogCap THEN n - LogCap + 1 ELSE 1, n)
  /\ book.metrics = IF n > MetricsCap THEN MetricsCap ELSE n
  /\ book.failures = <<>>

(* The caps are above the limit of health_check, so that a wrapper that has    *)
(* once taken too many calls is never healthy again.                           *)
StaysUnhealthy == [][wrapped /\ ~HealthCheck => ~HealthCheck']_wrapperVars
=============================================================================
