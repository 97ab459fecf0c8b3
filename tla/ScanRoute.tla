------------------------------ MODULE ScanRoute ------------------------------
(* frontend/app/api/analyze/route.ts, POST, with lib/audit-trail.ts: requests  *)
(* of several clients interleave at their awaits; each runs the CLI, whose     *)
(* exit, error and time limit race for one promise.                            *)
EXTENDS Naturals, Sequences, SequencesExt, FiniteSets

CONSTANTS Requests,   \* bound: how many arrive
          Client,
          RateLimit,  \* RATE_LIMIT_REQUESTS_PER_MINUTE
          Window,     \* 60000 ms, in ticks of the clock
          MaxLogSize, \* of the audit ring buffer
          MaxClock    \* bound

ASSUME RouteAssumption ==
  /\ RateLimit \in Nat \ {0} /\ MaxLogSize \in Nat \ {0}
  /\ Window \in Nat /\ Requests \in Nat /\ MaxClock \in Nat

VARIABLES clock,
          rateLimitMap, \* client -> [count, resetTime]; count 0 is no entry
          handler,      \* request -> [at, status]: where its POST is, what it answers
          cli,          \* request -> none, running, failed, signalled or ended
          promise,      \* request -> open, or what settled it
          auditLog,     \* the ring buffer of [request, outcomeCode]
          admitted      \* history: [request, client, time] that passed the limit

routeVars == <<clock, rateLimitMap, handler, cli, promise, auditLog, admitted>>

Request == 1..Requests

\* The answers to what is no contract: no source or another type of file, one
\* too large, one without soroban_sdk, a form that does not parse.
Refusals == {400, 413, 422, 500}

\* Requests are numbered as they arrive.
Arriving(r) == /\ handler[r].at = "unsent"
               /\ \A earlier \in 1..r - 1 : handler[earlier].at # "unsent"

RouteInit ==
  /\ clock = 0 /\ rateLimitMap = [c \in Client |-> [count |-> 0, resetTime |-> 0]]
  /\ handler = [r \in Request |-> [at |-> "unsent", status |-> 0]]
  /\ cli = [r \in Request |-> "none"] /\ promise = [r \in Request |-> "open"]
  /\ auditLog = <<>> /\ admitted = {}

Expired(entry) == entry.count = 0 \/ clock > entry.resetTime
\* Counting one request past the limit.
AllowedOneMore(c) == Expired(rateLimitMap[c]) \/ rateLimitMap[c].count <= RateLimit
Allowed(c) == Expired(rateLimitMap[c]) \/ rateLimitMap[c].count < RateLimit

\* checkRateLimit
Counted(c) ==
  rateLimitMap' =
    IF Expired(rateLimitMap[c])
    THEN [rateLimitMap EXCEPT ![c] = [count |-> 1, resetTime |-> clock + Window]]
    ELSE IF Allowed(c) THEN [rateLimitMap EXCEPT ![c].count = @ + 1] ELSE rateLimitMap

recordScanAudit(r, code) ==
  auditLog' = Append(IF Len(auditLog) >= MaxLogSize THEN Tail(auditLog) ELSE auditLog,
                     [request |-> r, outcomeCode |-> code])

Moves(r, to, status) == handler' = [handler EXCEPT ![r] = [at |-> to, status |-> status]]

\* Up to the first await: mkdtemp, or the refusal.
Arrive(r, c) ==
  /\ Arriving(r)
  /\ Counted(c)
  /\ IF Allowed(c)
     THEN /\ Moves(r, "mkdtemp", 0) /\ UNCHANGED auditLog
          /\ admitted' = admitted \union {[request |-> r, client |-> c, time |-> clock]}
     ELSE /\ Moves(r, "answered", 429) /\ recordScanAudit(r, 429)
          /\ UNCHANGED admitted
  /\ UNCHANGED <<clock, cli, promise>>

\* respond in the try or the catch, then finally up to its await of rm.
Respond(r, status) == recordScanAudit(r, status) /\ Moves(r, "removing", status)

MakeTempDir(r) ==
  /\ handler[r].at = "mkdtemp"
  /\ \/ Moves(r, "parse", 0) /\ UNCHANGED auditLog
     \/ Respond(r, 500)
  /\ UNCHANGED <<clock, rateLimitMap, cli, promise, admitted>>

\* The body is no contract, or writing it out or spawning the CLI throws.
Refuse(r) ==
  /\ handler[r].at = "parse"
  /\ \E status \in Refusals : Respond(r, status)
  /\ UNCHANGED <<clock, rateLimitMap, cli, promise, admitted>>

runAnalyzeCommand(r) ==
  /\ handler[r].at = "parse"
  /\ cli' = [cli EXCEPT ![r] = "running"] /\ Moves(r, "analysing", 0)
  /\ UNCHANGED <<clock, rateLimitMap, promise, auditLog, admitted>>

\* Settling again with every event.
SettledAgain(r, how) == [promise EXCEPT ![r] = how]
\* completed: only the first of the three events settles the promise.
Settled(r, how) == IF promise[r] = "open" THEN [promise EXCEPT ![r] = how] ELSE promise

\* close, with a report on stdout or without one; it also follows an error.
CliCloses(r) ==
  /\ cli[r] \in {"running", "signalled", "failed"}
  /\ cli' = [cli EXCEPT ![r] = "ended"]
  /\ \E how \in {"report", "noReport"} : promise' = Settled(r, how)
  /\ UNCHANGED <<clock, rateLimitMap, handler, auditLog, admitted>>

CliErrors(r) ==
  /\ cli[r] = "running"
  /\ cli' = [cli EXCEPT ![r] = "failed"]
  /\ promise' = Settled(r, "error")
  /\ UNCHANGED <<clock, rateLimitMap, handler, auditLog, admitted>>

\* The time limit; cleanup clears the timer when another event was first.
TimeLimit(r) ==
  /\ handler[r].at = "analysing" /\ promise[r] = "open"
  /\ cli' = [cli EXCEPT ![r] = "signalled"]
  /\ promise' = Settled(r, "timedOut")
  /\ UNCHANGED <<clock, rateLimitMap, handler, auditLog, admitted>>

StatusOf == [report |-> 200, noReport |-> 500, error |-> 500, timedOut |-> 504]

\* The await of runAnalyzeCommand goes on.
Resume(r) ==
  /\ handler[r].at = "analysing" /\ promise[r] # "open"
  /\ Respond(r, StatusOf[promise[r]])
  /\ UNCHANGED <<clock, rateLimitMap, cli, promise, admitted>>

\* rm, whose failure is swallowed; only then does the client get its answer.
RemoveTempDir(r) ==
  /\ handler[r].at = "removing"
  /\ Moves(r, "answered", handler[r].status)
  /\ UNCHANGED <<clock, rateLimitMap, cli, promise, auditLog, admitted>>

\* The interval that forgets expired entries.
SweepExpired ==
  /\ rateLimitMap' = [c \in Client |-> IF Expired(rateLimitMap[c])
                                       THEN [count |-> 0, resetTime |-> 0] ELSE rateLimitMap[c]]
  /\ UNCHANGED <<clock, handler, cli, promise, auditLog, admitted>>

ClockTicks ==
  /\ clock < MaxClock /\ clock' = clock + 1
  /\ UNCHANGED <<rateLimitMap, handler, cli, promise, auditLog, admitted>>

RouteNext ==
  \/ \E r \in Request, c \in Client : Arrive(r, c)
  \/ \E r \in Request : \/ MakeTempDir(r) \/ Refuse(r) \/ runAnalyzeCommand(r)
                        \/ CliCloses(r) \/ CliErrors(r) \/ TimeLimit(r)
                        \/ Resume(r) \/ RemoveTempDir(r)
  \/ SweepExpired \/ ClockTicks

RouteSpec == RouteInit /\ [][RouteNext]_routeVars

Records(r) == {i \in DOMAIN auditLog : auditLog[i].request = r}
Done == {r \in Request : handler[r].at \in {"removing", "answered"}}

\* A request is recorded once, with the status it is answered with, unless the
\* ring buffer has moved on; and by then its CLI has ended or been told to.
RecordedAsAnswered ==
  /\ \A r \in Request : \A i \in Records(r) :
       auditLog[i].outcomeCode = handler[r].status /\ Records(r) = {i}
  /\ \A r \in Done : Records(r) # {} \/ Len(auditLog) = MaxLogSize
  /\ \A r \in Done : cli[r] # "running"

\* The fixed window lets two windows' worth through in any one window's time.
RateHeld ==
  \A c \in Client, t \in 0..MaxClock :
    Cardinality({a \in admitted : a.client = c /\ a.time \in t..t + Window}) <= 2 * RateLimit

\* The status is that of the first event, whatever comes after it.
FirstEventAnswers ==
  \A r \in Done : promise[r] # "open" => handler[r].status = StatusOf[promise[r]]

(* Every request POST has settled left one audit record of the very status it  *)
(* answered, that of the first of the CLI's events, no CLI it started runs on  *)
(* unsignalled, and no client passes the limit more than twice over in a       *)
(* window (checkRateLimit, runAnalyzeCommand, the catch and finally of POST).  *)
ScansAccountedFor == RecordedAsAnswered /\ FirstEventAnswers /\ RateHeld
=============================================================================
