----------------------------- MODULE Regression -----------------------------
(***************************************************************************)
(* The replay, test and diff commands: every baseline flow of a fixture is *)
(* executed against the candidate, one after the other or at its recorded  *)
(* start offset with bounded concurrency, the observations are compared,   *)
(* and the reports decide the output and the exit code.                    *)
(*                                                                         *)
(* The candidate is arbitrary: its answer is chosen when it is given, from *)
(* Answers, or its observation fails (the "refused" answer).               *)
(***************************************************************************)
EXTENDS Comparison

CONSTANTS
    Invocations,    \* command lines with the fixture they name
    Answers(_),     \* what a candidate may answer to a baseline flow
    MaxOffset,      \* MAX_STREAM_TOTAL_DELAY_NS
    MaxConcurrency, \* the 1024 of timeline_order_offsets
    MaxNow          \* bound: the clock of a run

ASSUME RegressionAssumption ==
    /\ MaxOffset \in Nat /\ MaxConcurrency \in Nat /\ MaxNow \in Nat
    /\ \A v \in Invocations : /\ v.cmd \in {"replay", "test", "diff"}
                              /\ v.scheduler \in {"sequential", "timeline"}
                              /\ v.bound \subseteq Nat

IsList(s) == s \in Seq(Range(s))
IsUpgrade(f) == f.kind = "response" /\ f.status = 101

\* A name is there when it has a value.
IsHeaders(h) == \A n \in DOMAIN h : h[n] # <<>>

\* What a fixture holds of a flow.
IsFlow(f) ==
    /\ f.kind \in {"response", "error"}
    /\ f.offset \in Nat
    /\ IsHeaders(f.headers) /\ IsHeaders(f.trailers)
    /\ IsList(f.body) /\ \A l \in Range(f.body) : l.field \in LineFields
    /\ f.elapsed \subseteq Nat
    /\ IsList(f.events) /\ \A e \in Range(f.events) : e.at \in Nat
    /\ IsList(f.conversation.messages)
    /\ \A m \in Range(f.conversation.messages) : m.at \in Nat

\* What is observed of a candidate, when it can be.
IsAnswer(b, c) ==
    /\ c.kind \in {"response", "error", "refused"}
    /\ c.kind # "refused" /\ ~IsUpgrade(b) => c.elapsed \subseteq Nat
    /\ c.kind = "response" /\ ~IsUpgrade(b) => IsHeaders(c.headers) /\ IsHeaders(c.trailers)

ASSUME FixtureAssumption ==
    \A v \in Invocations :
        /\ IsList(v.flows) /\ IsList(v.candidate)
        /\ \A f \in Range(v.flows) \cup Range(v.candidate) : IsFlow(f)
        /\ \A f \in Range(v.flows) : \A c \in Answers(f) : IsAnswer(f, c)

VARIABLES
    inv,        \* the invocation
    phase,      \* "open", "sequential", "timeline", "exit"
    order,      \* timeline: flow indices by start offset
    next,       \* the next position of order, or flow, to start
    tasks,      \* timeline: the JoinSet, a function from flow index to state
    now,
    reports,    \* per flow: NoReport or its findings
    answered,   \* history: per flow, the answers observed for it
    startedAt,  \* history: per flow, when its request was sent
    exit,       \* exit code, or NotYet
    junit       \* failures attribute of the test suite, or NotYet

vars == <<inv, phase, order, next, tasks, now, reports, answered, startedAt,
          exit, junit>>

Flows == inv.flows
Indices == DOMAIN Flows
NoTasks == [i \in {} |-> None]

\* A flow's report: not there, or the findings of a comparison.
NoReport == [ok |-> FALSE, findings |-> {}]
Reported(f) == [ok |-> TRUE, findings |-> f]

NotYet == 99    \* no exit code, no output, no request

\* exit_code_for_class
ExitCode(class) ==
    CASE class \in {"regression", "diff"} -> 1
      [] class = "configuration" -> 2
      [] class = "fixture" -> 3
      [] class = "runtime" -> 4

Init ==
    /\ inv \in Invocations
    /\ phase = "open"
    /\ order = <<>> /\ next = 1 /\ tasks = NoTasks /\ now = 0
    /\ reports = [i \in DOMAIN inv.flows |-> NoReport]
    /\ answered = [i \in DOMAIN inv.flows |-> <<>>]
    /\ startedAt = [i \in DOMAIN inv.flows |-> NotYet]
    /\ exit = NotYet /\ junit = NotYet

\* An error class ends the command; the task set is dropped, which aborts it.
Abort(class) ==
    /\ exit' = ExitCode(class)
    /\ phase' = "exit"
    /\ tasks' = NoTasks

-----------------------------------------------------------------------------
(* Start                                                                   *)

NeedsStreams == StreamEnabled(inv.policy)
Extension == \E i \in Indices : Flows[i].timed

\* timeline_order_offsets
Before(i, j) ==
    \/ Flows[i].offset < Flows[j].offset
    \/ Flows[i].offset = Flows[j].offset /\ i < j
TimelineOrder ==
    CHOOSE o \in [Indices -> Indices] : \A k, m \in Indices : k < m => Before(o[k], o[m])

\* Why regression refuses to start, in the order the code looks.
OpenError ==
    CASE NeedsStreams /\ ~Extension -> "fixture"
      [] ~(NeedsStreams /\ ~Extension) /\ inv.scheduler = "sequential" -> None
      [] ~(NeedsStreams /\ ~Extension) /\ inv.scheduler = "timeline" ->
           CASE inv.concurrency \notin 1 .. MaxConcurrency -> "configuration"
             [] inv.concurrency \in 1 .. MaxConcurrency /\ ~Extension -> "configuration"
             [] inv.concurrency \in 1 .. MaxConcurrency /\ Extension ->
                  IF \E i \in Indices : ~Flows[i].timed THEN "fixture"
                  ELSE IF \E i \in Indices : Flows[i].offset > MaxOffset
                  THEN "configuration" ELSE None

Open ==
    /\ phase = "open" /\ inv.cmd # "diff"
    /\ IF OpenError # None
       THEN Abort(OpenError) /\ UNCHANGED order
       ELSE /\ phase' = inv.scheduler
            /\ order' = IF inv.scheduler = "timeline" THEN TimelineOrder ELSE <<>>
            /\ UNCHANGED <<exit, tasks>>
    /\ UNCHANGED <<inv, next, now, reports, answered, startedAt, junit>>

Tick ==
    /\ phase = "timeline"
    /\ now < MaxNow
    /\ now' = now + 1
    /\ UNCHANGED <<inv, phase, order, next, tasks, reports, answered,
                   startedAt, exit, junit>>

-----------------------------------------------------------------------------
(* One candidate flow                                                      *)

\* compare_candidate_flow: a report, or none when it returns an error.  What
\* compare_websocket_candidate finds of a live conversation is WebSocketReplay's
\* subject; here it is any set of findings.
CandidateReport(b, c) ==
    CASE c.kind = "refused" -> NoReport
      [] c.kind # "refused" /\ b.kind = "response" /\ b.status = 101 ->
           IF b.conversation = NoConversation THEN NoReport
           ELSE Reported(c.found)
      [] c.kind # "refused" /\ ~(b.kind = "response" /\ b.status = 101) ->
           IF NeedsStreams /\ ~b.timed THEN NoReport
           ELSE Reported(CompareFlows(b, c, inv.policy, inv.bound)
                \cup IF NeedsStreams
                     THEN CompareStreams(b.events, c.events, inv.policy.tolerance) ELSE {})

\* The sequential scheduler: one flow at a time, an error ends the command.
Sequential(c) ==
    LET f == CandidateReport(Flows[next], c)
    IN  /\ phase = "sequential" /\ next <= Len(Flows)
        /\ c \in Answers(Flows[next])
        /\ answered' = [answered EXCEPT ![next] = Append(@, c)]
        /\ startedAt' = [startedAt EXCEPT ![next] = now]
        /\ IF ~f.ok THEN Abort("runtime") /\ UNCHANGED <<reports, next>>
           ELSE /\ reports' = [reports EXCEPT ![next] = f]
                /\ next' = next + 1
                /\ UNCHANGED <<phase, exit, tasks>>
        /\ UNCHANGED <<inv, order, now, junit>>

-----------------------------------------------------------------------------
(* The timeline scheduler                                                  *)

Live == DOMAIN tasks
SetTask(i, s) == [j \in Live \cup {i} |-> IF j = i THEN s ELSE tasks[j]]

\* Mutant: a finished task keeps its slot until the end.
HasSlotNever == next <= inv.concurrency

HasSlot == Cardinality(Live) < inv.concurrency

\* The inner loop fills every free slot before it waits.
Spawn ==
    /\ phase = "timeline"
    /\ next <= Len(order) /\ HasSlot
    /\ tasks' = SetTask(order[next], [state |-> "asleep", report |-> NoReport])
    /\ next' = next + 1
    /\ UNCHANGED <<inv, phase, order, now, reports, answered, startedAt, exit, junit>>

Wakes(i) == now >= Flows[i].offset

\* A task sleeps until its offset, then sends the request.
Send(i) ==
    /\ phase = "timeline"
    /\ i \in Live /\ tasks[i].state = "asleep" /\ Wakes(i)
    /\ tasks' = SetTask(i, [state |-> "sent", report |-> NoReport])
    /\ startedAt' = [startedAt EXCEPT ![i] = now]
    /\ UNCHANGED <<inv, phase, order, next, now, reports, answered, exit, junit>>

Observe(i, c) ==
    /\ phase = "timeline"
    /\ i \in Live /\ tasks[i].state = "sent"
    /\ c \in Answers(Flows[i])
    /\ answered' = [answered EXCEPT ![i] = Append(@, c)]
    /\ tasks' = SetTask(i, [state |-> "done",
                            report |-> CandidateReport(Flows[i], c)])
    /\ UNCHANGED <<inv, phase, order, next, now, reports, startedAt, exit, junit>>

\* Mutant: reports are kept in the order the tasks complete.
SlotCompletion(i) == Cardinality({j \in Indices : reports[j].ok}) + 1

\* The report of a task goes to the slot of its flow.
Slot(i) == i

\* Mutant: a task that failed is reaped like one that found nothing.
JoinLenient(i) ==
    /\ phase = "timeline"
    /\ next > Len(order) \/ ~HasSlot
    /\ i \in Live /\ tasks[i].state = "done"
    /\ reports' = [reports EXCEPT ![i] = Reported(tasks[i].report.findings)]
    /\ tasks' = [j \in Live \ {i} |-> tasks[j]]
    /\ UNCHANGED <<inv, phase, order, next, now, answered, startedAt, exit, junit>>

\* join_next, once no slot is free or no flow is left.
Join(i) ==
    /\ phase = "timeline"
    /\ next > Len(order) \/ ~HasSlot
    /\ i \in Live /\ tasks[i].state = "done"
    /\ IF ~tasks[i].report.ok
       THEN Abort("runtime") /\ UNCHANGED reports
       ELSE /\ reports' = [reports EXCEPT ![Slot(i)] = tasks[i].report]
            /\ tasks' = [j \in Live \ {i} |-> tasks[j]]
            /\ UNCHANGED <<phase, exit>>
    /\ UNCHANGED <<inv, order, next, now, answered, startedAt, junit>>

-----------------------------------------------------------------------------
(* The verdict                                                             *)

\* Every flow was started and every task joined.
AllRun ==
    \/ phase = "sequential" /\ next > Len(Flows)
    \/ phase = "timeline" /\ next > Len(order) /\ Live = {}

\* replay reports, test enforces.
Verdict ==
    [class |-> IF \E i \in Indices : ~reports[i].ok THEN "runtime"
               ELSE IF inv.cmd = "test" /\ \E i \in Indices : reports[i].findings # {}
               THEN "regression" ELSE None]

\* junit_for_reports: one failure for every report that is not a success.
Failures(rs) == Cardinality({i \in DOMAIN rs : rs[i].findings # {}})

Report ==
    /\ AllRun
    /\ phase' = "exit"
    /\ exit' = IF Verdict.class = None THEN 0 ELSE ExitCode(Verdict.class)
    /\ junit' = IF Verdict.class = "runtime" THEN NotYet ELSE Failures(reports)
    /\ UNCHANGED <<inv, order, next, tasks, now, reports, answered, startedAt>>

-----------------------------------------------------------------------------
(* diff: two fixtures, flow by flow in fixture order                       *)

Paired(l, r) == 1 .. (IF Len(l) < Len(r) THEN Len(l) ELSE Len(r))

\* A body that cannot be read is compared as an empty one.
Bodied(f) == IF f.readable THEN f ELSE [f EXCEPT !.body = <<>>]

\* The findings of one pair.
DiffFindings(b, c, policy, bound) ==
    CompareFlows(Bodied(b), Bodied(c), policy, bound)
    \cup (IF StreamEnabled(policy)
          THEN CompareStreams(b.events, c.events, policy.tolerance) ELSE {})
    \cup (IF IsUpgrade(b) \/ IsUpgrade(c)
          THEN CompareConversations(b.conversation, c.conversation, policy.wsTolerance)
          ELSE {})

\* A pair whose metadata is missing is a fixture error.
DiffError(b, c, policy) ==
    \/ StreamEnabled(policy) /\ ~(b.timed /\ c.timed)
    \/ (IsUpgrade(b) \/ IsUpgrade(c)) 
         /\ NoConversation \in {b.conversation, c.conversation}

DiffSuccess(l, r, policy, bound) ==
    /\ Len(l) = Len(r)
    /\ \A i \in Paired(l, r) : DiffFindings(l[i], r[i], policy, bound) = {}

Diff ==
    LET c == inv.candidate
        missing == \/ NeedsStreams /\ ~(Extension /\ \E i \in DOMAIN c : c[i].timed)
                   \/ \E i \in Paired(Flows, c) : DiffError(Flows[i], c[i], inv.policy)
    IN  /\ phase = "open" /\ inv.cmd = "diff"
        /\ phase' = "exit"
        /\ IF missing
           THEN exit' = ExitCode("fixture") /\ UNCHANGED <<reports, junit>>
           ELSE /\ exit' = IF DiffSuccess(Flows, c, inv.policy, inv.bound)
                           THEN 0 ELSE ExitCode("diff")
                /\ reports' = [i \in Paired(Flows, c) |->
                       Reported(DiffFindings(Flows[i], c[i], inv.policy, inv.bound))]
                /\ junit' = Failures(reports')
        /\ UNCHANGED <<inv, order, next, tasks, now, answered, startedAt>>

-----------------------------------------------------------------------------

Next ==
    \/ Open \/ Tick \/ Spawn \/ Report \/ Diff
    \/ \E c \in UNION {Answers(Flows[i]) : i \in Indices} :
          Sequential(c) \/ \E i \in Indices : Observe(i, c)
    \/ \E i \in Indices : Send(i) \/ Join(i)

\* The runtime polls every task and the clock runs; a candidate answers, which
\* only --timeout-secs guarantees of the code.
Fairness ==
    /\ WF_vars(Open) /\ WF_vars(Tick) /\ WF_vars(Spawn) /\ WF_vars(Report) /\ WF_vars(Diff)
    /\ WF_vars(\E i \in Indices : Send(i))
    /\ WF_vars(\E i \in Indices : Join(i))
    /\ WF_vars(\E i \in Indices : \E c \in Answers(Flows[i]) : Observe(i, c))
    /\ WF_vars(\E c \in UNION {Answers(Flows[i]) : i \in Indices} : Sequential(c))

Spec == Init /\ [][Next]_vars /\ Fairness

-----------------------------------------------------------------------------
(* Properties                                                              *)

TypeOK ==
    /\ phase \in {"open", "sequential", "timeline", "exit"}
    /\ exit \in {NotYet} \cup 0 .. 4
    /\ Live \subseteq Indices
    /\ \A i \in Live : tasks[i].state \in {"asleep", "sent", "done"}
    /\ next \in 1 .. Len(Flows) + 1

\* What two observations must share for a run to pass, stated without the
\* comparison code: same outcome, same category and phase of an error, same
\* status, the same fields on both sides with equal values but for volatile
\* ones, the same bytes, in time.
SameFields(a, b) ==
    /\ DOMAIN a = DOMAIN b
    /\ \A n \in DOMAIN a \ VolatileHeaders : a[n] = b[n]

SameObservation(b, c) ==
    /\ b.kind = c.kind
    /\ b.kind = "response" =>
          /\ b.status = c.status /\ b.body = c.body
          /\ SameFields(b.headers, c.headers) /\ SameFields(b.trailers, c.trailers)
    /\ b.kind = "error" => b.category = c.category /\ b.phase = c.phase
    /\ \A most \in inv.bound : \A e \in c.elapsed : e <= most

Plain(b) == ~IsUpgrade(b)

\* test passes only when every flow was executed once and every candidate
\* observation is the recorded one; under the default policy it fails only
\* when one is not.
VerdictHonest ==
    inv.cmd = "test" /\ exit \in {0, 1} =>
        LET same == \A i \in Indices : Plain(Flows[i]) =>
                        SameObservation(Flows[i], answered[i][1])
        IN  /\ \A i \in Indices : Len(answered[i]) = 1
            /\ exit = 0 => same
            /\ (same /\ ~NeedsStreams /\ ~SseEnabled(inv.policy)
                /\ \A i \in Indices : Plain(Flows[i])) => exit = 0

\* Each report is about the flow of its position, whatever order the candidate
\* tasks completed in.
ReportsInFixtureOrder ==
    inv.cmd # "diff" => \A i \in Indices : reports[i].ok =>
        answered[i] # <<>> /\ reports[i] = CandidateReport(Flows[i], Last(answered[i]))

\* At most max_concurrency requests are in flight.
ConcurrencyBounded ==
    Cardinality({i \in Live : tasks[i].state = "sent"})
        <= (IF phase = "timeline" THEN inv.concurrency ELSE 0)

\* No request is sent before its recorded offset, nor while one with an
\* earlier offset has not even been given a task.
NotEarly ==
    phase = "timeline" => \A i \in Indices : startedAt[i] # NotYet =>
        /\ startedAt[i] >= Flows[i].offset
        /\ \A j \in Indices : Before(j, i) => j \in Live \/ answered[j] # <<>>

\* The timeline scheduler keeps its bound, the recorded offsets and the order of
\* its reports, in whatever order its tasks complete.
ScheduleSound ==
    /\ TypeOK
    /\ ReportsInFixtureOrder
    /\ ConcurrencyBounded
    /\ NotEarly

\* A verdict is only given when every flow was observed: a candidate task that
\* failed never leaves a passing or failing exit code.
NoPartialVerdict ==
    inv.cmd # "diff" /\ exit \in {0, 1} =>
        \A i \in Indices : answered[i] # <<>> /\ Last(answered[i]).kind # "refused"

\* diff passes only fixtures that pair off, and only pairs that are the same in
\* all that could be read of them.  Two bodies that cannot be read any more pass
\* as equal, and one of them passes as an empty body.
DiffHonest ==
    inv.cmd = "diff" /\ exit = 0 =>
        /\ Len(Flows) = Len(inv.candidate)
        /\ \A i \in Indices :
              SameObservation(Bodied(Flows[i]), Bodied(inv.candidate[i]))

\* Exchanging the two fixtures of a diff does not change whether they differ.
DiffSymmetric ==
    inv.cmd = "diff" /\ exit \in {0, 1} /\ inv.bound = {} =>
        (exit = 0) = DiffSuccess(inv.candidate, Flows, inv.policy, {})

\* Two event streams with equal events, lines of other kinds apart, have equal
\* parsed views: an event is what its own lines say and nothing else.
SseEventsLocal ==
    \A i \in Indices : Flows[i].kind = "response" /\ Flows[i].media = "sse" =>
        LET b == Flows[i].body
            p == ParseSse(b)
        IN  \A k \in DOMAIN b : b[k].field = "blank" /\ ~p.error =>
                p.events = ParseSse(SubSeq(b, 1, k)).events
                           \o ParseSse(SubSeq(b, k + 1, Len(b))).events

\* An exit code is a judgement of every flow, by what was observed of it and
\* nothing else.
VerdictSound ==
    /\ VerdictHonest
    /\ NoPartialVerdict
    /\ DiffHonest
    /\ DiffSymmetric
    /\ SseEventsLocal

\* The command ends with an exit code when every candidate answers.
RunEnds == <>(exit # NotYet)

\* What the reporting chapter says of the two output channels: the test suite
\* on stdout and the exit code agree.  They do not when a diff's fixtures have
\* different flow counts, for which no report exists.
OutputsAgree == inv.cmd \in {"test", "diff"} /\ exit \in {0, 1} => (exit = 0) = (junit = 0)

=============================================================================
