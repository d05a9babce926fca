----------------------------- MODULE WorkflowRuns -----------------------------
(***************************************************************************)
(* The workflow engine (packages/workflows/engine.ts) over its Supabase     *)
(* store: requests that dispatch a business event and execute the matching  *)
(* workflows inline, and cron invocations (processDue) that fire timers and *)
(* re-execute failed runs, all at once and each of them killable.           *)
(*                                                                         *)
(* What may be in flight is a JOB: the loop a process is in (the workflows  *)
(* still to start, the timers still to emit, the claimed runs still to      *)
(* execute) and the run it is executing.  The wall clock is abstracted to   *)
(* one bit per failed run: whether its backoff is over.                     *)
(***************************************************************************)
EXTENDS Integers, FiniteSets, Sequences

CONSTANTS
    Procs,            \* request and cron invocations
    Workflows,
    Events,           \* ids of business events (a bound: each is emitted once)
    Actions,
    Registered,       \* actions with an executor in the registry
    Followup,         \* the action that arms a timer (schedule_followup)
    StepIds,
    Library,          \* the step lists a definition may have
    MaxRunAttempts,
    BatchSize,
    MaxVersion,       \* bound: edits of a definition
    CanCrash          \* whether a process may be killed, or a store call throw

ASSUME WorkflowAssumption ==
    /\ Registered \subseteq Actions
    /\ Library \subseteq Seq([id : StepIds, action : Actions, tries : Nat \ {0}])
    /\ {MaxRunAttempts, BatchSize, MaxVersion} \subseteq Nat \ {0}
    /\ CanCrash \in BOOLEAN

VARIABLES
    defs,      \* the workflows table: [Workflows -> Definition]
    emitted,   \* workflow_events: ids recorded
    timers,    \* workflow_timers not fired: ids of the events they will emit
    runs,      \* workflow_runs, keyed by the unique (workflow_id, event_id)
    job,       \* [Procs -> what the process is in the middle of]
    logged,    \* workflow_run_logs: [RunIds -> successes whose entry was confirmed]
    uncertain, \* history: runs with a step that timed out
    abandoned  \* history: runs a process was killed over

vars == <<defs, emitted, timers, runs, job, logged, uncertain, abandoned>>

RunIds == Workflows \X Events

\* "business" stands for the event types that bookings, leads and hooks emit.
Trigger == {"business", "followup.due"}

Definition == [steps : Library, version : 1 .. MaxVersion, enabled : BOOLEAN, trigger : Trigger]

Finished == {"succeeded", "skipped", "dead_letter"}

Run == [status : {"pending", "running", "failed"} \cup Finished,
        attempt : 0 .. MaxRunAttempts, step : Nat \ {0}, due : BOOLEAN]

NoRun == [status |-> "none"]

\* The event of a cron job that has emitted none yet.
NoEvent == <<>>

\* A definition as the process loaded it.
Loaded == [wf : Workflows, steps : Library]

NoExec == [id |-> <<>>]
Exec == [id : RunIds, attempt : 0 .. MaxRunAttempts, steps : Library,
         index : Nat \ {0}, try : Nat]

\* A log entry names the step by its id; the place and the list it was executed
\* from are history.
Entry == [index : Nat \ {0}, steps : Library]

Idle == [pc |-> "idle"]
Job == [pc : {"start", "begin", "step", "log", "advance", "settle", "lost", "emit", "claim", "next"},
        stage : {"dispatch", "timers", "runs"},
        event : Events \cup {NoEvent}, starts : SUBSET Loaded,
        timers : SUBSET Events, claimed : SUBSET RunIds,
        exec : Exec \cup {NoExec}]

TypeOK ==
    /\ defs \in [Workflows -> Definition]
    /\ emitted \subseteq Events
    /\ timers \subseteq Events
    /\ runs \in [RunIds -> Run \cup {NoRun}]
    /\ job \in [Procs -> Job \cup {Idle}]
    /\ logged \in [RunIds -> SUBSET Entry]
    /\ uncertain \subseteq RunIds
    /\ abandoned \subseteq RunIds

\* The runs a job holds: the one it executes and the ones it claimed.
HeldBy(j) ==
    IF j = Idle THEN {}
    ELSE j.claimed \cup (IF j.exec = NoExec THEN {} ELSE {j.exec.id})

Held(p) == HeldBy(job[p])

Init ==
    /\ defs \in [Workflows -> {d \in Definition : d.version = 1 /\ d.enabled}]
    /\ emitted = {}
    /\ timers = {}
    /\ runs = [r \in RunIds |-> NoRun]
    /\ job = [p \in Procs |-> Idle]
    /\ logged = [r \in RunIds |-> {}]
    /\ uncertain = {}
    /\ abandoned = {}

-------------------------------------------------------------------------------
(* The loops of a process.                                                  *)

Become(p, j) == job' = [job EXCEPT ![p] = j]

GoTo(j, pc) == [j EXCEPT !.pc = pc]

\* The executed run goes on, at its next step or try.
AtStep(j, x) == [j EXCEPT !.pc = "step", !.exec = x]

\* Where a process goes once it has nothing at hand: the next workflow of the
\* event, the next timer, the claim of due runs, the next claimed run, the end.
AtRest(j) ==
    LET free == [j EXCEPT !.exec = NoExec] IN
    IF j.starts # {} THEN [free EXCEPT !.pc = "start"]
    ELSE IF j.stage = "timers" /\ j.timers # {} THEN [free EXCEPT !.pc = "emit"]
    ELSE IF j.stage = "timers" THEN [free EXCEPT !.pc = "claim"]
    ELSE IF j.claimed # {} THEN [free EXCEPT !.pc = "next"]
    ELSE Idle

\* listEnabledWorkflows for the event's type.
Matching(type) ==
    {[wf |-> w, steps |-> defs[w].steps] :
        w \in {x \in Workflows : defs[x].enabled /\ defs[x].trigger = type}}

NewJob(stage, e, starts, ts) ==
    [pc |-> "start", stage |-> stage, event |-> e, starts |-> starts,
     timers |-> ts, claimed |-> {}, exec |-> NoExec]

Fresh == Events \ (emitted \cup timers \cup UNION {job[p].timers : p \in {q \in Procs : job[q] # Idle}})

\* dispatch of an event some caller emitted, or runManually of one workflow.
\* Every emission has an id of its own, and insertEvent refuses a repeated one.
Dispatch(p, e) ==
    /\ job[p] = Idle
    /\ e \in Fresh
    /\ emitted' = emitted \cup {e}
    /\ \/ Become(p, AtRest(NewJob("dispatch", e, Matching("business"), {})))
       \/ \E w \in Workflows :
             Become(p, AtRest(NewJob("dispatch", e, {[wf |-> w, steps |-> defs[w].steps]}, {})))
    /\ UNCHANGED <<defs, timers, runs, logged, uncertain, abandoned>>

\* startRun up to createRun: a pending row under the unique key, or null if the
\* key is taken.
StartRun(p) ==
    /\ job[p].pc = "start"
    /\ \E d \in job[p].starts :
          LET id == <<d.wf, job[p].event>>
              rest == [job[p] EXCEPT !.starts = @ \ {d}]
          IN  IF runs[id] # NoRun
              THEN Become(p, AtRest(rest)) /\ UNCHANGED runs
              ELSE /\ runs' = [runs EXCEPT ![id] =
                          [status |-> "pending", attempt |-> 0, step |-> 1, due |-> FALSE]]
                   /\ Become(p, [rest EXCEPT !.pc = "begin",
                          !.exec = [id |-> id, attempt |-> 0, steps |-> d.steps,
                                    index |-> 1, try |-> 1]])
    /\ UNCHANGED <<defs, emitted, timers, logged, uncertain, abandoned>>

\* The definition's conditions do not hold of the event.
Skip(p) ==
    /\ job[p].pc = "begin"
    /\ job[p].exec.attempt = 0
    /\ runs' = [runs EXCEPT ![job[p].exec.id] = [@ EXCEPT !.status = "skipped"]]
    /\ Become(p, AtRest(job[p]))
    /\ UNCHANGED <<defs, emitted, timers, logged, uncertain, abandoned>>

\* executeRun begins: running, one attempt more.
Begin(p) ==
    /\ job[p].pc = "begin"
    /\ LET x == job[p].exec IN
       /\ runs' = [runs EXCEPT ![x.id] = [@ EXCEPT !.status = "running", !.attempt = x.attempt + 1]]
       /\ Become(p, AtStep(job[p], [x EXCEPT !.attempt = @ + 1]))
    /\ UNCHANGED <<defs, emitted, timers, logged, uncertain, abandoned>>

-------------------------------------------------------------------------------
(* One step of a run.                                                       *)

HasStep(x) == x.index <= Len(x.steps)

Current(x) == x.steps[x.index]

\* What executing an action does outside the run: a follow-up arms a timer.
Effect(action) ==
    \/ action # Followup /\ UNCHANGED timers
    \/ action = Followup /\ \E e \in Fresh : timers' = timers \cup {e}
    \/ action = Followup /\ Fresh = {} /\ UNCHANGED timers

StepSucceeds(p) ==
    /\ job[p].pc = "step"
    /\ HasStep(job[p].exec)
    /\ Current(job[p].exec).action \in Registered
    /\ Effect(Current(job[p].exec).action)
    /\ Become(p, GoTo(job[p], "log"))
    /\ UNCHANGED <<defs, emitted, runs, logged, uncertain, abandoned>>

\* A failed try: try the step again, or give the attempt up.
TryFailed(j) ==
    LET x == j.exec IN
    IF Current(x).action \in Registered /\ x.try < Current(x).tries
    THEN AtStep(j, [x EXCEPT !.try = @ + 1])
    ELSE GoTo(j, "settle")

\* The executor throws, or there is none.
StepFails(p) ==
    /\ job[p].pc = "step"
    /\ HasStep(job[p].exec)
    /\ Become(p, TryFailed(job[p]))
    /\ UNCHANGED <<defs, emitted, timers, runs, logged, uncertain, abandoned>>

\* The deadline passes first.  The effect may still happen (an armed timer is
\* the only one that this model can see).
StepTimesOut(p) ==
    /\ job[p].pc = "step"
    /\ HasStep(job[p].exec)
    /\ Current(job[p].exec).action \in Registered
    /\ Effect(Current(job[p].exec).action) \/ UNCHANGED timers
    /\ uncertain' = uncertain \cup {job[p].exec.id}
    /\ Become(p, GoTo(job[p], "lost"))
    /\ UNCHANGED <<defs, emitted, runs, logged, abandoned>>

\* appendLog(succeeded).
LogSuccess(p) ==
    /\ job[p].pc = "log"
    /\ LET x == job[p].exec IN
       logged' = [logged EXCEPT ![x.id] = @ \cup {[index |-> x.index, steps |-> x.steps]}]
    /\ Become(p, GoTo(job[p], "advance"))
    /\ UNCHANGED <<defs, emitted, timers, runs, uncertain, abandoned>>

\* appendLog(succeeded) throws inside the try: the step counts as failed, though
\* it was done (and even if the entry was written and only its answer lost).
LogFails(p) ==
    /\ job[p].pc = "log"
    /\ CanCrash
    /\ Become(p, TryFailed(job[p]))
    /\ UNCHANGED <<defs, emitted, timers, runs, logged, uncertain, abandoned>>

\* updateRun(currentStep: index + 1).
Advance(p) ==
    /\ job[p].pc = "advance"
    /\ LET x == job[p].exec IN
       /\ runs' = [runs EXCEPT ![x.id] = [@ EXCEPT !.step = x.index + 1]]
       /\ Become(p, AtStep(job[p], [x EXCEPT !.index = @ + 1, !.try = 1]))
    /\ UNCHANGED <<defs, emitted, timers, logged, uncertain, abandoned>>

Succeed(p) ==
    /\ job[p].pc = "step"
    /\ ~ HasStep(job[p].exec)
    /\ runs' = [runs EXCEPT ![job[p].exec.id] = [@ EXCEPT !.status = "succeeded"]]
    /\ Become(p, AtRest(job[p]))
    /\ UNCHANGED <<defs, emitted, timers, logged, uncertain, abandoned>>

\* Mutant: a run whose outcome is unknown is retried.
OutcomeRetried(x, outcomeUnknown) ==
    IF x.attempt >= MaxRunAttempts THEN "dead_letter" ELSE "failed"

\* The status a failed attempt leaves: exhausted, or to be retried.
Outcome(x, outcomeUnknown) ==
    IF outcomeUnknown \/ x.attempt >= MaxRunAttempts THEN "dead_letter" ELSE "failed"

Settle(p) ==
    /\ job[p].pc \in {"settle", "lost"}
    /\ LET x == job[p].exec IN
       runs' = [runs EXCEPT ![x.id] = [@ EXCEPT !.status = Outcome(x, job[p].pc = "lost"),
                                                !.step = x.index, !.due = FALSE]]
    /\ Become(p, AtRest(job[p]))
    /\ UNCHANGED <<defs, emitted, timers, logged, uncertain, abandoned>>

-------------------------------------------------------------------------------
(* processDue.                                                              *)

\* claim_due_workflow_timers: fired_at is set before anything is emitted.
ClaimTimers(p) ==
    /\ job[p] = Idle
    /\ \E ts \in SUBSET timers :
          /\ timers' = timers \ ts
          /\ Become(p, AtRest(NewJob("timers", NoEvent, {}, ts)))
    /\ UNCHANGED <<defs, emitted, runs, logged, uncertain, abandoned>>

EmitTimer(p) ==
    /\ job[p].pc = "emit"
    /\ \E e \in job[p].timers :
          /\ emitted' = emitted \cup {e}
          /\ Become(p, AtRest([job[p] EXCEPT !.event = e, !.timers = @ \ {e},
                                             !.starts = Matching("followup.due")]))
    /\ UNCHANGED <<defs, timers, runs, logged, uncertain, abandoned>>

\* Mutant: off by one, the last attempt is never made.
DueBeforeLast ==
    {r \in RunIds : /\ runs[r] # NoRun
                    /\ runs[r].status = "failed"
                    /\ runs[r].due
                    /\ runs[r].attempt < MaxRunAttempts - 1}

Due == {r \in RunIds : runs[r] # NoRun /\ runs[r].status = "failed" /\ runs[r].due}

\* Mutant: a plain read of the due runs.
ClaimedUnflipped(run) == run

\* Mutant: a retry starts the run over.
ClaimedFromStart(run) == [run EXCEPT !.status = "running", !.step = 1]

\* claim_due_workflow_runs: due failed runs, flipped to running.
Claimed(run) == [run EXCEPT !.status = "running"]

ClaimRuns(p) ==
    /\ job[p].pc = "claim"
    /\ \E B \in SUBSET Due :
          /\ Cardinality(B) = BatchSize \/ (B = Due /\ Cardinality(B) < BatchSize)
          /\ runs' = [r \in RunIds |-> IF r \in B THEN Claimed(runs[r]) ELSE runs[r]]
          /\ Become(p, AtRest([job[p] EXCEPT !.stage = "runs", !.claimed = B]))
    /\ UNCHANGED <<defs, emitted, timers, logged, uncertain, abandoned>>

\* The next claimed run, with the definition as it is NOW.
NextRun(p) ==
    /\ job[p].pc = "next"
    /\ \E id \in job[p].claimed :
          Become(p, [job[p] EXCEPT !.pc = "begin", !.claimed = @ \ {id},
                        !.exec = [id |-> id, attempt |-> runs[id].attempt,
                                  steps |-> defs[id[1]].steps,
                                  index |-> runs[id].step, try |-> 1]])
    /\ UNCHANGED <<defs, emitted, timers, runs, logged, uncertain, abandoned>>

\* The definition or the event came back null: gone, malformed, or not read.
NotLoaded(p) ==
    /\ job[p].pc = "next"
    /\ \E id \in job[p].claimed :
          /\ runs' = [runs EXCEPT ![id] = [@ EXCEPT !.status = "dead_letter"]]
          /\ Become(p, AtRest([job[p] EXCEPT !.claimed = @ \ {id}]))
    /\ UNCHANGED <<defs, emitted, timers, logged, uncertain, abandoned>>

-------------------------------------------------------------------------------
BackoffElapses(r) ==
    /\ runs[r] # NoRun
    /\ runs[r].status = "failed"
    /\ ~ runs[r].due
    /\ runs' = [runs EXCEPT ![r] = [@ EXCEPT !.due = TRUE]]
    /\ UNCHANGED <<defs, emitted, timers, job, logged, uncertain, abandoned>>

\* updateWorkflow from the dashboard; a patch of several fields is several edits.
Edit(w) ==
    /\ defs[w].version < MaxVersion
    /\ LET next == [defs[w] EXCEPT !.version = @ + 1] IN
       \/ \E s \in Library \ {next.steps} : defs' = [defs EXCEPT ![w] = [next EXCEPT !.steps = s]]
       \/ \E t \in Trigger \ {next.trigger} : defs' = [defs EXCEPT ![w] = [next EXCEPT !.trigger = t]]
       \/ defs' = [defs EXCEPT ![w] = [next EXCEPT !.enabled = ~ @]]
    /\ UNCHANGED <<emitted, timers, runs, job, logged, uncertain, abandoned>>

\* Killed, or a store call outside executeStep's try threw (out of processDue, or
\* out of the only dispatch of a request): nothing in hand is given back.
Crash(p) ==
    /\ CanCrash
    /\ job[p] # Idle
    /\ abandoned' = abandoned \cup Held(p)
    /\ Become(p, Idle)
    /\ UNCHANGED <<defs, emitted, timers, runs, logged, uncertain>>

\* dispatch catches what a store call throws: within a timer's event, only the
\* rest of that event's workflows is lost, and the timers loop goes on.
DispatchFails(p) ==
    /\ CanCrash
    /\ job[p] # Idle
    /\ job[p].stage = "timers"
    /\ job[p].pc \notin {"emit", "claim"}
    /\ abandoned' = abandoned \cup Held(p)
    /\ Become(p, AtRest([job[p] EXCEPT !.starts = {}]))
    /\ UNCHANGED <<defs, emitted, timers, runs, logged, uncertain>>

ProcStep(p) ==
    \/ StartRun(p) \/ Skip(p) \/ Begin(p)
    \/ StepSucceeds(p) \/ StepFails(p) \/ StepTimesOut(p)
    \/ LogSuccess(p) \/ LogFails(p) \/ Advance(p) \/ Succeed(p) \/ Settle(p)
    \/ EmitTimer(p) \/ ClaimRuns(p) \/ NextRun(p) \/ NotLoaded(p)

Next ==
    \/ \E p \in Procs :
          \/ \E e \in Events : Dispatch(p, e)
          \/ ClaimTimers(p)
          \/ ProcStep(p)
          \/ Crash(p)
          \/ DispatchFails(p)
    \/ \E r \in RunIds : BackoffElapses(r)
    \/ \E w \in Workflows : Edit(w)

Spec == Init /\ [][Next]_vars

\* The cron keeps calling processDue, and not every invocation is killed before
\* it claims; a process that is not killed goes on; time passes.
Fairness ==
    /\ \A p \in Procs : WF_vars(ClaimTimers(p) \/ ProcStep(p))
    /\ SF_vars(\E p \in Procs : ClaimRuns(p))
    /\ WF_vars(\E r \in RunIds : BackoffElapses(r))

FairSpec == Spec /\ Fairness

-------------------------------------------------------------------------------
(* Properties.                                                              *)

\* A run is executed by one process at a time, and one that waits for a retry
\* or is finished by none: the unique key, the claim's flip to "running" and
\* the settling of every attempt amount to mutual exclusion.
RunIsExclusive ==
    /\ \A p, q \in Procs : p # q => Held(p) \cap Held(q) = {}
    /\ \A p \in Procs : \A r \in Held(p) : runs[r].status \in {"pending", "running"}

\* The step id of a log entry, or of the step a run is at.
StepId(e) == e.steps[e.index].id

DistinctIds(steps) == \A i, j \in DOMAIN steps : steps[i].id = steps[j].id => i = j

\* A step whose success is on the log is not executed again from the list of
\* steps it was logged under, by the same attempt or a later one, whatever fails
\* and wherever the process dies, between the log entry and the update of
\* currentStep too.  That is less than "completed steps never re-run": the code
\* does execute a done step again when its entry could not be confirmed, and may
\* when the definition was edited meanwhile, since a retry resumes by index.
CompletedStepsNeverRerun ==
    \A p \in Procs :
        job[p] # Idle /\ job[p].exec # NoExec /\ job[p].pc \in {"step", "log"} =>
            LET x == job[p].exec IN
            \A e \in logged[x.id] :
                HasStep(x) /\ e.steps = x.steps /\ DistinctIds(x.steps) => StepId(e) # StepId(x)

\* A step whose outcome is unknown is never tried again: nobody executes the
\* run any more and it is not in line for a retry.
UncertainIsParked ==
    \A r \in uncertain :
        /\ runs[r].status \in {"running", "dead_letter"}
        /\ \A p \in Procs : r \in Held(p) => job[p].exec # NoExec /\ job[p].exec.id = r /\ job[p].pc = "lost"

-------------------------------------------------------------------------------
(* The inductive invariant: what makes the first two properties survive     *)
(* every step.  The table and the logs are parameters, so that it can be     *)
(* said of the values before and after a step.                              *)

AtWork == {"begin", "step", "log", "advance", "settle", "lost"}

\* Of a job: where it is in its loops, and that every run it holds is taken,
\* has an attempt left if it is still to begin, and is not past its next step.
JobFits(j, table, logs) ==
    j # Idle =>
        /\ j.exec # NoExec <=> j.pc \in AtWork
        /\ j.stage # "runs" => j.claimed = {}
        /\ j.pc = "claim" => j.stage = "timers"
        /\ j.starts # {} => j.event \in Events
        /\ \A r \in j.claimed :
              /\ table[r] \in Run
              /\ table[r].status = "running"
              /\ table[r].attempt < MaxRunAttempts
              /\ \A e \in logs[r] : e.index < table[r].step
        /\ j.exec # NoExec =>
              /\ j.exec.id \notin j.claimed
              /\ table[j.exec.id] \in Run
              /\ table[j.exec.id].status = "running" \/ (j.pc = "begin" /\ table[j.exec.id].status = "pending")
              /\ table[j.exec.id].attempt = j.exec.attempt
              /\ j.pc = "begin" => j.exec.attempt < MaxRunAttempts
              /\ j.pc = "log" => HasStep(j.exec)
              /\ \A e \in logs[j.exec.id] :
                    e.index < j.exec.index \/ (j.pc = "advance" /\ e.index = j.exec.index)

\* Of a run: one to be retried has an attempt left, and resumes past its log.
RunFits(r, table, logs) ==
    /\ \A e \in logs[r] : e.index \in DOMAIN e.steps
    /\ table[r] = NoRun => logs[r] = {}
    /\ table[r] # NoRun /\ table[r].status = "failed" =>
          /\ table[r].attempt < MaxRunAttempts
          /\ \A e \in logs[r] : e.index < table[r].step

HoldsApart == \A p, q \in Procs : p # q => Held(p) \cap Held(q) = {}

IInv ==
    /\ TypeOK
    /\ HoldsApart
    /\ \A p \in Procs : JobFits(job[p], runs, logged)
    /\ \A r \in RunIds : RunFits(r, runs, logged)

-------------------------------------------------------------------------------
\* Every run that was started ends, unless a process was killed over it.
RunsFinish ==
    \A r \in RunIds : runs[r] # NoRun ~> (runs[r].status \in Finished \/ r \in abandoned)

===============================================================================
