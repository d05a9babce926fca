-------------------------- MODULE WorkflowRunsProofs --------------------------
(***************************************************************************)
(* For every number of processes, workflows, events and attempts: a run is  *)
(* executed by one process at a time, and a step whose success was logged   *)
(* is not executed again from the list of steps it was logged under,        *)
(* whatever fails or is killed in between.                                  *)
(***************************************************************************)
EXTENDS WorkflowRuns, TLAPS

-------------------------------------------------------------------------------
(* Jobs.                                                                    *)

\* The placeholders are not values of the types they stand beside.
LEMMA Placeholders ==
    NoRun \notin Run /\ NoExec \notin Exec /\ Idle \notin Job
BY SMTT(30) DEF NoRun, Run, NoExec, Exec, Idle, Job

\* A job that has nothing at hand keeps what it claimed, and fits if it does.
LEMMA AtRestFits ==
    ASSUME NEW j \in Job, NEW table, NEW logs,
           j.stage # "runs" => j.claimed = {},
           j.starts # {} => j.event \in Events,
           \A r \in j.claimed :
              /\ table[r] \in Run
              /\ table[r].status = "running"
              /\ table[r].attempt < MaxRunAttempts
              /\ \A e \in logs[r] : e.index < table[r].step
    PROVE  /\ AtRest(j) \in Job \cup {Idle}
           /\ HeldBy(AtRest(j)) = j.claimed
           /\ JobFits(AtRest(j), table, logs)
<1> DEFINE At(pc) == [[j EXCEPT !.exec = NoExec] EXCEPT !.pc = pc]
<1>1. ASSUME NEW pc \in {"start", "emit", "claim", "next"},
             pc = "claim" => j.stage = "timers"
      PROVE  /\ At(pc) \in Job
             /\ HeldBy(At(pc)) = j.claimed
             /\ JobFits(At(pc), table, logs)
  <2>1. /\ At(pc) \in Job
        /\ At(pc).exec = NoExec /\ At(pc).pc = pc
        /\ At(pc).claimed = j.claimed /\ At(pc).stage = j.stage
        /\ At(pc).starts = j.starts /\ At(pc).event = j.event
      BY <1>1 DEF Job
  <2>2. At(pc) # Idle
      BY <2>1, Placeholders
  <2> HIDE DEF At
  <2>3. HeldBy(At(pc)) = j.claimed
      BY <2>1, <2>2 DEF HeldBy
  <2>4. JobFits(At(pc), table, logs)
      BY <1>1, <2>1 DEF JobFits, AtWork
  <2>5. QED
      BY <2>1, <2>3, <2>4
<1>2. \/ AtRest(j) = Idle /\ j.claimed = {}
      \/ \E pc \in {"start", "emit", "claim", "next"} :
             AtRest(j) = At(pc) /\ (pc = "claim" => j.stage = "timers")
    BY DEF AtRest
<1>3. CASE AtRest(j) = Idle /\ j.claimed = {}
    BY <1>3 DEF HeldBy, JobFits
<1> HIDE DEF At
<1>4. QED
    BY <1>1, <1>2, <1>3

-------------------------------------------------------------------------------
(* Steps.                                                                   *)

\* What a step of process p must show: the job j it moves on to, and the runs
\* it touched, fit the new table; runs it did not hold are left alone, and a
\* run it takes up was nobody's.
LEMMA JobStepKeepsIInv ==
    ASSUME IInv, NEW p \in Procs, NEW j \in Job \cup {Idle}, Become(p, j),
           defs' \in [Workflows -> Definition],
           emitted' \subseteq Events, timers' \subseteq Events,
           uncertain' \subseteq RunIds, abandoned' \subseteq RunIds,
           runs' \in [RunIds -> Run \cup {NoRun}],
           logged' \in [RunIds -> SUBSET Entry],
           NEW touched \in SUBSET RunIds,
           \A r \in RunIds \ touched : runs'[r] = runs[r] /\ logged'[r] = logged[r],
           \A q \in Procs \ {p} : Held(q) \cap (touched \cup HeldBy(j)) = {},
           \A r \in touched : RunFits(r, runs', logged'),
           JobFits(j, runs', logged')
    PROVE  IInv'
<1>1. job' = [job EXCEPT ![p] = j] /\ job \in [Procs -> Job \cup {Idle}]
    BY DEF Become, IInv, TypeOK
<1>2. TypeOK'
    BY <1>1 DEF TypeOK
<1>3. HoldsApart'
  <2>1. ASSUME NEW q \in Procs
        PROVE  HeldBy(job'[q]) = IF q = p THEN HeldBy(j) ELSE Held(q)
      BY <1>1 DEF Held
  <2>2. ASSUME NEW a \in Procs, NEW b \in Procs, a # b
        PROVE  HeldBy(job'[a]) \cap HeldBy(job'[b]) = {}
      BY <2>1, <2>2 DEF IInv, HoldsApart
  <2>3. QED
      BY <2>2 DEF HoldsApart, Held
<1>4. ASSUME NEW q \in Procs
      PROVE  JobFits(job'[q], runs', logged')
  <2>1. CASE q = p
      BY <1>1, <2>1
  <2>2. CASE q # p
    <3>1. job'[q] = job[q] /\ JobFits(job[q], runs, logged) /\ job[q] \in Job \cup {Idle}
        BY <1>1, <2>2 DEF IInv
    <3>2. \A r \in Held(q) : r \in RunIds => runs'[r] = runs[r] /\ logged'[r] = logged[r]
        BY <2>2
    <3>3. CASE job[q] = Idle
        BY <3>1, <3>3 DEF JobFits
    <3>4. CASE job[q] # Idle
      <4>1. job[q] \in Job /\ job[q].claimed \subseteq RunIds
          BY <3>1, <3>4 DEF Job
      <4>2. \A r \in job[q].claimed : runs'[r] = runs[r] /\ logged'[r] = logged[r]
          BY <3>2, <3>4, <4>1 DEF Held, HeldBy
      <4>3. job[q].exec # NoExec => /\ runs'[job[q].exec.id] = runs[job[q].exec.id]
                                    /\ logged'[job[q].exec.id] = logged[job[q].exec.id]
          BY <3>2, <3>4, <4>1 DEF Held, HeldBy, Job, Exec
      <4>4. QED
          BY <3>1, <3>4, <4>2, <4>3 DEF JobFits
    <3>5. QED
        BY <3>3, <3>4
  <2>3. QED
      BY <2>1, <2>2
<1>5. ASSUME NEW r \in RunIds
      PROVE  RunFits(r, runs', logged')
    BY DEF IInv, RunFits
<1>6. QED
    BY <1>2, <1>3, <1>4, <1>5 DEF IInv

\* A step that writes neither a run nor a log.
LEMMA LookingKeepsIInv ==
    ASSUME IInv, NEW p \in Procs, NEW j \in Job \cup {Idle}, Become(p, j),
           HeldBy(j) \subseteq Held(p), JobFits(j, runs, logged),
           emitted' \subseteq Events, timers' \subseteq Events,
           uncertain' \subseteq RunIds, abandoned' \subseteq RunIds,
           UNCHANGED <<defs, runs, logged>>
    PROVE  IInv'
<1>1. \A q \in Procs \ {p} : Held(q) \cap ({} \cup HeldBy(j)) = {}
    BY DEF IInv, HoldsApart
<1>2. /\ defs' \in [Workflows -> Definition]
      /\ runs' \in [RunIds -> Run \cup {NoRun}]
      /\ logged' \in [RunIds -> SUBSET Entry]
    BY DEF IInv, TypeOK
<1>3. QED
    BY <1>1, <1>2, JobStepKeepsIInv

\* A step that writes the run it executes, and nothing else of the table.
LEMMA WritingKeepsIInv ==
    ASSUME IInv, NEW p \in Procs, NEW j \in Job \cup {Idle}, Become(p, j),
           NEW id \in Held(p), HeldBy(j) \subseteq Held(p), JobFits(j, runs', logged'),
           NEW run \in Run, runs' = [runs EXCEPT ![id] = run], RunFits(id, runs', logged'),
           UNCHANGED <<defs, emitted, timers, logged, uncertain, abandoned>>
    PROVE  IInv'
<1>1. id \in RunIds
    BY DEF Held, HeldBy, IInv, TypeOK, Job, Exec
<1>2. /\ defs' \in [Workflows -> Definition]
      /\ emitted' \subseteq Events /\ timers' \subseteq Events
      /\ uncertain' \subseteq RunIds /\ abandoned' \subseteq RunIds
      /\ runs' \in [RunIds -> Run \cup {NoRun}]
      /\ logged' \in [RunIds -> SUBSET Entry]
    BY <1>1 DEF IInv, TypeOK
<1>3. \A r \in RunIds \ {id} : runs'[r] = runs[r] /\ logged'[r] = logged[r]
    BY <1>1 DEF IInv, TypeOK
<1>4. PICK touched \in SUBSET RunIds : touched = {id}
    BY <1>1
<1>5. \A r \in RunIds \ touched : runs'[r] = runs[r] /\ logged'[r] = logged[r]
    BY <1>3, <1>4
<1>6. \A q \in Procs \ {p} : Held(q) \cap (touched \cup HeldBy(j)) = {}
    BY <1>4 DEF IInv, HoldsApart
<1>7. \A r \in touched : RunFits(r, runs', logged')
    BY <1>4
<1>8. QED
    BY <1>2, <1>5, <1>6, <1>7, JobStepKeepsIInv

\* What is known of a process that is not idle.
LEMMA BusyJob ==
    ASSUME IInv, NEW p \in Procs, job[p].pc # "idle"
    PROVE  /\ job[p] \in Job /\ job[p] # Idle
           /\ JobFits(job[p], runs, logged)
           /\ job[p].claimed \subseteq Held(p)
<1>1. job[p] \in Job \cup {Idle} /\ job[p] # Idle
    BY DEF IInv, TypeOK, Idle
<1>2. QED
    BY <1>1 DEF IInv, Held, HeldBy

\* And of one that is executing a run.
LEMMA WorkingJob ==
    ASSUME IInv, NEW p \in Procs, job[p].pc \in AtWork
    PROVE  /\ job[p] \in Job /\ job[p] # Idle
           /\ JobFits(job[p], runs, logged)
           /\ job[p].exec \in Exec /\ job[p].exec # NoExec
           /\ job[p].exec.id \in RunIds /\ runs[job[p].exec.id] \in Run
           /\ Held(p) = job[p].claimed \cup {job[p].exec.id}
<1>1. job[p] \in Job /\ job[p] # Idle /\ JobFits(job[p], runs, logged)
    BY BusyJob DEF AtWork
<1>2. job[p].exec \in Exec /\ job[p].exec # NoExec
    BY <1>1 DEF JobFits, Job
<1>3. job[p].exec.id \in RunIds
    BY <1>2 DEF Exec
<1>4. runs[job[p].exec.id] \in Run
    BY <1>1, <1>2 DEF JobFits
<1>5. QED
    BY <1>1, <1>2, <1>3, <1>4 DEF Held, HeldBy

\* A process at work that turns to the rest of its loops fits, whatever was
\* written of the run it leaves.
LEMMA LeavingRun ==
    ASSUME IInv, NEW p \in Procs, job[p].pc \in AtWork, NEW table,
           \A r \in RunIds \ {job[p].exec.id} : table[r] = runs[r]
    PROVE  /\ AtRest(job[p]) \in Job \cup {Idle}
           /\ HeldBy(AtRest(job[p])) \subseteq Held(p)
           /\ JobFits(AtRest(job[p]), table, logged)
<1>1. /\ job[p] \in Job /\ job[p] # Idle /\ job[p].exec # NoExec
      /\ JobFits(job[p], runs, logged)
      /\ job[p].claimed \subseteq Held(p)
    BY WorkingJob, BusyJob DEF AtWork
<1>2. job[p].claimed \subseteq RunIds /\ job[p].exec.id \notin job[p].claimed
    BY <1>1 DEF Job, JobFits
<1>3. \A r \in job[p].claimed : table[r] = runs[r]
    BY <1>2
<1>4. /\ job[p].stage # "runs" => job[p].claimed = {}
      /\ job[p].starts # {} => job[p].event \in Events
    BY <1>1 DEF JobFits
<1>5. \A r \in job[p].claimed :
          /\ table[r] \in Run
          /\ table[r].status = "running"
          /\ table[r].attempt < MaxRunAttempts
          /\ \A e \in logged[r] : e.index < table[r].step
    BY <1>1, <1>3 DEF JobFits
<1>6. QED
    BY <1>1, <1>4, <1>5, AtRestFits

\* A new job holds no run.
LEMMA NewJobFits ==
    ASSUME NEW stage \in {"dispatch", "timers"}, NEW e \in Events \cup {NoEvent},
           NEW starts \in SUBSET Loaded, NEW ts \in SUBSET Events,
           starts # {} => e \in Events
    PROVE  /\ AtRest(NewJob(stage, e, starts, ts)) \in Job \cup {Idle}
           /\ HeldBy(AtRest(NewJob(stage, e, starts, ts))) = {}
           /\ JobFits(AtRest(NewJob(stage, e, starts, ts)), runs, logged)
<1>1. /\ NewJob(stage, e, starts, ts) \in Job
      /\ NewJob(stage, e, starts, ts).claimed = {}
      /\ NewJob(stage, e, starts, ts).starts = starts
      /\ NewJob(stage, e, starts, ts).event = e
    BY DEF NewJob, Job
<1>2. QED
    BY <1>1, AtRestFits

\* The workflows found for an event are loaded definitions.
LEMMA MatchingType ==
    ASSUME TypeOK, NEW type
    PROVE  Matching(type) \in SUBSET Loaded
BY DEF Matching, Loaded, TypeOK, Definition

-------------------------------------------------------------------------------
(* The actions.                                                             *)

\* Starting: an event is dispatched, or a cron invocation begins.
LEMMA OpeningKeepsIInv ==
    ASSUME IInv, NEW p \in Procs,
           ClaimTimers(p) \/ \E e \in Events : Dispatch(p, e)
    PROVE  IInv'
<1>1. TypeOK
    BY DEF IInv
<1>2. CASE ClaimTimers(p)
  <2>1. PICK ts \in SUBSET timers :
            timers' = timers \ ts /\ Become(p, AtRest(NewJob("timers", NoEvent, {}, ts)))
      BY <1>2 DEF ClaimTimers
  <2>2. ts \in SUBSET Events
      BY <1>1 DEF TypeOK
  <2> DEFINE j == AtRest(NewJob("timers", NoEvent, {}, ts))
  <2>3. j \in Job \cup {Idle} /\ HeldBy(j) = {} /\ JobFits(j, runs, logged)
      BY <2>2, NewJobFits
  <2> HIDE DEF j
  <2>4. Become(p, j)
      BY <2>1 DEF j
  <2>5. QED
      BY <1>1, <1>2, <2>1, <2>3, <2>4, LookingKeepsIInv DEF ClaimTimers, TypeOK
<1>3. CASE \E e \in Events : Dispatch(p, e)
  <2>1. PICK e \in Events : Dispatch(p, e)
      BY <1>3
  <2>2. PICK starts \in SUBSET Loaded : Become(p, AtRest(NewJob("dispatch", e, starts, {})))
    <3>1. CASE Become(p, AtRest(NewJob("dispatch", e, Matching("business"), {})))
        BY <1>1, <3>1, MatchingType
    <3>2. ASSUME NEW w \in Workflows,
                 Become(p, AtRest(NewJob("dispatch", e, {[wf |-> w, steps |-> defs[w].steps]}, {})))
          PROVE  \E starts \in SUBSET Loaded : Become(p, AtRest(NewJob("dispatch", e, starts, {})))
      <4>1. {[wf |-> w, steps |-> defs[w].steps]} \in SUBSET Loaded
          BY <1>1 DEF TypeOK, Loaded, Definition
      <4>2. QED
          BY <3>2, <4>1
    <3>3. QED
        BY <2>1, <3>1, <3>2 DEF Dispatch
  <2> DEFINE j == AtRest(NewJob("dispatch", e, starts, {}))
  <2>3. j \in Job \cup {Idle} /\ HeldBy(j) = {} /\ JobFits(j, runs, logged)
      BY NewJobFits
  <2> HIDE DEF j
  <2>4. Become(p, j)
      BY <2>2 DEF j
  <2>5. QED
      BY <1>1, <2>1, <2>3, <2>4, LookingKeepsIInv DEF Dispatch, TypeOK
<1>4. QED
    BY <1>2, <1>3

\* createRun takes up a run that was nobody's, or finds the key taken.
LEMMA StartKeepsIInv ==
    ASSUME IInv, NEW p \in Procs, StartRun(p)
    PROVE  IInv'
<1>1. TypeOK
    BY DEF IInv
<1>2. /\ job[p] \in Job /\ job[p] # Idle /\ JobFits(job[p], runs, logged)
      /\ job[p].claimed \subseteq Held(p) /\ job[p].pc = "start"
    BY BusyJob DEF StartRun
<1>3. PICK d \in job[p].starts :
          LET id == <<d.wf, job[p].event>>
              rest == [job[p] EXCEPT !.starts = @ \ {d}]
          IN  IF runs[id] # NoRun
              THEN Become(p, AtRest(rest)) /\ UNCHANGED runs
              ELSE /\ runs' = [runs EXCEPT ![id] =
                          [status |-> "pending", attempt |-> 0, step |-> 1, due |-> FALSE]]
                   /\ Become(p, [rest EXCEPT !.pc = "begin",
                          !.exec = [id |-> id, attempt |-> 0, steps |-> d.steps,
                                    index |-> 1, try |-> 1]])
    BY DEF StartRun
<1> DEFINE id == <<d.wf, job[p].event>>
           rest == [job[p] EXCEPT !.starts = @ \ {d}]
           run == [status |-> "pending", attempt |-> 0, step |-> 1, due |-> FALSE]
           x == [id |-> id, attempt |-> 0, steps |-> d.steps, index |-> 1, try |-> 1]
           j == [rest EXCEPT !.pc = "begin", !.exec = x]
<1>4. d \in Loaded
    BY <1>2 DEF Job
<1>5. /\ rest \in Job /\ rest.claimed = job[p].claimed /\ rest.stage = job[p].stage
      /\ rest.starts = job[p].starts \ {d} /\ rest.event = job[p].event
    BY <1>2 DEF Job
<1>6. job[p].event \in Events
    BY <1>2 DEF JobFits
<1>7. CASE runs[id] # NoRun
  <2>1. Become(p, AtRest(rest)) /\ UNCHANGED runs
      BY <1>3, <1>7
  <2> HIDE DEF rest
  <2>2. /\ rest.stage # "runs" => rest.claimed = {}
        /\ rest.starts # {} => rest.event \in Events
        /\ \A r \in rest.claimed :
              /\ runs[r] \in Run
              /\ runs[r].status = "running"
              /\ runs[r].attempt < MaxRunAttempts
              /\ \A e \in logged[r] : e.index < runs[r].step
      BY <1>2, <1>5, <1>6 DEF JobFits
  <2>3. /\ AtRest(rest) \in Job \cup {Idle}
        /\ HeldBy(AtRest(rest)) = job[p].claimed
        /\ JobFits(AtRest(rest), runs, logged)
      BY <1>5, <2>2, AtRestFits
  <2>4. QED
      BY <1>1, <1>2, <2>1, <2>3, LookingKeepsIInv DEF StartRun, TypeOK
<1>8. CASE runs[id] = NoRun
  <2>1. runs' = [runs EXCEPT ![id] = run] /\ Become(p, j)
      BY <1>3, <1>8
  <2>2. id \in RunIds
      BY <1>4, <1>6 DEF Loaded, RunIds
  <2>3. run \in Run /\ run # NoRun
      BY WorkflowAssumption DEF Run, NoRun
  <2>4. x \in Exec /\ x # NoExec
    <3>1. x \in Exec
        BY <1>4, <2>2, WorkflowAssumption DEF Exec, Loaded
    <3>2. QED
        BY <3>1, Placeholders
  <2>5. /\ j \in Job /\ j # Idle
        /\ j.exec = x /\ j.pc = "begin"
        /\ j.claimed = job[p].claimed /\ j.stage = job[p].stage
        /\ j.starts = rest.starts /\ j.event = rest.event
    <3>1. j \in Job
        BY <1>5, <2>4 DEF Job
    <3>2. QED
        BY <1>5, <3>1, Placeholders DEF Job
  <2>6. logged[id] = {}
      BY <1>8, <2>2 DEF IInv, RunFits
  <2>7. \A q \in Procs : id \notin Held(q)
    <3>1. ASSUME NEW q \in Procs, id \in Held(q)
          PROVE  FALSE
      <4>1. job[q] # Idle /\ JobFits(job[q], runs, logged)
          BY <3>1 DEF Held, HeldBy, IInv
      <4>2. runs[id] \in Run
          BY <3>1, <4>1 DEF Held, HeldBy, JobFits
      <4>3. QED
          BY <1>8, <4>2, Placeholders
    <3>2. QED
        BY <3>1
  <2>8. /\ runs' \in [RunIds -> Run \cup {NoRun}] /\ logged' = logged
        /\ runs'[id] = run
        /\ \A r \in RunIds \ {id} : runs'[r] = runs[r]
      BY <1>1, <2>1, <2>2, <2>3 DEF TypeOK, StartRun
  <2>9. x.id = id /\ x.attempt = 0 /\ run.status = "pending" /\ run.attempt = 0
      OBVIOUS
  <2> HIDE DEF id, rest, run, x, j
  <2>10. HeldBy(j) = job[p].claimed \cup {id}
      BY <2>4, <2>5, <2>9 DEF HeldBy
  <2>11. \A q \in Procs \ {p} : Held(q) \cap ({id} \cup HeldBy(j)) = {}
      BY <1>2, <2>7, <2>10 DEF IInv, HoldsApart
  <2>12. \A r \in job[p].claimed : runs'[r] = runs[r] /\ r \in RunIds
      BY <1>2, <2>7, <2>8 DEF Job
  <2>13. JobFits(j, runs', logged')
    <3>1. /\ j.exec # NoExec <=> j.pc \in AtWork
          /\ j.stage # "runs" => j.claimed = {}
          /\ j.pc = "claim" => j.stage = "timers"
          /\ j.starts # {} => j.event \in Events
        BY <1>2, <1>5, <1>6, <2>4, <2>5 DEF JobFits, AtWork
    <3>2. \A r \in j.claimed :
              /\ runs'[r] \in Run
              /\ runs'[r].status = "running"
              /\ runs'[r].attempt < MaxRunAttempts
              /\ \A e \in logged'[r] : e.index < runs'[r].step
        BY <1>2, <2>5, <2>8, <2>12 DEF JobFits
    <3>3. /\ j.exec.id \notin j.claimed
          /\ runs'[j.exec.id] \in Run
          /\ j.pc = "begin" /\ runs'[j.exec.id].status = "pending"
          /\ runs'[j.exec.id].attempt = j.exec.attempt
          /\ j.exec.attempt < MaxRunAttempts
          /\ logged'[j.exec.id] = {}
        BY <1>2, <2>3, <2>5, <2>6, <2>7, <2>8, <2>9, WorkflowAssumption
    <3>4. QED
        BY <3>1, <3>2, <3>3 DEF JobFits
  <2>14. RunFits(id, runs', logged')
      BY <2>3, <2>6, <2>8, <2>9 DEF RunFits
  <2>15. /\ defs' \in [Workflows -> Definition]
         /\ emitted' \subseteq Events /\ timers' \subseteq Events
         /\ uncertain' \subseteq RunIds /\ abandoned' \subseteq RunIds
         /\ logged' \in [RunIds -> SUBSET Entry]
      BY <1>1 DEF StartRun, TypeOK
  <2>16. {id} \in SUBSET RunIds /\ \A r \in RunIds \ {id} : runs'[r] = runs[r] /\ logged'[r] = logged[r]
      BY <2>2, <2>8
  <2>17. \A r \in {id} : RunFits(r, runs', logged')
      BY <2>14
  <2>18. QED
      BY <2>1, <2>5, <2>8, <2>11, <2>13, <2>15, <2>16, <2>17, JobStepKeepsIInv
<1>9. QED
    BY <1>7, <1>8

\* A place within the list is a step of it.
LEMMA StepsAreNumbered ==
    ASSUME NEW x \in Exec, HasStep(x)
    PROVE  x.index \in DOMAIN x.steps
<1>1. x.steps \in Seq([id : StepIds, action : Actions, tries : Nat \ {0}]) /\ x.index \in Nat \ {0}
    BY WorkflowAssumption DEF Exec
<1>2. QED
    BY <1>1 DEF HasStep

\* A process that goes on with the run it executes fits, if the run does.
LEMMA StayingWithRun ==
    ASSUME IInv, NEW p \in Procs, job[p].pc \in AtWork, NEW j \in Job,
           j.pc \in AtWork, j.exec \in Exec, j.exec.id = job[p].exec.id,
           j.claimed = job[p].claimed, j.stage = job[p].stage,
           j.starts = job[p].starts, j.event = job[p].event,
           NEW table, NEW logs,
           \A r \in RunIds \ {j.exec.id} : table[r] = runs[r] /\ logs[r] = logged[r],
           table[j.exec.id] \in Run,
           table[j.exec.id].status = "running", j.pc # "begin",
           table[j.exec.id].attempt = j.exec.attempt,
           j.pc = "log" => HasStep(j.exec),
           \A e \in logs[j.exec.id] :
              e.index < j.exec.index \/ (j.pc = "advance" /\ e.index = j.exec.index)
    PROVE  HeldBy(j) \subseteq Held(p) /\ JobFits(j, table, logs)
<1>1. /\ job[p] \in Job /\ job[p] # Idle /\ job[p].exec # NoExec
      /\ JobFits(job[p], runs, logged)
      /\ Held(p) = job[p].claimed \cup {job[p].exec.id}
    BY WorkingJob
<1>2. j # Idle /\ j.exec # NoExec
    BY Placeholders
<1>3. HeldBy(j) \subseteq Held(p)
    BY <1>1, <1>2 DEF HeldBy
<1>4. /\ j.exec.id \notin j.claimed
      /\ j.stage # "runs" => j.claimed = {}
      /\ j.pc = "claim" => j.stage = "timers"
      /\ j.starts # {} => j.event \in Events
    BY <1>1 DEF JobFits, AtWork
<1>5. \A r \in j.claimed : table[r] = runs[r] /\ logs[r] = logged[r]
    BY <1>1, <1>4 DEF Job
<1>6. \A r \in j.claimed :
          /\ table[r] \in Run
          /\ table[r].status = "running"
          /\ table[r].attempt < MaxRunAttempts
          /\ \A e \in logs[r] : e.index < table[r].step
    BY <1>1, <1>5 DEF JobFits
<1>7. JobFits(j, table, logs)
    BY <1>2, <1>4, <1>6 DEF JobFits
<1>8. QED
    BY <1>3, <1>7

\* The entries of the log name steps, and this outlasts a write of the run.
LEMMA EntriesKept ==
    ASSUME IInv, NEW r \in RunIds, NEW table, table[r] \in Run,
           table[r].status = "failed" =>
              /\ table[r].attempt < MaxRunAttempts
              /\ \A e \in logged[r] : e.index < table[r].step
    PROVE  RunFits(r, table, logged)
<1>1. \A e \in logged[r] : e.index \in DOMAIN e.steps
    BY DEF IInv, RunFits
<1>2. QED
    BY <1>1, Placeholders DEF RunFits

\* Updates of a run's and of an execution's fields keep their types.
LEMMA RunUpdates ==
    ASSUME NEW r \in Run
    PROVE  /\ \A a \in 0 .. MaxRunAttempts :
                  LET t == [r EXCEPT !.status = "running", !.attempt = a]
                  IN  t \in Run /\ t.status = "running" /\ t.attempt = a
           /\ \A n \in Nat \ {0} :
                  LET t == [r EXCEPT !.step = n]
                  IN  t \in Run /\ t.status = r.status /\ t.attempt = r.attempt
           /\ \A st \in Finished :
                  LET t == [r EXCEPT !.status = st] IN t \in Run /\ t.status = st
           /\ \A st \in Finished \cup {"failed"}, n \in Nat \ {0} :
                  LET t == [r EXCEPT !.status = st, !.step = n, !.due = FALSE]
                  IN  t \in Run /\ t.status = st /\ t.step = n /\ t.attempt = r.attempt
           /\ LET t == [r EXCEPT !.status = "running"]
              IN  t \in Run /\ t.status = "running" /\ t.attempt = r.attempt /\ t.step = r.step
           /\ LET t == [r EXCEPT !.due = TRUE]
              IN  t \in Run /\ t.status = r.status /\ t.attempt = r.attempt /\ t.step = r.step
BY DEF Run, Finished

\* Moving to the next try, step or attempt keeps the type of an execution.
LEMMA ExecUpdates ==
    ASSUME NEW x \in Exec
    PROVE  /\ x.attempt < MaxRunAttempts =>
                  LET y == [x EXCEPT !.attempt = @ + 1]
                  IN  /\ y \in Exec /\ y.id = x.id /\ y.index = x.index
                      /\ y.attempt = x.attempt + 1
           /\ LET y == [x EXCEPT !.try = @ + 1]
              IN  y \in Exec /\ y.id = x.id /\ y.index = x.index /\ y.attempt = x.attempt
           /\ LET y == [x EXCEPT !.index = @ + 1, !.try = 1]
              IN  y \in Exec /\ y.id = x.id /\ y.index = x.index + 1 /\ y.attempt = x.attempt
<1>1. /\ x.attempt \in 0 .. MaxRunAttempts /\ x.index \in Nat \ {0} /\ x.try \in Nat
      /\ MaxRunAttempts \in Nat
    BY WorkflowAssumption DEF Exec
<1>2. ASSUME x.attempt < MaxRunAttempts
      PROVE  x.attempt + 1 \in 0 .. MaxRunAttempts
    BY <1>1, <1>2
<1>3. x.index + 1 \in Nat \ {0} /\ x.try + 1 \in Nat
    BY <1>1
<1>4. \A a \in 0 .. MaxRunAttempts :
          LET y == [x EXCEPT !.attempt = a]
          IN  y \in Exec /\ y.id = x.id /\ y.index = x.index /\ y.attempt = a
    BY DEF Exec
<1>5. \A n \in Nat :
          LET y == [x EXCEPT !.try = n]
          IN  y \in Exec /\ y.id = x.id /\ y.index = x.index /\ y.attempt = x.attempt
    BY DEF Exec
<1>6. \A n \in Nat \ {0} :
          LET y == [x EXCEPT !.index = n, !.try = 1]
          IN  y \in Exec /\ y.id = x.id /\ y.index = n /\ y.attempt = x.attempt
    BY DEF Exec
<1>7. QED
    BY <1>2, <1>3, <1>4, <1>5, <1>6

\* Moving on within a run keeps the type of a job and the runs it claimed.
LEMMA JobUpdates ==
    ASSUME NEW j \in Job
    PROVE  /\ \A x \in Exec :
                  LET k == AtStep(j, x)
                  IN  /\ k \in Job /\ k.exec = x /\ k.pc = "step" /\ k.claimed = j.claimed
                      /\ k.stage = j.stage /\ k.starts = j.starts /\ k.event = j.event
           /\ \A pc \in AtWork :
                  LET k == GoTo(j, pc)
                  IN  /\ k \in Job /\ k.exec = j.exec /\ k.pc = pc /\ k.claimed = j.claimed
                      /\ k.stage = j.stage /\ k.starts = j.starts /\ k.event = j.event
BY DEF Job, AtStep, GoTo, AtWork

\* executeRun's first write.
LEMMA BeginKeepsIInv ==
    ASSUME IInv, NEW p \in Procs, Begin(p)
    PROVE  IInv'
<1> DEFINE x == job[p].exec
           run == [runs[x.id] EXCEPT !.status = "running", !.attempt = x.attempt + 1]
           y == [x EXCEPT !.attempt = @ + 1]
           j == AtStep(job[p], y)
<1>1. job[p].pc = "begin" /\ job[p].pc \in AtWork
    BY DEF Begin, AtWork
<1>2. /\ job[p] \in Job /\ JobFits(job[p], runs, logged) /\ x # NoExec
      /\ x \in Exec /\ x.id \in RunIds /\ runs[x.id] \in Run /\ x.id \in Held(p)
      /\ job[p] # Idle
    BY <1>1, WorkingJob
<1>3. x.attempt < MaxRunAttempts /\ x.attempt + 1 \in 0 .. MaxRunAttempts
    BY <1>1, <1>2, WorkflowAssumption, SMTT(30) DEF JobFits, Exec
<1>4. /\ run \in Run /\ run.status = "running" /\ run.attempt = x.attempt + 1
    BY <1>2, <1>3, RunUpdates
<1>5. y \in Exec /\ y.id = x.id /\ y.index = x.index /\ y.attempt = x.attempt + 1
    BY <1>2, <1>3, ExecUpdates
<1>6. /\ j \in Job /\ j.exec = y /\ j.pc = "step"
      /\ j.claimed = job[p].claimed /\ j.stage = job[p].stage
      /\ j.starts = job[p].starts /\ j.event = job[p].event
    BY <1>2, <1>5, JobUpdates
<1>7. runs' = [runs EXCEPT ![x.id] = run] /\ Become(p, j)
    BY <1>2 DEF Begin
<1>8. /\ runs'[x.id] = run /\ logged' = logged
      /\ \A r \in RunIds \ {x.id} : runs'[r] = runs[r]
    BY <1>2, <1>7 DEF IInv, TypeOK, Begin
<1>9. \A e \in logged[x.id] : e.index < x.index
    BY <1>1, <1>2 DEF JobFits
<1> HIDE DEF x, y, run, j
<1>10. HeldBy(j) \subseteq Held(p) /\ JobFits(j, runs', logged')
    BY <1>1, <1>4, <1>5, <1>6, <1>8, <1>9, StayingWithRun DEF AtWork, x
<1>11. RunFits(x.id, runs', logged')
    BY <1>2, <1>4, <1>8, EntriesKept
<1>12. QED
    BY <1>2, <1>4, <1>6, <1>7, <1>10, <1>11, WritingKeepsIInv DEF Begin

\* A step of the workflow that writes neither the run nor its log.
LEMMA TryingKeepsIInv ==
    ASSUME IInv, NEW p \in Procs, job[p].pc \in {"step", "log"}, NEW j \in Job, Become(p, j),
           j.pc \in {"step", "log", "settle", "lost"},
           j.exec \in Exec, j.exec.id = job[p].exec.id, j.exec.index = job[p].exec.index,
           j.exec.attempt = job[p].exec.attempt, j.pc = "log" => HasStep(j.exec),
           j.claimed = job[p].claimed, j.stage = job[p].stage,
           j.starts = job[p].starts, j.event = job[p].event,
           timers' \subseteq Events, uncertain' \subseteq RunIds,
           UNCHANGED <<defs, emitted, runs, logged, abandoned>>
    PROVE  IInv'
<1>1. job[p].pc \in AtWork /\ j.pc \in AtWork
    BY DEF AtWork
<1>2. /\ JobFits(job[p], runs, logged) /\ job[p] # Idle /\ job[p].exec # NoExec
      /\ runs[j.exec.id] \in Run
    BY <1>1, WorkingJob
<1>3. /\ runs[j.exec.id].status = "running"
      /\ runs[j.exec.id].attempt = j.exec.attempt
      /\ \A e \in logged[j.exec.id] : e.index < j.exec.index
    BY <1>2 DEF JobFits
<1>4. HeldBy(j) \subseteq Held(p) /\ JobFits(j, runs, logged)
    BY <1>1, <1>2, <1>3, StayingWithRun
<1>5. emitted' \subseteq Events /\ abandoned' \subseteq RunIds
    BY DEF IInv, TypeOK
<1>6. QED
    BY <1>4, <1>5, LookingKeepsIInv

\* A failed try stays at the step or gives the attempt up.
LEMMA TryFailedType ==
    ASSUME NEW j \in Job, j.exec \in Exec
    PROVE  LET k == TryFailed(j) IN
           /\ k \in Job /\ k.pc \in {"step", "settle"}
           /\ k.exec \in Exec /\ k.exec.id = j.exec.id /\ k.exec.index = j.exec.index
           /\ k.exec.attempt = j.exec.attempt
           /\ k.claimed = j.claimed /\ k.stage = j.stage
           /\ k.starts = j.starts /\ k.event = j.event
<1> DEFINE y == [j.exec EXCEPT !.try = @ + 1]
<1>1. TryFailed(j) = AtStep(j, y) \/ TryFailed(j) = GoTo(j, "settle")
    BY Zenon DEF TryFailed
<1>2. y \in Exec /\ y.id = j.exec.id /\ y.index = j.exec.index /\ y.attempt = j.exec.attempt
    BY ExecUpdates
<1> HIDE DEF y
<1>3. CASE TryFailed(j) = AtStep(j, y)
    BY <1>2, <1>3, JobUpdates
<1>4. CASE TryFailed(j) = GoTo(j, "settle")
    BY <1>4, JobUpdates DEF AtWork
<1>5. QED
    BY <1>1, <1>3, <1>4

\* What an effect leaves of the timers.
LEMMA EffectType ==
    ASSUME TypeOK, NEW action, Effect(action) \/ UNCHANGED timers
    PROVE  timers' \subseteq Events
BY DEF Effect, Fresh, TypeOK

\* Executing a step, and failing or timing out at it, write no run and no log.
LEMMA StepsKeepIInv ==
    ASSUME IInv, NEW p \in Procs,
           StepSucceeds(p) \/ StepFails(p) \/ StepTimesOut(p) \/ LogFails(p)
    PROVE  IInv'
<1>1. job[p].pc \in {"step", "log"} /\ job[p].pc \in AtWork
    BY DEF StepSucceeds, StepFails, StepTimesOut, LogFails, AtWork
<1>2. job[p] \in Job /\ job[p].exec \in Exec /\ job[p].exec.id \in RunIds
    BY <1>1, WorkingJob
<1>3. TypeOK
    BY DEF IInv
<1>4. CASE StepFails(p) \/ LogFails(p)
  <2>1. Become(p, TryFailed(job[p]))
      BY <1>4 DEF StepFails, LogFails
  <2>2. timers' \subseteq Events /\ uncertain' \subseteq RunIds
        /\ UNCHANGED <<defs, emitted, runs, logged, abandoned>>
      BY <1>3, <1>4 DEF StepFails, LogFails, TypeOK
  <2>3. QED
      BY <1>1, <1>2, <2>1, <2>2, TryFailedType, TryingKeepsIInv
<1>5. ASSUME NEW pc \in {"log", "lost"}, Become(p, GoTo(job[p], pc)),
             StepSucceeds(p) \/ StepTimesOut(p)
      PROVE  IInv'
  <2> DEFINE j == GoTo(job[p], pc)
  <2>1. /\ j \in Job /\ j.exec = job[p].exec /\ j.pc = pc
        /\ j.claimed = job[p].claimed /\ j.stage = job[p].stage
        /\ j.starts = job[p].starts /\ j.event = job[p].event
      BY <1>2, <1>5, JobUpdates DEF AtWork
  <2>2. timers' \subseteq Events
      BY <1>3, <1>5, EffectType DEF StepSucceeds, StepTimesOut
  <2>3. uncertain' \subseteq RunIds /\ UNCHANGED <<defs, emitted, runs, logged, abandoned>>
      BY <1>2, <1>3, <1>5 DEF StepSucceeds, StepTimesOut, TypeOK
  <2>4. Become(p, j)
      BY <1>5
  <2>5. j.pc = "log" => HasStep(j.exec)
    <3>1. CASE StepSucceeds(p)
        BY <2>1, <3>1 DEF StepSucceeds
    <3>2. CASE StepTimesOut(p)
        BY <2>1, <3>2 DEF StepTimesOut
    <3>3. QED
        BY <1>5, <3>1, <3>2
  <2> HIDE DEF j
  <2>6. QED
      BY <1>1, <1>2, <1>5, <2>1, <2>2, <2>3, <2>4, <2>5, TryingKeepsIInv
<1>6. QED
    BY <1>4, <1>5 DEF StepSucceeds, StepTimesOut

\* The log entry of a success: the one entry of the step that is still current.
LEMMA LogSuccessKeepsIInv ==
    ASSUME IInv, NEW p \in Procs, LogSuccess(p)
    PROVE  IInv'
<1> DEFINE x == job[p].exec
           j == GoTo(job[p], "advance")
           entry == [index |-> x.index, steps |-> x.steps]
<1>1. job[p].pc = "log" /\ job[p].pc \in AtWork
    BY DEF LogSuccess, AtWork
<1>2. /\ job[p] \in Job /\ JobFits(job[p], runs, logged) /\ job[p] # Idle
      /\ x # NoExec /\ x \in Exec /\ x.id \in RunIds /\ runs[x.id] \in Run
      /\ Held(p) = job[p].claimed \cup {x.id}
    BY <1>1, WorkingJob
<1>3. /\ j \in Job /\ j.exec = x /\ j.pc = "advance"
      /\ j.claimed = job[p].claimed /\ j.stage = job[p].stage
      /\ j.starts = job[p].starts /\ j.event = job[p].event
    BY <1>2, JobUpdates DEF AtWork
<1>4. /\ runs[x.id].status = "running" /\ runs[x.id].attempt = x.attempt
      /\ \A e \in logged[x.id] : e.index < x.index
      /\ HasStep(x)
    BY <1>1, <1>2 DEF JobFits
<1>5. /\ logged' = [logged EXCEPT ![x.id] = @ \cup {entry}] /\ Become(p, j)
      /\ UNCHANGED <<defs, emitted, timers, runs, uncertain, abandoned>>
    BY DEF LogSuccess
<1>6. entry \in Entry /\ entry.index = x.index /\ entry.steps = x.steps
    BY <1>2 DEF Exec, Entry
<1>6a. entry.index \in DOMAIN entry.steps
    BY <1>2, <1>4, <1>6, StepsAreNumbered
<1> HIDE DEF x, j, entry
<1>7. /\ logged' \in [RunIds -> SUBSET Entry]
      /\ logged'[x.id] = logged[x.id] \cup {entry}
      /\ \A r \in RunIds \ {x.id} : runs'[r] = runs[r] /\ logged'[r] = logged[r]
    BY <1>2, <1>5, <1>6 DEF IInv, TypeOK
<1>8. HeldBy(j) \subseteq Held(p) /\ JobFits(j, runs', logged')
    BY <1>1, <1>2, <1>3, <1>4, <1>5, <1>6, <1>7, StayingWithRun DEF AtWork, x
<1>9. \A r \in {x.id} : RunFits(r, runs', logged')
    BY <1>2, <1>4, <1>5, <1>6a, <1>7, Placeholders DEF IInv, RunFits
<1>10. \A q \in Procs \ {p} : Held(q) \cap ({x.id} \cup HeldBy(j)) = {}
    BY <1>2, <1>8 DEF IInv, HoldsApart
<1>11. /\ defs' \in [Workflows -> Definition]
       /\ emitted' \subseteq Events /\ timers' \subseteq Events
       /\ uncertain' \subseteq RunIds /\ abandoned' \subseteq RunIds
       /\ runs' \in [RunIds -> Run \cup {NoRun}]
    BY <1>5 DEF IInv, TypeOK
<1>12. {x.id} \in SUBSET RunIds
    BY <1>2
<1>13. QED
    BY <1>3, <1>5, <1>7, <1>8, <1>9, <1>10, <1>11, <1>12, JobStepKeepsIInv

\* updateRun(currentStep): the index moves past the logged one.
LEMMA AdvanceKeepsIInv ==
    ASSUME IInv, NEW p \in Procs, Advance(p)
    PROVE  IInv'
<1> DEFINE x == job[p].exec
           run == [runs[x.id] EXCEPT !.step = x.index + 1]
           y == [x EXCEPT !.index = @ + 1, !.try = 1]
           j == AtStep(job[p], y)
<1>1. job[p].pc = "advance" /\ job[p].pc \in AtWork
    BY DEF Advance, AtWork
<1>2. /\ job[p] \in Job /\ JobFits(job[p], runs, logged) /\ job[p] # Idle
      /\ x # NoExec /\ x \in Exec /\ x.id \in RunIds /\ runs[x.id] \in Run
      /\ x.id \in Held(p)
    BY <1>1, WorkingJob
<1>3. /\ runs[x.id].status = "running" /\ runs[x.id].attempt = x.attempt
      /\ \A e \in logged[x.id] : e.index < x.index \/ e.index = x.index
    BY <1>1, <1>2 DEF JobFits
<1>4. x.index \in Nat \ {0} /\ x.index + 1 \in Nat \ {0}
    BY <1>2, SMTT(30) DEF Exec
<1>5. run \in Run /\ run.status = "running" /\ run.attempt = x.attempt
    BY <1>2, <1>3, <1>4, RunUpdates
<1>6. y \in Exec /\ y.id = x.id /\ y.index = x.index + 1 /\ y.attempt = x.attempt
    BY <1>2, ExecUpdates
<1>7. /\ j \in Job /\ j.exec = y /\ j.pc = "step"
      /\ j.claimed = job[p].claimed /\ j.stage = job[p].stage
      /\ j.starts = job[p].starts /\ j.event = job[p].event
    BY <1>2, <1>6, JobUpdates
<1>8. runs' = [runs EXCEPT ![x.id] = run] /\ Become(p, j)
    BY DEF Advance
<1>9. /\ runs'[x.id] = run /\ logged' = logged
      /\ \A r \in RunIds \ {x.id} : runs'[r] = runs[r]
    BY <1>2, <1>8 DEF IInv, TypeOK, Advance
<1>10. \A e \in logged[x.id] : e.index < x.index + 1
  <2>1. \A e \in logged[x.id] : e.index \in Nat
      BY <1>2 DEF IInv, TypeOK, Entry
  <2>2. QED
      BY <1>3, <1>4, <2>1
<1> HIDE DEF x, y, run, j
<1>11. HeldBy(j) \subseteq Held(p) /\ JobFits(j, runs', logged')
    BY <1>1, <1>5, <1>6, <1>7, <1>9, <1>10, StayingWithRun DEF AtWork, x
<1>12. RunFits(x.id, runs', logged')
    BY <1>2, <1>5, <1>9, EntriesKept
<1>13. QED
    BY <1>2, <1>5, <1>7, <1>8, <1>11, <1>12, WritingKeepsIInv DEF Advance

\* Leaving a run: skipped, succeeded, or settled as failed or given up.  A run
\* left as failed has an attempt left, and resumes at the step it failed at.
LEMMA EndingKeepsIInv ==
    ASSUME IInv, NEW p \in Procs, Skip(p) \/ Succeed(p) \/ Settle(p)
    PROVE  IInv'
<1> DEFINE x == job[p].exec
<1>1. job[p].pc \in AtWork
    BY DEF Skip, Succeed, Settle, AtWork
<1>2. /\ job[p] \in Job /\ JobFits(job[p], runs, logged) /\ job[p] # Idle
      /\ x # NoExec /\ x \in Exec /\ x.id \in RunIds /\ runs[x.id] \in Run
      /\ x.id \in Held(p)
    BY <1>1, WorkingJob
<1>3. /\ Become(p, AtRest(job[p]))
      /\ UNCHANGED <<defs, emitted, timers, logged, uncertain, abandoned>>
    BY DEF Skip, Succeed, Settle
<1>4. PICK run \in Run :
          /\ runs' = [runs EXCEPT ![x.id] = run]
          /\ run.status = "failed" =>
                /\ run.attempt < MaxRunAttempts
                /\ \A e \in logged[x.id] : e.index < run.step
  <2>1. ASSUME NEW st \in {"skipped", "succeeded"},
               runs' = [runs EXCEPT ![x.id] = [@ EXCEPT !.status = st]]
        PROVE  \E run \in Run : runs' = [runs EXCEPT ![x.id] = run] /\ run.status # "failed"
    <3> DEFINE run == [runs[x.id] EXCEPT !.status = st]
    <3>1. run \in Run /\ run.status = st
        BY <1>2 DEF Run, Finished
    <3>2. runs' = [runs EXCEPT ![x.id] = run]
        BY <2>1
    <3> HIDE DEF run
    <3>3. QED
        BY <3>1, <3>2
  <2>2. CASE Settle(p)
    <3> DEFINE st == Outcome(x, job[p].pc = "lost")
               run == [runs[x.id] EXCEPT !.status = st, !.step = x.index, !.due = FALSE]
    <3>1. st \in Finished \cup {"failed"}
        BY DEF Outcome, Finished
    <3>2. /\ run \in Run /\ run.status = st /\ run.step = x.index
          /\ run.attempt = runs[x.id].attempt
      <4> HIDE DEF st
      <4>1. x.index \in Nat \ {0}
          BY <1>2 DEF Exec
      <4>2. QED
          BY <1>2, <3>1, <4>1 DEF Run, Finished
    <3>3. runs' = [runs EXCEPT ![x.id] = run]
        BY <2>2 DEF Settle
    <3>4. runs[x.id].attempt = x.attempt /\ \A e \in logged[x.id] : e.index < x.index
        BY <1>2, <2>2 DEF Settle, JobFits
    <3>5. st = "failed" => x.attempt < MaxRunAttempts
        BY <1>2, WorkflowAssumption DEF Outcome, Exec
    <3> HIDE DEF run, st, x
    <3>6. QED
        BY <3>2, <3>3, <3>4, <3>5
  <2>3. QED
      BY <2>1, <2>2 DEF Skip, Succeed
<1>5. runs'[x.id] = run /\ \A r \in RunIds \ {x.id} : runs'[r] = runs[r]
    BY <1>2, <1>4 DEF IInv, TypeOK
<1>6. /\ AtRest(job[p]) \in Job \cup {Idle}
      /\ HeldBy(AtRest(job[p])) \subseteq Held(p)
      /\ JobFits(AtRest(job[p]), runs', logged)
    BY <1>1, <1>5, LeavingRun
<1>7. RunFits(x.id, runs', logged')
    BY <1>2, <1>3, <1>4, <1>5, EntriesKept
<1> HIDE DEF x
<1>8. JobFits(AtRest(job[p]), runs', logged')
    BY <1>3, <1>6
<1>9. QED
    BY <1>2, <1>3, <1>4, <1>6, <1>7, <1>8, WritingKeepsIInv

\* A timer's event is emitted, and the loop over its workflows begins.
LEMMA EmitTimerKeepsIInv ==
    ASSUME IInv, NEW p \in Procs, EmitTimer(p)
    PROVE  IInv'
<1>1. TypeOK
    BY DEF IInv
<1>2. /\ job[p] \in Job /\ job[p] # Idle /\ JobFits(job[p], runs, logged)
      /\ job[p].claimed \subseteq Held(p)
    BY BusyJob DEF EmitTimer
<1>3. PICK e \in job[p].timers :
          /\ emitted' = emitted \cup {e}
          /\ Become(p, AtRest([job[p] EXCEPT !.event = e, !.timers = @ \ {e},
                                             !.starts = Matching("followup.due")]))
    BY DEF EmitTimer
<1> DEFINE j == [job[p] EXCEPT !.event = e, !.timers = @ \ {e},
                               !.starts = Matching("followup.due")]
<1>4. e \in Events /\ Matching("followup.due") \in SUBSET Loaded
    BY <1>1, <1>2, MatchingType DEF Job
<1>5. /\ j \in Job /\ j.claimed = job[p].claimed /\ j.stage = job[p].stage
      /\ j.event = e
    BY <1>2, <1>4 DEF Job
<1>6. Become(p, AtRest(j))
    BY <1>3
<1> HIDE DEF j
<1>7. /\ j.stage # "runs" => j.claimed = {}
      /\ \A r \in j.claimed :
            /\ runs[r] \in Run
            /\ runs[r].status = "running"
            /\ runs[r].attempt < MaxRunAttempts
            /\ \A f \in logged[r] : f.index < runs[r].step
    BY <1>2, <1>5 DEF JobFits
<1>8. /\ AtRest(j) \in Job \cup {Idle}
      /\ HeldBy(AtRest(j)) = job[p].claimed
      /\ JobFits(AtRest(j), runs, logged)
    BY <1>4, <1>5, <1>7, AtRestFits
<1>9. /\ emitted' \subseteq Events /\ timers' \subseteq Events
      /\ uncertain' \subseteq RunIds /\ abandoned' \subseteq RunIds
    BY <1>1, <1>3, <1>4 DEF TypeOK, EmitTimer
<1>10. QED
    BY <1>2, <1>6, <1>8, <1>9, LookingKeepsIInv DEF EmitTimer

\* claim_due_workflow_runs: the claimed runs were failed, hence nobody's, and
\* every one of them has an attempt left.
LEMMA ClaimRunsKeepsIInv ==
    ASSUME IInv, NEW p \in Procs, ClaimRuns(p)
    PROVE  IInv'
<1>1. TypeOK
    BY DEF IInv
<1>2. /\ job[p] \in Job /\ job[p] # Idle /\ JobFits(job[p], runs, logged)
      /\ job[p].claimed = {}
    BY BusyJob DEF ClaimRuns, JobFits
<1>3. PICK B \in SUBSET Due :
          /\ runs' = [r \in RunIds |-> IF r \in B THEN Claimed(runs[r]) ELSE runs[r]]
          /\ Become(p, AtRest([job[p] EXCEPT !.stage = "runs", !.claimed = B]))
    BY DEF ClaimRuns
<1> DEFINE j == [job[p] EXCEPT !.stage = "runs", !.claimed = B]
<1>4. B \in SUBSET RunIds
    BY DEF Due
<1>5. /\ j \in Job /\ j.claimed = B /\ j.stage = "runs"
      /\ j.starts = job[p].starts /\ j.event = job[p].event
    BY <1>2, <1>4 DEF Job
<1>6. Become(p, AtRest(j))
    BY <1>3
<1>7. logged' = logged
    BY DEF ClaimRuns
<1>8. ASSUME NEW r \in B
      PROVE  /\ runs[r] \in Run /\ runs[r].status = "failed"
             /\ runs'[r] \in Run /\ runs'[r].status = "running"
             /\ runs'[r].attempt < MaxRunAttempts
             /\ \A e \in logged'[r] : e.index < runs'[r].step
  <2>1. runs[r] \in Run /\ runs[r].status = "failed" /\ r \in RunIds
      BY <1>1 DEF Due, TypeOK
  <2>2. runs[r].attempt < MaxRunAttempts /\ \A e \in logged[r] : e.index < runs[r].step
      BY <2>1, Placeholders DEF IInv, RunFits
  <2>3. runs'[r] = [runs[r] EXCEPT !.status = "running"]
      BY <1>3, <2>1 DEF Claimed
  <2>4. /\ runs'[r] \in Run /\ runs'[r].status = "running"
        /\ runs'[r].attempt = runs[r].attempt /\ runs'[r].step = runs[r].step
      BY <2>1, <2>3 DEF Run
  <2>5. QED
      BY <1>7, <2>1, <2>2, <2>4
<1>9. /\ \A r \in RunIds \ B : runs'[r] = runs[r] /\ logged'[r] = logged[r]
      /\ runs' \in [RunIds -> Run \cup {NoRun}]
  <2>1. \A r \in RunIds \ B : runs'[r] = runs[r]
      BY <1>3
  <2>2. \A r \in RunIds : runs'[r] \in Run \cup {NoRun}
      BY <1>1, <1>8, <2>1 DEF TypeOK
  <2>3. QED
      BY <1>3, <1>7, <2>1, <2>2
<1>10. \A q \in Procs : Held(q) \cap B = {}
  <2>1. ASSUME NEW q \in Procs, NEW r \in Held(q), r \in B
        PROVE  FALSE
    <3>1. job[q] # Idle /\ JobFits(job[q], runs, logged)
        BY <2>1 DEF Held, HeldBy, IInv
    <3>2. runs[r].status \in {"pending", "running"}
        BY <2>1, <3>1 DEF Held, HeldBy, JobFits
    <3>3. QED
        BY <1>8, <2>1, <3>2
  <2>2. QED
      BY <2>1
<1> HIDE DEF j
<1>11. j.starts # {} => j.event \in Events
    BY <1>2, <1>5 DEF JobFits
<1>12. \A r \in j.claimed :
          /\ runs'[r] \in Run
          /\ runs'[r].status = "running"
          /\ runs'[r].attempt < MaxRunAttempts
          /\ \A e \in logged'[r] : e.index < runs'[r].step
    BY <1>5, <1>8
<1>13. /\ AtRest(j) \in Job \cup {Idle} /\ HeldBy(AtRest(j)) = B
       /\ JobFits(AtRest(j), runs', logged')
    BY <1>5, <1>11, <1>12, AtRestFits
<1>14. \A r \in B : RunFits(r, runs', logged')
    BY <1>4, <1>7, <1>8, EntriesKept
<1>15. \A q \in Procs \ {p} : Held(q) \cap (B \cup HeldBy(AtRest(j))) = {}
    BY <1>10, <1>13
<1>16. /\ defs' \in [Workflows -> Definition]
       /\ emitted' \subseteq Events /\ timers' \subseteq Events
       /\ uncertain' \subseteq RunIds /\ abandoned' \subseteq RunIds
       /\ logged' \in [RunIds -> SUBSET Entry]
    BY <1>1 DEF ClaimRuns, TypeOK
<1>17. QED
    BY <1>4, <1>6, <1>9, <1>13, <1>14, <1>15, <1>16, JobStepKeepsIInv

\* The next claimed run is executed from its next step, or given up because its
\* definition or event did not load.
LEMMA NextClaimedKeepsIInv ==
    ASSUME IInv, NEW p \in Procs, NextRun(p) \/ NotLoaded(p)
    PROVE  IInv'
<1>1. TypeOK
    BY DEF IInv
<1>2. /\ job[p] \in Job /\ job[p] # Idle /\ JobFits(job[p], runs, logged)
      /\ job[p].claimed \subseteq Held(p) /\ job[p].pc = "next"
    BY BusyJob DEF NextRun, NotLoaded
<1>3. job[p].claimed \subseteq RunIds
    BY <1>2 DEF Job
<1>4. \A r \in job[p].claimed :
          /\ runs[r] \in Run
          /\ runs[r].status = "running"
          /\ runs[r].attempt < MaxRunAttempts
          /\ \A e \in logged[r] : e.index < runs[r].step
    BY <1>2 DEF JobFits
<1>5. /\ job[p].stage # "runs" => job[p].claimed = {}
      /\ job[p].starts # {} => job[p].event \in Events
    BY <1>2 DEF JobFits
<1>6. CASE NextRun(p)
  <2>1. PICK id \in job[p].claimed :
            Become(p, [job[p] EXCEPT !.pc = "begin", !.claimed = @ \ {id},
                          !.exec = [id |-> id, attempt |-> runs[id].attempt,
                                    steps |-> defs[id[1]].steps,
                                    index |-> runs[id].step, try |-> 1]])
      BY <1>6 DEF NextRun
  <2> DEFINE x == [id |-> id, attempt |-> runs[id].attempt, steps |-> defs[id[1]].steps,
                   index |-> runs[id].step, try |-> 1]
             j == [job[p] EXCEPT !.pc = "begin", !.claimed = @ \ {id}, !.exec = x]
  <2>2. x \in Exec
    <3>1. id \in RunIds /\ defs[id[1]].steps \in Library
        BY <1>1, <1>3 DEF TypeOK, RunIds, Definition
    <3>2. runs[id].attempt \in 0 .. MaxRunAttempts /\ runs[id].step \in Nat \ {0}
        BY <1>4 DEF Run
    <3>3. QED
        BY <3>1, <3>2 DEF Exec
  <2>3. x.id = id /\ x.attempt = runs[id].attempt /\ x.index = runs[id].step
      OBVIOUS
  <2> HIDE DEF x
  <2>4. /\ j \in Job /\ j.exec = x /\ j.pc = "begin" /\ j.claimed = job[p].claimed \ {id}
        /\ j.stage = job[p].stage /\ j.starts = job[p].starts /\ j.event = job[p].event
      BY <1>2, <2>2 DEF Job
  <2>5. Become(p, j)
      BY <2>1 DEF x
  <2> HIDE DEF j
  <2>6. j # Idle /\ j.exec # NoExec
      BY <2>2, <2>4, Placeholders
  <2>7. HeldBy(j) \subseteq Held(p)
      BY <1>2, <2>3, <2>4, <2>6 DEF HeldBy
  <2>8. JobFits(j, runs, logged)
      BY <1>4, <1>5, <2>3, <2>4, <2>6 DEF JobFits, AtWork
  <2>9. /\ emitted' \subseteq Events /\ timers' \subseteq Events
        /\ uncertain' \subseteq RunIds /\ abandoned' \subseteq RunIds
      BY <1>1, <1>6 DEF TypeOK, NextRun
  <2>10. QED
      BY <1>6, <2>4, <2>5, <2>7, <2>8, <2>9, LookingKeepsIInv DEF NextRun
<1>7. CASE NotLoaded(p)
  <2>1. PICK id \in job[p].claimed :
            /\ runs' = [runs EXCEPT ![id] = [@ EXCEPT !.status = "dead_letter"]]
            /\ Become(p, AtRest([job[p] EXCEPT !.claimed = @ \ {id}]))
      BY <1>7 DEF NotLoaded
  <2> DEFINE run == [runs[id] EXCEPT !.status = "dead_letter"]
             j == [job[p] EXCEPT !.claimed = @ \ {id}]
  <2>2. run \in Run /\ run.status = "dead_letter"
      BY <1>4 DEF Run, Finished
  <2>3. /\ j \in Job /\ j.claimed = job[p].claimed \ {id} /\ j.stage = job[p].stage
        /\ j.starts = job[p].starts /\ j.event = job[p].event
      BY <1>2 DEF Job
  <2>4. runs' = [runs EXCEPT ![id] = run] /\ Become(p, AtRest(j))
      BY <2>1
  <2> HIDE DEF run, j
  <2>5. runs'[id] = run /\ logged' = logged /\ \A r \in RunIds \ {id} : runs'[r] = runs[r]
      BY <1>1, <1>3, <1>7, <2>4 DEF TypeOK, NotLoaded
  <2>6. \A r \in j.claimed :
            /\ runs'[r] \in Run
            /\ runs'[r].status = "running"
            /\ runs'[r].attempt < MaxRunAttempts
            /\ \A e \in logged'[r] : e.index < runs'[r].step
      BY <1>3, <1>4, <2>3, <2>5
  <2>7. /\ AtRest(j) \in Job \cup {Idle} /\ HeldBy(AtRest(j)) = j.claimed
        /\ JobFits(AtRest(j), runs', logged')
      BY <1>5, <2>3, <2>6, AtRestFits
  <2>8. HeldBy(AtRest(j)) \subseteq Held(p) /\ id \in Held(p)
      BY <1>2, <2>3, <2>7
  <2>9. RunFits(id, runs', logged')
      BY <1>3, <2>2, <2>5, EntriesKept
  <2>10. QED
      BY <1>7, <2>2, <2>4, <2>7, <2>8, <2>9, WritingKeepsIInv DEF NotLoaded
<1>8. QED
    BY <1>6, <1>7

\* A killed process lets go of everything and writes nothing.
LEMMA CrashKeepsIInv ==
    ASSUME IInv, NEW p \in Procs, Crash(p)
    PROVE  IInv'
<1>1. TypeOK
    BY DEF IInv
<1>2. Held(p) \subseteq RunIds
    BY <1>1 DEF TypeOK, Held, HeldBy, Job, Exec
<1>3. HeldBy(Idle) = {} /\ JobFits(Idle, runs, logged)
    BY DEF HeldBy, JobFits
<1>4. /\ emitted' \subseteq Events /\ timers' \subseteq Events
      /\ uncertain' \subseteq RunIds /\ abandoned' \subseteq RunIds
    BY <1>1, <1>2 DEF TypeOK, Crash
<1>5. QED
    BY <1>3, <1>4, LookingKeepsIInv DEF Crash

\* A failed dispatch within the timers loop drops its run and writes nothing.
LEMMA DispatchFailureKeepsIInv ==
    ASSUME IInv, NEW p \in Procs, DispatchFails(p)
    PROVE  IInv'
<1> DEFINE j == [job[p] EXCEPT !.starts = {}]
<1>1. /\ job[p] \in Job /\ JobFits(job[p], runs, logged)
      /\ Held(p) \subseteq RunIds /\ job[p].claimed \subseteq Held(p)
    BY BusyJob DEF DispatchFails, IInv, TypeOK, Held, HeldBy, Job, Exec
<1>2. job[p].claimed = {}
    BY <1>1 DEF DispatchFails, JobFits
<1>3. j \in Job /\ j.claimed = {} /\ j.starts = {}
    BY <1>1, <1>2 DEF Job
<1> HIDE DEF j
<1>4. /\ AtRest(j) \in Job \cup {Idle}
      /\ HeldBy(AtRest(j)) = {}
      /\ JobFits(AtRest(j), runs, logged)
    BY <1>3, AtRestFits
<1>5. /\ Become(p, AtRest(j))
      /\ UNCHANGED <<defs, emitted, timers, runs, logged, uncertain>>
      /\ abandoned' \subseteq RunIds
    BY <1>1 DEF DispatchFails, IInv, TypeOK, j
<1>6. /\ emitted' \subseteq Events /\ timers' \subseteq Events /\ uncertain' \subseteq RunIds
    BY <1>5 DEF IInv, TypeOK
<1>7. QED
    BY <1>4, <1>5, <1>6, LookingKeepsIInv

\* Time passes, or a definition is edited: no job moves.
LEMMA WorldKeepsIInv ==
    ASSUME IInv, (\E r \in RunIds : BackoffElapses(r)) \/ (\E w \in Workflows : Edit(w))
    PROVE  IInv'
<1>1. TypeOK
    BY DEF IInv
<1>2. CASE \E w \in Workflows : Edit(w)
  <2>1. PICK w \in Workflows : Edit(w)
      BY <1>2
  <2>2. defs' \in [Workflows -> Definition]
    <3> DEFINE next == [defs[w] EXCEPT !.version = @ + 1]
    <3>1. defs[w] \in Definition /\ defs[w].version < MaxVersion
        BY <1>1, <2>1 DEF TypeOK, Edit
    <3>2. defs[w].version + 1 \in 1 .. MaxVersion
        BY <3>1, WorkflowAssumption, SMTT(30) DEF Definition
    <3>3. next \in Definition
        BY <3>1, <3>2 DEF Definition
    <3>4. PICK d : defs' = [defs EXCEPT ![w] = d] /\
                   \/ \E s \in Library : d = [next EXCEPT !.steps = s]
                   \/ \E t \in Trigger : d = [next EXCEPT !.trigger = t]
                   \/ d = [next EXCEPT !.enabled = ~ @]
        BY <2>1, ZenonT(60) DEF Edit
    <3> HIDE DEF next
    <3>5. d \in Definition
        BY <3>3, <3>4 DEF Definition
    <3>6. QED
        BY <1>1, <3>4, <3>5, SMTT(30) DEF TypeOK
  <2>3. /\ UNCHANGED <<emitted, timers, runs, job, logged, uncertain, abandoned>>
      BY <2>1 DEF Edit
  <2>4. TypeOK'
      BY <1>1, <2>2, <2>3 DEF TypeOK
  <2>5. QED
      BY <2>3, <2>4 DEF IInv, HoldsApart, Held, HeldBy, JobFits, RunFits
<1>3. CASE \E r \in RunIds : BackoffElapses(r)
  <2>1. PICK id \in RunIds : BackoffElapses(id)
      BY <1>3
  <2> DEFINE run == [runs[id] EXCEPT !.due = TRUE]
  <2>2. /\ runs' = [runs EXCEPT ![id] = run] /\ runs[id] # NoRun
        /\ runs[id].status = "failed"
        /\ UNCHANGED <<defs, emitted, timers, job, logged, uncertain, abandoned>>
      BY <2>1 DEF BackoffElapses
  <2>3. runs[id] \in Run
      BY <1>1, <2>2 DEF TypeOK
  <2>4. run \in Run /\ run.status = "failed" /\ run.attempt = runs[id].attempt /\ run.step = runs[id].step
      BY <2>2, <2>3 DEF Run
  <2> HIDE DEF run
  <2>5. /\ runs'[id] = run /\ \A r \in RunIds \ {id} : runs'[r] = runs[r]
        /\ runs' \in [RunIds -> Run \cup {NoRun}]
      BY <1>1, <2>2, <2>4 DEF TypeOK
  <2>6. TypeOK'
      BY <1>1, <2>2, <2>5 DEF TypeOK
  <2>7. HoldsApart'
      BY <2>2 DEF IInv, HoldsApart, Held
  <2>8. \A r \in RunIds : RunFits(r, runs', logged')
      BY <2>2, <2>4, <2>5, Placeholders DEF IInv, RunFits
  <2>9. ASSUME NEW p \in Procs
        PROVE  JobFits(job'[p], runs', logged')
    <3>1. CASE job[p] = Idle
        BY <2>2, <3>1 DEF JobFits
    <3>2. CASE job[p] # Idle
      <4>1. job[p] \in Job /\ JobFits(job[p], runs, logged)
          BY <1>1, <3>2 DEF TypeOK, IInv
      <4>2. \A r \in job[p].claimed : r # id /\ runs'[r] = runs[r]
          BY <2>2, <2>5, <3>2, <4>1 DEF JobFits, Job
      <4>3. job[p].exec # NoExec => runs'[job[p].exec.id] = runs[job[p].exec.id]
          BY <2>2, <2>5, <3>2, <4>1 DEF JobFits, Job, Exec
      <4>4. QED
          BY <2>2, <3>2, <4>1, <4>2, <4>3 DEF JobFits
    <3>3. QED
        BY <3>1, <3>2
  <2>10. QED
      BY <2>6, <2>7, <2>8, <2>9 DEF IInv
<1>4. QED
    BY <1>2, <1>3

-------------------------------------------------------------------------------
(* The theorems.                                                            *)

\* Nothing runs in the initial states.
LEMMA InitFits == Init => IInv
<1> SUFFICES ASSUME Init PROVE IInv
    OBVIOUS
<1>1. TypeOK
    BY DEF Init, TypeOK
<1>2. HoldsApart
    BY DEF Init, HoldsApart, Held, HeldBy
<1>3. (\A p \in Procs : JobFits(job[p], runs, logged)) /\ \A r \in RunIds : RunFits(r, runs, logged)
    BY DEF Init, JobFits, RunFits
<1>4. QED
    BY <1>1, <1>2, <1>3 DEF IInv

\* Every step of the engine keeps the invariant: one case per action.
LEMMA NextKeepsIInv == IInv /\ [Next]_vars => IInv'
<1> SUFFICES ASSUME IInv, [Next]_vars PROVE IInv'
    OBVIOUS
<1>1. ASSUME NEW p \in Procs, ProcStep(p)
      PROVE  IInv'
    BY <1>1, StartKeepsIInv, EndingKeepsIInv, BeginKeepsIInv, StepsKeepIInv, LogSuccessKeepsIInv,
       AdvanceKeepsIInv, EmitTimerKeepsIInv, ClaimRunsKeepsIInv, NextClaimedKeepsIInv DEF ProcStep
<1>2. ASSUME NEW p \in Procs,
             ClaimTimers(p) \/ Crash(p) \/ DispatchFails(p) \/ \E e \in Events : Dispatch(p, e)
      PROVE  IInv'
    BY <1>2, OpeningKeepsIInv, CrashKeepsIInv, DispatchFailureKeepsIInv
<1>3. CASE UNCHANGED vars
    BY <1>3 DEF vars, IInv, TypeOK, HoldsApart, Held, HeldBy, JobFits, RunFits
<1>4. QED
    BY <1>1, <1>2, <1>3, WorldKeepsIInv DEF Next

\* Every reachable state of the engine is well typed, and its jobs and runs fit.
THEOREM EngineIsSound == Spec => []IInv
BY InitFits, NextKeepsIInv, PTL DEF Spec

\* TypeOK of every reachable state.
THEOREM TypeCorrect == Spec => []TypeOK
<1>1. IInv => TypeOK
    BY DEF IInv
<1>2. QED
    BY <1>1, EngineIsSound, PTL

\* No two processes execute one run, and a run that waits for its retry or is
\* finished is held by nobody: for any number of requests and cron invocations.
THEOREM OneProcessPerRun == Spec => []RunIsExclusive
<1>1. IInv => RunIsExclusive
  <2> SUFFICES ASSUME IInv,
                      NEW p \in Procs, NEW r \in Held(p)
               PROVE  runs[r].status \in {"pending", "running"}
      BY DEF RunIsExclusive, IInv, HoldsApart
  <2>1. job[p] # Idle /\ JobFits(job[p], runs, logged)
      BY DEF IInv, Held, HeldBy
  <2>2. QED
      BY <2>1 DEF JobFits, Held, HeldBy
<1>2. QED
    BY <1>1, EngineIsSound, PTL

\* A step whose success was logged is not executed again from the list it was
\* logged under, whatever is retried or killed in between: the indices of its
\* log lie before the run's, and its ids tell the steps apart.
THEOREM NoStepRunsTwice == Spec => []CompletedStepsNeverRerun
<1>1. IInv => CompletedStepsNeverRerun
  <2> SUFFICES ASSUME IInv, NEW p \in Procs,
                      job[p] # Idle, job[p].exec # NoExec, job[p].pc \in {"step", "log"},
                      NEW e \in logged[job[p].exec.id], HasStep(job[p].exec),
                      e.steps = job[p].exec.steps, DistinctIds(job[p].exec.steps),
                      StepId(e) = StepId(job[p].exec)
               PROVE  FALSE
      BY DEF CompletedStepsNeverRerun
  <2> DEFINE x == job[p].exec
  <2>1. JobFits(job[p], runs, logged) /\ job[p] \in Job
      BY DEF IInv, TypeOK
  <2>2. x \in Exec /\ x.id \in RunIds
      BY <2>1 DEF Job, Exec
  <2>3. e.index < x.index /\ e.index \in DOMAIN x.steps /\ x.index \in Nat
      BY <2>1, <2>2 DEF JobFits, Exec, IInv, RunFits
  <2>4. x.index \in DOMAIN x.steps
      BY <2>2, StepsAreNumbered
  <2>5. e.index = x.index
      BY <2>3, <2>4 DEF DistinctIds, StepId
  <2>6. QED
      BY <2>3, <2>5
<1>2. QED
    BY <1>1, EngineIsSound, PTL

-------------------------------------------------------------------------------
(* Steps whose outcome is unknown.                                          *)

\* A process at rest holds what it claimed.
LEMMA AtRestHolds == ASSUME NEW j \in Job PROVE HeldBy(AtRest(j)) \subseteq j.claimed
<1> DEFINE At(pc) == [[j EXCEPT !.exec = NoExec] EXCEPT !.pc = pc]
<1>1. ASSUME NEW pc
      PROVE  HeldBy(At(pc)) \subseteq j.claimed
  <2>1. At(pc).exec = NoExec /\ At(pc).claimed = j.claimed
      BY DEF Job
  <2> HIDE DEF At
  <2>2. QED
      BY <2>1 DEF HeldBy
<1>2. AtRest(j) = Idle \/ \E pc : AtRest(j) = At(pc)
    BY DEF AtRest
<1>3. HeldBy(Idle) = {}
    BY DEF HeldBy
<1> HIDE DEF At
<1>4. QED
    BY <1>1, <1>2, <1>3

\* A process that goes on with its run holds nothing else.
LEMMA GoingOnHolds ==
    ASSUME IInv, NEW p \in Procs, job[p].pc \in AtWork
    PROVE  /\ \A x \in Exec : x.id = job[p].exec.id => HeldBy(AtStep(job[p], x)) \subseteq Held(p)
           /\ \A pc \in AtWork : HeldBy(GoTo(job[p], pc)) \subseteq Held(p)
           /\ HeldBy(AtRest(job[p])) \subseteq job[p].claimed
           /\ job[p].claimed \subseteq Held(p)
           /\ job[p].exec.id \in Held(p) /\ job[p].exec.id \notin job[p].claimed
<1>1. /\ job[p] \in Job /\ job[p] # Idle /\ job[p].exec \in Exec /\ job[p].exec # NoExec
      /\ Held(p) = job[p].claimed \cup {job[p].exec.id}
      /\ JobFits(job[p], runs, logged)
    BY WorkingJob
<1>2. ASSUME NEW x \in Exec, x.id = job[p].exec.id
      PROVE  HeldBy(AtStep(job[p], x)) \subseteq Held(p)
  <2>1. PICK k \in Job : k = AtStep(job[p], x) /\ k.exec = x /\ k.claimed = job[p].claimed
      BY <1>1, JobUpdates
  <2>2. QED
      BY <1>1, <1>2, <2>1, Placeholders DEF HeldBy
<1>3. ASSUME NEW pc \in AtWork
      PROVE  HeldBy(GoTo(job[p], pc)) \subseteq Held(p)
  <2>1. PICK k \in Job : k = GoTo(job[p], pc) /\ k.exec = job[p].exec
                         /\ k.claimed = job[p].claimed
      BY <1>1, JobUpdates
  <2>2. QED
      BY <1>1, <2>1, Placeholders DEF HeldBy
<1>4. job[p].exec.id \notin job[p].claimed
    BY <1>1 DEF JobFits
<1>5. QED
    BY <1>1, <1>2, <1>3, <1>4, AtRestHolds

\* A process takes up no run whose outcome is unknown, and finishes at most those.
LEMMA ParkedStays ==
    ASSUME IInv, UncertainIsParked, NEW p \in Procs, NEW j, Become(p, j), uncertain' = uncertain,
           HeldBy(j) \cap uncertain = {},
           \A r \in uncertain : runs'[r] = runs[r] \/ runs'[r].status \in {"running", "dead_letter"}
    PROVE  UncertainIsParked'
<1>1. job' = [job EXCEPT ![p] = j] /\ job \in [Procs -> Job \cup {Idle}]
    BY DEF Become, IInv, TypeOK
<1>2. ASSUME NEW r \in uncertain
      PROVE  /\ runs'[r].status \in {"running", "dead_letter"}
             /\ \A q \in Procs : r \in HeldBy(job'[q]) =>
                   job'[q].exec # NoExec /\ job'[q].exec.id = r /\ job'[q].pc = "lost"
  <2>1. runs'[r].status \in {"running", "dead_letter"}
      BY <1>2 DEF UncertainIsParked
  <2>2. ASSUME NEW q \in Procs, r \in HeldBy(job'[q])
        PROVE  job'[q].exec # NoExec /\ job'[q].exec.id = r /\ job'[q].pc = "lost"
    <3>1. q # p
        BY <1>1, <1>2, <2>2
    <3>2. job'[q] = job[q]
        BY <1>1, <3>1
    <3>3. r \in Held(q)
        BY <2>2, <3>2 DEF Held
    <3>4. QED
        BY <1>2, <3>2, <3>3 DEF UncertainIsParked
  <2>3. QED
      BY <2>1, <2>2
<1>3. QED
    BY <1>2 DEF UncertainIsParked, Held

\* The steps of a process that executes a run, but for the deadline.
LEMMA WorkKeepsParked ==
    ASSUME IInv, UncertainIsParked, NEW p \in Procs,
           \/ Skip(p) \/ Begin(p) \/ StepSucceeds(p) \/ StepFails(p) \/ LogSuccess(p)
           \/ LogFails(p) \/ Advance(p) \/ Succeed(p)
    PROVE  UncertainIsParked'
<1>1. /\ job[p].pc \in AtWork /\ job[p].pc # "lost" /\ uncertain' = uncertain
      /\ \/ runs' = runs
         \/ \E run : runs' = [runs EXCEPT ![job[p].exec.id] = run]
    BY DEF Skip, Begin, StepSucceeds, StepFails, LogSuccess, LogFails, Advance, Succeed, AtWork
<1>2. /\ \A x \in Exec : x.id = job[p].exec.id => HeldBy(AtStep(job[p], x)) \subseteq Held(p)
      /\ \A pc \in AtWork : HeldBy(GoTo(job[p], pc)) \subseteq Held(p)
      /\ HeldBy(AtRest(job[p])) \subseteq job[p].claimed
      /\ job[p].claimed \subseteq Held(p)
      /\ job[p].exec.id \in Held(p)
    BY <1>1, GoingOnHolds
<1>3. Held(p) \cap uncertain = {}
    BY <1>1 DEF UncertainIsParked
<1>4. \A r \in uncertain : runs'[r] = runs[r]
  <2>1. runs \in [RunIds -> Run \cup {NoRun}] /\ uncertain \subseteq RunIds
      BY DEF IInv, TypeOK
  <2>2. QED
      BY <1>1, <1>2, <1>3, <2>1
<1>5. job[p].exec \in Exec
    BY <1>1, WorkingJob
<1>6. PICK j : Become(p, j) /\ HeldBy(j) \subseteq Held(p)
  <2>1. CASE Skip(p) \/ Succeed(p)
      BY <1>2, <2>1 DEF Skip, Succeed
  <2>2. CASE Begin(p)
    <3>1. job[p].exec.attempt < MaxRunAttempts
        BY <1>1, <2>2, WorkingJob DEF Begin, JobFits
    <3>2. PICK y \in Exec : y = [job[p].exec EXCEPT !.attempt = @ + 1] /\ y.id = job[p].exec.id
        BY <1>5, <3>1, ExecUpdates
    <3>3. Become(p, AtStep(job[p], y))
        BY <2>2, <3>2 DEF Begin
    <3>4. QED
        BY <1>2, <3>2, <3>3
  <2>3. CASE StepSucceeds(p) \/ LogSuccess(p)
    <3>1. \E pc \in AtWork : Become(p, GoTo(job[p], pc))
        BY <2>3 DEF StepSucceeds, LogSuccess, AtWork
    <3>2. QED
        BY <1>2, <3>1
  <2>4. CASE StepFails(p) \/ LogFails(p)
    <3>1. PICK y \in Exec : y = [job[p].exec EXCEPT !.try = @ + 1] /\ y.id = job[p].exec.id
        BY <1>5, ExecUpdates
    <3>2. Become(p, AtStep(job[p], y)) \/ Become(p, GoTo(job[p], "settle"))
        BY <2>4, <3>1 DEF StepFails, LogFails, TryFailed
    <3>3. "settle" \in AtWork
        BY DEF AtWork
    <3>4. QED
        BY <1>2, <3>1, <3>2, <3>3
  <2>5. CASE Advance(p)
    <3>1. PICK y \in Exec : y = [job[p].exec EXCEPT !.index = @ + 1, !.try = 1]
                            /\ y.id = job[p].exec.id
        BY <1>5, ExecUpdates
    <3>2. Become(p, AtStep(job[p], y))
        BY <2>5, <3>1 DEF Advance
    <3>3. QED
        BY <1>2, <3>1, <3>2
  <2>6. QED
      BY <2>1, <2>2, <2>3, <2>4, <2>5
<1>7. QED
    BY <1>1, <1>3, <1>4, <1>6, ParkedStays, SMTT(30)

\* The deadline passes: the run was held by this process alone, and is running.
LEMMA TimeoutParks ==
    ASSUME IInv, UncertainIsParked, NEW p \in Procs, StepTimesOut(p)
    PROVE  UncertainIsParked'
<1> DEFINE x == job[p].exec
           j == GoTo(job[p], "lost")
<1>1. job[p].pc \in AtWork /\ job[p].pc = "step"
    BY DEF StepTimesOut, AtWork
<1>2. /\ job[p] \in Job /\ job[p] # Idle /\ x \in Exec /\ x # NoExec /\ x.id \in RunIds
      /\ Held(p) = job[p].claimed \cup {x.id}
      /\ JobFits(job[p], runs, logged)
    BY <1>1, WorkingJob
<1>3. runs[x.id].status = "running"
    BY <1>1, <1>2 DEF JobFits
<1>4. Held(p) \cap uncertain = {}
    BY <1>1 DEF UncertainIsParked
<1>5. /\ job' = [job EXCEPT ![p] = j] /\ job \in [Procs -> Job \cup {Idle}]
      /\ runs' = runs /\ uncertain' = uncertain \cup {x.id}
    BY DEF StepTimesOut, Become, IInv, TypeOK
<1>6. j \in Job /\ j.exec = x /\ j.pc = "lost" /\ j.claimed = job[p].claimed
    BY <1>2, JobUpdates DEF AtWork
<1> HIDE DEF j
<1>7. HeldBy(j) = Held(p)
    BY <1>2, <1>6, Placeholders DEF HeldBy
<1>8. \A q \in Procs \ {p} : job'[q] = job[q]
    BY <1>5
<1>9. job'[p] = j
    BY <1>5
<1>10. ASSUME NEW r \in uncertain', NEW q \in Procs, r \in HeldBy(job'[q])
       PROVE  job'[q].exec # NoExec /\ job'[q].exec.id = r /\ job'[q].pc = "lost"
  <2>1. CASE q = p
    <3>1. r \in Held(p)
        BY <1>7, <1>9, <1>10, <2>1
    <3>2. r = x.id
        BY <1>4, <1>5, <3>1
    <3>3. QED
        BY <1>2, <1>6, <1>9, <2>1, <3>2
  <2>2. CASE q # p
    <3>1. r \in Held(q) /\ job'[q] = job[q]
        BY <1>8, <1>10, <2>2 DEF Held
    <3>2. r # x.id
        BY <1>2, <2>2, <3>1 DEF IInv, HoldsApart
    <3>3. r \in uncertain
        BY <1>5, <3>2
    <3>4. QED
        BY <3>1, <3>3 DEF UncertainIsParked
  <2>3. QED
      BY <2>1, <2>2
<1>11. \A r \in uncertain' : runs'[r].status \in {"running", "dead_letter"}
    BY <1>3, <1>5 DEF UncertainIsParked
<1>12. QED
    BY <1>10, <1>11 DEF UncertainIsParked, Held

\* A run whose step was lost is settled as a dead letter, and let go.
LEMMA SettleParks ==
    ASSUME IInv, UncertainIsParked, NEW p \in Procs, Settle(p)
    PROVE  UncertainIsParked'
<1> DEFINE x == job[p].exec
           run == [runs[x.id] EXCEPT !.status = Outcome(x, job[p].pc = "lost"),
                                     !.step = x.index, !.due = FALSE]
<1>1. job[p].pc \in AtWork /\ job[p].pc \in {"settle", "lost"}
    BY DEF Settle, AtWork
<1>2. x \in Exec /\ x.id \in RunIds /\ runs[x.id] \in Run
    BY <1>1, WorkingJob
<1>3. /\ runs' = [runs EXCEPT ![x.id] = run] /\ runs \in [RunIds -> Run \cup {NoRun}]
      /\ uncertain \subseteq RunIds /\ uncertain' = uncertain
      /\ Become(p, AtRest(job[p]))
    BY DEF Settle, IInv, TypeOK
<1>4. /\ HeldBy(AtRest(job[p])) \subseteq job[p].claimed
      /\ job[p].claimed \subseteq Held(p)
      /\ x.id \in Held(p) /\ x.id \notin job[p].claimed
    BY <1>1, GoingOnHolds
<1>5. \A r \in Held(p) \cap uncertain : r = x.id /\ job[p].pc = "lost"
    BY DEF UncertainIsParked
<1>6. x.id \in uncertain => run.status = "dead_letter"
  <2>1. Outcome(x, TRUE) = "dead_letter"
      BY DEF Outcome
  <2>2. CASE job[p].pc = "lost"
    <3>1. Outcome(x, job[p].pc = "lost") = "dead_letter"
        BY <2>2 DEF Outcome
    <3>2. QED
        BY <1>2, <3>1 DEF Run
  <2>3. QED
      BY <1>4, <1>5, <2>2
<1> HIDE DEF run
<1>7. \A r \in uncertain : runs'[r] = runs[r] \/ runs'[r].status \in {"running", "dead_letter"}
    BY <1>2, <1>3, <1>6
<1>8. HeldBy(AtRest(job[p])) \cap uncertain = {}
    BY <1>4, <1>5
<1>9. QED
    BY <1>3, <1>7, <1>8, ParkedStays

\* A run that is created was nobody's, and its outcome is open.
LEMMA StartKeepsParked ==
    ASSUME IInv, UncertainIsParked, NEW p \in Procs, StartRun(p)
    PROVE  UncertainIsParked'
<1>1. /\ job[p] \in Job /\ job[p] # Idle /\ job[p].claimed \subseteq Held(p)
      /\ job[p].pc = "start" /\ uncertain' = uncertain
      /\ runs \in [RunIds -> Run \cup {NoRun}] /\ uncertain \subseteq RunIds
    BY BusyJob DEF StartRun, IInv, TypeOK
<1>2. Held(p) \cap uncertain = {}
    BY <1>1 DEF UncertainIsParked
<1>3. PICK d \in job[p].starts :
          LET id == <<d.wf, job[p].event>>
              rest == [job[p] EXCEPT !.starts = @ \ {d}]
          IN  IF runs[id] # NoRun
              THEN Become(p, AtRest(rest)) /\ UNCHANGED runs
              ELSE /\ runs' = [runs EXCEPT ![id] =
                          [status |-> "pending", attempt |-> 0, step |-> 1, due |-> FALSE]]
                   /\ Become(p, [rest EXCEPT !.pc = "begin",
                          !.exec = [id |-> id, attempt |-> 0, steps |-> d.steps,
                                    index |-> 1, try |-> 1]])
    BY DEF StartRun
<1> DEFINE id == <<d.wf, job[p].event>>
           rest == [job[p] EXCEPT !.starts = @ \ {d}]
           x == [id |-> id, attempt |-> 0, steps |-> d.steps, index |-> 1, try |-> 1]
           j == [rest EXCEPT !.pc = "begin", !.exec = x]
<1>4. rest \in Job /\ rest.claimed = job[p].claimed
    BY <1>1 DEF Job
<1>5. CASE runs[id] # NoRun
  <2>1. Become(p, AtRest(rest)) /\ runs' = runs
      BY <1>3, <1>5
  <2>2. HeldBy(AtRest(rest)) \cap uncertain = {}
      BY <1>1, <1>2, <1>4, AtRestHolds
  <2>3. QED
      BY <1>1, <2>1, <2>2, ParkedStays
<1>6. CASE runs[id] = NoRun
  <2>1. Become(p, j) /\ \E run : runs' = [runs EXCEPT ![id] = run]
      BY <1>3, <1>6
  <2>2. id \notin uncertain
      BY <1>6 DEF UncertainIsParked, NoRun
  <2>3. j.claimed = job[p].claimed /\ j.exec.id = id
      BY <1>4 DEF Job
  <2> HIDE DEF j
  <2>4. HeldBy(j) \cap uncertain = {}
      BY <1>1, <1>2, <2>2, <2>3 DEF HeldBy
  <2>5. \A r \in uncertain : runs'[r] = runs[r]
      BY <1>1, <2>1, <2>2
  <2>6. QED
      BY <1>1, <2>1, <2>4, <2>5, ParkedStays
<1>7. QED
    BY <1>5, <1>6

\* The loops of processDue take up what is due, or was claimed and is still to begin.
LEMMA LoopsKeepParked ==
    ASSUME IInv, UncertainIsParked, NEW p \in Procs,
           EmitTimer(p) \/ ClaimRuns(p) \/ NextRun(p) \/ NotLoaded(p)
    PROVE  UncertainIsParked'
<1>1. job[p].pc \in {"emit", "claim", "next"} /\ uncertain' = uncertain
    BY DEF EmitTimer, ClaimRuns, NextRun, NotLoaded
<1>2. /\ job[p] \in Job /\ job[p] # Idle /\ job[p].claimed \subseteq Held(p)
      /\ runs \in [RunIds -> Run \cup {NoRun}] /\ uncertain \subseteq RunIds /\ TypeOK
    BY <1>1, BusyJob DEF IInv, TypeOK
<1>3. Held(p) \cap uncertain = {}
    BY <1>1 DEF UncertainIsParked
<1>4. CASE EmitTimer(p)
  <2>1. PICK e \in job[p].timers :
            Become(p, AtRest([job[p] EXCEPT !.event = e, !.timers = @ \ {e},
                                            !.starts = Matching("followup.due")]))
      BY <1>4 DEF EmitTimer
  <2> DEFINE k == [job[p] EXCEPT !.event = e, !.timers = @ \ {e},
                                 !.starts = Matching("followup.due")]
  <2>2. Matching("followup.due") \in SUBSET Loaded
      BY <1>2, MatchingType
  <2>3. k \in Job /\ k.claimed = job[p].claimed
      BY <1>2, <2>2 DEF Job
  <2> HIDE DEF k
  <2>4. HeldBy(AtRest(k)) \cap uncertain = {}
      BY <1>2, <1>3, <2>3, AtRestHolds
  <2>5. Become(p, AtRest(k)) /\ runs' = runs
      BY <1>4, <2>1 DEF k, EmitTimer
  <2>6. QED
      BY <1>1, <2>4, <2>5, ParkedStays
<1>5. CASE ClaimRuns(p)
  <2>1. PICK B \in SUBSET Due :
            /\ runs' = [r \in RunIds |-> IF r \in B THEN Claimed(runs[r]) ELSE runs[r]]
            /\ Become(p, AtRest([job[p] EXCEPT !.stage = "runs", !.claimed = B]))
      BY <1>5 DEF ClaimRuns
  <2>2. B \subseteq RunIds /\ B \cap uncertain = {}
      BY DEF Due, UncertainIsParked
  <2> DEFINE k == [job[p] EXCEPT !.stage = "runs", !.claimed = B]
  <2>3. k \in Job /\ k.claimed = B
      BY <1>2, <2>2 DEF Job
  <2> HIDE DEF k
  <2>4. HeldBy(AtRest(k)) \cap uncertain = {}
      BY <2>2, <2>3, AtRestHolds
  <2>5. Become(p, AtRest(k))
      BY <2>1 DEF k
  <2>6. \A r \in uncertain : runs'[r] = runs[r]
      BY <1>2, <2>1, <2>2
  <2>7. QED
      BY <1>1, <2>4, <2>5, <2>6, ParkedStays
<1>6. CASE NextRun(p)
  <2>1. PICK id \in job[p].claimed :
            Become(p, [job[p] EXCEPT !.pc = "begin", !.claimed = @ \ {id},
                          !.exec = [id |-> id, attempt |-> runs[id].attempt,
                                    steps |-> defs[id[1]].steps,
                                    index |-> runs[id].step, try |-> 1]])
      BY <1>6 DEF NextRun
  <2>2. PICK x : x = [id |-> id, attempt |-> runs[id].attempt, steps |-> defs[id[1]].steps,
                      index |-> runs[id].step, try |-> 1]
      OBVIOUS
  <2> DEFINE k == [job[p] EXCEPT !.pc = "begin", !.claimed = @ \ {id}, !.exec = x]
  <2>3. k.claimed \subseteq job[p].claimed /\ k.exec.id = id
      BY <1>2, <2>2 DEF Job
  <2>4. Become(p, k) /\ runs' = runs
      BY <1>6, <2>1, <2>2 DEF NextRun
  <2> HIDE DEF k
  <2>5. HeldBy(k) \cap uncertain = {}
      BY <1>2, <1>3, <2>3 DEF HeldBy
  <2>6. QED
      BY <1>1, <2>4, <2>5, ParkedStays
<1>7. CASE NotLoaded(p)
  <2>1. PICK id \in job[p].claimed :
            /\ runs' = [runs EXCEPT ![id] = [@ EXCEPT !.status = "dead_letter"]]
            /\ Become(p, AtRest([job[p] EXCEPT !.claimed = @ \ {id}]))
      BY <1>7 DEF NotLoaded
  <2> DEFINE k == [job[p] EXCEPT !.claimed = @ \ {id}]
  <2>2. k \in Job /\ k.claimed \subseteq job[p].claimed
      BY <1>2 DEF Job
  <2>3. Become(p, AtRest(k))
      BY <2>1
  <2> HIDE DEF k
  <2>4. HeldBy(AtRest(k)) \cap uncertain = {}
      BY <1>2, <1>3, <2>2, AtRestHolds
  <2>5. \A r \in uncertain : runs'[r] = runs[r]
      BY <1>2, <1>3, <2>1
  <2>6. QED
      BY <1>1, <2>3, <2>4, <2>5, ParkedStays
<1>8. QED
    BY <1>4, <1>5, <1>6, <1>7

\* A process that begins, is killed, or loses an event, keeps no run in hand but those it claimed.
LEMMA EndsKeepParked ==
    ASSUME IInv, UncertainIsParked, NEW p \in Procs,
           ClaimTimers(p) \/ Crash(p) \/ DispatchFails(p) \/ \E e \in Events : Dispatch(p, e)
    PROVE  UncertainIsParked'
<1>1. uncertain' = uncertain /\ runs' = runs /\ TypeOK
    BY DEF ClaimTimers, Crash, DispatchFails, Dispatch, IInv
<1>2. PICK j : Become(p, j) /\ HeldBy(j) \cap uncertain = {}
  <2>1. CASE Crash(p)
      BY <2>1 DEF Crash, HeldBy
  <2>2. CASE ClaimTimers(p)
    <3>1. PICK ts \in SUBSET timers : Become(p, AtRest(NewJob("timers", NoEvent, {}, ts)))
        BY <2>2 DEF ClaimTimers
    <3>2. ts \in SUBSET Events
        BY <1>1 DEF TypeOK
    <3>3. HeldBy(AtRest(NewJob("timers", NoEvent, {}, ts))) = {}
        BY <3>2, NewJobFits
    <3>4. QED
        BY <3>1, <3>3
  <2>3. CASE \E e \in Events : Dispatch(p, e)
    <3>1. PICK e \in Events : Dispatch(p, e)
        BY <2>3
    <3>2. PICK starts \in SUBSET Loaded : Become(p, AtRest(NewJob("dispatch", e, starts, {})))
      <4>1. CASE Become(p, AtRest(NewJob("dispatch", e, Matching("business"), {})))
          BY <1>1, <4>1, MatchingType
      <4>2. ASSUME NEW w \in Workflows,
                   Become(p, AtRest(NewJob("dispatch", e,
                                           {[wf |-> w, steps |-> defs[w].steps]}, {})))
            PROVE  \E starts \in SUBSET Loaded :
                       Become(p, AtRest(NewJob("dispatch", e, starts, {})))
        <5>1. {[wf |-> w, steps |-> defs[w].steps]} \in SUBSET Loaded
            BY <1>1 DEF TypeOK, Loaded, Definition
        <5>2. QED
            BY <4>2, <5>1
      <4>3. QED
          BY <3>1, <4>1, <4>2 DEF Dispatch
    <3>3. HeldBy(AtRest(NewJob("dispatch", e, starts, {}))) = {}
        BY NewJobFits
    <3>4. QED
        BY <3>2, <3>3
  <2>4. CASE DispatchFails(p)
    <3>1. job[p] \in Job /\ job[p].stage = "timers" /\ JobFits(job[p], runs, logged)
        BY <1>1, <2>4 DEF DispatchFails, TypeOK, IInv
    <3> DEFINE k == [job[p] EXCEPT !.starts = {}]
    <3>2. k \in Job /\ k.claimed = {}
        BY <2>4, <3>1 DEF Job, JobFits, DispatchFails
    <3> HIDE DEF k
    <3>3. HeldBy(AtRest(k)) = {}
        BY <3>2, AtRestHolds
    <3>4. Become(p, AtRest(k))
        BY <2>4 DEF k, DispatchFails
    <3>5. QED
        BY <3>3, <3>4
  <2>5. QED
      BY <2>1, <2>2, <2>3, <2>4
<1>3. QED
    BY <1>1, <1>2, ParkedStays

\* Every step of the engine leaves the runs whose outcome is unknown parked.
LEMMA NextKeepsParked == IInv /\ UncertainIsParked /\ [Next]_vars => UncertainIsParked'
<1> SUFFICES ASSUME IInv, UncertainIsParked, [Next]_vars PROVE UncertainIsParked'
    OBVIOUS
<1>1. ASSUME NEW p \in Procs, ProcStep(p)
      PROVE  UncertainIsParked'
    BY <1>1, WorkKeepsParked, TimeoutParks, SettleParks, StartKeepsParked, LoopsKeepParked
       DEF ProcStep
<1>2. ASSUME NEW p \in Procs,
             ClaimTimers(p) \/ Crash(p) \/ DispatchFails(p) \/ \E e \in Events : Dispatch(p, e)
      PROVE  UncertainIsParked'
    BY <1>2, EndsKeepParked
<1>3. ASSUME NEW r \in RunIds, BackoffElapses(r)
      PROVE  UncertainIsParked'
  <2>1. r \notin uncertain
      BY <1>3 DEF BackoffElapses, UncertainIsParked
  <2>2. \A q \in uncertain : runs'[q] = runs[q]
      BY <1>3, <2>1 DEF BackoffElapses, IInv, TypeOK
  <2>3. QED
      BY <1>3, <2>2 DEF BackoffElapses, UncertainIsParked, Held
<1>4. CASE (\E w \in Workflows : Edit(w)) \/ UNCHANGED vars
  <2>1. UNCHANGED <<runs, job, uncertain>>
      BY <1>4, Zenon DEF Edit, vars
  <2>2. QED
      BY <2>1 DEF UncertainIsParked, Held
<1>5. QED
    BY <1>1, <1>2, <1>3, <1>4 DEF Next

\* A step whose outcome is unknown is never tried again, however many requests and cron
\* invocations there are: its run is a dead letter, or is on its way to be one, or was
\* being executed by a process that was killed (engine.ts, StepTimeoutError).
THEOREM UnknownIsNotRetried == Spec => []UncertainIsParked
<1>1. Init => UncertainIsParked
    BY DEF Init, UncertainIsParked
<1>2. QED
    BY <1>1, InitFits, NextKeepsIInv, NextKeepsParked, PTL DEF Spec
===============================================================================
