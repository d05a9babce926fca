--------------------------------- MODULE MCCron ---------------------------------
(***************************************************************************)
(* What the cron jobs do for appointments: the reminders that are sent       *)
(* before one, or the sweep that closes one after it.                        *)
(*                                                                         *)
(* The sweep: conversation v1 and staff member s1 are of business b1, v2 and *)
(* s2 of b2; only b1 opted in.                                               *)
(***************************************************************************)
EXTENDS Reminders, TLC

CONSTANTS
    v1, v2, s1, s2, b1, b2, NoSlot, NoConv,
    Clerks, Sweepers,
    SweepBatch, MaxRows, SweepMaxTime

VARIABLES
    job,                \* "reminders" or "sweep"
    rows, task, time    \* the variables of the sweep

Sweep == INSTANCE Appointments WITH
    Convs <- {v1, v2}, Staff <- {s1, s2}, Tenants <- {b1, b2},
    TenantOf <- (v1 :> b1) @@ (v2 :> b2) @@ (s1 :> b1) @@ (s2 :> b2),
    Slots <- {[staff |-> s1, start |-> 1, end |-> 2], [staff |-> s2, start |-> 0, end |-> 1],
               [staff |-> s2, start |-> 1, end |-> 2]},
    OptedIn <- {b1}, Grace <- (b1 :> 0) @@ (b2 :> 1), MinNotice <- 0,
    BatchSize <- SweepBatch, MaxTime <- SweepMaxTime, clock <- time

allVars == <<job, vars, rows, task, time>>

MCInit ==
    /\ job \in {"reminders", "sweep"}
    /\ Init
    /\ Sweep!Init

\* A step of the one job or the other.
OfReminders(A) == job = "reminders" /\ A /\ UNCHANGED <<job, rows, task, time>>

OfSweep(A) == job = "sweep" /\ A /\ UNCHANGED <<job, vars>>

MCSpec ==
    /\ MCInit
    /\ [][OfReminders(Next) \/ OfSweep(Sweep!Next)]_allVars
    /\ WF_allVars(OfReminders(Tick) \/ OfSweep(Sweep!Tick))
    /\ \A w \in Workers : WF_allVars(OfReminders(WorkerStep(w)))
    /\ \A p \in Sweepers :
          /\ SF_allVars(OfSweep(Sweep!SweepScan(p)))
          /\ SF_allVars(OfSweep(Sweep!SweepWrite(p)))

\* OverdueIsClosed of the sweep (noshow-sweep.ts).
OverdueIsClosed == Sweep!OverdueIsClosed
===============================================================================
