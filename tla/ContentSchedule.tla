--------------------------- MODULE ContentSchedule ---------------------------
(***************************************************************************)
(* Content that becomes available at a set time: createContentSchedule,    *)
(* and activateDueContent, which the scheduler runs at the start of the    *)
(* process and every quarter of an hour.  Runs can overlap, in one process *)
(* when a run is slow and in two replicas always.                          *)
(***************************************************************************)
EXTENDS TierContent

CONSTANTS
    Delays,       \* ticks between the creation of a schedule and its time
    BatchSize,    \* ACTIVATION_BATCH_SIZE
    MaxFaults     \* bound: statements that fail, and restarts

VARIABLES
    schedules,    \* ContentSchedule rows; history: sent, audience, lost
    faults

ScheduleInit == schedules = <<>> /\ faults = 0

Due(i) == ~schedules[i].active /\ schedules[i].wait = 0
DueRows == {i \in DOMAIN schedules : Due(i)}

\* sent counts the notices to the holder of each pass; audience is who held a
\* valid pass when the row was activated; lost says that a statement failed after.
CreateSchedule(r, t, delay) ==
    /\ IF t \in Existing
       THEN /\ BeginEnd(r, "ok")
            /\ schedules' = Append(schedules, [tier |-> t, wait |-> delay, active |-> FALSE, lost |-> FALSE,
                                               audience |-> {}, sent |-> [p \in Passes |-> 0]])
       ELSE Refuse(r) /\ UNCHANGED schedules
    /\ UNCHANGED <<catalogue, content, faults>>

\* The run takes one batch of due rows; todo is what is left of it.
RunStart(r) ==
    /\ \E batch \in kSubset(Min({BatchSize, Cardinality(DueRows)}), DueRows) :
          Begin(r, [Unused EXCEPT !.op = "run", !.at = "loop", !.todo = batch])
    /\ UNCHANGED <<catalogue, content, schedules, faults>>

InLoop(r) == req[r].op = "run" /\ req[r].at = "loop"
NextDue(r) == Min(req[r].todo)

\* Mutant: the update does not ask whether the row is inactive.
RunActivatesAgain(r) ==
    /\ InLoop(r) /\ req[r].todo # {}
    /\ schedules' = [schedules EXCEPT ![NextDue(r)].active = TRUE]
    /\ req' = [req EXCEPT ![r].at = "active"]
    /\ UNCHANGED <<catalogue, content, faults>>

\* The conditional update: another run may have activated the row.
RunActivates(r) ==
    /\ InLoop(r) /\ req[r].todo # {} /\ ~schedules[NextDue(r)].active
    /\ schedules' = [schedules EXCEPT ![NextDue(r)].active = TRUE,
                                      ![NextDue(r)].audience = {p \in Passes : /\ pass[p] = "valid"
                                                                               /\ TierOf[p] = schedules[NextDue(r)].tier}]
    /\ req' = [req EXCEPT ![r].at = "active"]
    /\ UNCHANGED <<catalogue, content, faults>>

\* Mutant: the row stays in the batch.
RunSkipsAgain(r) ==
    /\ InLoop(r) /\ req[r].todo # {} /\ schedules[NextDue(r)].active
    /\ UNCHANGED <<catalogue, content, schedules, faults, req>>

RunSkips(r) ==
    /\ InLoop(r) /\ req[r].todo # {} /\ schedules[NextDue(r)].active
    /\ req' = [req EXCEPT ![r].todo = @ \ {NextDue(r)}]
    /\ UNCHANGED <<catalogue, content, schedules, faults>>

\* The passes of the tier whose flag is set and that were valid when the run
\* began: its clock is read once ("late": expired since then).
RunFindsPasses(r) ==
    /\ req[r].op = "run" /\ req[r].at = "active"
    /\ req' = [req EXCEPT ![r].at = "found",
                          ![r].late = {p \in Passes : /\ TierOf[p] = schedules[NextDue(r)].tier
                                                      /\ \/ pass[p] = "valid"
                                                         \/ pass[p] = "expired" /\ p \in @}]
    /\ UNCHANGED <<catalogue, content, schedules, faults>>

RunNotifies(r) ==
    /\ req[r].op = "run" /\ req[r].at = "found"
    /\ schedules' = [schedules EXCEPT ![NextDue(r)].sent = [p \in Passes |-> IF p \in req[r].late THEN @[p] + 1 ELSE @[p]]]
    /\ req' = [req EXCEPT ![r].at = "loop", ![r].todo = @ \ {NextDue(r)}, ![r].late = {}]
    /\ UNCHANGED <<catalogue, content, faults>>

\* A statement fails: the error is logged, an activation stays, nobody is told.
RunFails(r) ==
    /\ faults < MaxFaults
    /\ req[r].op = "run" /\ req[r].todo # {} /\ req[r].at \in {"loop", "active", "found"}
    /\ faults' = faults + 1
    /\ schedules' = [schedules EXCEPT ![NextDue(r)].lost = @ \/ req[r].at # "loop"]
    /\ req' = [req EXCEPT ![r].at = "loop", ![r].todo = @ \ {NextDue(r)}]
    /\ UNCHANGED <<catalogue, content>>

RunEnds(r) ==
    /\ InLoop(r) /\ req[r].todo = {}
    /\ Answer(r, "ok")
    /\ UNCHANGED <<catalogue, content, schedules, faults>>

ScheduleTick == schedules' = [i \in DOMAIN schedules |-> [schedules[i] EXCEPT !.wait = IF @ > 0 THEN @ - 1 ELSE 0]]

ScheduleSteps(r) ==
    \/ RunActivates(r) \/ RunSkips(r) \/ RunFindsPasses(r) \/ RunNotifies(r) \/ RunFails(r) \/ RunEnds(r)
ScheduleRequests(r) == RunStart(r) \/ \E t \in Tiers, delay \in Delays : CreateSchedule(r, t, delay)
=============================================================================
