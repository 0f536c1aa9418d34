-------------------------------- MODULE Jobs --------------------------------
(***************************************************************************)
(* The scheduler of the jobs (modules/jobs): the rows of sys_job, the cron *)
(* entries the process keeps in memory, and the runs that are under way.   *)
(*                                                                         *)
(* Node runs one callback at a time, so what lies between two awaits is    *)
(* one step: execute() asks for and enters the set of running jobs in one. *)
(* A cron entry holds the row it was made from.  It is made again from a   *)
(* row that was read after the write, another await later.                 *)
(***************************************************************************)
EXTENDS FiniteSets

CONSTANTS
    Jobs,     \* ids
    Handlers, \* names of the built in handlers
    Crons,    \* cron expressions
    Clerks,   \* requests at work at the same time
    Slots,    \* runs under way at the same time
    Faults    \* whether the database may fail a request or the start

ASSUME FaultsAssumption == Faults \in BOOLEAN

VARIABLES
    jobRow,  \* the table
    entry,   \* SchedulerRegistry: the row a cron entry was made from
    running, \* JobsService.running
    run,     \* runs under way
    jobCall, \* requests under way
    up,      \* the process is there
    mixed,   \* history: jobs that ran as concurrent since the process started
    doubted  \* history: jobs two requests changed at once, or one gave up half-way

jobsVars == <<jobRow, entry, running, run, jobCall, up, mixed, doubted>>

NoRequest == [op |-> "idle"]
NoRun == [stage |-> "none"]
NoRow == [status |-> "none"]
NoEntry == NoRow
Fields == {"status", "handler", "cron", "concurrent"}
Settings == [status : {"active", "disabled"}, handler : Handlers, cron : Crons,
             concurrent : BOOLEAN]

Kept(j) == jobRow[j].status \in {"active", "disabled"}

JobsInit ==
    /\ jobRow = [j \in Jobs |-> NoRow]
    /\ entry = [j \in Jobs |-> NoEntry]
    /\ running = {}
    /\ run = [s \in Slots |-> NoRun]
    /\ jobCall = [c \in Clerks |-> NoRequest]
    /\ up = TRUE
    /\ mixed = {}
    /\ doubted = {}

Then(c, next) == jobCall' = [jobCall EXCEPT ![c] = next]

\* Requests that change job j
Changing(c, j) ==
    /\ jobCall[c].op \in {"create", "update", "read", "back", "remove", "off"}
    /\ jobCall[c].job = j
Busy(j) == \E c \in Clerks : Changing(c, j)
Doubt(j) == doubted' = IF Busy(j) THEN doubted \cup {j} ELSE doubted

\* Mutant: the entry of a job that was switched off is left alone
RegisteredIfActive(j, r) == IF r.status = "active" THEN r ELSE entry[j]

\* schedule(): the old entry goes first
Registered(j, r) == IF r.status = "active" THEN r ELSE NoEntry

-----------------------------------------------------------------------------
(* Requests                                                                *)

Unique(h, j) == \A i \in Jobs \ {j} : Kept(i) => jobRow[i].handler # h

CreateRead(c, j) ==
    /\ up /\ jobCall[c] = NoRequest /\ jobRow[j] = NoRow
    /\ \E r \in Settings :
          Unique(r.handler, j) /\ Then(c, [op |-> "create", job |-> j, row |-> r])
    /\ Doubt(j)
    /\ UNCHANGED <<jobRow, entry, running, run, up, mixed>>

\* The id is the next of the table
CreateWrite(c) ==
    LET j == jobCall[c].job
    IN  /\ jobCall[c].op = "create" /\ jobRow[j] = NoRow
        /\ jobRow' = [jobRow EXCEPT ![j] = jobCall[c].row]
        /\ Then(c, [op |-> "read", job |-> j])
        /\ UNCHANGED <<entry, running, run, up, mixed, doubted>>

\* existing is only compared with the new handler
UpdateRead(c, j) ==
    /\ up /\ jobCall[c] = NoRequest /\ Kept(j)
    /\ \E field \in Fields, r \in Settings :
          /\ field = "handler" /\ r.handler # jobRow[j].handler => Unique(r.handler, j)
          /\ \A other \in Fields \ {field} : r[other] = jobRow[j][other]
          /\ Then(c, [op |-> "update", job |-> j, field |-> field, row |-> r])
    /\ Doubt(j)
    /\ UNCHANGED <<jobRow, entry, running, run, up, mixed>>

\* Only the fields of the patch are written
UpdateWrite(c) ==
    LET j == jobCall[c].job
    IN  /\ jobCall[c].op = "update"
        /\ jobRow' = IF Kept(j) THEN [jobRow EXCEPT ![j][jobCall[c].field] = jobCall[c].row[jobCall[c].field]]
                     ELSE jobRow
        /\ Then(c, [op |-> "read", job |-> j])
        /\ UNCHANGED <<entry, running, run, up, mixed, doubted>>

\* The row is read again, 404 when it is deleted by now
ReadBack(c) ==
    LET j == jobCall[c].job
    IN  /\ jobCall[c].op = "read"
        /\ Then(c, IF Kept(j) THEN [op |-> "back", job |-> j, row |-> jobRow[j]] ELSE NoRequest)
        /\ UNCHANGED <<jobRow, entry, running, run, up, mixed, doubted>>

Schedule(c) ==
    LET j == jobCall[c].job
    IN  /\ jobCall[c].op = "back"
        /\ entry' = [entry EXCEPT ![j] = Registered(j, jobCall[c].row)]
        /\ Then(c, NoRequest)
        /\ UNCHANGED <<jobRow, running, run, up, mixed, doubted>>

RemoveRead(c, j) ==
    /\ up /\ jobCall[c] = NoRequest /\ Kept(j)
    /\ Then(c, [op |-> "remove", job |-> j])
    /\ Doubt(j)
    /\ UNCHANGED <<jobRow, entry, running, run, up, mixed>>

Unschedule(c) ==
    LET j == jobCall[c].job
    IN  /\ jobCall[c].op = "remove"
        /\ entry' = [entry EXCEPT ![j] = NoEntry]
        /\ Then(c, [op |-> "off", job |-> j])
        /\ UNCHANGED <<jobRow, running, run, up, mixed, doubted>>

RemoveWrite(c) ==
    LET j == jobCall[c].job
    IN  /\ jobCall[c].op = "off"
        /\ jobRow' = IF Kept(j) THEN [jobRow EXCEPT ![j].status = "deleted"] ELSE jobRow
        /\ Then(c, NoRequest)
        /\ UNCHANGED <<entry, running, run, up, mixed, doubted>>

\* The request answers 500 between two of its statements
GiveUp(c) ==
    /\ Faults /\ jobCall[c] # NoRequest
    /\ Then(c, NoRequest)
    /\ doubted' = doubted \cup {j \in Jobs : Changing(c, j)}
    /\ UNCHANGED <<jobRow, entry, running, run, up, mixed>>

-----------------------------------------------------------------------------
(* Runs                                                                    *)

\* Mutant: nobody asks for running
AdmittedAlways(j, r) == TRUE

Admitted(j, r) == r.concurrent \/ j \notin running

\* execute() up to its first await
Start(s, j, r) ==
    /\ run[s] = NoRun /\ Admitted(j, r)
    /\ running' = running \cup {j}
    /\ run' = [run EXCEPT ![s] = [stage |-> "handler", job |-> j, concurrent |-> r.concurrent]]
    /\ mixed' = IF r.concurrent THEN mixed \cup {j} ELSE mixed

CronFires(s, j) ==
    /\ up /\ entry[j] # NoEntry
    /\ Start(s, j, entry[j])
    /\ UNCHANGED <<jobRow, entry, jobCall, up, doubted>>

RunNowRead(c, j) ==
    /\ up /\ jobCall[c] = NoRequest /\ Kept(j)
    /\ Then(c, [op |-> "now", job |-> j, row |-> jobRow[j]])
    /\ UNCHANGED <<jobRow, entry, running, run, up, mixed, doubted>>

\* 200 also when a run is under way and this one is skipped
RunNow(c) ==
    LET j == jobCall[c].job
    IN  /\ jobCall[c].op = "now"
        /\ IF Admitted(j, jobCall[c].row)
           THEN \E s \in Slots : Start(s, j, jobCall[c].row)
           ELSE UNCHANGED <<running, run, mixed>>
        /\ Then(c, NoRequest)
        /\ UNCHANGED <<jobRow, entry, up, doubted>>

HandlerEnds(s) ==
    /\ run[s].stage = "handler"
    /\ \E outcome \in {"success", "failure"} : run' = [run EXCEPT ![s].stage = outcome]
    /\ UNCHANGED <<jobRow, entry, running, jobCall, up, mixed, doubted>>

\* Mutant: only the end of a run that succeeded takes the job out of running
LeftOnSuccess(s) == IF run[s].stage = "success" THEN running \ {run[s].job} ELSE running

\* The finally of execute(), for either outcome and whether or not it was logged
LeftRunning(s) == running \ {run[s].job}

Logged(s) ==
    /\ run[s].stage \in {"success", "failure"}
    /\ running' = LeftRunning(s)
    /\ run' = [run EXCEPT ![s] = NoRun]
    /\ UNCHANGED <<jobRow, entry, jobCall, up, mixed, doubted>>

-----------------------------------------------------------------------------
(* The process                                                             *)

\* onModuleDestroy, or a crash
Stop ==
    /\ up /\ up' = FALSE
    /\ entry' = [j \in Jobs |-> NoEntry]
    /\ running' = {}
    /\ run' = [s \in Slots |-> NoRun]
    /\ jobCall' = [c \in Clerks |-> NoRequest]
    /\ mixed' = {}
    /\ UNCHANGED <<jobRow, doubted>>

\* onModuleInit: an error is a warning, and no job is scheduled
Boot ==
    /\ ~up /\ up' = TRUE
    /\ \/ /\ entry' = [j \in Jobs |-> IF Kept(j) THEN Registered(j, jobRow[j]) ELSE NoEntry]
          /\ doubted' = {}
       \/ /\ Faults
          /\ doubted' = Jobs
          /\ UNCHANGED entry
    /\ UNCHANGED <<jobRow, running, run, jobCall, mixed>>

JobsNext ==
    \/ \E c \in Clerks, j \in Jobs :
          CreateRead(c, j) \/ UpdateRead(c, j) \/ RemoveRead(c, j) \/ RunNowRead(c, j)
    \/ \E c \in Clerks :
          \/ CreateWrite(c) \/ UpdateWrite(c) \/ ReadBack(c) \/ Schedule(c)
          \/ Unschedule(c) \/ RemoveWrite(c) \/ GiveUp(c) \/ RunNow(c)
    \/ \E s \in Slots, j \in Jobs : CronFires(s, j)
    \/ \E s \in Slots : HandlerEnds(s) \/ Logged(s)
    \/ Stop \/ Boot

JobsSpec == JobsInit /\ [][JobsNext]_jobsVars

-----------------------------------------------------------------------------
JobRows == [status : {"active", "disabled", "deleted"}, handler : Handlers, cron : Crons,
            concurrent : BOOLEAN]
Runs == [stage : {"handler", "success", "failure"}, job : Jobs, concurrent : BOOLEAN]
JobCalls == [op : {"create", "back", "now"}, job : Jobs, row : Settings]
            \cup [op : {"read", "remove", "off"}, job : Jobs]
            \cup [op : {"update"}, job : Jobs, field : Fields, row : Settings]

\* Rows, entries, runs and requests keep their types; without a process there is
\* neither an entry nor a run nor a request.
JobsTypeOK ==
    /\ jobRow \in [Jobs -> JobRows \cup {NoRow}]
    /\ entry \in [Jobs -> Settings \cup {NoEntry}]
    /\ running \subseteq Jobs
    /\ run \in [Slots -> Runs \cup {NoRun}]
    /\ jobCall \in [Clerks -> JobCalls \cup {NoRequest}]
    /\ mixed \subseteq Jobs /\ doubted \subseteq Jobs
    /\ up \in BOOLEAN
    /\ ~up => /\ \A j \in Jobs : entry[j] = NoEntry
              /\ \A s \in Slots : run[s] = NoRun
              /\ \A c \in Clerks : jobCall[c] = NoRequest

UnderWay(j) == {s \in Slots : run[s] # NoRun /\ run[s].job = j}

\* A job is barred from running exactly while it runs: whatever ends a run, it
\* can start again, and no second run starts beside the first by cron or by
\* hand, unless it was allowed to run concurrently since the process started.
BarredWhileItRuns ==
    \A j \in Jobs :
        /\ j \in running => UnderWay(j) # {}
        /\ j \notin mixed => /\ UnderWay(j) # {} => j \in running
                              /\ \A s, t \in UnderWay(j) : s = t

\* What is scheduled is what the table says as soon as no request is changing
\* the job, unless two did at once or one gave up half-way; a restart repairs
\* even that.
EntriesFollowRows ==
    \A j \in Jobs :
        up /\ ~Busy(j) /\ j \notin doubted
            => entry[j] = IF jobRow[j].status = "active" THEN jobRow[j] ELSE NoEntry

\* jobs-files.md: a job that was switched off or deleted is not started again.
OffIsOff == \A j \in Jobs : up /\ ~Busy(j) /\ jobRow[j].status # "active" => entry[j] = NoEntry

\* jobs-files.md: without the switch no run starts before the last one ended.
NoOverlap ==
    [][\A s \in Slots :
          run[s] = NoRun /\ run'[s] # NoRun /\ ~run'[s].concurrent
              => UnderWay(run'[s].job) = {}]_jobsVars

\* assertHandlerUnique: no two jobs have one handler.
HandlersDiffer ==
    \A i, j \in Jobs : i # j /\ Kept(i) /\ Kept(j) => jobRow[i].handler # jobRow[j].handler
=============================================================================
