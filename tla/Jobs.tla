-------------------------------- MODULE Jobs --------------------------------
(***************************************************************************)
(* transport/asynq: a task-queue server that bundles a consumer, a client, *)
(* a scheduler and an inspector of hibiken/asynq.                          *)
(*                                                                         *)
(* Start holds s.mu until its context is done, so Stop waits for it; both  *)
(* end in stopInternal, whose steps are separate here because the task     *)
(* operations take no part in s.mu.  The four library objects are external *)
(* and have the states their documentation names: a consumer or scheduler  *)
(* that was shut down cannot be started again, closing a closed client is  *)
(* an error.                                                               *)
(***************************************************************************)
EXTENDS Integers

CONSTANTS Types,            \* task types, the keys of entryIDs
          MaxEntries,       \* bound: calls of NewPeriodicTask
          MaxStarts         \* bound: calls of Start that get past started

\* What the options WithRedisAddress to WithNetwork set (the timeouts, the pool's size
\* and TLS, which every kind of connection takes, go with "auth").
Params == {"addr", "auth", "db", "master", "redirects", "network"}

VARIABLES redis, given, applied,          \* redisConnOpt, the parameters set and in it
          graceful, scheduling,           \* gracefullyShutdown, schedulerEnabled
          mu, started, ctxDone,           \* s.mu: "free", "start" or "stop"
          startAt, stopAt,                \* where Start and Stop are
          server, scheduler, client,      \* the library objects
          entryIDs,                       \* type -> entry, 0 none
          entries,                        \* <<entry, type>> the scheduler has
          adding, removing,               \* type -> entry between two steps of a call, 0 none
          made, starts,                   \* counters
          names,                          \* typeNameMap
          task, waiter,                   \* a task in the queue and NewWaitResultTask
          twice, late                     \* history: types registered twice;
                                          \* NewPeriodicTask during or after a stop

asynqVars == <<redis, given, applied, graceful, scheduling, mu, started, ctxDone, startAt,
               stopAt, server, scheduler, client, entryIDs, entries,
               adding, removing, made, starts, names, task, waiter, twice, late>>

configVars == <<redis, given, applied, graceful, scheduling>>
lifeVars == <<mu, started, ctxDone, startAt, stopAt, server, scheduler,
              client, starts>>
periodicVars == <<entryIDs, entries, adding, removing, made, twice, late>>
taskVars == <<names, task, waiter>>

NoEntry == [t \in Types |-> 0]

\* WithRedisType makes a pointer to an option struct; WithRedisURI takes the struct
\* that ParseRedisURI returns, and WithRedisConnOpt whatever it is given.
WithRedisType == [type : {"single", "cluster", "sentinel"}, by : {"pointer"}]
WithRedisURI == [type : {"single", "sentinel"}, by : {"value"}]
WithRedisConnOpt == [type : {"single", "cluster", "sentinel"}, by : {"pointer", "value"}]

\* What updateRedis...Opt copies into the struct of each type.
updateRedisClientOpt == {"addr", "auth", "db", "network"}
updateRedisClusterClientOpt == {"addr", "auth", "redirects"}
updateRedisFailoverClientOpt == {"addr", "auth", "db", "master"}
Taken(type) == CASE type = "single" -> updateRedisClientOpt
                 [] type = "cluster" -> updateRedisClusterClientOpt
                 [] type = "sentinel" -> updateRedisFailoverClientOpt

\* Faulty variant: the cluster's parameters are not copied.
applyRedisOptions_NoCluster(r, P) ==
  IF r.by = "pointer" /\ r.type # "cluster" THEN P \intersect Taken(r.type) ELSE {}

\* applyRedisOptions: into the struct behind a pointer; of a value only the copy
\* that the type switch made is changed, and nothing arrives.
applyRedisOptions(r, P) == IF r.by = "pointer" THEN P \intersect Taken(r.type) ELSE {}

\* createAsynqServer, createAsynqClient and createAsynqScheduler: an object that is
\* enabled and not there yet is made.
create(object, enabled, fresh) == IF enabled /\ object = "none" THEN fresh ELSE object

\* NewServer and init: the options, then the three objects that are enabled.
Init ==
  /\ redis \in WithRedisType \union WithRedisURI \union WithRedisConnOpt
  /\ given \in {{}, Params} /\ applied = applyRedisOptions(redis, given)
  /\ graceful \in BOOLEAN /\ scheduling \in BOOLEAN
  /\ mu = "free" /\ started = FALSE /\ ctxDone = FALSE
  /\ startAt = "idle" /\ stopAt = "idle"
  /\ server = create("none", TRUE, "new") /\ client = create("none", TRUE, "open")
  /\ scheduler = create("none", scheduling, "new")
  /\ entryIDs = NoEntry /\ entries = {} /\ adding = NoEntry /\ removing = NoEntry
  /\ made = 0 /\ starts = 0 /\ names = {} /\ task = "none" /\ waiter = "none"
  /\ twice = {} /\ late = FALSE

------------------------------------------------------------------------------
\* Start up to the wait for its context.  A scheduler that was stopped before makes
\* it fail; a consumer that was stopped before only logs that it cannot run.
Start ==
  /\ mu = "free" /\ startAt = "idle" /\ starts < MaxStarts /\ starts' = starts + 1
  /\ ctxDone' = FALSE
  /\ IF scheduler = "closed"
       THEN UNCHANGED <<mu, started, startAt, server, scheduler>>
       ELSE /\ mu' = "start" /\ started' = TRUE /\ startAt' = "run"
            /\ scheduler' = IF scheduling THEN "running" ELSE scheduler
            /\ server' = IF server = "new" THEN "launched" ELSE server
  /\ UNCHANGED <<stopAt, client>>
  /\ UNCHANGED <<configVars, periodicVars, taskVars>>

\* The goroutine of Start gets to server.Run.  A stop may have come first, and found
\* nothing to shut down: then the consumer escapes it.
Run ==
  /\ \/ server = "launched" /\ server' = "running"
     \/ server = "overdue" /\ server' = "escaped"
  /\ UNCHANGED <<mu, started, ctxDone, startAt, stopAt, scheduler, client, starts>>
  /\ UNCHANGED <<configVars, periodicVars, taskVars>>

\* The caller's context ends,
Cancel ==
  /\ startAt = "run" /\ ~ctxDone /\ ctxDone' = TRUE
  /\ UNCHANGED <<mu, started, startAt, stopAt, server, scheduler, client,
                 starts>>
  /\ UNCHANGED <<configVars, periodicVars, taskVars>>

\* and Start goes on to stopInternal, still under s.mu.
StartEnds ==
  /\ startAt = "run" /\ ctxDone
  /\ startAt' = "clean" /\ started' = FALSE
  /\ UNCHANGED <<mu, ctxDone, stopAt, server, scheduler, client, starts>>
  /\ UNCHANGED <<configVars, periodicVars, taskVars>>

\* Faulty variant: Stop does not take s.mu.
Stop_NoLock ==
  /\ \/ stopAt = "idle" /\ stopAt' = "lock" /\ UNCHANGED <<mu, started>>
     \/ stopAt = "lock" /\ stopAt' = "clean" /\ started' = FALSE /\ UNCHANGED mu
  /\ UNCHANGED <<ctxDone, startAt, server, scheduler, client, starts>>
  /\ UNCHANGED <<configVars, periodicVars, taskVars>>

\* Stop: called at any time, it waits for s.mu.
Stop ==
  /\ \/ stopAt = "idle" /\ stopAt' = "lock" /\ UNCHANGED <<mu, started>>
     \/ /\ stopAt = "lock" /\ mu = "free"
        /\ mu' = "stop" /\ stopAt' = "clean" /\ started' = FALSE
  /\ UNCHANGED <<ctxDone, startAt, server, scheduler, client, starts>>
  /\ UNCHANGED <<configVars, periodicVars, taskVars>>

------------------------------------------------------------------------------
\* stopInternal, one step at a time, run by whoever holds s.mu.
At(p) == \/ mu = "start" /\ startAt = p
         \/ mu = "stop" /\ stopAt = p
Go(p) == IF mu = "start" THEN startAt' = p /\ UNCHANGED stopAt
                         ELSE stopAt' = p /\ UNCHANGED startAt
Known == {<<entryIDs[t], t>> : t \in {t \in Types : entryIDs[t] # 0}}

\* Faulty variant: the table is emptied, the scheduler's entries stay.
removeAllPeriodicTask_TableOnly == entryIDs' = NoEntry /\ UNCHANGED entries

\* removeAllPeriodicTaskInternal: the table is made anew and what it held is
\* unregistered.
removeAllPeriodicTask == entryIDs' = NoEntry /\ entries' = entries \ Known

\* 1. the periodic tasks, 2. the scheduler,
stopClean ==
  /\ At("clean") /\ Go("server") /\ removeAllPeriodicTask
  /\ scheduler' = IF scheduler = "running" THEN "closed" ELSE scheduler
  /\ UNCHANGED <<mu, started, ctxDone, server, client, starts>>
  /\ UNCHANGED <<adding, removing, made, twice, late>>
  /\ UNCHANGED <<configVars, taskVars>>

\* Faulty variant: only a graceful stop stops the consumer.
stopServer_GracefulOnly ==
  /\ At("server") /\ Go("client")
  /\ server' = IF graceful /\ server \notin {"new", "launched", "overdue"} THEN "closed"
                                                                        ELSE server
  /\ UNCHANGED <<mu, started, ctxDone, scheduler, client, starts>>
  /\ UNCHANGED <<configVars, periodicVars, taskVars>>

\* 3. the consumer, unless it does not run yet: shut down, which Stop's context does
\* not take back, or only stopped from taking new tasks,
stopServer ==
  /\ At("server") /\ Go("client")
  /\ server' = CASE server = "launched" -> "overdue"
                 [] graceful /\ server \notin {"new", "launched", "overdue"} -> "closed"
                 [] ~graceful /\ server \in {"running", "escaped"} -> "stopped"
                 [] OTHER -> server
  /\ UNCHANGED <<mu, started, ctxDone, scheduler, client, starts>>
  /\ UNCHANGED <<configVars, periodicVars, taskVars>>

\* 4. the client, whose second Close is the error stopInternal returns.
stopClient ==
  /\ At("client") /\ Go("idle") /\ mu' = "free"
  /\ client' = "closed"
  /\ UNCHANGED <<started, ctxDone, server, scheduler, starts>>
  /\ UNCHANGED <<configVars, periodicVars, taskVars>>

------------------------------------------------------------------------------
Stopping == startAt \notin {"idle", "run"} \/ stopAt \notin {"idle", "lock"}

\* Register of the scheduler, running or not.
Register(t) ==
  /\ entries' = entries \union {<<made + 1, t>>}
  /\ adding' = [adding EXCEPT ![t] = made + 1]
  /\ twice' = IF \E e \in entries : e[2] = t THEN twice \union {t} ELSE twice
  /\ late' = (late \/ Stopping \/ client = "closed")

\* NewPeriodicTask: a scheduler is made if there is none and registers; one that is
\* not enabled is only enabled, and the call panics on the nil scheduler.
NewPeriodicTask(t) ==
  /\ adding[t] = 0 /\ made < MaxEntries /\ made' = made + 1
  /\ scheduler' = create(scheduler, scheduling, "new")
  /\ scheduling' = (scheduling \/ scheduler = "none")
  /\ IF scheduler' = "none" THEN UNCHANGED <<entries, adding, twice, late>>
                           ELSE Register(t)
  /\ UNCHANGED <<redis, given, applied, graceful, entryIDs, removing>>
  /\ UNCHANGED <<mu, started, ctxDone, startAt, stopAt, server, client, starts>>
  /\ UNCHANGED taskVars

\* addPeriodicTaskEntryID: the table knows one entry for a type.
addPeriodicTaskEntryID(t) ==
  /\ adding[t] # 0
  /\ entryIDs' = [entryIDs EXCEPT ![t] = adding[t]] /\ adding' = [adding EXCEPT ![t] = 0]
  /\ late' = (late \/ Stopping \/ client = "closed")
  /\ UNCHANGED <<entries, removing, made, twice>>
  /\ UNCHANGED <<configVars, lifeVars, taskVars>>

\* RemovePeriodicTask: the entry is looked up and unregistered,
RemovePeriodicTask(t) ==
  /\ entryIDs[t] # 0 /\ removing[t] = 0
  /\ removing' = [removing EXCEPT ![t] = entryIDs[t]]
  /\ entries' = entries \ {<<entryIDs[t], t>>}
  /\ UNCHANGED <<entryIDs, adding, made, twice, late>>
  /\ UNCHANGED <<configVars, lifeVars, taskVars>>

\* removePeriodicTaskEntryID: and whatever the table has for the type now goes.
removePeriodicTaskEntryID(t) ==
  /\ removing[t] # 0
  /\ removing' = [removing EXCEPT ![t] = 0] /\ entryIDs' = [entryIDs EXCEPT ![t] = 0]
  /\ twice' = IF entryIDs[t] \notin {0, removing[t]} THEN twice \union {t} ELSE twice
  /\ UNCHANGED <<entries, adding, made, late>>
  /\ UNCHANGED <<configVars, lifeVars, taskVars>>

\* RemoveAllPeriodicTask of a caller.
RemoveAllPeriodicTask ==
  /\ Known # {} /\ removeAllPeriodicTask
  /\ UNCHANGED <<adding, removing, made, twice, late>>
  /\ UNCHANGED <<configVars, lifeVars, taskVars>>

------------------------------------------------------------------------------
\* RegisterSubscriber (and ...WithCtx): refused once started.
RegisterSubscriber(t) ==
  /\ ~started /\ t \notin names /\ names' = names \union {t}
  /\ UNCHANGED <<task, waiter>> /\ UNCHANGED <<configVars, lifeVars, periodicVars>>

\* NewTask and NewWaitResultTask: a closed client refuses the task; the second
\* polls the task's state.
NewTask ==
  /\ task = "none" /\ client = "open" /\ task' = "pending" /\ UNCHANGED <<names, waiter>>
  /\ UNCHANGED <<configVars, lifeVars, periodicVars>>
NewWaitResultTask ==
  /\ task = "none"
  /\ IF client = "open" THEN task' = "pending" /\ waiter' = "polling"
                        ELSE waiter' = "refused" /\ UNCHANGED task
  /\ UNCHANGED names /\ UNCHANGED <<configVars, lifeVars, periodicVars>>

\* The queue: a running consumer takes the task and finishes it, schedules a retry
\* or archives it.
Process ==
  /\ \/ task \in {"pending", "retry"} /\ server \in {"running", "escaped"}
        /\ task' = "active"
     \/ task = "active" /\ task' \in {"completed", "retry", "archived"}
  /\ UNCHANGED <<names, waiter>> /\ UNCHANGED <<configVars, lifeVars, periodicVars>>

\* Faulty variant: a task that is waiting for its retry counts as done.
waitResult_RetryIsDone ==
  /\ waiter = "polling"
  /\ waiter' = CASE task \in {"completed", "retry"} -> "done"
                 [] OTHER -> "failed"
  /\ UNCHANGED <<names, task>> /\ UNCHANGED <<configVars, lifeVars, periodicVars>>

\* waitResult: completed is a result, archived and retry are errors, and so are a
\* failed query and the deadline.
waitResult ==
  /\ waiter = "polling"
  /\ waiter' = IF task = "completed" THEN "done" ELSE "failed"
  /\ UNCHANGED <<names, task>> /\ UNCHANGED <<configVars, lifeVars, periodicVars>>

Next ==
  \/ Start \/ Run \/ Cancel \/ StartEnds \/ Stop \/ stopClean \/ stopServer \/ stopClient
  \/ RemoveAllPeriodicTask \/ NewTask \/ NewWaitResultTask \/ Process \/ waitResult
  \/ \E t \in Types :
       \/ NewPeriodicTask(t) \/ addPeriodicTaskEntryID(t) \/ RemovePeriodicTask(t)
       \/ removePeriodicTaskEntryID(t) \/ RegisterSubscriber(t)

Works == StartEnds \/ (stopAt = "lock" /\ Stop) \/ stopClean \/ stopServer \/ stopClient
Spec == Init /\ [][Next]_asynqVars /\ WF_asynqVars(Works)

------------------------------------------------------------------------------
\* The type of the state.
TypeOK ==
  /\ mu \in {"free", "start", "stop"} /\ {started, ctxDone, late} \subseteq BOOLEAN
  /\ startAt \in {"idle", "run", "clean", "server", "client"}
  /\ stopAt \in {"idle", "lock", "clean", "server", "client"}
  /\ server \in {"new", "launched", "overdue", "running", "escaped", "stopped", "closed"}
  /\ scheduler \in {"none", "new", "running", "closed"} /\ client \in {"open", "closed"}
  /\ {entryIDs, adding, removing} \subseteq [Types -> 0..MaxEntries]
  /\ task \in {"none", "pending", "active", "retry", "completed", "archived"}
  /\ waiter \in {"none", "polling", "done", "failed", "refused"}

\* Start and Stop never run stopInternal at the same time, and started is only seen
\* true while Start waits for its context (s.mu is held through all of Start).
OneLifecycle ==
  /\ ~(startAt \in {"clean", "server", "client"} /\ stopAt \in {"clean", "server", "client"})
  /\ started => startAt = "run"

\* A periodic entry of the scheduler can be removed: the table has it or is about to
\* (addPeriodicTaskEntryID), unless its type was registered twice, when the table
\* loses the first entry, or a removal raced with the second.
PeriodicIsKnown ==
  \A e \in entries : entryIDs[e[2]] = e[1] \/ adding[e[2]] = e[1] \/ e[2] \in twice

\* When a stop has finished, no periodic entry is left (removeAllPeriodicTask), save
\* those of types registered twice or registered while it ran.
StoppedIsEmpty ==
  startAt = "idle" /\ stopAt \in {"idle", "lock"} /\ client = "closed" /\ ~late
    => \A e \in entries : adding[e[2]] = e[1] \/ e[2] \in twice

\* A server runs its consumer in its first run, or is about to; afterwards Start fails,
\* or without a scheduler succeeds and consumes nothing.
FirstRunConsumes ==
  started /\ starts = 1 /\ client = "open" => server \in {"launched", "running"}

\* After a stop nothing is consumed (stopInternal), unless the stop came before Start's
\* goroutine had called Run.
StoppedConsumesNothing ==
  startAt = "idle" /\ stopAt \in {"idle", "lock"} /\ client = "closed" => server # "running"

\* NewWaitResultTask returns nil only for a completed task (waitResult).
DoneIsCompleted == waiter = "done" => task = "completed"

\* Parameters reach the connection that is made by WithRedisType: all that its type
\* has a field for (applyRedisOptions).
OptionsArrive ==
  redis.by = "pointer" =>
    /\ given \intersect {"addr", "auth"} \subseteq applied
    /\ "db" \in given /\ redis.type # "cluster" => "db" \in applied

\* What applyRedisOptions' comment says: the stored parameters are applied to the
\* redisConnOpt, whatever its concrete type.
OptionsApplied == given \intersect {"addr", "auth"} \subseteq applied

LastStop == stopAt # "idle" /\ starts = MaxStarts /\ (ctxDone \/ startAt # "run")

\* Once its context is done Start returns, and so does a Stop that waited for it;
\* another Start could take s.mu first, so this is about the last one.
StopReturns == LastStop ~> stopAt = "idle"

(***************************************************************************)
(* transport/cron/server.go: a timer server around a robfig/cron scheduler. *)
(*                                                                         *)
(* Start and Stop hold s.mu, Start until its context is done; the job      *)
(* operations hold cronMu.  The scheduler is external: Stop ends the        *)
(* triggering and its context is done when the running jobs are.           *)
(***************************************************************************)
CONSTANTS MaxJobs         \* bound: calls of NewTimerJob

VARIABLES cronMuHeld,          \* s.mu: "free", "start", "stop"
          cronStarted,         \* s.started
          ticking,             \* the scheduler triggers jobs
          cronStartAt, cronStopAt, cronCtx, stopCtx,   \* the contexts are done
          jobs, ids,           \* entries of the scheduler; s.entryIDs
          runningJobs,         \* jobs that run
          added, cronStarts,
          lateHalt,            \* a goroutine of stopInternal that Stop did not wait for:
                               \* "no", "due", or "hit" when it halted a later run
          drained              \* history: the last stop returned because all jobs ended

cronVars == <<cronMuHeld, cronStarted, ticking, cronStartAt, cronStopAt, cronCtx, stopCtx,
              jobs, ids, runningJobs, added, cronStarts, lateHalt, drained>>

\* NewServer.
CronInit ==
  /\ cronMuHeld = "free" /\ cronStarted = FALSE /\ ticking = FALSE
  /\ cronStartAt = "idle" /\ cronStopAt = "idle" /\ cronCtx = FALSE /\ stopCtx = FALSE
  /\ jobs = {} /\ ids = {} /\ runningJobs = {} /\ added = 0 /\ cronStarts = 0
  /\ lateHalt = "no" /\ drained = FALSE

jobVars == <<jobs, ids, added>>

\* Start: the scheduler triggers, and Start waits under s.mu.
CronStart ==
  /\ cronMuHeld = "free" /\ cronStartAt = "idle" /\ cronStarts < MaxStarts
  /\ cronStarts' = cronStarts + 1 /\ cronMuHeld' = "start" /\ cronStartAt' = "wait"
  /\ cronStarted' = TRUE /\ ticking' = TRUE /\ cronCtx' = FALSE
  /\ drained' = FALSE /\ lateHalt' = IF lateHalt = "hit" THEN "no" ELSE lateHalt
  /\ UNCHANGED <<cronStopAt, stopCtx, runningJobs, jobVars>>
CronCancel ==
  /\ cronStartAt = "wait" /\ ~cronCtx /\ cronCtx' = TRUE
  /\ UNCHANGED <<cronMuHeld, cronStarted, ticking, cronStartAt, cronStopAt, stopCtx,
                 runningJobs, cronStarts, lateHalt, drained, jobVars>>

\* Stop: waits for s.mu, whatever started says.
CronStop ==
  /\ \/ /\ cronStopAt = "idle" /\ cronStopAt' = "lock" /\ stopCtx' = FALSE
        /\ UNCHANGED cronMuHeld
     \/ /\ cronStopAt = "lock" /\ cronMuHeld = "free"
        /\ cronStopAt' = "halt" /\ cronMuHeld' = "stop" /\ UNCHANGED stopCtx
  /\ UNCHANGED <<cronStarted, ticking, cronStartAt, cronCtx, runningJobs, cronStarts, lateHalt,
                 drained, jobVars>>
StopTimeout ==
  /\ cronStopAt # "idle" /\ ~stopCtx /\ stopCtx' = TRUE
  /\ UNCHANGED <<cronMuHeld, cronStarted, ticking, cronStartAt, cronStopAt, cronCtx,
                 runningJobs, cronStarts, lateHalt, drained, jobVars>>

\* Faulty variant: the jobs are not waited for.
stopInternal_NoWait ==
  /\ \/ cronMuHeld = "start" /\ cronStartAt = "wait" /\ cronCtx /\ cronStartAt' = "idle"
        /\ UNCHANGED cronStopAt
     \/ cronMuHeld = "stop" /\ cronStopAt' = "idle" /\ UNCHANGED cronStartAt
  /\ cronMuHeld' = "free" /\ cronStarted' = FALSE /\ ticking' = FALSE /\ drained' = TRUE
  /\ UNCHANGED <<cronCtx, stopCtx, runningJobs, cronStarts, lateHalt, jobVars>>

\* stopInternal: the goroutine stops the scheduler,
\* then Start waits for the jobs with no deadline, Stop until its context is done,
\* which may be before the goroutine has run.
\* stopping is only true under s.mu and so never seen.
stopInternal ==
  \/ /\ \/ cronMuHeld = "start" /\ cronStartAt = "wait" /\ cronCtx /\ cronStartAt' = "drain"
           /\ UNCHANGED cronStopAt
        \/ cronMuHeld = "stop" /\ cronStopAt = "halt" /\ cronStopAt' = "drain"
           /\ UNCHANGED cronStartAt
     /\ cronStarted' = FALSE /\ ticking' = FALSE
     /\ UNCHANGED <<cronMuHeld, cronCtx, stopCtx, runningJobs, cronStarts, lateHalt, drained,
                    jobVars>>
  \/ /\ \/ cronMuHeld = "start" /\ cronStartAt = "drain" /\ runningJobs = {}
           /\ cronStartAt' = "idle" /\ drained' = TRUE /\ UNCHANGED cronStopAt
        \/ cronMuHeld = "stop" /\ cronStopAt = "drain" /\ (runningJobs = {} \/ stopCtx)
           /\ cronStopAt' = "idle" /\ drained' = (runningJobs = {}) /\ UNCHANGED cronStartAt
     /\ cronMuHeld' = "free"
     /\ UNCHANGED <<cronStarted, ticking, cronCtx, stopCtx, runningJobs, cronStarts, lateHalt,
                    jobVars>>
  \/ /\ cronMuHeld = "stop" /\ cronStopAt = "halt" /\ stopCtx /\ lateHalt # "due"
     /\ cronStopAt' = "idle" /\ cronMuHeld' = "free" /\ cronStarted' = FALSE
     /\ lateHalt' = "due" /\ drained' = FALSE
     /\ UNCHANGED <<ticking, cronStartAt, cronCtx, stopCtx, runningJobs, cronStarts, jobVars>>

\* The goroutine that was left behind (bound: one at a time) stops the scheduler.
LateHalts ==
  /\ lateHalt = "due" /\ ticking' = FALSE
  /\ lateHalt' = IF ticking /\ cronStartAt = "wait" THEN "hit" ELSE "no"
  /\ UNCHANGED <<cronMuHeld, cronStarted, cronStartAt, cronStopAt, cronCtx, stopCtx,
                 runningJobs, cronStarts, drained, jobVars>>

------------------------------------------------------------------------------
cronLifeVars == <<cronMuHeld, cronStarted, ticking, cronStartAt, cronStopAt, cronCtx, stopCtx,
              cronStarts, lateHalt, drained>>

\* NewTimerJob, before Start or after.
NewTimerJob ==
  /\ added < MaxJobs /\ added' = added + 1
  /\ jobs' = jobs \union {added + 1} /\ ids' = ids \union {added + 1}
  /\ UNCHANGED <<cronLifeVars, runningJobs>>

\* Faulty variant: the scheduler keeps the entry.
RemoveTimerJob_Keeps(j) ==
  /\ j \in ids /\ ids' = ids \ {j} /\ UNCHANGED <<jobs, cronLifeVars, runningJobs, added>>

\* RemoveTimerJob; a run of the job that has begun goes on.
RemoveTimerJob(j) ==
  /\ j \in ids /\ jobs' = jobs \ {j} /\ ids' = ids \ {j}
  /\ UNCHANGED <<cronLifeVars, runningJobs, added>>

\* RemoveAllJobs: what entryIDs holds; the map is made anew.
RemoveAllJobs ==
  /\ ids # {} /\ jobs' = jobs \ ids /\ ids' = {}
  /\ UNCHANGED <<cronLifeVars, runningJobs, added>>

\* The scheduler: a job is triggered, its run ends (a panic is recovered).
Trigger(j) ==
  /\ ticking /\ j \in jobs \ runningJobs /\ runningJobs' = runningJobs \union {j}
  /\ UNCHANGED <<cronLifeVars, jobVars>>
JobEnds(j) ==
  /\ j \in runningJobs /\ runningJobs' = runningJobs \ {j}
  /\ UNCHANGED <<cronLifeVars, jobVars>>

CronNext ==
  \/ CronStart \/ CronCancel \/ CronStop \/ StopTimeout \/ stopInternal \/ LateHalts
  \/ NewTimerJob \/ RemoveAllJobs
  \/ \E j \in 1..MaxJobs : RemoveTimerJob(j) \/ Trigger(j) \/ JobEnds(j)

JobsEnd == \E j \in 1..MaxJobs : JobEnds(j)
CronSpec == CronInit /\ [][CronNext]_cronVars /\ WF_cronVars(stopInternal) /\ WF_cronVars(JobsEnd)

------------------------------------------------------------------------------
\* The type of the state.
CronTypeOK ==
  /\ cronMuHeld \in {"free", "start", "stop"} /\ {cronStarted, ticking, drained} \subseteq BOOLEAN
  /\ lateHalt \in {"no", "due", "hit"}
  /\ cronStartAt \in {"idle", "wait", "drain"} /\ cronStopAt \in {"idle", "lock", "halt", "drain"}
  /\ jobs \subseteq 1..MaxJobs /\ ids \subseteq 1..MaxJobs /\ runningJobs \subseteq 1..MaxJobs

\* The scheduler has exactly the jobs that can still be removed (entryIDs).
JobsAreKnown == jobs = ids

\* While a server is stopped nothing is triggered, even if Stop gave up before its
\* goroutine ran (Stop has to wait until Start has stopped the scheduler), and a stop
\* that says all jobs stopped gracefully left none running:
\* README "等待正在运行的任务执行完毕后再退出".
StoppedIsQuiet ==
  cronMuHeld = "free" /\ cronStarts > 0 => ~ticking /\ (drained => runningJobs = {})

\* While Start waits the jobs are triggered, unless the goroutine of an earlier Stop
\* halted the scheduler after Start had begun.
StartedTicks == cronStarted => ticking \/ lateHalt = "hit"

\* Start returns when its context is done, after the jobs that run.
CancelledReturns == (cronStartAt # "idle" /\ cronCtx) ~> cronStartAt = "idle"
==============================================================================
