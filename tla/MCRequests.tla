----------------------------- MODULE MCRequests -----------------------------
(***************************************************************************)
(* What a request meets and what carries the servers that take it.  unit   *)
(* names the part that runs; the others rest in an initial state.          *)
(*   retry     the retrier with its middlewares                            *)
(*   timeout   the timeout middleware                                      *)
(*   cache     the local cache                                             *)
(*   router    the context pool of the HTTP/3 router                       *)
(*   health    health checks                                               *)
(*   server    Start and Stop of the servers that listen                   *)
(*   cron, asynq   the job and task servers                                *)
(*   config, registry   the watchers of configuration and instances        *)
(***************************************************************************)
EXTENDS Retry

CONSTANTS Units, MaxWrites, CacheKeys, Lockers, TTLs, DefaultTTL, Second, MaxTime,
          Reqs, Wrappers, Names, MaxChecks, ServerKinds, MaxStarts, Middlewares, MaxJobs,
          Types, MaxEntries, Sources, MaxFails, Registries, MaxOps, MaxErrs

VARIABLES unit, mw, handler, late, response, clock, entry, nx, won, clobbered,
          pool, fresh, wrapper, held, stage, wanted, rsent, leaked,
          checkers, check, asked, inner, answer, resultCh, details, overall, timedOut,
          hresult, checks,
          lkind, tls, mws, chain, service, srv, loop, bound, errChan, startAt, stopAt, lctx,
          lstarted, sticky, req, path, lstarts, stops,
          cronMuHeld, cronStarted, ticking, cronStartAt, cronStopAt, cronCtx, stopCtx, jobs,
          ids, runningJobs, added, cronStarts, lateHalt, drained,
          redis, given, applied, graceful, scheduling, mu, started, actx, astartAt, astopAt,
          server, scheduler, client, entryIDs, entries, adding, removing, made, starts,
          names, task, waiter, twice, alate,
          source, value, low, events, etag, work, loading, alive, out, closed, wctx,
          panicked, wlast, backwards, fails, bare, shared, missed,
          registry, listed, op, todo, outcome, notices, slot, sending, fetching, stopped,
          next, known, ops, errs, unfetched

timeoutVars  == <<mw, handler, late, response>>
cacheVars    == <<clock, entry, nx, won, clobbered>>
routerVars   == <<pool, fresh, wrapper, held, stage, wanted, rsent, leaked>>
healthVars   == <<checkers, check, asked, inner, answer, resultCh, details, overall,
                  timedOut, hresult, checks>>
serverVars   == <<lkind, tls, mws, chain, service, srv, loop, bound, errChan, startAt,
                  stopAt, lctx, lstarted, sticky, req, path, lstarts, stops>>
cronVars     == <<cronMuHeld, cronStarted, ticking, cronStartAt, cronStopAt, cronCtx,
                  stopCtx, jobs, ids, runningJobs, added, cronStarts, lateHalt, drained>>
asynqVars    == <<redis, given, applied, graceful, scheduling, mu, started, actx, astartAt,
                  astopAt, server, scheduler, client, entryIDs, entries, adding, removing,
                  made, starts, names, task, waiter, twice, alate>>
configVars   == <<source, value, low, events, etag, work, loading, alive, out, closed, wctx,
                  panicked, wlast, backwards, fails, bare, shared, missed>>
registryVars == <<registry, listed, op, todo, outcome, notices, slot, sending, fetching,
                  stopped, next, known, ops, errs, unfetched>>
requestVars  == <<vars, timeoutVars, cacheVars, routerVars, healthVars>>
hostVars     == <<serverVars, cronVars, asynqVars>>
watchVars    == <<configVars, registryVars>>
suiteVars    == <<unit, requestVars, hostVars, watchVars>>

T == INSTANCE HttpRequests WITH sent <- rsent
C == INSTANCE LocalCache
H == INSTANCE Health WITH result <- hresult
L == INSTANCE Lifecycle WITH Kinds <- ServerKinds, kind <- lkind, ctxDone <- lctx,
                             started <- lstarted, starts <- lstarts
J == INSTANCE Jobs WITH ctxDone <- actx, startAt <- astartAt, stopAt <- astopAt,
                         late <- alate
W == INSTANCE Watchers WITH ctxDone <- wctx, last <- wlast, Endpoints <- <<"e1", "e2">>

RetryOnly(X)    == unit = "retry" /\ X /\ UNCHANGED <<unit, hostVars, watchVars>>
                   /\ UNCHANGED <<timeoutVars, cacheVars, routerVars, healthVars>>
TimeoutOnly(X)  == unit = "timeout" /\ X /\ UNCHANGED <<unit, hostVars, watchVars>>
                   /\ UNCHANGED <<vars, cacheVars, routerVars, healthVars>>
CacheOnly(X)    == unit = "cache" /\ X /\ UNCHANGED <<unit, hostVars, watchVars>>
                   /\ UNCHANGED <<vars, timeoutVars, routerVars, healthVars>>
RouterOnly(X)   == unit = "router" /\ X /\ UNCHANGED <<unit, hostVars, watchVars>>
                   /\ UNCHANGED <<vars, timeoutVars, cacheVars, healthVars>>
HealthOnly(X)   == unit = "health" /\ X /\ UNCHANGED <<unit, hostVars, watchVars>>
                   /\ UNCHANGED <<vars, timeoutVars, cacheVars, routerVars>>
ServerOnly(X)   == unit = "server" /\ X /\ UNCHANGED <<unit, requestVars, watchVars>>
                   /\ UNCHANGED <<cronVars, asynqVars>>
CronOnly(X)     == unit = "cron" /\ X /\ UNCHANGED <<unit, requestVars, watchVars>>
                   /\ UNCHANGED <<serverVars, asynqVars>>
AsynqOnly(X)    == unit = "asynq" /\ X /\ UNCHANGED <<unit, requestVars, watchVars>>
                   /\ UNCHANGED <<serverVars, cronVars>>
ConfigOnly(X)   == unit = "config" /\ X /\ UNCHANGED <<unit, requestVars, hostVars>>
                   /\ UNCHANGED registryVars
RegistryOnly(X) == unit = "registry" /\ X /\ UNCHANGED <<unit, requestVars, hostVars>>
                   /\ UNCHANGED configVars

\* The server of the tasks has its options pinned, or nothing else is done with it.
AsynqOptions == redis = [type |-> "single", by |-> "pointer"] /\ given = J!Params

SuiteInit ==
  /\ unit \in Units
  /\ Init /\ T!Init /\ C!Init /\ T!RouterInit /\ H!Init
  /\ unit # "retry" => ~ctxDone /\ kind = "do"
  /\ unit # "server" => lkind = "grpc"
  /\ L!Init /\ J!CronInit
  /\ unit # "asynq" => AsynqOptions /\ graceful = TRUE /\ scheduling = TRUE
  /\ J!Init
  /\ unit # "config" => source = "oss"
  /\ W!Init
  /\ unit # "registry" => registry = "nacos"
  /\ W!RegistryInit

\* Bounds of "asynq": a behaviour with periodic tasks has no other task and registers no
\* subscriber, and makes one of them if it starts the server twice.
Small == AsynqOptions /\ (made' > 0 => task' = "none" /\ names' = {})
                      /\ (starts' > 1 => made' < 2)

SuiteNext ==
  \/ RetryOnly(Next) \/ TimeoutOnly(T!Next) \/ CacheOnly(C!Next) \/ RouterOnly(T!RouterNext)
  \/ HealthOnly(H!Next) \/ ServerOnly(L!Next) \/ CronOnly(J!CronNext)
  \/ AsynqOnly(J!Next /\ Small) \/ ConfigOnly(W!Next) \/ RegistryOnly(W!RegistryNext)

\* What runs by itself in each part; the parts exclude one another, so that one
\* condition serves them all.
SuiteFairness ==
  /\ WF_suiteVars(\/ RetryOnly(Progress)
                  \/ TimeoutOnly(T!SeesDone \/ T!TimesOut)
                  \/ HealthOnly(H!Proceeds)
                  \/ ServerOnly(L!StartWorks)
                  \/ CronOnly(J!stopInternal)
                  \/ AsynqOnly(J!Works /\ Small)
                  \/ ConfigOnly(W!Works)
                  \/ RegistryOnly(W!RegistryWorks))
  /\ WF_suiteVars(\/ RetryOnly(Tick /\ pc = "sleeping")
                  \/ TimeoutOnly(T!Deadline)
                  \/ ServerOnly(L!RequestEnds)
                  \/ CronOnly(J!JobsEnd)
                  \/ ConfigOnly(W!Leaves))

SuiteSpec == SuiteInit /\ [][SuiteNext]_suiteVars /\ SuiteFairness

------------------------------------------------------------------------------
\* The types of the parts.
AllTypesOK == /\ TypeOK /\ T!TypeOK /\ H!TypeOK /\ L!TypeOK /\ J!CronTypeOK /\ J!TypeOK
              /\ W!TypeOK /\ W!RegistryTypeOK

\* The HTTP retry middleware and the unary interceptor answer once, with the outcome
\* of the last attempt; a cache entry
\* is never found once its TTL is over; a pooled context is its
\* request's own; the overall health is the worst there is, late answers included.
AnswersAreTrue ==
  /\ AnsweredOnce /\ C!NeverOutlived
  /\ T!ContextIsOwn /\ T!StatusIsOwn
  /\ H!OverallIsWorst /\ H!LateIsDown

\* A server whose Start has returned is down, its requests go through what Use was
\* given, and a job or a task is known to the table that can remove it.  No watcher
\* sends on a closed channel or hands out an older value than before, a registration
\* is made for all endpoints or reported, and a change the reader does not have is on
\* its way.
HostsAgree ==
  /\ L!ChainIsUse /\ L!ReturnedIsDown /\ L!WaitsForSomebody
  /\ J!JobsAreKnown /\ J!StoppedIsQuiet /\ J!StartedTicks /\ J!StoppedConsumesNothing
  /\ J!OneLifecycle /\ J!PeriodicIsKnown /\ J!StoppedIsEmpty /\ J!FirstRunConsumes
  /\ J!DoneIsCompleted /\ J!OptionsArrive
  /\ W!SendsAreSafe /\ W!NeverBackwards
  /\ W!CallsAreWhole /\ W!ChangeIsUnderway

On(u, P) == unit = u /\ P

\* Do returns, the retry and timeout middlewares answer even if a handler never
\* returns, Check returns although a checker does not, Start of a server returns
\* when its context is done, and Stop once it has the lock.  When the writes are over
\* the reader of a watch has the last value, a cancelled watch closes its channel and
\* an informer's handler is not stuck in its send unless the iterator was stopped.
CallsReturn ==
  /\ (\/ On("retry", pc # "done") \/ On("timeout", mw = "select")
      \/ On("health", check = "run") \/ On("server", L!Cancelled)
      \/ On("cron", cronStartAt # "idle" /\ cronCtx) \/ On("asynq", J!LastStop)
      \/ On("config", W!Written) \/ On("registry", ops = MaxOps))
    ~> (\/ On("retry", pc = "done") \/ On("timeout", mw = "returned")
        \/ On("health", check = "idle") \/ On("server", startAt = "idle")
        \/ On("cron", cronStartAt = "idle") \/ On("asynq", astopAt = "idle")
        \/ On("config", W!Seen) \/ On("registry", W!CaughtUp))
  /\ (On("config", wctx) \/ On("registry", sending # <<>>))
    ~> (On("config", closed \/ panicked) \/ On("registry", sending = <<>> \/ stopped))

\* A SetNX that returns true did not replace the live entry of another that did.
CacheSetNXExclusive == C!SetNXExclusive
=============================================================================
