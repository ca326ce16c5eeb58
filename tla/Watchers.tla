------------------------------ MODULE Watchers ------------------------------
(***************************************************************************)
(* config/*: WatchValue of the file, http, oss, redis, kubernetes and nacos *)
(* sources and of the fallback over two of them.                           *)
(*                                                                         *)
(* A source has a value, numbered by the write that made it.  WatchValue   *)
(* starts one goroutine (fallback: one per sub-source) that learns of a    *)
(* change, reads the value and sends it into a channel with one slot; what *)
(* it read may be old by the time there is room.  The stores are external. *)
(* A file source can be watched twice; both goroutines then take from the  *)
(* one event channel of its fsnotify watcher.                              *)
(***************************************************************************)
EXTENDS Integers, Sequences

CONSTANTS Sources,          \* the kinds of source
          MaxWrites,        \* bound: changes of the value
          MaxFails          \* bound: reads that fail

VARIABLES source,
          value, low,       \* the value; fallback: of the first source (0: it has none)
                            \* and of the second
          events,           \* changes announced and not taken: the versions
          etag,             \* lastETag: http, oss
          work,             \* goroutine -> <<>> or <<the value it holds>>
          loading,          \* oss: HEAD saw a new ETag, GET is to come
          alive,            \* goroutines that have not returned
          out, closed,      \* the channel
          ctxDone, panicked,
          last, backwards,  \* what the reader received last; it was older than before
          fails,
          bare,             \* http: the server sends no ETag; redis: messages without payload
          shared,           \* file: a second WatchValue takes from the same events
          missed            \* history: a change was dropped (a lost message, a failed
                            \* read, an event another watch took)

watchVars == <<source, value, low, events, etag, work, loading, alive, out, closed, ctxDone,
               panicked, last, backwards, fails, bare, shared, missed>>

Workers == {1, 2}
Effective(v, l) == IF v # 0 THEN v ELSE l

\* New of a source, and the first part of WatchValue.  http and oss begin with a
\* fetch, the others with the changes to come.
Init ==
  /\ source \in Sources
  /\ value = IF source = "fallback" THEN 0 ELSE 1
  /\ low = 1 /\ events = <<>> /\ etag = 0
  /\ work = [w \in Workers |-> <<>>] /\ loading = FALSE
  /\ alive = IF source = "fallback" THEN Workers ELSE {1}
  /\ out = <<>> /\ closed = FALSE /\ ctxDone = FALSE /\ panicked = FALSE
  /\ last = 0 /\ backwards = FALSE /\ fails = 0 /\ missed = FALSE
  /\ bare \in IF source \in {"http", "redis"} THEN BOOLEAN ELSE {FALSE}
  /\ shared \in IF source = "file" THEN BOOLEAN ELSE {FALSE}

Last == Effective(value, low)
Writes == IF source = "fallback" THEN value + low ELSE value
Ready(k, w) == source = k /\ w \in alive /\ work[w] = <<>>

\* The store changes and announces it, to whoever watches: the version, and for
\* fallback which of its sources changed.  A pub/sub message may be lost.
Write(high) ==
  /\ Writes < MaxWrites + 1 /\ (source # "fallback" => high)
  /\ IF high THEN value' = Writes + 1 /\ UNCHANGED low
             ELSE low' = Writes + 1 /\ UNCHANGED value
  /\ \/ /\ source \notin {"http", "oss"}
        /\ events' = Append(events, <<IF high THEN 1 ELSE 2, Writes + 1>>) /\ UNCHANGED missed
     \/ source \in {"http", "oss"} /\ UNCHANGED <<events, missed>>
     \/ source = "redis" /\ missed' = TRUE /\ UNCHANGED events
  /\ UNCHANGED <<source, etag, work, loading, alive, out, closed, ctxDone, panicked, last, backwards,
                 fails, bare, shared>>

\* The goroutine has the value v and goes on to send it.
Hold(w, v) == /\ work' = [work EXCEPT ![w] = <<v>>]
              /\ UNCHANGED <<source, value, low, alive, out, closed, ctxDone, panicked, last, backwards,
                             bare, shared>>
Failed == /\ fails < MaxFails /\ fails' = fails + 1
          /\ UNCHANGED <<source, value, low, work, alive, out, closed, ctxDone, panicked,
                         last, backwards, bare, shared>>

\* Load of a watch goroutine: the value the store has by now, or an error, which is
\* logged and leaves the reader without this change.
Loads(w, v) == \/ Hold(w, v) /\ UNCHANGED <<fails, missed>>
               \/ Failed /\ missed' = TRUE
FileLoad == Loads(1, value)
RedisLoad == Loads(1, value)

\* fallback: when the first source fails the second one's value is the effective one.
FallbackLoad(w) ==
  \/ Loads(w, Effective(value, low))
  \/ fails < MaxFails /\ fails' = fails + 1 /\ Hold(w, low) /\ missed' = TRUE

\* file: the event of the target file, then ReadFile; a failed read is logged and
\* the event is gone.  Another watch of the source may have taken the event.
FileEvent ==
  /\ Ready("file", 1) /\ events # <<>> /\ events' = Tail(events)
  /\ \/ FileLoad
     \/ shared /\ missed' = TRUE
        /\ UNCHANGED <<source, value, low, work, alive, out, closed, ctxDone, panicked, last, backwards,
                       fails, bare, shared>>
  /\ UNCHANGED <<etag, loading>>

\* http: fetchWithETag at the start and at every tick; 304 if the ETag is the same,
\* and the same body again and again from a server without ETags.
fetchWithETag ==
  \/ value # etag /\ etag' = (IF bare THEN 0 ELSE value) /\ Hold(1, value) /\ UNCHANGED fails
  \/ Failed /\ UNCHANGED etag
HttpPoll ==
  /\ Ready("http", 1) /\ fetchWithETag
  /\ UNCHANGED <<events, loading, missed>>

\* oss: HEAD; a new ETag is remembered at once,
OssHead ==
  /\ Ready("oss", 1) /\ ~loading
  /\ value # etag /\ etag' = value /\ loading' = TRUE
  /\ UNCHANGED <<source, value, low, events, work, alive, out, closed, ctxDone, panicked,
                 last, backwards, fails, bare, shared, missed>>

\* Faulty variant: a failed load ends the watch without closing its channel.
OssLoad_Stops ==
  /\ Ready("oss", 1) /\ loading /\ loading' = FALSE /\ alive' = {}
  /\ UNCHANGED <<source, value, low, events, etag, work, out, closed, ctxDone, panicked,
                 last, backwards, fails, bare, shared, missed>>

\* and the object is loaded, as it is by now; after a failure nothing asks for it
\* again until it changes.
OssLoad ==
  /\ Ready("oss", 1) /\ loading /\ loading' = FALSE
  /\ Loads(1, value)
  /\ UNCHANGED <<events, etag>>

\* redis: the payload of the message, or for an empty one the stored value, whose
\* read may fail.
RedisMessage ==
  /\ Ready("redis", 1) /\ events # <<>> /\ events' = Tail(events)
  /\ \/ bare /\ RedisLoad
     \/ ~bare /\ Hold(1, events[1][2]) /\ UNCHANGED <<fails, missed>>
  /\ UNCHANGED <<etag, loading>>

\* kubernetes: the object is in the event; one without the key is passed over.
configMapData == Loads(1, events[1][2])
KubernetesEvent ==
  /\ Ready("kubernetes", 1) /\ events # <<>> /\ events' = Tail(events)
  /\ configMapData /\ UNCHANGED <<etag, loading>>

\* The end of a watch: the result channel closes or the map is deleted (kubernetes),
\* the subscription ends (redis), the fsnotify watcher fails or is closed (file).
SourceEnds ==
  /\ source \in {"file", "redis", "kubernetes"} /\ Ready(source, 1)
  /\ alive' = {} /\ closed' = TRUE
  /\ UNCHANGED <<source, value, low, events, etag, work, loading, out, ctxDone, panicked,
                 last, backwards, fails, bare, shared, missed>>

\* nacos: the client calls OnChange with the content, one call at a time.
NacosOnChange ==
  /\ source = "nacos" /\ work[1] = <<>> /\ ~panicked /\ events # <<>> /\ events' = Tail(events)
  /\ Hold(1, events[1][2]) /\ UNCHANGED <<etag, loading, fails, missed>>

\* fallback: sub-source w announced a change; the effective value is read again.
FallbackEvent(w) ==
  /\ Ready("fallback", w) /\ \E i \in 1..Len(events) : events[i][1] = w
  /\ LET i == CHOOSE i \in 1..Len(events) :
                events[i][1] = w /\ \A j \in 1..(i - 1) : events[j][1] # w
     IN events' = SubSeq(events, 1, i - 1) \o SubSeq(events, i + 1, Len(events))
  /\ FallbackLoad(w)
  /\ UNCHANGED <<etag, loading>>

------------------------------------------------------------------------------
\* select { out <- data; <-ctx.Done() }: a nacos callback may send after the other
\* goroutine closed the channel.
Send(w) ==
  /\ work[w] # <<>> /\ ~panicked
  /\ \/ /\ ~closed /\ out = <<>> /\ out' = work[w] /\ UNCHANGED panicked
     \/ /\ closed /\ panicked' = TRUE /\ UNCHANGED out
  /\ work' = [work EXCEPT ![w] = <<>>]
  /\ UNCHANGED <<source, value, low, events, etag, loading, alive, closed, ctxDone, last, backwards,
                 fails, bare, shared, missed>>

\* Faulty variant: a goroutine that holds a value ignores the context.
Leave_OnlyIdle(w) ==
  /\ ctxDone /\ w \in alive /\ work[w] = <<>>
  /\ work' = work /\ alive' = alive \ {w}
  /\ closed' = (alive' = {})
  /\ UNCHANGED <<source, value, low, events, etag, loading, out, ctxDone, panicked, last, backwards,
                 fails, bare, shared, missed>>

\* ctx.Done() in either select: the goroutine returns, the last one closes the
\* channel.  nacos has a goroutine of its own for this; the callback gives up its
\* value, but only when it looks.
Leave(w) ==
  /\ ctxDone /\ w \in alive
  /\ work' = IF source = "nacos" THEN work ELSE [work EXCEPT ![w] = <<>>]
  /\ alive' = alive \ {w} /\ closed' = (alive' = {})
  /\ UNCHANGED <<source, value, low, events, etag, loading, out, ctxDone, panicked, last, backwards,
                 fails, bare, shared, missed>>
NacosGivesUp ==
  /\ source = "nacos" /\ ctxDone /\ work[1] # <<>> /\ work' = [work EXCEPT ![1] = <<>>]
  /\ UNCHANGED <<source, value, low, events, etag, loading, alive, out, closed, ctxDone,
                 panicked, last, backwards, fails, bare, shared, missed>>

\* The reader.
Receive ==
  /\ out # <<>> /\ out' = <<>> /\ last' = out[1] /\ backwards' = (backwards \/ out[1] < last)
  /\ UNCHANGED <<source, value, low, events, etag, work, loading, alive, closed, ctxDone,
                 panicked, fails, bare, shared, missed>>
Cancel ==
  /\ ~ctxDone /\ ctxDone' = TRUE
  /\ UNCHANGED <<source, value, low, events, etag, work, loading, alive, out, closed,
                 panicked, last, backwards, fails, bare, shared, missed>>

Learn == \/ FileEvent \/ HttpPoll \/ OssHead \/ OssLoad \/ RedisMessage \/ KubernetesEvent
         \/ NacosOnChange \/ \E w \in Workers : FallbackEvent(w)
Sends == \E w \in Workers : Send(w)
Leaves == \E w \in Workers : Leave(w)
Next == \/ \E high \in BOOLEAN : Write(high)
        \/ Learn \/ SourceEnds \/ Sends \/ Leaves \/ NacosGivesUp \/ Receive \/ Cancel

\* A reader that cancelled its watch need not go on reading.
Works == Learn \/ Sends \/ (~ctxDone /\ Receive)
Spec == Init /\ [][Next]_watchVars /\ WF_watchVars(Works) /\ WF_watchVars(Leaves)

------------------------------------------------------------------------------
\* The type of the state.
TypeOK ==
  /\ source \in Sources /\ value \in 0..(MaxWrites + 1) /\ low \in 0..(MaxWrites + 1)
  /\ {loading, closed, ctxDone, panicked, shared, missed} \subseteq BOOLEAN
  /\ Len(out) <= 1 /\ \A w \in Workers : Len(work[w]) <= 1
  /\ etag \in 0..(MaxWrites + 1) /\ fails \in 0..MaxFails /\ alive \subseteq Workers

\* The reader never sees an older value after a newer one: one goroutine reads and
\* sends in turn.  fallback is left out: its goroutines read, and send, in any order.
NeverBackwards ==
  backwards => source = "fallback"

\* Only nacos, whose channel is closed by another goroutine than the one that
\* sends, can send into a closed channel, and only after the context was cancelled.
SendsAreSafe == panicked => source = "nacos" /\ ctxDone

Written == Writes = MaxWrites + 1
Seen == \/ last = Last \/ (source = "fallback" /\ last # 0)
        \/ missed \/ ctxDone \/ closed

\* config.go: "receives the new raw value each time the data ... changes".  When the
\* writes end, the reader gets the last value (some value of fallback, whose
\* sub-sources race), unless an announcement was lost, a read failed, or the watch
\* was cancelled or ended.
Converges == Written ~> Seen

\* config.go: "The channel is closed when the watcher is stopped or ctx is
\* cancelled".
CancelCloses == ctxDone ~> (closed \/ panicked)

(***************************************************************************)
(* registry/kubernetes and registry/nacos: one process registers and       *)
(* deregisters an instance with several endpoints, another one watches the *)
(* service.                                                                *)
(*                                                                         *)
(* On Kubernetes the instance is the labels of the process's own pod: one  *)
(* patch, and the pod informer calls the handlers of Watch one after       *)
(* another; each lists the instances and sends the list into a channel     *)
(* with one slot.  On Nacos every endpoint is registered by a call of its  *)
(* own; the callback only leaves a signal in a channel with one slot, and  *)
(* Next fetches the list.  The API server and the Nacos server are         *)
(* external.  Nacos keeps a service for every scheme: the endpoints have   *)
(* the one that the watcher asks for.                                      *)
(***************************************************************************)
CONSTANTS Registries,       \* subset of {"kubernetes", "nacos"}
          Endpoints,        \* the endpoints of the instance, a sequence
          MaxOps,           \* bound: calls of Register and Deregister
          MaxErrs           \* bound: calls of the server that fail

VARIABLES registry,
          listed,           \* what the server has
          op, todo,         \* the call under way and the endpoints it has left
          outcome,          \* what the last call that returned did
          notices,          \* changes the client library has not called back yet
          slot,             \* announcement (a list) / watchChan (a signal): <<>> or <<x>>
          sending,          \* kubernetes: the list the handler is sending
          fetching,         \* nacos: Next took the signal and asks the server
          stopped,          \* Stop of the watcher
          next,             \* "call", "wait", "closed": the reader
          known,            \* the list the reader has
          ops, errs,
          unfetched         \* history: Next failed after it took the signal

registryVars == <<registry, listed, op, todo, outcome, notices, slot, sending, fetching,
                  stopped, next, known, ops, errs, unfetched>>
serverVars == <<registry, listed, op, todo, outcome, ops>>
watcherVars == <<slot, sending, fetching, stopped, next, known, unfetched>>

All == {Endpoints[i] : i \in 1..Len(Endpoints)}

\* Watch of the pod informer's handlers, which have been called for no pod yet, and
\* newWatcher, which leaves the first signal itself.
Watch == <<>>
newWatcher == <<{}>>

RegistryInit ==
  /\ registry \in Registries /\ listed = {} /\ op = "none" /\ todo = <<>> /\ outcome = "none"
  /\ notices = 0 /\ slot = IF registry = "nacos" THEN newWatcher ELSE Watch
  /\ sending = <<>> /\ fetching = FALSE /\ stopped = FALSE /\ next = "call" /\ known = {}
  /\ ops = 0 /\ errs = 0 /\ unfetched = FALSE

Begin(o) ==
  /\ op = "none" /\ ops < MaxOps /\ op' = o /\ ops' = ops + 1
  /\ todo' = Endpoints /\ outcome' = "none"
  /\ UNCHANGED <<registry, listed, notices, errs>> /\ UNCHANGED watcherVars

Refused == /\ errs < MaxErrs /\ errs' = errs + 1 /\ op' = "none" /\ todo' = <<>>
           /\ UNCHANGED <<listed, notices, outcome>>

\* kubernetes: one patch of the pod's labels and annotations.
KubernetesPatch(o, endpoints) ==
  /\ registry = "kubernetes" /\ op = o
  /\ \/ /\ listed' = endpoints
        /\ notices' = notices + (IF listed' # {} \/ listed # {} THEN 1 ELSE 0)
        /\ op' = "none" /\ todo' = <<>> /\ outcome' = op /\ UNCHANGED errs
     \/ Refused
  /\ UNCHANGED <<registry, ops>> /\ UNCHANGED watcherVars

\* Register, and Deregister, which registers an instance without a name.
KubernetesRegister == KubernetesPatch("register", All)
KubernetesDeregister == KubernetesPatch("deregister", {})

\* Faulty variant: an error of one endpoint does not end the call.
NacosEndpoint_GoesOn(o, endpoints) ==
  /\ registry = "nacos" /\ op = o /\ todo # <<>> /\ todo' = Tail(todo)
  /\ \/ /\ listed' = endpoints
        /\ notices' = notices + (IF listed' # listed THEN 1 ELSE 0) /\ UNCHANGED errs
     \/ errs < MaxErrs /\ errs' = errs + 1 /\ UNCHANGED <<listed, notices>>
  /\ op' = (IF todo' = <<>> THEN "none" ELSE op)
  /\ outcome' = (IF todo' = <<>> THEN op ELSE outcome)
  /\ UNCHANGED <<registry, ops>> /\ UNCHANGED watcherVars

\* nacos: one call per endpoint, in order; the first error ends it and leaves what
\* was done.
NacosEndpoint(o, endpoints) ==
  /\ registry = "nacos" /\ op = o /\ todo # <<>>
  /\ \/ /\ listed' = endpoints
        /\ notices' = notices + (IF listed' # listed THEN 1 ELSE 0)
        /\ todo' = Tail(todo)
        /\ op' = (IF todo' = <<>> THEN "none" ELSE op)
        /\ outcome' = (IF todo' = <<>> THEN op ELSE outcome)
        /\ UNCHANGED errs
     \/ Refused
  /\ UNCHANGED <<registry, ops>> /\ UNCHANGED watcherVars

NacosRegister == NacosEndpoint("register", listed \union {Head(todo)})
NacosDeregister == NacosEndpoint("deregister", listed \ {Head(todo)})

------------------------------------------------------------------------------
\* The instances of the service that the pod lister has.
GetService == listed

\* The informer calls the handler: the filter rejects everything once the watcher
\* is stopped, else sendLatestInstances lists the instances (GetService).
sendLatestInstances ==
  /\ registry = "kubernetes" /\ notices > 0 /\ sending = <<>> /\ notices' = notices - 1
  /\ sending' = (IF stopped THEN <<>> ELSE <<GetService>>)
  /\ UNCHANGED <<slot, fetching, stopped, next, known, errs, unfetched>> /\ UNCHANGED serverVars

\* announcement <- instances: no select, so it waits for room whatever happens.
Announce ==
  /\ sending # <<>> /\ slot = <<>> /\ slot' = sending /\ sending' = <<>>
  /\ UNCHANGED <<notices, fetching, stopped, next, known, errs, unfetched>>
  /\ UNCHANGED serverVars

\* nacos SubscribeCallback: a signal, unless there is one already; after
\* Unsubscribe there is no callback.
SubscribeCallback ==
  /\ registry = "nacos" /\ notices > 0 /\ notices' = notices - 1
  /\ slot' = (IF stopped THEN slot ELSE <<{}>>)
  /\ UNCHANGED <<sending, fetching, stopped, next, known, errs, unfetched>>
  /\ UNCHANGED serverVars

\* Next is called, and takes what is there; a stopped watcher may answer either.
NextCall ==
  /\ next = "call" /\ next' = "wait"
  /\ UNCHANGED <<notices, slot, sending, fetching, stopped, known, errs, unfetched>>
  /\ UNCHANGED serverVars
NextTakes ==
  /\ next = "wait" /\ ~fetching /\ slot # <<>> /\ slot' = <<>>
  /\ IF registry = "kubernetes"
       THEN known' = slot[1] /\ next' = "call" /\ UNCHANGED fetching
       ELSE fetching' = TRUE /\ UNCHANGED <<known, next>>
  /\ UNCHANGED <<notices, sending, stopped, errs, unfetched>> /\ UNCHANGED serverVars

\* nacos: the list of the server; a failure is returned and the signal is gone.
NextFetches ==
  /\ fetching /\ fetching' = FALSE /\ next' = "call"
  /\ \/ known' = listed /\ UNCHANGED <<errs, unfetched>>
     \/ errs < MaxErrs /\ errs' = errs + 1 /\ unfetched' = TRUE /\ UNCHANGED known
  /\ UNCHANGED <<notices, slot, sending, stopped>> /\ UNCHANGED serverVars
NextClosed ==
  /\ next = "wait" /\ ~fetching /\ stopped /\ next' = "closed"
  /\ UNCHANGED <<notices, slot, sending, fetching, stopped, known, errs, unfetched>>
  /\ UNCHANGED serverVars

\* Stop of the iterator, or of the nacos watcher.
Stop ==
  /\ ~stopped /\ stopped' = TRUE
  /\ UNCHANGED <<notices, slot, sending, fetching, next, known, errs, unfetched>>
  /\ UNCHANGED serverVars

Calls == KubernetesRegister \/ KubernetesDeregister \/ NacosRegister \/ NacosDeregister
Callbacks == sendLatestInstances \/ Announce \/ SubscribeCallback
Reads == NextCall \/ NextTakes \/ NextFetches \/ NextClosed
RegistryNext == \/ \E o \in {"register", "deregister"} : Begin(o)
        \/ Calls \/ Callbacks \/ Reads \/ Stop

RegistryWorks == Calls \/ Callbacks \/ Reads
RegistrySpec == RegistryInit /\ [][RegistryNext]_registryVars /\ WF_registryVars(RegistryWorks)

------------------------------------------------------------------------------
\* The type of the state.
RegistryTypeOK ==
  /\ registry \in Registries /\ listed \subseteq All /\ known \subseteq All
  /\ op \in {"none", "register", "deregister"} /\ outcome \in {"none", "register", "deregister"}
  /\ Len(slot) <= 1 /\ Len(sending) <= 1 /\ notices \in 0..(MaxOps * Len(Endpoints))
  /\ {fetching, stopped, unfetched} \subseteq BOOLEAN /\ next \in {"call", "wait", "closed"}

\* Register that returned nil listed every endpoint and Deregister that returned nil
\* left none, whatever earlier calls stopped half way.
CallsAreWhole ==
  op = "none" => /\ outcome = "register" => listed = All
                 /\ outcome = "deregister" => listed = {}

\* The change behind the current list is never lost: it is still to be called back,
\* in the handler, in the slot or being fetched, unless the reader has it, the
\* watcher was stopped or a fetch failed.
ChangeIsUnderway ==
  \/ known = listed \/ stopped \/ unfetched
  \/ notices > 0 \/ fetching
  \/ IF registry = "nacos" THEN slot # <<>>
     ELSE IF sending # <<>> THEN sending = <<listed>> ELSE slot = <<listed>>

CaughtUp == (op = "none" /\ known = listed) \/ stopped \/ unfetched

\* A reader that keeps calling Next ends with the list of the server, once the
\* calls have ended (resp. stopped the watcher; or lost a fetch).
Catches == (ops = MaxOps) ~> CaughtUp

\* A handler of the pod informer that is sending gets rid of its list, unless the
\* iterator was stopped: nobody has to read then, and the send has no way out.
HandlerGoesOn == (sending # <<>>) ~> (sending = <<>> \/ stopped)
==============================================================================
