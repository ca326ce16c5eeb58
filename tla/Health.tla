-------------------------------- MODULE Health --------------------------------
(***************************************************************************)
(* health: the aggregator.  Check takes a copy of the checkers under the   *)
(* read lock and runs each in a goroutine, behind a second one that waits  *)
(* for its result or for the timeout; results arrive in any order and are  *)
(* folded into one status.  Checkers are registered and removed meanwhile. *)
(* A checker may ignore its context and never return.                      *)
(***************************************************************************)
EXTENDS Integers, Sequences

CONSTANTS Names,            \* the names checkers are registered under
          MaxChecks         \* bound: calls of Check

Statuses == {"up", "down", "unknown"}
CheckerKinds == {"one", "all", "any"}    \* a TCP, HTTP or ping checker; All; Any

VARIABLES checkers,         \* name -> kind, for the registered names
          check,            \* "idle", "run": a call of Check is folding results
          asked,            \* its copy of checkers
          inner,            \* name -> "none", "run", "done", "left": the checker's goroutine;
                            \* "left": it runs on after the timeout
          answer,           \* name -> the status it returned
          resultCh,         \* name -> what is in the channel: "none" or a status
          details,          \* name -> the status folded into the result
          overall, timedOut,
          result,           \* the status Check returned last: <<status, names, details>>
          checks

healthVars == <<checkers, check, asked, inner, answer, resultCh, details, overall, timedOut,
                result, checks>>

Nothing == [n \in Names |-> "none"]
In(f) == {n \in Names : f[n] # "none"}

\* New.
Init ==
  /\ checkers = Nothing /\ check = "idle" /\ asked = Nothing /\ inner = Nothing
  /\ answer = Nothing /\ resultCh = Nothing /\ details = Nothing
  /\ overall = "up" /\ timedOut = FALSE /\ result = <<>> /\ checks = 0

Register(n, k) ==
  /\ checkers' = [checkers EXCEPT ![n] = k]
  /\ UNCHANGED <<check, asked, inner, answer, resultCh, details, overall, timedOut, result,
                 checks>>
Deregister(n) == Register(n, "none")

\* Check, up to the goroutines: with nothing registered it returns at once.
\* Goroutines left behind by an earlier call only write into channels of their own.
Check ==
  /\ check = "idle" /\ checks < MaxChecks /\ checks' = checks + 1
  /\ asked' = checkers /\ details' = Nothing /\ resultCh' = Nothing /\ answer' = Nothing
  /\ overall' = "up" /\ timedOut' = FALSE
  /\ inner' = [n \in Names |-> IF n \in In(checkers) THEN "run" ELSE "none"]
  /\ IF In(checkers) = {} THEN result' = <<"up", {}, Nothing>> /\ UNCHANGED check
     ELSE check' = "run" /\ result' = <<>>
  /\ UNCHANGED checkers

\* All.Check: the first Down decides; Unknown passes.  Any.Check: the first Up.
AllCheck(s) == IF \E i \in DOMAIN s : s[i] = "down" THEN "down" ELSE "up"
AnyCheck(s) == IF \E i \in DOMAIN s : s[i] = "up" THEN "up" ELSE "down"
Outcomes(k) == CASE k = "one" -> Statuses
                 [] k = "all" -> {AllCheck(s) : s \in [1..2 -> Statuses]}
                 [] k = "any" -> {AnyCheck(s) : s \in [1..2 -> Statuses]}

\* The checker returns into done, which has a slot for it: also after the timeout.
CheckerReturns(n) ==
  /\ inner[n] \in {"run", "left"}
  /\ \E s \in Outcomes(asked[n]) :
       /\ answer' = [answer EXCEPT ![n] = s]
       /\ inner' = [inner EXCEPT ![n] = IF inner[n] = "left" THEN "none" ELSE "done"]
  /\ UNCHANGED <<checkers, check, asked, resultCh, details, overall, timedOut, result, checks>>

\* context.WithTimeout fires, or the caller's context ends.
Timeout ==
  /\ check = "run" /\ ~timedOut /\ timedOut' = TRUE
  /\ UNCHANGED <<checkers, check, asked, inner, answer, resultCh, details, overall, result,
                 checks>>

\* The waiting goroutine: the result, or Down once the time is over; if both are
\* there, either.
Waiting(n) == check = "run" /\ n \in In(asked) /\ resultCh[n] = "none" /\ details[n] = "none"
Answered(n) ==
  /\ Waiting(n) /\ inner[n] = "done" /\ inner' = [inner EXCEPT ![n] = "none"]
  /\ resultCh' = [resultCh EXCEPT ![n] = answer[n]]
  /\ UNCHANGED <<checkers, check, asked, answer, details, overall, timedOut, result, checks>>
GaveUp(n) ==
  /\ Waiting(n) /\ timedOut
  /\ inner' = [inner EXCEPT ![n] = IF inner[n] = "run" THEN "left" ELSE "none"]
  /\ resultCh' = [resultCh EXCEPT ![n] = "down"]
  /\ UNCHANGED <<checkers, check, asked, answer, details, overall, timedOut, result, checks>>

\* Faulty variant: an Unknown that comes later overrides a Down.
Fold_LastWins(o, s) == IF s \in {"down", "unknown"} THEN s ELSE o

Fold(o, s) == IF s = "down" THEN "down"
              ELSE IF s = "unknown" /\ o # "down" THEN "unknown" ELSE o

\* Faulty variant: Check ends with the first Down.
Collect_Short(n) ==
  /\ check = "run" /\ resultCh[n] # "none"
  /\ details' = [details EXCEPT ![n] = resultCh[n]]
  /\ resultCh' = [resultCh EXCEPT ![n] = "none"]
  /\ overall' = Fold(overall, resultCh[n])
  /\ IF overall' = "down" \/ \A a \in In(asked) : details'[a] # "none"
       THEN check' = "idle" /\ result' = <<overall', In(asked), details'>>
       ELSE UNCHANGED <<check, result>>
  /\ UNCHANGED <<checkers, asked, inner, answer, timedOut, checks>>

\* Check receives one result per name, in the order they come, and returns.
Collect(n) ==
  /\ check = "run" /\ resultCh[n] # "none"
  /\ details' = [details EXCEPT ![n] = resultCh[n]]
  /\ resultCh' = [resultCh EXCEPT ![n] = "none"]
  /\ overall' = Fold(overall, resultCh[n])
  /\ IF \A a \in In(asked) : details'[a] # "none"
       THEN check' = "idle" /\ result' = <<overall', In(asked), details'>>
       ELSE UNCHANGED <<check, result>>
  /\ UNCHANGED <<checkers, asked, inner, answer, timedOut, checks>>

\* Handler.ServeHTTP: 503 for Down, else 200.
ServeHTTP(status) == IF status = "down" THEN 503 ELSE 200

Proceeds == Timeout \/ \E n \in Names : Answered(n) \/ GaveUp(n) \/ Collect(n)
Next == \/ \E n \in Names : \/ \E k \in CheckerKinds : Register(n, k)
                            \/ Deregister(n) \/ CheckerReturns(n)
        \/ Check \/ Proceeds

\* The timer and Check's own goroutines run; a checker need not return.
Spec == Init /\ [][Next]_healthVars /\ WF_healthVars(Proceeds)

------------------------------------------------------------------------------
\* The type of the state.
TypeOK ==
  /\ \A n \in Names : /\ checkers[n] \in CheckerKinds \union {"none"}
                      /\ inner[n] \in {"none", "run", "done", "left"}
                      /\ {answer[n], resultCh[n], details[n]} \subseteq Statuses \union {"none"}
  /\ check \in {"idle", "run"} /\ overall \in Statuses

\* health.go: "any Down: Down; else any Unknown: Unknown; else Up", over exactly the
\* checkers registered when Check was called, in whatever order they answer.
OverallIsWorst ==
  result # <<>> =>
    LET got == {result[3][n] : n \in result[2]}
    IN /\ "none" \notin got
       /\ result[1] = (IF "down" \in got THEN "down"
                       ELSE IF "unknown" \in got THEN "unknown" ELSE "up")
       /\ (ServeHTTP(result[1]) = 503) = ("down" \in got)

\* A checker that was still running at the timeout counts as Down: an answer that
\* comes later, while Check still waits for others, does not change it.
LateIsDown ==
  \A n \in Names : inner[n] = "left" => resultCh[n] = "down" \/ details[n] = "down"

\* Check returns although a checker never does.
CheckReturns == (check = "run") ~> (check = "idle")
===============================================================================
