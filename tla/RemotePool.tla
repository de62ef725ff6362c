----------------------------- MODULE RemotePool -----------------------------
(***************************************************************************)
(* RunMany of src/cli/remote/remote.go: a fixed number of goroutines take  *)
(* hosts from an unbuffered channel and run a command on each over SSH.    *)
(*                                                                         *)
(* A step is one goroutine's next action on what they share: the handing   *)
(* over of a host, the look at the stop flag, the end of a session and the *)
(* writing of its result, the raising of the flag, the exit.  The flag and *)
(* the context only ever go up, so reading one after the other is the same *)
(* as reading both at once.                                                *)
(***************************************************************************)
EXTENDS Integers, FiniteSets

CONSTANTS N,            \* the number of hosts
          Concurrency,  \* --concurrency, as given
          MayCancel     \* whether the caller's context can be cancelled

ASSUME PoolAssumption == N \in Nat /\ Concurrency \in Int /\ MayCancel \in BOOLEAN

Hosts == 1..N
Limit == IF Concurrency < 1 THEN 1 ELSE Concurrency
Workers == 1..Limit

VARIABLES exitOnError, cancelled,   \* the flag and the context
          main, next,               \* the goroutine that feeds, the next host
          doing, job,                  \* doing[w], job[w]: where worker w is, its host
          results, stop             \* results[i], stopLaunching

poolVars == <<exitOnError, cancelled, main, next, doing, job, results, stop>>

PoolInit ==
    /\ exitOnError \in BOOLEAN
    /\ cancelled = FALSE
    /\ main = "feeding" /\ next = 1
    /\ doing = [w \in Workers |-> "idle"]
    /\ job = [w \in Workers |-> 0]
    /\ results = [i \in Hosts |-> "none"]
    /\ stop = FALSE

\* The channel is unbuffered: a host goes from the feeder to a worker in one step.
Hand(w) ==
    /\ main = "feeding" /\ next <= N
    /\ doing[w] = "idle"
    /\ doing' = [doing EXCEPT ![w] = "taken"]
    /\ job' = [job EXCEPT ![w] = next]
    /\ next' = next + 1
    /\ UNCHANGED <<exitOnError, cancelled, main, results, stop>>

Close ==
    /\ main = "feeding" /\ next > N
    /\ main' = "waiting"
    /\ UNCHANGED <<exitOnError, cancelled, next, doing, job, results, stop>>

SkipWaits(w) ==                                                         \* mutant
    /\ doing[w] = "taken" /\ (stop \/ cancelled) /\ UNCHANGED poolVars
SkipWhenAsked(w) ==                                                     \* mutant
    /\ doing[w] = "taken" /\ (exitOnError \/ stop \/ cancelled)
    /\ results' = [results EXCEPT ![job[w]] = "skipped"] /\ doing' = [doing EXCEPT ![w] = "idle"]
    /\ UNCHANGED <<exitOnError, cancelled, main, next, job, stop>>
Skip(w) ==
    /\ doing[w] = "taken"
    /\ stop \/ cancelled
    /\ results' = [results EXCEPT ![job[w]] = "skipped"]
    /\ doing' = [doing EXCEPT ![w] = "idle"]
    /\ UNCHANGED <<exitOnError, cancelled, main, next, job, stop>>

Launch(w) ==
    /\ doing[w] = "taken"
    /\ ~stop /\ ~cancelled
    /\ doing' = [doing EXCEPT ![w] = "running"]
    /\ UNCHANGED <<exitOnError, cancelled, main, next, job, results, stop>>

FinishStopped(w, outcome) ==                                            \* mutant
    /\ doing[w] = "running" /\ doing' = [doing EXCEPT ![w] = "idle"]
    /\ results' = [results EXCEPT ![job[w]] = IF stop THEN "skipped" ELSE outcome]
    /\ stop' = (stop \/ (exitOnError /\ outcome = "failed"))
    /\ UNCHANGED <<exitOnError, cancelled, main, next, job>>
\* runner.Run returns and its result is stored.
Finish(w, outcome) ==
    /\ doing[w] = "running"
    /\ results' = [results EXCEPT ![job[w]] = outcome]
    /\ doing' = [doing EXCEPT ![w] = IF exitOnError /\ outcome = "failed" THEN "failing" ELSE "idle"]
    /\ UNCHANGED <<exitOnError, cancelled, main, next, job, stop>>

Stop(w) ==
    /\ doing[w] = "failing"
    /\ stop' = TRUE
    /\ doing' = [doing EXCEPT ![w] = "idle"]
    /\ UNCHANGED <<exitOnError, cancelled, main, next, job, results>>

Exit(w) ==
    /\ main = "waiting" /\ doing[w] = "idle"
    /\ doing' = [doing EXCEPT ![w] = "exited"]
    /\ UNCHANGED <<exitOnError, cancelled, main, next, job, results, stop>>

\* wg.Wait: the results are handed out when the last worker is gone.
Return ==
    /\ main = "waiting"
    /\ \A w \in Workers : doing[w] = "exited"
    /\ main' = "returned"
    /\ UNCHANGED <<exitOnError, cancelled, next, doing, job, results, stop>>

Cancel ==
    /\ MayCancel /\ main # "returned" /\ ~cancelled
    /\ cancelled' = TRUE
    /\ UNCHANGED <<exitOnError, main, next, doing, job, results, stop>>

Done == main = "returned" /\ UNCHANGED poolVars

PoolStep ==
    \/ Close \/ Return
    \/ \E w \in Workers : Hand(w) \/ Skip(w) \/ Launch(w) \/ Stop(w) \/ Exit(w)
SessionEnd == \E w \in Workers : Finish(w, "ok") \/ Finish(w, "failed")

PoolNext == PoolStep \/ SessionEnd \/ Cancel \/ Done

PoolSpec == PoolInit /\ [][PoolNext]_poolVars

\* Goroutines are scheduled; nothing bounds the time a session takes.
FairSpec == PoolSpec /\ WF_poolVars(PoolStep)
-----------------------------------------------------------------------------
(* Properties                                                              *)

\* The shared variables of RunMany.
PoolTypeOK ==
    /\ exitOnError \in BOOLEAN /\ cancelled \in BOOLEAN /\ stop \in BOOLEAN
    /\ main \in {"feeding", "waiting", "returned"}
    /\ next \in 1..(N + 1)
    /\ doing \in [Workers -> {"idle", "taken", "running", "failing", "exited"}]
    /\ job \in [Workers -> 0..N]
    /\ results \in [Hosts -> {"none", "ok", "failed", "skipped"}]

\* Every host handed out is one worker's and without a result, or nobody's and
\* with one: no session runs twice on a host and no result is written twice.
Busy(w) == doing[w] \in {"taken", "running"}
OneWorkerPerHost ==
    \A i \in Hosts :
        /\ \A v, w \in Workers : Busy(v) /\ Busy(w) /\ job[v] = i /\ job[w] = i => v = w
        /\ (i < next /\ results[i] = "none") <=> \E w \in Workers : Busy(w) /\ job[w] = i

\* RunMany returns a result for every host, in whatever order the workers end.
ResultsComplete == main = "returned" => \A i \in Hosts : results[i] # "none"

\* A host is skipped only for a failure under --exit-on-error that is there to be
\* read in the results, or for a cancelled context (the comment on Skipped).
SkipsFollowFailure ==
    (\E i \in Hosts : results[i] = "skipped") =>
        cancelled \/ (exitOnError /\ \E i \in Hosts : results[i] = "failed")

\* The results are right: every host has one worker and one result, and a skipped one
\* its reason (RunMany).
ResultsAreRight == PoolTypeOK /\ OneWorkerPerHost /\ ResultsComplete /\ SkipsFollowFailure

\* The pool implements what the command promises.
HostState(i) ==
    IF results[i] # "none" THEN results[i]
    ELSE IF \E w \in Workers : doing[w] = "running" /\ job[w] = i THEN "running" ELSE "waiting"
state == [i \in Hosts |-> HostState(i)]
Fan == INSTANCE FanOut WITH Hosts <- Hosts, Limit <- Limit, state <- state,
                               exitOnError <- exitOnError, cancelled <- cancelled
ImplementsFanOut == Fan!Spec

\* If every session ends, RunMany returns: neither the feeder nor a worker ever
\* waits for somebody who is gone, after a failure or a cancellation too.
SessionsEnd == \A w \in Workers : (doing[w] = "running") ~> (doing[w] # "running")
ReturnsInTheEnd == SessionsEnd => <>(main = "returned")
=============================================================================
