------------------------------- MODULE FanOut -------------------------------
(***************************************************************************)
(* What `cinc node ssh` promises about a command run on many hosts, before *)
(* any worker or channel: every host is attempted once or skipped, never   *)
(* more than Limit at a time, and only --exit-on-error after a failure, or *)
(* a cancelled context, is a reason to skip one.                           *)
(***************************************************************************)
EXTENDS Naturals, FiniteSets

CONSTANTS Hosts, Limit

VARIABLES state,        \* state[h]: how far the command is on host h
          exitOnError,  \* the flag
          cancelled     \* the caller's context

vars == <<state, exitOnError, cancelled>>

Init ==
    /\ state = [h \in Hosts |-> "waiting"]
    /\ exitOnError \in BOOLEAN
    /\ cancelled = FALSE

Failed == \E h \in Hosts : state[h] = "failed"
MaySkip == cancelled \/ (exitOnError /\ Failed)

Start(h) ==
    /\ state[h] = "waiting"
    /\ Cardinality({g \in Hosts : state[g] = "running"}) < Limit
    /\ state' = [state EXCEPT ![h] = "running"]
    /\ UNCHANGED <<exitOnError, cancelled>>

\* A session that has started runs to its own end.
End(h, outcome) ==
    /\ state[h] = "running"
    /\ state' = [state EXCEPT ![h] = outcome]
    /\ UNCHANGED <<exitOnError, cancelled>>

Skip(h) ==
    /\ state[h] = "waiting"
    /\ MaySkip
    /\ state' = [state EXCEPT ![h] = "skipped"]
    /\ UNCHANGED <<exitOnError, cancelled>>

Cancel ==
    /\ cancelled' = TRUE
    /\ UNCHANGED <<state, exitOnError>>

Next ==
    \/ \E h \in Hosts : Start(h) \/ Skip(h) \/ End(h, "ok") \/ End(h, "failed")
    \/ Cancel

Spec == Init /\ [][Next]_vars
=============================================================================
