---------------------------- MODULE TaskLifecycle ----------------------------
(***************************************************************************)
(* What WMS may rely on when it reads the facts pda-backend publishes      *)
(* about one warehouse task (topic PDA.TaskEvents.v1): any number of       *)
(* starts, then at most one terminal fact, and nothing after it.  A task   *)
(* may fail without having been started; it is completed only once started.*)
(***************************************************************************)
EXTENDS Sequences

CONSTANT Tasks

VARIABLES state,   \* state[t]: where the operator's work on t stands
          facts    \* facts[t]: the kinds of fact published about t, oldest first

vars == <<state, facts>>

Init == /\ state = [t \in Tasks |-> "DISPATCHED"]
        /\ facts = [t \in Tasks |-> <<>>]

Publish(t, from, to) ==
    /\ state[t] \in from
    /\ state' = [state EXCEPT ![t] = to]
    /\ facts' = [facts EXCEPT ![t] = Append(@, to)]

Next == \E t \in Tasks :
            \/ Publish(t, {"DISPATCHED", "STARTED"}, "STARTED")
            \/ Publish(t, {"STARTED"}, "COMPLETED")
            \/ Publish(t, {"DISPATCHED", "STARTED"}, "FAILED")

Spec == Init /\ [][Next]_vars
=============================================================================
