--------------------------- MODULE MCOperatorCommands ---------------------------
(* Two attempts of each command, the life of one infrastructure runtime, or  *)
(* one thread in the persistence service: nothing is shared between the      *)
(* three, so they are explored one beside the other (runtime and service     *)
(* beside the version command) and not interleaved.                          *)
EXTENDS OperatorCommands, FoundationRuntime, PersistenceService

NoCommandStarted == command = version /\ \A p \in Attempt : at[p] = New

MCNext ==
    \/ state = "NEW" /\ Init /\ CommandNext /\ UNCHANGED <<rtvars, vars>>
    \/ NoCommandStarted /\ Init /\ RuntimeNext /\ UNCHANGED <<cmdvars, vars>>
    \/ NoCommandStarted /\ state = "NEW" /\ Next /\ UNCHANGED <<cmdvars, rtvars>>

MCInit == CommandInit /\ RuntimeInit /\ Init

MCSpec ==
    /\ MCInit
    /\ [][MCNext]_<<cmdvars, rtvars, vars>>
    /\ Fairness

==============================================================================
