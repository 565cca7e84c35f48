--------------------------- MODULE FoundationRuntime ---------------------------
(***************************************************************************)
(* The infrastructure runtime of shared/bootstrap.py: it starts the        *)
(* persistence service and then the object storage, checks each, reports   *)
(* READY only on a passing health report, undoes a start that fails, and   *)
(* closes in the reverse order.  The dependencies behind the services come *)
(* and go at any time; a close may raise.  Objects are written and deleted *)
(* by clients of the object storage while the runtime lives and after.     *)
(***************************************************************************)
EXTENDS Integers, Sequences, FiniteSets

CONSTANTS
    Key,       \* object keys
    Client     \* callers that delete objects

Layers == {"persistence", "object_storage"}

VARIABLES
    state,     \* RuntimeLifecycleState, or where the start is
    up,        \* dependencies that answer
    service,   \* layer -> "new", "ready" or "closed"
    last,      \* layer -> the service's last health
    report,    \* status of the last health report
    todo,      \* services still to close, in order
    failures,  \* layers whose close() raised
    objects,   \* keys in the bucket
    deleting   \* client -> the key whose head_object() has answered, or "none"

rtvars == <<state, up, service, last, report, todo, failures, objects, deleting>>

RuntimeInit ==
    /\ state = "NEW"
    /\ up = Layers
    /\ service = [l \in Layers |-> "new"]
    /\ last = [l \in Layers |-> "UNKNOWN"]
    /\ report = "none"
    /\ todo = << >>
    /\ failures = {}
    /\ objects = {}
    /\ deleting = [c \in Client |-> "none"]

------------------------------------------------------------------------------
(* Health *)

\* Mutant: only a failing layer counts.
aggregate_failing(states) == IF "FAIL" \in states THEN "FAIL" ELSE "PASS"

aggregate_health(states) ==
    CASE "FAIL" \in states                             -> "FAIL"
      [] "FAIL" \notin states /\ "UNKNOWN" \in states  -> "UNKNOWN"
      [] OTHER                                         -> "PASS"

\* check(): a closed service fails, one that was never ready is unknown, and
\* otherwise the probe decides.
Checked(l) ==
    CASE service[l] = "closed" -> "FAIL"
      [] service[l] = "new"    -> "UNKNOWN"
      [] service[l] = "ready"  -> IF l \in up THEN "PASS" ELSE "FAIL"

\* refresh_health(): both services are checked, and a runtime that has stopped
\* adds a failing layer of its own.
refresh_health ==
    /\ state = "READY"
    /\ last' = [l \in Layers |-> Checked(l)]
    /\ report' = aggregate_health({last'[l] : l \in Layers})
    /\ UNCHANGED <<state, up, service, todo, failures, objects, deleting>>

\* A dependency goes away or comes back.
Outage(l) ==
    /\ up' = IF l \in up THEN up \ {l} ELSE up \cup {l}
    /\ UNCHANGED <<state, service, last, report, todo, failures, objects, deleting>>

------------------------------------------------------------------------------
(* Starting *)

Initialized == {l \in Layers : service[l] = "ready"}

resolve_foundation_config ==
    /\ state = "NEW"
    /\ state' = "STARTING"
    /\ UNCHANGED <<up, service, last, report, todo, failures, objects, deleting>>

\* The except clause: the initialized services are closed, the last one first.
Undo ==
    /\ state' = "FAILING"
    /\ todo' = LET Opened(l) == IF l \in Initialized THEN <<l>> ELSE << >>
               IN  Opened("object_storage") \o Opened("persistence")

\* initialize() of the next service in the order: it is ready, or it raises.
initialize_service(l) ==
    /\ state = "STARTING"
    /\ service[l] = "new"
    /\ l = "object_storage" =>
          service["persistence"] = "ready" /\ last["persistence"] = "PASS"
    /\ \/ /\ l \in up
          /\ service' = [service EXCEPT ![l] = "ready"]
          /\ state' = "CHECKING"
          /\ UNCHANGED <<last, todo>>
       \/ /\ l \notin up
          /\ last' = [last EXCEPT ![l] = "FAIL"]
          /\ Undo
          /\ UNCHANGED service
    /\ UNCHANGED <<up, report, failures, objects, deleting>>

\* The service that has been initialized but not checked.
Unchecked(l) == service[l] = "ready" /\ last[l] = "UNKNOWN"

\* _require_dependency_ready(): check(), which may find the dependency gone.
require_dependency_ready(l) ==
    /\ state = "CHECKING"
    /\ Unchecked(l)
    /\ last' = [last EXCEPT ![l] = Checked(l)]
    /\ IF Checked(l) = "PASS"
       THEN /\ state' = IF l = "object_storage" THEN "AGGREGATING" ELSE "STARTING"
            /\ UNCHANGED todo
       ELSE Undo
    /\ UNCHANGED <<up, service, report, failures, objects, deleting>>

\* The combined report decides.
Aggregate ==
    /\ state = "AGGREGATING"
    /\ report' = aggregate_health({last[l] : l \in Layers})
    /\ IF report' = "PASS" THEN state' = "READY" /\ UNCHANGED todo ELSE Undo
    /\ UNCHANGED <<up, service, last, failures, objects, deleting>>

------------------------------------------------------------------------------
(* Closing *)

\* Mutant: the first close() that raises ends the clean-up.
CleanupUntilFailure ==
    /\ state \in {"FAILING", "STOPPING"}
    /\ todo # << >>
    /\ service' = [service EXCEPT ![Head(todo)] = "closed"]
    /\ \/ todo' = Tail(todo) /\ UNCHANGED failures
       \/ todo' = << >> /\ failures' = failures \cup {Head(todo)}
    /\ last' = [last EXCEPT ![Head(todo)] = "FAIL"]
    /\ UNCHANGED <<state, up, report, objects, deleting>>

\* _cleanup_initialized: the next close().  It marks the service closed before
\* it lets go of the pool or the client; an exception there is collected.
cleanup_initialized ==
    /\ state \in {"FAILING", "STOPPING"}
    /\ todo # << >>
    /\ service' = [service EXCEPT ![Head(todo)] = "closed"]
    /\ todo' = Tail(todo)
    /\ \/ last' = [last EXCEPT ![Head(todo)] = "FAIL"] /\ UNCHANGED failures
       \/ failures' = failures \cup {Head(todo)} /\ UNCHANGED last
    /\ UNCHANGED <<state, up, report, objects, deleting>>

\* The start raises; there is no runtime object.
StartupFails ==
    /\ state = "FAILING"
    /\ todo = << >>
    /\ state' = "FAILED"
    /\ UNCHANGED <<up, service, last, report, todo, failures, objects, deleting>>

close_runtime ==
    /\ state = "READY"
    /\ state' = "STOPPING"
    /\ todo' = <<"object_storage", "persistence">>
    /\ UNCHANGED <<up, service, last, report, failures, objects, deleting>>

\* STOPPED, and the health of a stopped runtime; then close() raises if a
\* close() of a service did.  A further close() returns.
Stopped ==
    /\ state = "STOPPING"
    /\ todo = << >>
    /\ state' = "STOPPED"
    /\ last' = [l \in Layers |-> Checked(l)]
    /\ report' = aggregate_health({last'[l] : l \in Layers} \cup {"FAIL"})
    /\ UNCHANGED <<up, service, todo, failures, objects, deleting>>

------------------------------------------------------------------------------
(* Objects *)

StorageReady == service["object_storage"] = "ready" /\ "object_storage" \in up

put_object(k) ==
    /\ StorageReady
    /\ objects' = objects \cup {k}
    /\ UNCHANGED <<state, up, service, last, report, todo, failures, deleting>>

\* delete_object() asks head_object() first and answers FALSE for an absent key.
delete_head(c, k) ==
    /\ StorageReady
    /\ deleting[c] = "none"
    /\ k \in objects
    /\ deleting' = [deleting EXCEPT ![c] = k]
    /\ UNCHANGED <<state, up, service, last, report, todo, failures, objects>>

\* The second request deletes whatever the key holds by now; it does not look
\* again whether the service is still open.
delete_object(c) ==
    /\ deleting[c] # "none"
    /\ "object_storage" \in up
    /\ objects' = objects \ {deleting[c]}
    /\ deleting' = [deleting EXCEPT ![c] = "none"]
    /\ UNCHANGED <<state, up, service, last, report, todo, failures>>

RuntimeProgress ==
    \/ \E l \in Layers : initialize_service(l) \/ require_dependency_ready(l)
    \/ Aggregate
    \/ cleanup_initialized
    \/ StartupFails
    \/ Stopped

RuntimeNext ==
    \/ resolve_foundation_config
    \/ RuntimeProgress
    \/ refresh_health
    \/ close_runtime
    \/ \E l \in Layers : Outage(l)
    \/ \E k \in Key : put_object(k)
    \/ \E c \in Client, k \in Key : delete_head(c, k)
    \/ \E c \in Client : delete_object(c)

------------------------------------------------------------------------------
(* Properties *)

\* The runtime is READY exactly while both services are open: a start that
\* failed, or a close, whatever raised on the way and whenever a dependency
\* went away, has closed every service it had initialized; and a runtime that
\* starts has passed both checks.
ReadyMeansOpen ==
    /\ state = "READY" => Initialized = Layers
    /\ state \in {"FAILED", "STOPPED"} => Initialized = {}
    /\ state = "STOPPED" => report = "FAIL"

==============================================================================
