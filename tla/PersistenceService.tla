-------------------------- MODULE PersistenceService --------------------------
(***************************************************************************)
(* PostgresPersistenceService: units of work, the composed transactions    *)
(* that several repository operations join (MILESTONE-024), and closing.   *)
(* The two ContextVars belong to one thread or task, so one such context   *)
(* is modelled, calling into several service instances.  close() may be    *)
(* called in any state, with a transaction open too, which the class       *)
(* admits and no command of the platform does.                             *)
(*                                                                         *)
(* A context is in a "with" block of a unit of work, or in run_composed    *)
(* and there between operations, in an operation, or in the "with" block   *)
(* of a unit of work that joined the composed scope.  "raising" says that  *)
(* an exception is on its way out of the block; any code that is not the   *)
(* service's own may catch it and carry on.                                *)
(***************************************************************************)
EXTENDS Integers, FiniteSets

CONSTANTS
    Service,     \* instances of PostgresPersistenceService
    Write,       \* rows that operations write
    None

VARIABLES
    lifecycle,   \* service -> "new", "ready" or "closed"
    where,       \* the block the context is in
    raising,     \* an exception is propagating
    guard,       \* ContextVar _active_unit_of_work
    scope,       \* ContextVar _active_composed_scope: owner and state, or None
    tx,          \* the open transaction: its service, writes and aborted flag, or None
    db           \* the writes that are durable, with the service that wrote them

vars == <<lifecycle, where, raising, guard, scope, tx, db>>

\* What a transaction on a connection and an ambient composed scope hold.
Transaction   == [service : Service, writes : SUBSET Write, aborted : BOOLEAN]
ComposedScope == [owner : Service, state : {"ACTIVE", "POISONED"}]

ASSUME NoneAssumption == None \notin Transaction /\ None \notin ComposedScope

Init ==
    /\ lifecycle = [s \in Service |-> "new"]
    /\ where = "outside"
    /\ raising = FALSE
    /\ guard = FALSE
    /\ scope = None
    /\ tx = None
    /\ db = {}

------------------------------------------------------------------------------
(* The service's lifecycle *)

\* A second initialize() of a ready service returns, one of a closed service
\* raises; a probe that fails leaves the service as it was.
initialize(s) ==
    /\ lifecycle[s] = "new"
    /\ lifecycle' = [lifecycle EXCEPT ![s] = "ready"]
    /\ UNCHANGED <<where, raising, guard, scope, tx, db>>

\* close() disposes the pool and refuses future work; a connection that is
\* checked out stays usable until it is returned.  A second close() returns.
close(s) ==
    /\ lifecycle' = [lifecycle EXCEPT ![s] = "closed"]
    /\ UNCHANGED <<where, raising, guard, scope, tx, db>>

------------------------------------------------------------------------------
(* Beginning *)

\* PostgresUnitOfWork.__enter__; it raises, changing nothing, when the service
\* is not ready, a unit of work is active, or connecting fails.
Begin(s, block) ==
    /\ lifecycle[s] = "ready"
    /\ ~guard
    /\ guard' = TRUE
    /\ tx' = [service |-> s, writes |-> {}, aborted |-> FALSE]
    /\ where' = block
    /\ UNCHANGED <<lifecycle, raising, db>>

\* "with service.unit_of_work()" outside any composed scope.
EnterUnit(s) ==
    /\ where = "outside"
    /\ ~raising
    /\ Begin(s, "unit")
    /\ UNCHANGED scope

\* _ComposedTransaction.__enter__: begin, then publish the ambient scope.
RunComposed(s) ==
    /\ where = "outside"
    /\ ~raising
    /\ Begin(s, "composed")
    /\ scope' = [owner |-> s, state |-> "ACTIVE"]

------------------------------------------------------------------------------
(* Inside a composed transaction *)

\* run_composed calls the next operation.
CallOperation ==
    /\ where = "composed"
    /\ ~raising
    /\ where' = "operation"
    /\ UNCHANGED <<lifecycle, raising, guard, scope, tx, db>>

\* An operation opens a unit of work of the owner, which joins the scope.
Join(s) ==
    /\ where = "operation"
    /\ ~raising
    /\ lifecycle[s] = "ready"
    /\ scope.owner = s
    /\ where' = "joined"
    /\ UNCHANGED <<lifecycle, raising, guard, scope, tx, db>>

\* An operation fails outside the "with" block of a joined unit of work: the
\* repository refused the aggregate before it opened one, the service is
\* closed or another one's unit of work may not nest, or run_composed was
\* called again.
FailOutsideUnit ==
    /\ where = "operation"
    /\ ~raising
    /\ raising' = TRUE
    /\ UNCHANGED <<lifecycle, where, guard, scope, tx, db>>

\* execute() writes a row.
Execute(w) ==
    /\ where \in {"unit", "joined"}
    /\ ~raising
    /\ ~tx.aborted
    /\ tx' = [tx EXCEPT !.writes = @ \cup {w}]
    /\ UNCHANGED <<lifecycle, where, raising, guard, scope, db>>

\* execute() raises: the statement fails, which aborts the transaction in
\* PostgreSQL, or the transaction is aborted already.
ExecuteFails ==
    /\ where \in {"unit", "joined"}
    /\ ~raising
    /\ tx' = [tx EXCEPT !.aborted = TRUE]
    /\ raising' = TRUE
    /\ UNCHANGED <<lifecycle, where, guard, scope, db>>

\* The code in the "with" block raises without an SQL error: a version
\* conflict, a malformed row, a nested unit of work.
RaiseInUnit ==
    /\ where \in {"unit", "joined"}
    /\ ~raising
    /\ raising' = TRUE
    /\ UNCHANGED <<lifecycle, where, guard, scope, tx, db>>

\* The code of a "with" block or of an operation catches the exception, or a
\* caller of the service does.
Catch ==
    /\ raising
    /\ where # "composed"
    /\ raising' = FALSE
    /\ UNCHANGED <<lifecycle, where, guard, scope, tx, db>>

\* Mutant: a joined unit of work that ends well makes the scope ACTIVE again.
ExitJoinedRevives ==
    /\ where = "joined"
    /\ scope' = [scope EXCEPT !.state = IF raising THEN "POISONED" ELSE "ACTIVE"]
    /\ where' = "operation"
    /\ UNCHANGED <<lifecycle, raising, guard, tx, db>>

\* Mutant: a joined unit of work commits like one of its own.
ExitJoinedCommits ==
    /\ where = "joined"
    /\ db' = IF raising \/ tx.aborted THEN db ELSE db \cup {<<tx.service, w>> : w \in tx.writes}
    /\ scope' = [scope EXCEPT !.state = IF raising THEN "POISONED" ELSE @]
    /\ where' = "operation"
    /\ UNCHANGED <<lifecycle, raising, guard, tx>>

\* _JoinedUnitOfWork.__exit__ poisons the scope when an exception passes it.
ExitJoined ==
    /\ where = "joined"
    /\ scope' = [scope EXCEPT !.state = IF raising THEN "POISONED" ELSE @]
    /\ where' = "operation"
    /\ UNCHANGED <<lifecycle, raising, guard, tx, db>>

\* The operation returns or raises.
LeaveOperation ==
    /\ where = "operation"
    /\ where' = "composed"
    /\ UNCHANGED <<lifecycle, raising, guard, scope, tx, db>>

------------------------------------------------------------------------------
(* Ending *)

\* PostgreSQL's COMMIT: an aborted transaction is rolled back, and the driver
\* does not report that.
Committed == IF tx.aborted THEN {} ELSE {<<tx.service, w>> : w \in tx.writes}

\* The unit of work ends with the given durable writes, and raises or not; the
\* context goes on in the given block.
End(durable, raises, block) ==
    /\ db' = db \cup durable
    /\ raising' = raises
    /\ tx' = None
    /\ where' = block
    /\ UNCHANGED lifecycle

\* commit() ends well, or raises with the outcome in the database unknown.
Commit(block) ==
    \/ End(Committed, FALSE, block)
    \/ \E durable \in {{}, Committed} : End(durable, TRUE, block)

\* The block calls commit() or rollback() itself; the unit of work is complete
\* although its "with" block goes on.
CompleteUnit ==
    /\ where = "unit"
    /\ ~raising
    /\ Commit("completed") \/ \E raises \in BOOLEAN : End({}, raises, "completed")
    /\ guard' = FALSE
    /\ UNCHANGED scope

\* execute(), commit() and rollback() of a completed unit of work raise.
UseCompleted ==
    /\ where = "completed"
    /\ ~raising
    /\ raising' = TRUE
    /\ UNCHANGED <<lifecycle, where, guard, scope, tx, db>>

\* __exit__ of a completed unit of work only resets the context.
ExitCompleted ==
    /\ where = "completed"
    /\ where' = "outside"
    /\ UNCHANGED <<lifecycle, raising, guard, scope, tx, db>>

\* PostgresUnitOfWork.__exit__: commit without an exception, else roll back and
\* let the exception go on.  _complete() resets the guard either way.
ExitUnit ==
    /\ where = "unit"
    /\ IF raising THEN End({}, TRUE, "outside") ELSE Commit("outside")
    /\ guard' = FALSE
    /\ UNCHANGED scope

\* Mutant: the guard stays set when the composed transaction rolls back.
ExitComposedLeaky ==
    /\ where = "composed"
    /\ IF ~raising /\ scope.state = "ACTIVE"
       THEN Commit("outside") /\ guard' = FALSE
       ELSE End({}, TRUE, "outside") /\ UNCHANGED guard
    /\ scope' = None

\* _ComposedTransaction.__exit__: commit when nothing propagates and the scope
\* is ACTIVE, else roll back and raise; the ambient scope is reset either way.
ExitComposed ==
    /\ where = "composed"
    /\ IF ~raising /\ scope.state = "ACTIVE" THEN Commit("outside") ELSE End({}, TRUE, "outside")
    /\ guard' = FALSE
    /\ scope' = None

Next ==
    \/ \E s \in Service : initialize(s) \/ close(s) \/ EnterUnit(s) \/ RunComposed(s) \/ Join(s)
    \/ \E w \in Write : Execute(w)
    \/ CallOperation \/ FailOutsideUnit \/ ExecuteFails \/ RaiseInUnit \/ Catch
    \/ ExitJoined \/ LeaveOperation \/ ExitUnit \/ ExitComposed
    \/ CompleteUnit \/ UseCompleted \/ ExitCompleted

Spec == Init /\ [][Next]_vars

------------------------------------------------------------------------------
(* Properties *)

\* The two context variables never go out of step with the transaction, on any
\* path out of a unit of work or a composed one: outside nothing is left set
\* that would block or capture the next caller, and a unit of work joins only
\* the transaction of its own service.
ContextMatches ==
    /\ guard <=> tx # None
    /\ tx = None <=> where \in {"outside", "completed"}
    /\ scope # None <=> where \in {"composed", "operation", "joined"}
    /\ scope # None => scope.owner = tx.service

\* A poisoned scope stays poisoned until it ends, and its writes are lost: a
\* failure inside a joined unit of work cannot be made good by catching the
\* exception or by later operations that succeed.
PoisonedNeverCommits ==
    [][scope # None /\ scope.state = "POISONED" =>
          /\ db' = db
          /\ IF scope' = None THEN raising' ELSE scope'.state = "POISONED"]_vars

\* All or nothing: what becomes durable in a step is everything the ending
\* unit of work wrote, whether or not its service is closed under it; and a
\* run_composed that returns has made it durable, unless an operation caught an
\* SQL error inside a joined block and PostgreSQL had aborted the transaction.
AllOrNothing ==
    [][LET written == db \cup {<<tx.service, w>> : w \in tx.writes}
       IN  /\ db' # db => tx # None /\ tx' = None /\ db' = written
           /\ scope # None /\ scope' = None /\ ~raising' /\ ~tx.aborted => db' = written]_vars

===============================================================================
