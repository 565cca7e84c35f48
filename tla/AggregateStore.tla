--------------------------- MODULE AggregateStore ---------------------------
(***************************************************************************)
(* The PostgreSQL repository of one aggregate and the use-case handlers    *)
(* that share it.  Every command handler is                                *)
(*     loaded = repository.get(identity)                                   *)
(*     loaded.aggregate.<method>(...)                                      *)
(*     repository.save(aggregate, command.expected_persisted_version)      *)
(* where get() and save() are transactions of their own.  get() selects    *)
(* the root row and then each child table in separate statements, and the  *)
(* engine is created without an isolation level, so each statement of a    *)
(* READ COMMITTED transaction sees what is committed when it starts.       *)
(* save() is one atomic step: its guarded UPDATE takes the row lock and    *)
(* re-evaluates "version = expected" once it holds it, and the child rows  *)
(* are replaced in the same transaction.                                   *)
(*                                                                         *)
(* Rows of different identities never meet, so one identity is modelled.   *)
(***************************************************************************)
EXTENDS Aggregate

CONSTANTS
    Client,      \* concurrent callers of the handlers
    NoRow,       \* no root row is stored under the identity
    MaxVersion,  \* bound: no save goes beyond this version
    Ahead        \* how far a command's expected version may be ahead of the
                 \* version stored when its handler loads the aggregate; 0 when
                 \* callers only pass versions the repository has told them

ASSUME BoundsAssumption == MaxVersion \in Nat /\ Ahead \in Nat

VARIABLES
    db,          \* the stored root row and child tables, or NoRow
    committed,   \* history variable: every value db has had, oldest first
    session      \* what the handler of each client has read so far

storeVars == <<db, committed, session>>

Idle == [pc |-> "idle", expected |-> 0, root |-> NoRow, tables |-> <<>>]

StoreInit ==
    /\ db = NoRow
    /\ committed = <<>>
    /\ session = [c \in Client |-> Idle]

\* The aggregate get() assembles from the rows it read.
Loaded(c) == [root |-> session[c].root, tables |-> session[c].tables]

IsLoaded(c) == session[c].pc = "loaded"

\* A creation handler: add() inserts the root row; a second insert under the
\* same identity is refused with AggregateAlreadyExists.
add(aggregate) ==
    /\ db = NoRow
    /\ db' = aggregate
    /\ committed' = Append(committed, aggregate)
    /\ UNCHANGED session

\* A handler is called and get() selects the root row.
GetRoot(c) ==
    /\ session[c].pc = "idle"
    /\ db # NoRow
    /\ \E e \in 0..(db.root.version + Ahead) :
          session' = [session EXCEPT ![c] = [pc |-> "reading", expected |-> e,
                                             root |-> db.root, tables |-> <<>>]]
    /\ UNCHANGED <<db, committed>>

\* get() selects the next child table.
GetTable(c) ==
    /\ session[c].pc = "reading"
    /\ LET read == Append(session[c].tables, db.tables[Len(session[c].tables) + 1])
       IN  session' = [session EXCEPT ![c] = [@ EXCEPT !.tables = read,
                          !.pc = IF Len(read) = Len(db.tables) THEN "loaded" ELSE "reading"]]
    /\ UNCHANGED <<db, committed>>

\* The handler ends without a write: get() raised InvalidPersistedAggregateState,
\* a query handler returned, the domain method raised, or the process died.
Leave(c) ==
    /\ session[c].pc # "idle"
    /\ session' = [session EXCEPT ![c] = Idle]
    /\ UNCHANGED <<db, committed>>

\* Mutant: save() replaces the child rows of an UNCHANGED record as well.
WrittenAlways(c, aggregate) == aggregate

\* What a save() that passes its guards writes.  A record whose version equals
\* the expected one is classified UNCHANGED: the root row is written, the
\* child tables are not touched.
Written(c, aggregate) ==
    [root   |-> aggregate.root,
     tables |-> IF aggregate.root.version = session[c].expected
                THEN db.tables ELSE aggregate.tables]

\* Mutant: the UPDATE is not guarded by the expected version.
SaveUnguarded(c, aggregate) ==
    /\ aggregate.root.version <= MaxVersion
    /\ session' = [session EXCEPT ![c] = Idle]
    /\ IF aggregate.root.version >= session[c].expected
       THEN /\ db' = Written(c, aggregate)
            /\ committed' = Append(committed, Written(c, aggregate))
       ELSE UNCHANGED <<db, committed>>

\* Mutant: the UPDATE accepts a stored version later than the expected one.
SaveAtLeast(c, aggregate) ==
    /\ aggregate.root.version <= MaxVersion
    /\ session' = [session EXCEPT ![c] = Idle]
    /\ IF /\ aggregate.root.version >= session[c].expected
          /\ db.root.version >= session[c].expected
       THEN /\ db' = Written(c, aggregate)
            /\ committed' = Append(committed, Written(c, aggregate))
       ELSE UNCHANGED <<db, committed>>

\* save(): InvalidAggregateForPersistence when the record is older than the
\* expected version, OptimisticConcurrencyConflict when the guarded UPDATE
\* matches no row; neither writes anything.
save(c, aggregate) ==
    /\ aggregate.root.version <= MaxVersion
    /\ session' = [session EXCEPT ![c] = Idle]
    /\ IF /\ aggregate.root.version >= session[c].expected
          /\ db.root.version = session[c].expected
       THEN /\ db' = Written(c, aggregate)
            /\ committed' = Append(committed, Written(c, aggregate))
       ELSE UNCHANGED <<db, committed>>

\* A command handler after get(): "results" is what its domain method returns
\* for the loaded aggregate.
Handle(c, results) ==
    /\ IsLoaded(c)
    /\ \E aggregate \in results : save(c, aggregate)

Reading(c) == GetRoot(c) \/ GetTable(c) \/ Leave(c)

------------------------------------------------------------------------------
\* Types of the store for aggregates A whose root rows are in R and whose n child
\* tables are in T.
StoreTypes(A, R, T, n) ==
    /\ db \in A \cup {NoRow}
    /\ committed \in Seq(A)
    /\ session \in [Client -> [pc : {"idle", "reading", "loaded"}, expected : Nat,
                               root : R \cup {NoRow}, tables : Seq(T)]]
    /\ \A c \in Client : /\ session[c].pc = "reading" => Len(session[c].tables) < n
                         /\ IsLoaded(c) => Len(session[c].tables) = n

\* The rows s a handler holds come from the commit its root row belongs to or,
\* for the child tables, from later ones.
DrawnFrom(s, log) ==
    \E i \in 1..Len(log) :
       /\ s.root = log[i].root
       /\ \A k \in 1..Len(s.tables) :
             \E j \in i..Len(log) : s.tables[k] = log[j].tables[k]

\* What is stored is the last commit, and whatever a handler holds is drawn from
\* the commits.
RowsAreCommitted ==
    /\ db = IF committed = <<>> THEN NoRow ELSE committed[Len(committed)]
    /\ \A c \in Client : session[c].pc # "idle" => DrawnFrom(session[c], committed)

\* A version names one content, which is what makes the optimistic guard sound
\* when callers pass only versions they have been told: versions are handed out
\* in commit order, and no command expects a version its handler has not seen.
VersionNamesContent ==
    /\ RowsAreCommitted
    /\ \A i \in 1..Len(committed) : committed[i].root.version = i - 1
    /\ \A c \in Client : session[c].pc # "idle" =>
                            session[c].expected <= session[c].root.version

\* What is left of it when callers pass any version: a version can be stored
\* twice, with different roots, but versions never decrease and two commits of
\* one version have the same child tables.
VersionNamesTables ==
    /\ RowsAreCommitted
    /\ \A j \in 1..Len(committed) : \A i \in 1..j :
          /\ committed[i].root.version <= committed[j].root.version
          /\ committed[i].root.version = committed[j].root.version
                => committed[i].tables = committed[j].tables
=============================================================================
