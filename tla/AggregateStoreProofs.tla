------------------------ MODULE AggregateStoreProofs ------------------------
(***************************************************************************)
(* The optimistic repository, for every kind of aggregate.  A is the set   *)
(* of aggregates, R that of their root rows, T that of their child tables, *)
(* n the number of child tables.  Two invariants are carried through every *)
(* step: RowsInv, with VersionNamesTables, whatever versions callers pass, *)
(* and StoreInv, with VersionNamesContent, when they pass only versions    *)
(* the repository has told them (Ahead = 0).                               *)
(***************************************************************************)
EXTENDS AggregateStore, SequenceTheorems, TLAPS

\* What is assumed of a kind of aggregate.
AggregateKind(A, R, T, n) ==
    /\ n \in Nat
    /\ NoRow \notin A
    /\ \A a \in A : /\ a = [root |-> a.root, tables |-> a.tables]
                    /\ a.root \in R /\ a.root.version \in Nat
                    /\ a.tables \in Seq(T)
                    /\ Len(a.tables) = n

\* What every step of the store preserves, whoever calls it.
RowsInv(A, R, T, n) == StoreTypes(A, R, T, n) /\ RowsAreCommitted

\* The inductive invariants of the store.
TablesInv(A, R, T, n) == StoreTypes(A, R, T, n) /\ VersionNamesTables

StoreInv(A, R, T, n) == StoreTypes(A, R, T, n) /\ VersionNamesContent

\* get() selects the root row, for a command that expects any version at all.
ReadsRoot(c) ==
    /\ session[c].pc = "idle"
    /\ db # NoRow
    /\ \E e \in Nat :
          session' = [session EXCEPT ![c] = [pc |-> "reading", expected |-> e,
                                             root |-> db.root, tables |-> <<>>]]
    /\ UNCHANGED <<db, committed>>

\* save() without the bound on versions.
Saves(c, aggregate) ==
    /\ session' = [session EXCEPT ![c] = Idle]
    /\ IF /\ aggregate.root.version >= session[c].expected
          /\ db.root.version = session[c].expected
       THEN /\ db' = Written(c, aggregate)
            /\ committed' = Append(committed, Written(c, aggregate))
       ELSE UNCHANGED <<db, committed>>

\* Appending one element keeps the others where they are.
LEMMA AppendFacts ==
    ASSUME NEW A, NEW s \in Seq(A), NEW x \in A
    PROVE  /\ Append(s, x) \in Seq(A)
           /\ Len(Append(s, x)) = Len(s) + 1
           /\ \A i \in 1..Len(s) : Append(s, x)[i] = s[i]
           /\ Append(s, x)[Len(s) + 1] = x
           /\ Append(s, x) # <<>>
BY LenProperties

\* A stored row is the last commit.
LEMMA StoredIsLast ==
    ASSUME NEW A, NEW R, NEW T, NEW n, RowsInv(A, R, T, n), db # NoRow
    PROVE  /\ Len(committed) \in Nat \ {0}
           /\ db = committed[Len(committed)]
           /\ db \in A
<1> DEFINE m == Len(committed)
<1>1. committed \in Seq(A) /\ committed # <<>>
  BY DEF RowsInv, StoreTypes, RowsAreCommitted
<1>2. m \in Nat \ {0}
  BY <1>1, EmptySeq
<1>3. db = committed[m]
  BY <1>1 DEF RowsInv, RowsAreCommitted
<1>4. m \in 1..m
  BY <1>2
<1>5. committed[m] \in A
  BY <1>1, <1>4, ElementOfSeq
<1> QED
  BY <1>2, <1>3, <1>5

\* What a handler in progress holds, and that then something is stored.
LEMMA HeldRows ==
    ASSUME NEW A, NEW R, NEW T, NEW n, AggregateKind(A, R, T, n), RowsInv(A, R, T, n),
           NEW c \in Client, session[c].pc # "idle"
    PROVE  /\ db # NoRow
           /\ \E i \in 1..Len(committed) :
                 /\ session[c].root = committed[i].root
                 /\ \A k \in 1..Len(session[c].tables) :
                       \E j \in i..Len(committed) : session[c].tables[k] = committed[j].tables[k]
<1> DEFINE m == Len(committed)
<1>1. \E i \in 1..m :
        /\ session[c].root = committed[i].root
        /\ \A k \in 1..Len(session[c].tables) :
              \E j \in i..m : session[c].tables[k] = committed[j].tables[k]
  BY DEF RowsInv, RowsAreCommitted, DrawnFrom
<1>2. committed \in Seq(A) /\ m \in Nat
  BY LenProperties DEF RowsInv, StoreTypes
<1>3. m \in 1..m /\ committed # <<>>
  BY <1>1, <1>2
<1>4. committed[m] \in A /\ db = committed[m]
  BY <1>2, <1>3, ElementOfSeq DEF RowsInv, RowsAreCommitted
<1>5. db # NoRow
  BY <1>4 DEF AggregateKind
<1> QED
  BY <1>1, <1>5

\* A handler that has read tables equal to the stored ones holds those tables.
LEMMA SameTables ==
    ASSUME NEW A, NEW R, NEW T, NEW n, AggregateKind(A, R, T, n), RowsInv(A, R, T, n),
           NEW c \in Client, IsLoaded(c), db \in A,
           \A k \in 1..Len(session[c].tables) : session[c].tables[k] = db.tables[k]
    PROVE  session[c].tables = db.tables
<1>1. /\ session[c].tables \in Seq(T) /\ Len(session[c].tables) = n
      /\ db.tables \in Seq(T) /\ Len(db.tables) = n
  BY DEF RowsInv, StoreTypes, AggregateKind, IsLoaded
<1> QED
  BY <1>1, SeqEqual

\* When the guarded UPDATE matches, every row the handler holds is current:
\* the root cannot be older than the expected version, and the version
\* expected is the last one.
LEMMA LoadedIsCurrent ==
    ASSUME NEW A, NEW R, NEW T, NEW n, AggregateKind(A, R, T, n), StoreInv(A, R, T, n),
           NEW c \in Client, IsLoaded(c),
           db.root.version = session[c].expected
    PROVE  db # NoRow /\ Loaded(c) = db /\ db.root.version = Len(committed) - 1
<1> DEFINE m == Len(committed)
<1>1. RowsInv(A, R, T, n)
  BY DEF StoreInv, RowsInv, VersionNamesContent
<1>2. session[c].pc # "idle"
  BY DEF IsLoaded
<1>3. db # NoRow
  BY <1>1, <1>2, HeldRows
<1>4. PICK i \in 1..m :
        /\ session[c].root = committed[i].root
        /\ \A k \in 1..Len(session[c].tables) :
              \E j \in i..m : session[c].tables[k] = committed[j].tables[k]
  BY <1>1, <1>2, HeldRows
<1>5. m \in Nat \ {0} /\ db = committed[m] /\ db \in A
  BY <1>1, <1>3, StoredIsLast
<1>6. committed[i].root.version = i - 1 /\ committed[m].root.version = m - 1
  BY <1>4, <1>5 DEF StoreInv, VersionNamesContent
<1>7. session[c].expected <= session[c].root.version
  BY <1>2 DEF StoreInv, VersionNamesContent
<1>8. i = m
  BY <1>4, <1>5, <1>6, <1>7
<1>9. session[c].root = db.root
  BY <1>4, <1>5, <1>8
<1>10. ASSUME NEW k \in 1..Len(session[c].tables)
       PROVE  session[c].tables[k] = db.tables[k]
  <2>1. PICK j \in i..m : session[c].tables[k] = committed[j].tables[k]
    BY <1>4
  <2>2. j = m
    BY <1>5, <1>8
  <2> QED
    BY <2>1, <2>2, <1>5
<1>11. session[c].tables = db.tables
  BY <1>1, <1>5, <1>10, SameTables
<1>12. db = [root |-> db.root, tables |-> db.tables]
  BY <1>5 DEF AggregateKind
<1> QED
  BY <1>3, <1>5, <1>6, <1>9, <1>11, <1>12 DEF Loaded

\* One commit more: what was drawn from the commits still is.
LEMMA DrawnFromAppend ==
    ASSUME NEW A, NEW log \in Seq(A), NEW a \in A, NEW s, DrawnFrom(s, log)
    PROVE  DrawnFrom(s, Append(log, a))
<1> DEFINE m == Len(log)
           more == Append(log, a)
<1>1. m \in Nat
  BY LenProperties
<1>2. Len(more) = m + 1 /\ \A i \in 1..m : more[i] = log[i]
  BY AppendFacts
<1>3. PICK i \in 1..m :
        /\ s.root = log[i].root
        /\ \A k \in 1..Len(s.tables) : \E j \in i..m : s.tables[k] = log[j].tables[k]
  BY DEF DrawnFrom
<1>4. i \in 1..Len(more) /\ s.root = more[i].root
  BY <1>1, <1>2, <1>3
<1>5. ASSUME NEW k \in 1..Len(s.tables)
      PROVE  \E j \in i..Len(more) : s.tables[k] = more[j].tables[k]
  <2>1. PICK j \in i..m : s.tables[k] = log[j].tables[k]
    BY <1>3
  <2>2. j \in 1..m /\ j \in i..Len(more)
    BY <1>1, <1>2
  <2>3. s.tables[k] = more[j].tables[k]
    BY <1>2, <2>1, <2>2
  <2> QED
    BY <2>2, <2>3
<1> HIDE DEF more
<1>6. DrawnFrom(s, more)
  BY <1>3, <1>4, <1>5 DEF DrawnFrom
<1> QED
  BY <1>6 DEF more

\* Steps that write nothing: one client's session becomes something that is
\* still drawn from the commits.
LEMMA SessionStep ==
    ASSUME NEW A, NEW R, NEW T, NEW n, RowsInv(A, R, T, n), NEW c \in Client, NEW s,
           session' = [session EXCEPT ![c] = s],
           s \in [pc : {"idle", "reading", "loaded"}, expected : Nat,
                  root : R \cup {NoRow}, tables : Seq(T)],
           s.pc = "reading" => Len(s.tables) < n,
           s.pc = "loaded" => Len(s.tables) = n,
           s.pc # "idle" => DrawnFrom(s, committed),
           UNCHANGED <<db, committed>>
    PROVE  RowsInv(A, R, T, n)'
<1>1. session'[c] = s /\ \A d \in Client : d # c => session'[d] = session[d]
  BY DEF RowsInv, StoreTypes
<1>2. StoreTypes(A, R, T, n)'
  <2>1. session' \in [Client -> [pc : {"idle", "reading", "loaded"}, expected : Nat,
                                 root : R \cup {NoRow}, tables : Seq(T)]]
    BY DEF RowsInv, StoreTypes
  <2> QED
    BY <1>1, <2>1 DEF RowsInv, StoreTypes, IsLoaded
<1>3. RowsAreCommitted'
  BY <1>1 DEF RowsInv, RowsAreCommitted
<1> QED
  BY <1>2, <1>3 DEF RowsInv

\* The statements of get() and leaving a handler preserve what is known of the
\* rows, write nothing, and move one session only.
LEMMA ReadsPreserve ==
    ASSUME NEW A, NEW R, NEW T, NEW n, AggregateKind(A, R, T, n), RowsInv(A, R, T, n), n # 0,
           NEW c \in Client, ReadsRoot(c) \/ GetTable(c) \/ Leave(c)
    PROVE  /\ RowsInv(A, R, T, n)' /\ UNCHANGED <<db, committed>>
           /\ \A d \in Client : d # c => session'[d] = session[d]
<1> DEFINE m == Len(committed)
<1>0. committed \in Seq(A) /\ m \in Nat
  BY LenProperties DEF RowsInv, StoreTypes
<1>1. CASE ReadsRoot(c)
  <2>1. db # NoRow /\ UNCHANGED <<db, committed>>
    BY <1>1 DEF ReadsRoot
  <2>2. m \in Nat \ {0} /\ db = committed[m] /\ db \in A
    BY <2>1, StoredIsLast
  <2> DEFINE started(e) == [pc |-> "reading", expected |-> e, root |-> db.root, tables |-> <<>>]
  <2>4. PICK e \in Nat : session' = [session EXCEPT ![c] = started(e)]
    BY <1>1 DEF ReadsRoot
  <2>5. <<>> \in Seq(T) /\ Len(<<>>) = 0 /\ n \in Nat
    BY EmptySeq DEF AggregateKind
  <2>6. m \in 1..m
    BY <2>2
  <2>7. DrawnFrom(started(e), committed)
    BY <2>2, <2>5, <2>6 DEF DrawnFrom
  <2>8. db.root \in R
    BY <2>2 DEF AggregateKind
  <2>9. /\ started(e) \in [pc : {"idle", "reading", "loaded"}, expected : Nat,
                           root : R \cup {NoRow}, tables : Seq(T)]
        /\ started(e).pc = "reading" /\ Len(started(e).tables) < n
    BY <2>5, <2>8
  <2> HIDE DEF started
  <2>10. RowsInv(A, R, T, n)'
    BY <2>1, <2>4, <2>7, <2>9, SessionStep
  <2> QED
    BY <2>1, <2>4, <2>10 DEF RowsInv, StoreTypes
<1>2. CASE GetTable(c)
  <2> DEFINE s == session[c]
             read == Append(s.tables, db.tables[Len(s.tables) + 1])
             pc == IF Len(read) = n THEN "loaded" ELSE "reading"
             t == [s EXCEPT !.tables = read, !.pc = pc]
  <2>1. s.pc = "reading" /\ UNCHANGED <<db, committed>>
    BY <1>2 DEF GetTable
  <2>2. PICK i \in 1..m :
          /\ s.root = committed[i].root
          /\ \A k \in 1..Len(s.tables) : \E j \in i..m : s.tables[k] = committed[j].tables[k]
    BY <2>1, HeldRows
  <2>3. db # NoRow
    BY <2>1, HeldRows
  <2>4. db = committed[m] /\ m \in i..m /\ db \in A
    BY <1>0, <2>2, <2>3, StoredIsLast
  <2>6. /\ s.tables \in Seq(T) /\ Len(s.tables) \in Nat /\ Len(s.tables) < n
        /\ db.tables \in Seq(T) /\ Len(db.tables) = n /\ n \in Nat
    BY <2>1, <2>4, LenProperties DEF RowsInv, StoreTypes, AggregateKind
  <2>7. Len(s.tables) + 1 \in 1..Len(db.tables)
    BY <2>6
  <2>8. db.tables[Len(s.tables) + 1] \in T
    BY <2>6, <2>7, ElementOfSeq
  <2>9. /\ read \in Seq(T) /\ Len(read) = Len(s.tables) + 1
        /\ \A k \in 1..Len(s.tables) : read[k] = s.tables[k]
        /\ read[Len(s.tables) + 1] = db.tables[Len(s.tables) + 1]
    BY <2>6, <2>8, AppendFacts
  <2>10. session' = [session EXCEPT ![c] = t]
    BY <1>2, <2>6 DEF GetTable
  <2>11. s \in [pc : {"idle", "reading", "loaded"}, expected : Nat,
                root : R \cup {NoRow}, tables : Seq(T)]
    BY DEF RowsInv, StoreTypes
  <2> HIDE DEF s, read
  <2>12. /\ t \in [pc : {"idle", "reading", "loaded"}, expected : Nat,
                   root : R \cup {NoRow}, tables : Seq(T)]
         /\ t.root = s.root /\ t.tables = read /\ t.pc = pc
    BY <2>9, <2>11
  <2>13. ASSUME NEW k \in 1..Len(read)
         PROVE  \E j \in i..m : read[k] = committed[j].tables[k]
    <3>1. CASE k \in 1..Len(s.tables)
      BY <3>1, <2>2, <2>9
    <3>2. CASE k = Len(s.tables) + 1
      BY <3>2, <2>4, <2>9
    <3> QED
      BY <3>1, <3>2, <2>6, <2>9
  <2> HIDE DEF t
  <2>14. DrawnFrom(t, committed)
    BY <2>2, <2>12, <2>13 DEF DrawnFrom
  <2>15. (t.pc = "reading" => Len(t.tables) < n) /\ (t.pc = "loaded" => Len(t.tables) = n)
    BY <2>6, <2>9, <2>12
  <2>16. RowsInv(A, R, T, n)'
    BY <2>1, <2>10, <2>12, <2>14, <2>15, SessionStep
  <2> QED
    BY <2>1, <2>10, <2>16 DEF RowsInv, StoreTypes
<1>3. CASE Leave(c)
  <2>1. <<>> \in Seq(T)
    BY EmptySeq
  <2>2. Idle \in [pc : {"idle", "reading", "loaded"}, expected : Nat,
                  root : R \cup {NoRow}, tables : Seq(T)]
        /\ Idle.pc = "idle"
    BY <2>1 DEF Idle
  <2>3. session' = [session EXCEPT ![c] = Idle] /\ UNCHANGED <<db, committed>>
    BY <1>3 DEF Leave
  <2>4. RowsInv(A, R, T, n)'
    BY <2>2, <2>3, SessionStep
  <2> QED
    BY <2>3, <2>4 DEF RowsInv, StoreTypes
<1> QED
  BY <1>1, <1>2, <1>3

\* GetRoot is a ReadsRoot.
LEMMA GetRootReads ==
    ASSUME NEW A, NEW R, NEW T, NEW n, AggregateKind(A, R, T, n), RowsInv(A, R, T, n),
           NEW c \in Client, GetRoot(c)
    PROVE  ReadsRoot(c)
<1>1. db # NoRow
  BY DEF GetRoot
<1>2. db.root.version \in Nat
  BY <1>1, StoredIsLast DEF AggregateKind
<1>3. 0..(db.root.version + Ahead) \subseteq Nat
  BY <1>2, BoundsAssumption
<1> QED
  BY <1>3 DEF GetRoot, ReadsRoot

\* With callers that pass only versions they have been told, the statements of
\* get() and leaving a handler preserve the strong invariant as well.
LEMMA ReadingPreserves ==
    ASSUME NEW A, NEW R, NEW T, NEW n, AggregateKind(A, R, T, n), StoreInv(A, R, T, n), n # 0,
           Ahead = 0, NEW c \in Client, Reading(c)
    PROVE  StoreInv(A, R, T, n)' /\ UNCHANGED <<db, committed>>
<1>1. RowsInv(A, R, T, n)
  BY DEF StoreInv, RowsInv, VersionNamesContent
<1>2. /\ RowsInv(A, R, T, n)' /\ UNCHANGED <<db, committed>>
      /\ \A d \in Client : d # c => session'[d] = session[d]
  BY <1>1, GetRootReads, ReadsPreserve DEF Reading
<1>3. session \in [Client -> [pc : {"idle", "reading", "loaded"}, expected : Nat,
                              root : R \cup {NoRow}, tables : Seq(T)]]
  BY DEF StoreInv, StoreTypes
<1>4. session'[c].pc # "idle" => session'[c].expected <= session'[c].root.version
  <2>1. CASE GetRoot(c)
    <3>1. db.root.version \in Nat
      BY <1>1, <2>1, StoredIsLast DEF AggregateKind, GetRoot
    <3>2. db.root.version + Ahead = db.root.version
      BY <3>1
    <3>3. PICK e \in 0..db.root.version :
            session' = [session EXCEPT ![c] = [pc |-> "reading", expected |-> e,
                                               root |-> db.root, tables |-> <<>>]]
      BY <2>1, <3>2 DEF GetRoot
    <3> QED
      BY <1>3, <3>1, <3>3
  <2>2. CASE GetTable(c)
    <3> DEFINE s == session[c]
               read == Append(s.tables, db.tables[Len(s.tables) + 1])
               pc == IF Len(read) = Len(db.tables) THEN "loaded" ELSE "reading"
    <3>1. /\ session[c].pc = "reading"
          /\ session' = [session EXCEPT ![c] = [s EXCEPT !.tables = read, !.pc = pc]]
      BY <2>2 DEF GetTable
    <3>2. s \in [pc : {"idle", "reading", "loaded"}, expected : Nat,
                 root : R \cup {NoRow}, tables : Seq(T)]
      BY <1>3
    <3> HIDE DEF s, read, pc
    <3>3. session'[c] = [s EXCEPT !.tables = read, !.pc = pc]
      BY <1>3, <3>1
    <3>4. session'[c].expected = s.expected /\ session'[c].root = s.root
      BY <3>2, <3>3
    <3> USE DEF s
    <3> QED
      BY <3>1, <3>4 DEF StoreInv, VersionNamesContent
  <2>3. CASE Leave(c)
    BY <1>3, <2>3 DEF Leave, Idle
  <2> QED
    BY <2>1, <2>2, <2>3 DEF Reading
<1>5. VersionNamesContent'
  BY <1>2, <1>4 DEF StoreInv, RowsInv, VersionNamesContent
<1> QED
  BY <1>2, <1>5 DEF StoreInv, RowsInv

\* Whatever they pass, those steps preserve the weak one.
LEMMA ReadsKeepTables ==
    ASSUME NEW A, NEW R, NEW T, NEW n, AggregateKind(A, R, T, n), TablesInv(A, R, T, n), n # 0,
           NEW c \in Client, ReadsRoot(c) \/ GetTable(c) \/ Leave(c)
    PROVE  TablesInv(A, R, T, n)' /\ UNCHANGED <<db, committed>>
<1>1. RowsInv(A, R, T, n)
  BY DEF TablesInv, RowsInv, VersionNamesTables
<1>2. RowsInv(A, R, T, n)' /\ UNCHANGED <<db, committed>>
  BY <1>1, ReadsPreserve
<1> QED
  BY <1>2 DEF TablesInv, RowsInv, VersionNamesTables

\* A commit preserves what is known of the rows, whoever made it.
LEMMA CommitPreserves ==
    ASSUME NEW A, NEW R, NEW T, NEW n, RowsInv(A, R, T, n), NEW a \in A,
           db' = a, committed' = Append(committed, a),
           \A c \in Client : session'[c] \in {session[c], Idle},
           StoreTypes(A, R, T, n)'
    PROVE  /\ RowsInv(A, R, T, n)'
           /\ Len(committed) \in Nat /\ Len(committed') = Len(committed) + 1
           /\ \A i \in 1..Len(committed) : committed'[i] = committed[i]
           /\ committed'[Len(committed) + 1] = a
<1> DEFINE m == Len(committed)
<1>1. committed \in Seq(A) /\ m \in Nat
  BY LenProperties DEF RowsInv, StoreTypes
<1>2. /\ Len(committed') = m + 1 /\ committed' # <<>>
      /\ \A i \in 1..m : committed'[i] = committed[i]
      /\ committed'[m + 1] = a
  BY <1>1, AppendFacts
<1>3. db' = committed'[Len(committed')]
  BY <1>2
<1>5. ASSUME NEW c \in Client, session'[c].pc # "idle"
      PROVE  DrawnFrom(session'[c], committed')
  <2>1. session'[c] = session[c]
    BY <1>5 DEF Idle
  <2>2. DrawnFrom(session[c], committed)
    BY <1>5, <2>1 DEF RowsInv, RowsAreCommitted
  <2> QED
    BY <1>1, <2>1, <2>2, DrawnFromAppend
<1>6. RowsAreCommitted'
  BY <1>2, <1>3, <1>5 DEF RowsAreCommitted
<1> QED
  BY <1>1, <1>2, <1>6 DEF RowsInv

\* add() stores the first version.
LEMMA AddPreserves ==
    ASSUME NEW A, NEW R, NEW T, NEW n, AggregateKind(A, R, T, n), RowsInv(A, R, T, n),
           NEW a \in A, a.root.version = 0, add(a)
    PROVE  /\ StoreInv(A, R, T, n) => StoreInv(A, R, T, n)'
           /\ TablesInv(A, R, T, n) => TablesInv(A, R, T, n)'
           /\ db = NoRow /\ db' = a
           /\ Len(committed) = 0 /\ committed' = Append(committed, a)
<1>1. committed \in Seq(A)
  BY DEF RowsInv, StoreTypes
<1>2. committed = <<>>
  <2> SUFFICES ASSUME committed # <<>> PROVE FALSE
    OBVIOUS
  <2>1. Len(committed) \in 1..Len(committed)
    BY <1>1, EmptySeq
  <2>2. NoRow = committed[Len(committed)]
    BY DEF add, RowsInv, RowsAreCommitted
  <2> QED
    BY <1>1, <2>1, <2>2, ElementOfSeq DEF AggregateKind
<1>3. Len(committed) = 0
  BY <1>2, EmptySeq
<1>4. db = NoRow /\ db' = a /\ committed' = Append(committed, a) /\ session' = session
  BY DEF add
<1>5. StoreTypes(A, R, T, n)'
  BY <1>1, <1>4, AppendFacts DEF RowsInv, StoreTypes, IsLoaded
<1>6. RowsInv(A, R, T, n)' /\ Len(committed') = 1 /\ committed'[1] = a
  BY <1>3, <1>4, <1>5, CommitPreserves
<1>7. StoreInv(A, R, T, n) => StoreInv(A, R, T, n)'
  BY <1>4, <1>6 DEF StoreInv, RowsInv, VersionNamesContent
<1>8. TablesInv(A, R, T, n)'
  BY <1>6 DEF TablesInv, RowsInv, VersionNamesTables
<1> QED
  BY <1>3, <1>4, <1>7, <1>8

\* save() without a write only ends the handler; with one it leaves well-typed
\* rows when what it writes is an aggregate.
LEMMA SaveTypes ==
    ASSUME NEW A, NEW R, NEW T, NEW n, RowsInv(A, R, T, n), NEW c \in Client,
           session' = [session EXCEPT ![c] = Idle],
           committed' \in Seq(A), db' \in A \cup {NoRow}
    PROVE  /\ StoreTypes(A, R, T, n)'
           /\ \A d \in Client : session'[d] \in {session[d], Idle}
<1>1. <<>> \in Seq(T)
  BY EmptySeq
<1>2. Idle \in [pc : {"idle", "reading", "loaded"}, expected : Nat,
                root : R \cup {NoRow}, tables : Seq(T)]
      /\ Idle.pc = "idle"
  BY <1>1 DEF Idle
<1> QED
  BY <1>2 DEF RowsInv, StoreTypes, IsLoaded

\* A save() of the next version of what was loaded either changes nothing or
\* replaces the stored aggregate, which then was exactly what had been loaded.
LEMMA SavePreserves ==
    ASSUME NEW A, NEW R, NEW T, NEW n, AggregateKind(A, R, T, n), StoreInv(A, R, T, n),
           NEW c \in Client, IsLoaded(c),
           NEW a \in A, a.root.version = Loaded(c).root.version + 1, Saves(c, a)
    PROVE  /\ StoreInv(A, R, T, n)'
           /\ \/ db' = db /\ committed' = committed
              \/ /\ db # NoRow /\ Loaded(c) = db /\ db' = a
                 /\ committed' = Append(committed, a)
<1>1. session' = [session EXCEPT ![c] = Idle]
  BY DEF Saves
<1>2. RowsInv(A, R, T, n) /\ committed \in Seq(A) /\ db \in A \cup {NoRow}
  BY DEF StoreInv, RowsInv, VersionNamesContent, StoreTypes
<1>3. \A d \in Client : session'[d] \in {session[d], Idle}
  BY <1>1 DEF StoreInv, StoreTypes
<1>4. \A d \in Client : session'[d].pc # "idle" => session'[d].expected <= session'[d].root.version
  BY <1>3 DEF StoreInv, VersionNamesContent, Idle
<1>5. CASE a.root.version >= session[c].expected /\ db.root.version = session[c].expected
  <2>1. db # NoRow /\ Loaded(c) = db /\ db.root.version = Len(committed) - 1
    BY <1>5, LoadedIsCurrent
  <2>2. Len(committed) \in Nat \ {0}
    BY <1>2, <2>1, StoredIsLast
  <2>3. a.root.version = Len(committed) /\ a.root.version # session[c].expected
    BY <1>5, <2>1, <2>2
  <2>4. Written(c, a) = a
    BY <2>3 DEF Written, AggregateKind
  <2>5. db' = a /\ committed' = Append(committed, a)
    BY <1>5, <2>4 DEF Saves
  <2>6. committed' \in Seq(A)
    BY <1>2, <2>5, AppendFacts
  <2>7. StoreTypes(A, R, T, n)'
    BY <1>1, <1>2, <2>5, <2>6, SaveTypes
  <2>8. /\ RowsInv(A, R, T, n)' /\ Len(committed') = Len(committed) + 1
        /\ \A i \in 1..Len(committed) : committed'[i] = committed[i]
        /\ committed'[Len(committed) + 1] = a
    BY <1>2, <1>3, <2>5, <2>7, CommitPreserves
  <2>9. \A i \in 1..Len(committed') : committed'[i].root.version = i - 1
    BY <2>2, <2>3, <2>8 DEF StoreInv, VersionNamesContent
  <2>10. StoreInv(A, R, T, n)'
    BY <1>4, <2>8, <2>9 DEF StoreInv, RowsInv, VersionNamesContent
  <2> QED
    BY <2>1, <2>5, <2>10
<1>6. CASE ~(a.root.version >= session[c].expected /\ db.root.version = session[c].expected)
  <2>1. UNCHANGED <<db, committed>>
    BY <1>6 DEF Saves
  <2>2. StoreTypes(A, R, T, n)'
    BY <1>1, <1>2, <2>1, SaveTypes
  <2>3. VersionNamesContent'
    BY <1>3, <1>4, <2>1 DEF StoreInv, VersionNamesContent, RowsAreCommitted, Idle
  <2> QED
    BY <2>1, <2>2, <2>3 DEF StoreInv
<1> QED
  BY <1>5, <1>6

\* Whatever version the caller passes, a save() of the next version of what was
\* loaded keeps the stored child tables unless the ones that were loaded are
\* still the stored ones.
LEMMA SaveKeepsTables ==
    ASSUME NEW A, NEW R, NEW T, NEW n, AggregateKind(A, R, T, n), TablesInv(A, R, T, n),
           NEW c \in Client, IsLoaded(c),
           NEW a \in A, a.root.version = Loaded(c).root.version + 1, Saves(c, a),
           db \in A => [root |-> a.root, tables |-> db.tables] \in A
    PROVE  /\ TablesInv(A, R, T, n)'
           /\ \/ db' = db
              \/ db # NoRow /\ db'.tables = db.tables
              \/ db # NoRow /\ Loaded(c).tables = db.tables /\ db'.tables = a.tables
<1> DEFINE m == Len(committed)
           w == Written(c, a)
<1>1. session' = [session EXCEPT ![c] = Idle]
  BY DEF Saves
<1>2. RowsInv(A, R, T, n) /\ committed \in Seq(A) /\ db \in A \cup {NoRow}
  BY DEF TablesInv, RowsInv, VersionNamesTables, StoreTypes
<1>3. session[c].pc # "idle"
  BY DEF IsLoaded
<1>4. db # NoRow
  BY <1>2, <1>3, HeldRows
<1>5. m \in Nat \ {0} /\ db = committed[m] /\ db \in A
  BY <1>2, <1>4, StoredIsLast
<1>6. db.root.version \in Nat /\ a.root.version \in Nat
  BY <1>5 DEF AggregateKind
<1>7. ASSUME NEW i \in 1..m
      PROVE  committed[i].root.version \in Nat
  BY <1>2, ElementOfSeq DEF AggregateKind
<1>8. CASE a.root.version >= session[c].expected /\ db.root.version = session[c].expected
  <2>1. db' = w /\ committed' = Append(committed, w)
    BY <1>8 DEF Saves
  <2>2. /\ w \in A /\ w.root = a.root
        /\ \/ w.tables = db.tables
           \/ w.tables = a.tables /\ a.root.version > db.root.version
    <3>1. CASE a.root.version = session[c].expected
      <4>1. w = [root |-> a.root, tables |-> db.tables]
        BY <3>1 DEF Written
      <4> HIDE DEF w
      <4> QED
        BY <1>5, <4>1
    <3>2. CASE a.root.version # session[c].expected
      <4>1. w = [root |-> a.root, tables |-> a.tables]
        BY <3>2 DEF Written
      <4>2. w = a
        BY <4>1 DEF AggregateKind
      <4>3. a.root.version > db.root.version
        BY <1>6, <1>8, <3>2
      <4> HIDE DEF w
      <4> QED
        BY <4>2, <4>3
    <3> QED
      BY <3>1, <3>2
  <2> HIDE DEF w
  <2>3. committed' \in Seq(A)
    BY <1>2, <2>1, <2>2, AppendFacts
  <2>4. StoreTypes(A, R, T, n)' /\ \A d \in Client : session'[d] \in {session[d], Idle}
    BY <1>1, <1>2, <2>1, <2>2, <2>3, SaveTypes
  <2>5. /\ RowsInv(A, R, T, n)' /\ Len(committed') = m + 1
        /\ \A i \in 1..m : committed'[i] = committed[i]
        /\ committed'[m + 1] = w
    BY <1>2, <2>1, <2>2, <2>4, CommitPreserves
  <2>6. ASSUME NEW i \in 1..m
        PROVE  /\ committed[i].root.version <= db.root.version
               /\ committed[i].root.version = db.root.version => committed[i].tables = db.tables
    <3>1. m \in 1..m
      BY <1>5
    <3> QED
      BY <1>5, <3>1 DEF TablesInv, VersionNamesTables
  <2>7. ASSUME NEW i \in 1..m
        PROVE  /\ committed[i].root.version <= w.root.version
               /\ committed[i].root.version = w.root.version => committed[i].tables = w.tables
    <3>1. w.root.version >= db.root.version
      BY <1>6, <1>8, <2>2
    <3>2. CASE w.tables = db.tables
      BY <1>6, <1>7, <2>2, <2>6, <3>1, <3>2
    <3>3. CASE w.tables = a.tables /\ a.root.version > db.root.version
      BY <1>6, <1>7, <2>2, <2>6, <3>3
    <3> QED
      BY <2>2, <3>2, <3>3
  <2>8. ASSUME NEW j \in 1..(m + 1), NEW i \in 1..j
        PROVE  /\ committed'[i].root.version <= committed'[j].root.version
               /\ committed'[i].root.version = committed'[j].root.version
                    => committed'[i].tables = committed'[j].tables
    <3>1. CASE j \in 1..m
      <4>1. i \in 1..m /\ i \in 1..j
        BY <1>5, <3>1
      <4> QED
        BY <2>5, <3>1, <4>1 DEF TablesInv, VersionNamesTables
    <3>2. CASE j = m + 1 /\ i \in 1..m
      BY <2>5, <2>7, <3>2
    <3>3. CASE j = m + 1 /\ i = m + 1
      BY <1>6, <2>2, <2>5, <3>3
    <3> QED
      BY <1>5, <3>1, <3>2, <3>3
  <2>9. TablesInv(A, R, T, n)'
    BY <2>5, <2>8 DEF TablesInv, RowsInv, VersionNamesTables
  <2>10. ASSUME a.root.version > db.root.version
         PROVE  Loaded(c).tables = db.tables
    <3>1. PICK i \in 1..m :
            /\ session[c].root = committed[i].root
            /\ \A k \in 1..Len(session[c].tables) :
                  \E j \in i..m : session[c].tables[k] = committed[j].tables[k]
      BY <1>2, <1>3, HeldRows
    <3>2. committed[i].root.version = db.root.version
      <4>1. a.root.version = committed[i].root.version + 1
        BY <3>1 DEF Loaded
      <4> QED
        BY <1>6, <1>7, <2>6, <2>10, <4>1
    <3>3. ASSUME NEW k \in 1..Len(session[c].tables)
          PROVE  session[c].tables[k] = db.tables[k]
      <4>1. PICK j \in i..m : session[c].tables[k] = committed[j].tables[k]
        BY <3>1
      <4>2. j \in 1..m /\ i \in 1..j
        BY <1>5
      <4>3. committed[i].root.version <= committed[j].root.version
        BY <4>2 DEF TablesInv, VersionNamesTables
      <4>4. committed[j].root.version = db.root.version
        BY <1>6, <1>7, <2>6, <3>2, <4>2, <4>3
      <4> QED
        BY <2>6, <4>1, <4>2, <4>4
    <3>4. session[c].tables = db.tables
      BY <1>2, <1>5, <3>3, SameTables
    <3> QED
      BY <3>4 DEF Loaded
  <2> QED
    BY <1>4, <2>1, <2>2, <2>9, <2>10
<1>9. CASE ~(a.root.version >= session[c].expected /\ db.root.version = session[c].expected)
  <2>1. UNCHANGED <<db, committed>>
    BY <1>9 DEF Saves
  <2>2. StoreTypes(A, R, T, n)' /\ \A d \in Client : session'[d] \in {session[d], Idle}
    BY <1>1, <1>2, <2>1, SaveTypes
  <2>3. VersionNamesTables'
    BY <2>1, <2>2 DEF TablesInv, VersionNamesTables, RowsAreCommitted, Idle
  <2> QED
    BY <2>1, <2>2, <2>3 DEF TablesInv
<1> QED
  BY <1>8, <1>9
=============================================================================
