-------------------------- MODULE AggregatesProofs --------------------------
(***************************************************************************)
(* Run, EvidencePackage, Review and Campaign: the stored rows of each are  *)
(* an atomic object that always reconstructs, for any number of clients    *)
(* and any values, when callers pass only versions the repository has told *)
(* them; and, whatever versions they pass, no child row of a Run,          *)
(* EvidencePackage or Review is ever lost.                                 *)
(***************************************************************************)
EXTENDS Aggregates, CampaignHandlers, AggregateStoreProofs

------------------------------------------------------------------------------
(* What the methods the four aggregates share do. *)

\* The record _transition appends.
NewRecord(a, to, reason) ==
    [from_state |-> a.root.lifecycle_state, to_state |-> to, version |-> a.root.version + 1,
     sequence |-> a.root.next_transition_sequence, reason |-> reason]

\* The table g continues the table h.
Continues(g, h) ==
    Len(h) <= Len(g) /\ \A i \in 1..Len(h) : g[i] = h[i]

\* b is an aggregate of the set A one version after a that keeps all child rows.
Successor(A, a, b) ==
    /\ b \in A
    /\ b.root.version = a.root.version + 1
    /\ Len(b.tables) = Len(a.tables)
    /\ \A k \in 1..Len(a.tables) : Continues(b.tables[k], a.tables[k])

\* A table continues itself, and an Append to it continues it.
LEMMA ContinuesFacts ==
    ASSUME NEW S, NEW h \in Seq(S)
    PROVE  Continues(h, h) /\ \A x \in S : Continues(Append(h, x), h)
<1>1. Len(h) \in Nat
  BY LenProperties
<1>2. ASSUME NEW x \in S
      PROVE  Continues(Append(h, x), h)
  BY <1>1, AppendFacts DEF Continues
<1> QED
  BY <1>1, <1>2 DEF Continues

\* The same in the words of the community modules.
LEMMA ContinuesIsPrefix ==
    ASSUME NEW S, NEW g \in Seq(S), NEW h \in Seq(S), Continues(g, h)
    PROVE  IsPrefix(h, g)
<1>1. Len(h) \in Nat /\ Len(g) \in Nat /\ Len(h) <= Len(g)
  BY LenProperties DEF Continues
<1> DEFINE p == SubSeq(h, 1, Len(h))
           q == SubSeq(g, 1, Len(h))
<1>2. p = [i \in 1..Len(h) |-> h[i]]
  BY <1>1, SubSeqProperties
<1>3. q = [i \in 1..Len(h) |-> g[i]]
  BY <1>1, SubSeqProperties
<1>4. p = q
  BY <1>2, <1>3 DEF Continues
<1> QED
  BY <1>1, <1>4 DEF IsPrefix

\* Sequences of one, two or three equal elements.
LEMMA Repeated ==
    ASSUME NEW e
    PROVE  /\ Append(<<>>, e) = <<e>> /\ Len(<<e>>) = 1 /\ <<e>>[1] = e
           /\ Append(<<e>>, e) = <<e, e>> /\ Len(<<e, e>>) = 2
           /\ <<e, e>>[1] = e /\ <<e, e>>[2] = e
           /\ Append(<<e, e>>, e) = <<e, e, e>> /\ Len(<<e, e, e>>) = 3
           /\ <<e, e, e>>[1] = e /\ <<e, e, e>>[2] = e /\ <<e, e, e>>[3] = e
<1> DEFINE S == {e}
           one == <<e>>
           two == <<e, e>>
           three == <<e, e, e>>
<1>1. Append(<<>>, e) = one
  OBVIOUS
<1>2. one \in Seq(S) /\ Len(one) = 1 /\ one[1] = e
  OBVIOUS
<1>3. two \in Seq(S) /\ Len(two) = 2 /\ two[1] = e /\ two[2] = e
  OBVIOUS
<1>4. three \in Seq(S) /\ Len(three) = 3 /\ three[1] = e /\ three[2] = e /\ three[3] = e
  OBVIOUS
<1>0. e \in S
  OBVIOUS
<1> HIDE DEF one, two, three, S
<1>5. Append(one, e) = two
  <2>0. one \in Seq(S)
    BY <1>2
  <2>1. /\ Append(one, e) \in Seq(S) /\ Len(Append(one, e)) = Len(one) + 1
        /\ \A i \in 1..Len(one) : Append(one, e)[i] = one[i]
        /\ Append(one, e)[Len(one) + 1] = e
    BY <1>0, <2>0, AppendFacts
  <2> DEFINE s == Append(one, e)
  <2> HIDE DEF s
  <2>2. s \in Seq(S) /\ Len(s) = 2 /\ \A i \in 1..2 : s[i] = two[i]
    BY <1>2, <1>3, <2>1 DEF s
  <2> QED
    BY <1>3, <2>2, SeqEqual DEF s
<1>6. Append(two, e) = three
  <2>0. two \in Seq(S)
    BY <1>3
  <2>1. /\ Append(two, e) \in Seq(S) /\ Len(Append(two, e)) = Len(two) + 1
        /\ \A i \in 1..Len(two) : Append(two, e)[i] = two[i]
        /\ Append(two, e)[Len(two) + 1] = e
    BY <1>0, <2>0, AppendFacts
  <2> DEFINE s == Append(two, e)
  <2> HIDE DEF s
  <2>2. s \in Seq(S) /\ Len(s) = 3 /\ \A i \in 1..3 : s[i] = three[i]
    BY <1>3, <1>4, <2>1 DEF s
  <2> QED
    BY <1>4, <2>2, SeqEqual DEF s
<1> QED
  BY <1>1, <1>2, <1>3, <1>4, <1>5, <1>6 DEF one, two, three

\* Tables without rows.
LEMMA EmptyTables ==
    ASSUME NEW S
    PROVE  /\ <<>> \in Seq(S) /\ Len(<<>>) = 0
           /\ << <<>> >> \in Seq(Seq(S))
           /\ << <<>>, <<>> >> \in Seq(Seq(S))
           /\ << <<>>, <<>>, <<>> >> \in Seq(Seq(S))
<1>1. ASSUME NEW X, NEW e \in X
      PROVE  <<e>> \in Seq(X) /\ <<e, e>> \in Seq(X) /\ <<e, e, e>> \in Seq(X)
  OBVIOUS
<1>2. <<>> \in Seq(S) /\ Len(<<>>) = 0
  BY EmptySeq
<1> QED
  BY <1>1, <1>2

\* The fields of an aggregate.
LEMMA Fields ==
    ASSUME NEW att, NEW own, NEW n \in Nat \ {0}, NEW a \in AggregatesOf(att, own, n)
    PROVE  /\ a = [root |-> a.root, tables |-> a.tables]
           /\ a.root \in Roots(att) /\ a.root.version \in Nat
           /\ a.root.next_transition_sequence \in Nat
           /\ a.root.lifecycle_state \in LifecycleStates /\ a.root.attributes \in att
           /\ a.tables \in Seq(Seq(own \cup Records)) /\ Len(a.tables) = n
           /\ a.tables[n] \in Seq(Records)
BY DEF AggregatesOf, Roots

\* Its child tables, of which the history is the last.
LEMMA Tables ==
    ASSUME NEW att, NEW own, NEW n \in Nat \ {0}, NEW a \in AggregatesOf(att, own, n),
           NEW k \in 1..n
    PROVE  a.tables[k] \in Seq(own \cup Records)
<1>1. a.tables \in Seq(Seq(own \cup Records)) /\ k \in 1..Len(a.tables)
  BY DEF AggregatesOf
<1> QED
  BY <1>1, ElementOfSeq

LEMMA HistoryIsLast ==
    ASSUME NEW att, NEW own, NEW n \in Nat \ {0}, NEW a \in AggregatesOf(att, own, n)
    PROVE  transition_history(a) = a.tables[n] /\ HistoryTable(a) = n
BY Fields DEF transition_history, HistoryTable

\* The typed aggregates are a kind of aggregate for the store.
LEMMA IsKind ==
    ASSUME NEW att, NEW own, NEW n \in Nat \ {0}, NoRow \notin AggregatesOf(att, own, n)
    PROVE  AggregateKind(AggregatesOf(att, own, n), Roots(att), Seq(own \cup Records), n)
BY Fields DEF AggregateKind

\* What _transition makes of an aggregate with n child tables.
IsTransition(a, to, reason, n, b) ==
    /\ b.root = [lifecycle_state |-> to, version |-> a.root.version + 1,
                 next_transition_sequence |-> a.root.next_transition_sequence + 1,
                 attributes |-> a.root.attributes]
    /\ NewRecord(a, to, reason) \in Records
    /\ b.tables[n] = Append(a.tables[n], NewRecord(a, to, reason))
    /\ \A k \in 1..n : k # n => b.tables[k] = a.tables[k]

\* What adding a value to the child table t makes of it.
IsAppend(a, t, value, n, b) ==
    /\ b.root = [lifecycle_state |-> a.root.lifecycle_state, version |-> a.root.version + 1,
                 next_transition_sequence |-> a.root.next_transition_sequence,
                 attributes |-> a.root.attributes]
    /\ b.tables[t] = Append(a.tables[t], value)
    /\ \A k \in 1..n : k # t => b.tables[k] = a.tables[k]

\* The _transition method: out of the states it allows only, with the record
\* appended to the history and the other tables as they were.
LEMMA TransitionFacts ==
    ASSUME NEW att, NEW own, NEW n \in Nat \ {0}, NEW a \in AggregatesOf(att, own, n),
           NEW from, NEW to \in LifecycleStates, NEW reason \in Reasons,
           NEW b \in Transition(a, from, to, reason)
    PROVE  /\ a.root.lifecycle_state \in from
           /\ Successor(AggregatesOf(att, own, n), a, b)
           /\ IsTransition(a, to, reason, n, b)
<1> DEFINE r == NewRecord(a, to, reason)
           root == [lifecycle_state |-> to, version |-> a.root.version + 1,
                    next_transition_sequence |-> a.root.next_transition_sequence + 1,
                    attributes |-> a.root.attributes]
           g == Append(a.tables[n], r)
<1>1. /\ a.root \in Roots(att) /\ a.root.version \in Nat
      /\ a.root.next_transition_sequence \in Nat
      /\ a.root.lifecycle_state \in LifecycleStates /\ a.root.attributes \in att
      /\ Len(a.tables) = n /\ a.tables[n] \in Seq(Records) /\ HistoryTable(a) = n
  BY Fields, HistoryIsLast
<1>2. r \in Records
  BY <1>1 DEF NewRecord, Records
<1>3. g \in Seq(Records) /\ g \in Seq(own \cup Records) /\ Continues(g, a.tables[n])
  BY <1>1, <1>2, AppendFacts, ContinuesFacts
<1>4. root \in Roots(att)
  BY <1>1 DEF Roots
<1>5. /\ a.root.lifecycle_state \in from
      /\ b = [root   |-> [a.root EXCEPT !.lifecycle_state = to, !.version = @ + 1,
                                        !.next_transition_sequence = @ + 1],
              tables |-> [a.tables EXCEPT ![n] = g]]
  BY <1>1 DEF Transition, NewRecord
<1>6. /\ b.root = root /\ b = [root |-> b.root, tables |-> b.tables]
      /\ b.tables = [a.tables EXCEPT ![n] = g]
  <2>1. /\ b.root = [a.root EXCEPT !.lifecycle_state = to, !.version = @ + 1,
                                   !.next_transition_sequence = @ + 1]
        /\ b = [root |-> b.root, tables |-> b.tables]
        /\ b.tables = [a.tables EXCEPT ![n] = g]
    BY <1>5
  <2>2. b.root = root
    BY <1>1, <2>1 DEF Roots
  <2> QED
    BY <2>1, <2>2
<1> HIDE DEF g, root, r
<1>7. /\ b \in AggregatesOf(att, own, n) /\ b.root = root /\ b.tables[n] = g
      /\ \A k \in 1..n : k # n => b.tables[k] = a.tables[k]
  <2>1. /\ b.tables \in Seq(Seq(own \cup Records)) /\ Len(b.tables) = n
        /\ \A k \in 1..n : b.tables[k] = IF k = n THEN g ELSE a.tables[k]
    <3>1. n \in 1..Len(a.tables) /\ a.tables \in Seq(Seq(own \cup Records))
      BY <1>1, Fields
    <3> QED
      BY <1>1, <1>3, <1>6, <3>1, ExceptSeq
  <2>2. b.tables[n] = g /\ \A k \in 1..n : k # n => b.tables[k] = a.tables[k]
    BY <2>1
  <2>3. b \in AggregatesOf(att, own, n)
    BY <1>3, <1>4, <1>6, <2>1, <2>2 DEF AggregatesOf
  <2> QED
    BY <1>6, <2>2, <2>3
<1>8. ASSUME NEW k \in 1..n
      PROVE  Continues(b.tables[k], a.tables[k])
  <2>1. CASE k = n
    BY <1>3, <1>7, <2>1
  <2>2. CASE k # n
    BY <1>7, <2>2, Tables, ContinuesFacts
  <2> QED
    BY <2>1, <2>2
<1>9. Len(b.tables) = n
  BY <1>7 DEF AggregatesOf
<1>10. Successor(AggregatesOf(att, own, n), a, b)
  BY <1>1, <1>7, <1>8, <1>9 DEF Successor, root
<1> QED
  BY <1>2, <1>5, <1>7, <1>10 DEF IsTransition, g, root, r

\* Appending an owned value to a table other than the history.
LEMMA AppendOwnedFacts ==
    ASSUME NEW att, NEW own, NEW n \in Nat \ {0}, NEW a \in AggregatesOf(att, own, n),
           NEW t \in 1..n, t # n, NEW value \in own,
           NEW b, b = AppendOwned(a, t, value)
    PROVE  /\ Successor(AggregatesOf(att, own, n), a, b)
           /\ IsAppend(a, t, value, n, b)
<1> DEFINE root == [lifecycle_state |-> a.root.lifecycle_state, version |-> a.root.version + 1,
                    next_transition_sequence |-> a.root.next_transition_sequence,
                    attributes |-> a.root.attributes]
           g == Append(a.tables[t], value)
<1>1. /\ a.root \in Roots(att) /\ a.root.version \in Nat
      /\ a.root.next_transition_sequence \in Nat
      /\ a.root.lifecycle_state \in LifecycleStates /\ a.root.attributes \in att
      /\ Len(a.tables) = n /\ a.tables[n] \in Seq(Records)
      /\ a.tables \in Seq(Seq(own \cup Records))
  BY Fields
<1>2. a.tables[t] \in Seq(own \cup Records) /\ value \in own \cup Records
  BY Tables
<1>3. g \in Seq(own \cup Records) /\ Continues(g, a.tables[t])
  BY <1>2, AppendFacts, ContinuesFacts
<1>4. root \in Roots(att)
  BY <1>1 DEF Roots
<1>5. /\ b.root = [a.root EXCEPT !.version = @ + 1]
      /\ b = [root |-> b.root, tables |-> b.tables]
      /\ b.tables = [a.tables EXCEPT ![t] = g]
  BY DEF AppendOwned
<1>6. b.root = root
  BY <1>1, <1>5 DEF Roots
<1> HIDE DEF g, root
<1>7. /\ b.tables \in Seq(Seq(own \cup Records)) /\ Len(b.tables) = n
      /\ \A k \in 1..n : b.tables[k] = IF k = t THEN g ELSE a.tables[k]
  <2>1. t \in 1..Len(a.tables)
    BY <1>1
  <2> QED
    BY <1>1, <1>3, <1>5, <2>1, ExceptSeq
<1>8. b.tables[t] = g /\ b.tables[n] = a.tables[n] /\ \A k \in 1..n : k # t => b.tables[k] = a.tables[k]
  BY <1>7
<1>9. b \in AggregatesOf(att, own, n)
  <2>1. b \in [root : Roots(att), tables : Seq(Seq(own \cup Records))]
    BY <1>4, <1>5, <1>6, <1>7
  <2> QED
    BY <1>1, <1>7, <1>8, <2>1 DEF AggregatesOf
<1>10. ASSUME NEW k \in 1..n
       PROVE  Continues(b.tables[k], a.tables[k])
  <2>1. CASE k = t
    BY <1>3, <1>8, <2>1
  <2>2. CASE k # t
    BY <1>8, <2>2, Tables, ContinuesFacts
  <2> QED
    BY <2>1, <2>2
<1>11. b.root.version = a.root.version + 1
  BY <1>6 DEF root
<1>12. Successor(AggregatesOf(att, own, n), a, b)
  BY <1>1, <1>7, <1>9, <1>10, <1>11 DEF Successor
<1> QED
  BY <1>6, <1>8, <1>12 DEF IsAppend, g, root

\* A transition along an allowed edge out of a state that is not terminal keeps
\* the history valid.
LEMMA TransitionKeepsHistory ==
    ASSUME NEW att, NEW own, NEW n \in Nat \ {0}, NEW a \in AggregatesOf(att, own, n),
           NEW initial, NEW edges, NEW terminal, ValidHistory(a, initial, edges, terminal),
           NEW from, NEW to \in LifecycleStates, NEW reason \in Reasons,
           NEW b \in Transition(a, from, to, reason),
           a.root.lifecycle_state \notin terminal,
           <<a.root.lifecycle_state, to>> \in edges
    PROVE  /\ ValidHistory(b, initial, edges, terminal)
           /\ transition_history(b) # <<>>
           /\ transition_history(b)[Len(transition_history(b))].reason = reason
<1> DEFINE h == a.tables[n]
           r == NewRecord(a, to, reason)
           g == b.tables[n]
           m == Len(h)
<1>1. /\ b \in AggregatesOf(att, own, n)
      /\ r \in Records /\ g = Append(h, r)
      /\ b.root = [lifecycle_state |-> to, version |-> a.root.version + 1,
                   next_transition_sequence |-> a.root.next_transition_sequence + 1,
                   attributes |-> a.root.attributes]
  <2>1. Successor(AggregatesOf(att, own, n), a, b) /\ IsTransition(a, to, reason, n, b)
    BY TransitionFacts
  <2> QED
    BY <2>1 DEF Successor, IsTransition
<1>2. /\ a.root.version \in Nat /\ h \in Seq(Records) /\ m \in Nat
  BY Fields, LenProperties
<1>3. transition_history(a) = h /\ transition_history(b) = g
  BY <1>1, HistoryIsLast
<1> HIDE DEF h, g, r
<1>4. /\ b.root.lifecycle_state = to /\ b.root.version = a.root.version + 1
      /\ b.root.next_transition_sequence = a.root.next_transition_sequence + 1
  BY <1>1
<1>5. /\ g # <<>> /\ Len(g) = m + 1 /\ g[m + 1] = r
      /\ \A i \in 1..m : g[i] = h[i]
  BY <1>1, <1>2, AppendFacts
<1>6. /\ h = <<>> => a.root.lifecycle_state = initial
      /\ \A i \in 1..m :
            /\ h[i].sequence = i
            /\ <<h[i].from_state, h[i].to_state>> \in edges
            /\ h[i].from_state = IF i = 1 THEN initial ELSE h[i - 1].to_state
            /\ i > 1 => h[i - 1].to_state \notin terminal
            /\ h[i].version <= a.root.version
      /\ h # <<>> => h[m].to_state = a.root.lifecycle_state
      /\ a.root.next_transition_sequence = m + 1
  BY <1>3 DEF ValidHistory
<1>7. /\ r.from_state = a.root.lifecycle_state /\ r.to_state = to
      /\ r.version = b.root.version /\ r.sequence = m + 1 /\ r.reason = reason
  BY <1>4, <1>6 DEF NewRecord, r
<1>8. m = 0 <=> h = <<>>
  BY <1>2, EmptySeq
<1>9. ASSUME NEW i \in 1..Len(g)
      PROVE  /\ g[i].sequence = i
             /\ <<g[i].from_state, g[i].to_state>> \in edges
             /\ g[i].from_state = IF i = 1 THEN initial ELSE g[i - 1].to_state
             /\ i > 1 => g[i - 1].to_state \notin terminal
             /\ g[i].version <= b.root.version
  <2>1. CASE i \in 1..m
    <3>1. g[i] = h[i] /\ (i > 1 => g[i - 1] = h[i - 1])
      BY <1>2, <1>5, <2>1
    <3>2. h[i] \in Records
      BY <1>2, <2>1, ElementOfSeq
    <3>3. h[i].version \in Nat /\ h[i].version <= a.root.version
      BY <1>6, <2>1, <3>2 DEF Records
    <3>4. g[i].version <= b.root.version
      BY <1>2, <1>4, <3>1, <3>3
    <3> QED
      BY <1>6, <2>1, <3>1, <3>4
  <2>2. CASE i = m + 1
    <3>1. g[i] = r /\ (i > 1 => g[i - 1] = h[m])
      BY <1>2, <1>5, <2>2
    <3>2. b.root.version <= b.root.version
      BY <1>2, <1>4
    <3>3. i = 1 <=> h = <<>>
      BY <1>2, <1>8, <2>2
    <3>4. i > 1 <=> h # <<>>
      BY <1>2, <1>8, <2>2
    <3> QED
      BY <1>6, <1>7, <2>2, <3>1, <3>2, <3>3, <3>4
  <2> QED
    BY <1>2, <1>5, <2>1, <2>2
<1>10. /\ g[Len(g)].to_state = b.root.lifecycle_state /\ g[Len(g)].reason = reason
       /\ b.root.next_transition_sequence = Len(g) + 1
  BY <1>2, <1>4, <1>5, <1>6, <1>7
<1>11. ValidHistory(b, initial, edges, terminal)
  BY <1>3, <1>5, <1>9, <1>10 DEF ValidHistory
<1> QED
  BY <1>3, <1>5, <1>10, <1>11

\* A mutation that is no transition keeps the history valid.
LEMMA MutationKeepsHistory ==
    ASSUME NEW att, NEW own, NEW n \in Nat \ {0}, NEW a \in AggregatesOf(att, own, n),
           NEW b \in AggregatesOf(att, own, n),
           NEW initial, NEW edges, NEW terminal, ValidHistory(a, initial, edges, terminal),
           b.tables[n] = a.tables[n], b.root.lifecycle_state = a.root.lifecycle_state,
           b.root.next_transition_sequence = a.root.next_transition_sequence,
           b.root.version = a.root.version + 1
    PROVE  /\ ValidHistory(b, initial, edges, terminal)
           /\ transition_history(b) = transition_history(a)
<1> DEFINE h == a.tables[n]
<1>1. /\ a.root.version \in Nat /\ h \in Seq(Records)
  BY Fields
<1>2. transition_history(a) = h /\ transition_history(b) = h
  BY HistoryIsLast
<1>3. \A i \in 1..Len(h) : h[i].version \in Nat
  <2>1. \A i \in 1..Len(h) : h[i] \in Records
    BY <1>1, ElementOfSeq
  <2> QED
    BY <2>1 DEF Records
<1> HIDE DEF h
<1>4. \A i \in 1..Len(h) : h[i].version <= a.root.version => h[i].version <= b.root.version
  BY <1>1, <1>3
<1>5. ValidHistory(b, initial, edges, terminal)
  BY <1>2, <1>4 DEF ValidHistory
<1> QED
  BY <1>2, <1>5

------------------------------------------------------------------------------
(* The Run. *)

\* The operators the aggregates share are the same in every instance.
LEMMA RunShared ==
    ASSUME NEW a
    PROVE  /\ \A f, t, r : RunCases!Domain!Transition(a, f, t, r) = Transition(a, f, t, r)
           /\ \A t, v : RunCases!Domain!AppendOwned(a, t, v) = AppendOwned(a, t, v)
           /\ \A i, e, t : RunCases!Domain!ValidHistory(a, i, e, t) <=> ValidHistory(a, i, e, t)
           /\ RunCases!Domain!transition_history(a) = transition_history(a)
           /\ RunCases!Domain!Given = Given /\ RunCases!Domain!NoReason = NoReason
BY DEF RunCases!Domain!Transition, RunCases!Domain!AppendOwned, RunCases!Domain!ValidHistory,
       RunCases!Domain!transition_history, RunCases!Domain!HistoryTable, RunCases!Domain!Given,
       RunCases!Domain!NoReason, Transition, AppendOwned, ValidHistory, transition_history,
       HistoryTable, Given, NoReason

\* b is a after a legal transition.
RunMoves(a, b) ==
    \E from, to \in LifecycleStates, reason \in Reasons :
       /\ b \in Transition(a, {from}, to, reason)
       /\ a.root.lifecycle_state = from
       /\ from \notin RunCases!Domain!TerminalStates
       /\ <<from, to>> \in RunCases!Domain!AllowedEdges
       /\ to \in {"FAILED", "CANCELLED"} => reason = Given

\* b is a with one manifest more.
RunCollects(a, b) ==
    \E m \in ManifestId \cup {NoManifestId} :
       /\ b = AppendOwned(a, 1, m)
       /\ a.root.lifecycle_state \notin RunCases!Domain!TerminalStates
       /\ m = NoManifestId \/ \A i \in 1..Len(a.tables[1]) : a.tables[1][i] # m

\* A transition out of one of several states is one out of the state the
\* aggregate is in.
LEMMA NarrowTransition ==
    ASSUME NEW a, NEW f, NEW t, NEW r, NEW b \in Transition(a, f, t, r)
    PROVE  /\ a.root.lifecycle_state \in f
           /\ b \in Transition(a, {a.root.lifecycle_state}, t, r)
BY DEF Transition

LEMMA RunMutations ==
    ASSUME NEW a \in Runs, NEW b \in RunCases!Domain!Mutations(a)
    PROVE  RunMoves(a, b) \/ RunCollects(a, b)
<1> DEFINE s == a.root.lifecycle_state
<1>a. ASSUME NEW f, NEW to, NEW reason, b \in RunCases!Domain!Transition(a, f, to, reason)
      PROVE  s \in f /\ b \in Transition(a, {s}, to, reason)
  <2>1. b \in Transition(a, f, to, reason)
    BY <1>a, RunShared
  <2> QED
    BY <2>1, NarrowTransition
<1>b. ASSUME NEW to \in LifecycleStates, NEW reason \in Reasons, b \in Transition(a, {s}, to, reason),
             s \in LifecycleStates, s \notin RunCases!Domain!TerminalStates,
             <<s, to>> \in RunCases!Domain!AllowedEdges,
             to \in {"FAILED", "CANCELLED"} => reason = Given
      PROVE  RunMoves(a, b)
  BY <1>b DEF RunMoves
<1> HIDE DEF s
<1> USE DEF RunCases!Domain!AllowedEdges, RunCases!Domain!TerminalStates, Reasons, Given, NoReason,
            RunCases!Domain!Given, RunCases!Domain!NoReason, LifecycleStates
<1>1. CASE b \in RunCases!Domain!authorize(a)
  BY <1>a, <1>b, <1>1 DEF RunCases!Domain!authorize
<1>2. CASE b \in RunCases!Domain!start_acquisition(a)
  BY <1>a, <1>b, <1>2 DEF RunCases!Domain!start_acquisition
<1>3. CASE b \in RunCases!Domain!start_normalization(a)
  BY <1>a, <1>b, <1>3 DEF RunCases!Domain!start_normalization
<1>4. CASE b \in RunCases!Domain!start_validation(a)
  BY <1>a, <1>b, <1>4 DEF RunCases!Domain!start_validation
<1>5. CASE b \in RunCases!Domain!complete_execution(a)
  BY <1>a, <1>b, <1>5 DEF RunCases!Domain!complete_execution
<1>6. CASE b \in RunCases!Domain!cancel(a)
  BY <1>a, <1>b, <1>6 DEF RunCases!Domain!cancel
<1>7. CASE b \in RunCases!Domain!fail(a)
  BY <1>a, <1>b, <1>7 DEF RunCases!Domain!fail
<1>8. ASSUME NEW m \in ManifestId \cup {NoManifestId}, b \in RunCases!Domain!append_manifest(a, m)
      PROVE  RunCollects(a, b)
  <2>1. b = AppendOwned(a, 1, m)
    BY <1>8, RunShared DEF RunCases!Domain!append_manifest, RunCases!Domain!Manifests
  <2>2. /\ a.root.lifecycle_state \notin RunCases!Domain!TerminalStates
        /\ m = NoManifestId \/ \A i \in 1..Len(a.tables[1]) : a.tables[1][i] # m
    BY <1>8 DEF RunCases!Domain!append_manifest, RunCases!Domain!Manifests,
                RunCases!Domain!ManifestAppendStates, s
  <2> QED
    BY <2>1, <2>2 DEF RunCollects
<1> QED
  BY <1>1, <1>2, <1>3, <1>4, <1>5, <1>6, <1>7, <1>8 DEF RunCases!Domain!Mutations

\* Every business method of the Run takes the next version, keeps the child
\* rows, is refused in a terminal state, and leaves a Run that reconstructs if it
\* was given one.
LEMMA RunMutationFacts ==
    ASSUME NEW a \in Runs, NEW b \in RunCases!Domain!Mutations(a)
    PROVE  /\ Successor(Runs, a, b)
           /\ a.root.lifecycle_state \notin RunCases!Domain!TerminalStates
           /\ RunCases!Domain!Reconstructs(a) => RunCases!Domain!Reconstructs(b)
<1> DEFINE att == {<<>>}
           own == ManifestId \cup {NoManifestId}
           f == a.tables[1]
           g == b.tables[1]
           edges == RunCases!Domain!AllowedEdges
           terminal == RunCases!Domain!TerminalStates
<1>0. a \in AggregatesOf(att, own, 2) /\ 2 \in Nat \ {0}
  BY DEF Runs
<1>1. /\ a.root.version \in Nat /\ f \in Seq(own \cup Records) /\ Len(f) \in Nat
  <2> HIDE DEF att, own
  <2>1. f \in Seq(own \cup Records)
    <3>1. 1 \in 1..2
      OBVIOUS
    <3> QED
      BY <1>0, <3>1, Tables
  <2> QED
    BY <1>0, <2>1, Fields, LenProperties
<1>2. ASSUME RunCases!Domain!Reconstructs(a)
      PROVE  /\ ValidHistory(a, "CREATED", edges, terminal)
             /\ \A i, j \in 1..Len(f) : f[i] = f[j] /\ f[i] # NoManifestId => i = j
             /\ Len(f) <= a.root.version
  BY <1>2, RunShared DEF RunCases!Domain!Reconstructs, RunCases!Domain!Manifests
<1>3. ASSUME ValidHistory(b, "CREATED", edges, terminal),
             \A i, j \in 1..Len(g) : g[i] = g[j] /\ g[i] # NoManifestId => i = j,
             Len(g) <= b.root.version,
             b.root.lifecycle_state \in {"FAILED", "CANCELLED"} =>
                /\ transition_history(b) # <<>>
                /\ transition_history(b)[Len(transition_history(b))].reason = Given
      PROVE  RunCases!Domain!Reconstructs(b)
  BY <1>3, RunShared DEF RunCases!Domain!Reconstructs, RunCases!Domain!Manifests
<1>4. CASE RunMoves(a, b)
  <2>1. PICK from \in LifecycleStates, to \in LifecycleStates, reason \in Reasons :
          /\ b \in Transition(a, {from}, to, reason)
          /\ a.root.lifecycle_state = from
          /\ from \notin terminal /\ <<from, to>> \in edges
          /\ to \in {"FAILED", "CANCELLED"} => reason = Given
    BY <1>4 DEF RunMoves
  <2>2. Successor(Runs, a, b) /\ IsTransition(a, to, reason, 2, b)
    BY <1>0, <2>1, TransitionFacts DEF Runs
  <2>3. /\ g = f /\ b.root.version = a.root.version + 1 /\ b.root.lifecycle_state = to
    BY <2>2 DEF IsTransition
  <2>4. ASSUME RunCases!Domain!Reconstructs(a)
        PROVE  RunCases!Domain!Reconstructs(b)
    <3>1. /\ ValidHistory(b, "CREATED", edges, terminal)
          /\ transition_history(b) # <<>>
          /\ transition_history(b)[Len(transition_history(b))].reason = reason
      BY <1>0, <1>2, <2>1, <2>4, TransitionKeepsHistory
    <3>2. Len(g) <= b.root.version
      BY <1>1, <1>2, <2>3, <2>4
    <3> QED
      BY <1>2, <1>3, <2>1, <2>3, <2>4, <3>1, <3>2
  <2> QED
    BY <2>1, <2>2, <2>4
<1>5. CASE RunCollects(a, b)
  <2>1. PICK m \in own :
          /\ b = AppendOwned(a, 1, m)
          /\ a.root.lifecycle_state \notin terminal
          /\ m = NoManifestId \/ \A i \in 1..Len(f) : f[i] # m
    BY <1>5 DEF RunCollects
  <2>2. Successor(Runs, a, b) /\ IsAppend(a, 1, m, 2, b)
    BY <1>0, <2>1, AppendOwnedFacts DEF Runs
  <2>3. /\ g = Append(f, m) /\ b.tables[2] = a.tables[2]
        /\ b.root.version = a.root.version + 1
        /\ b.root.lifecycle_state = a.root.lifecycle_state
        /\ b.root.next_transition_sequence = a.root.next_transition_sequence
    BY <2>2 DEF IsAppend
  <2>4. /\ Len(g) = Len(f) + 1 /\ g[Len(f) + 1] = m
        /\ \A i \in 1..Len(f) : g[i] = f[i]
    BY <1>1, <2>3, AppendFacts
  <2>5. ASSUME RunCases!Domain!Reconstructs(a)
        PROVE  RunCases!Domain!Reconstructs(b)
    <3>1. b \in AggregatesOf(att, own, 2)
      BY <2>2 DEF Successor, Runs
    <3>2. ValidHistory(b, "CREATED", edges, terminal)
      BY <1>0, <1>2, <2>3, <2>5, <3>1, MutationKeepsHistory
    <3>3. ASSUME NEW i \in 1..Len(g), NEW j \in 1..Len(g), g[i] = g[j], g[i] # NoManifestId
          PROVE  i = j
      <4> HIDE DEF f, g
      <4>1. CASE i \in 1..Len(f) /\ j \in 1..Len(f)
        BY <1>2, <2>4, <2>5, <3>3, <4>1
      <4>2. CASE i = Len(f) + 1 /\ j \in 1..Len(f)
        BY <2>1, <2>4, <3>3, <4>2 DEF f
      <4>3. CASE i \in 1..Len(f) /\ j = Len(f) + 1
        BY <2>1, <2>4, <3>3, <4>3 DEF f
      <4> QED
        BY <1>1, <2>4, <4>1, <4>2, <4>3
    <3>4. Len(g) <= b.root.version
      BY <1>1, <1>2, <2>3, <2>4, <2>5
    <3>5. b.root.lifecycle_state \notin {"FAILED", "CANCELLED"}
      BY <2>1, <2>3 DEF RunCases!Domain!TerminalStates
    <3> QED
      BY <1>3, <3>2, <3>3, <3>4, <3>5
  <2> QED
    BY <2>1, <2>2, <2>5
<1> QED
  BY <1>4, <1>5, RunMutations

\* A new Run is at version 0, without rows, and reconstructs.
LEMMA RunCreateFacts ==
    /\ RunCases!Domain!create \in Runs
    /\ RunCases!Domain!create.root.version = 0
    /\ RunCases!Domain!Reconstructs(RunCases!Domain!create)
<1> DEFINE a == RunCases!Domain!create
<1>1. /\ Append(<< <<>> >>, <<>>) = << <<>>, <<>> >>
      /\ Len(<< <<>>, <<>> >>) = 2
      /\ << <<>>, <<>> >>[1] = <<>> /\ << <<>>, <<>> >>[2] = <<>>
  BY Repeated
<1>2. /\ a.root = [lifecycle_state |-> "CREATED", version |-> 0,
                   next_transition_sequence |-> 1, attributes |-> <<>>]
      /\ a.tables = << <<>>, <<>> >>
      /\ a = [root |-> a.root, tables |-> a.tables]
  BY <1>1 DEF RunCases!Domain!create, RunCases!Domain!NewAggregate
<1> HIDE DEF a
<1>3. << <<>>, <<>> >> \in Seq(Seq((ManifestId \cup {NoManifestId}) \cup Records)) /\ <<>> \in Seq(Records)
  BY EmptyTables
<1>4. a.root \in Roots({<<>>})
  BY <1>2 DEF Roots, LifecycleStates
<1>5. a \in Runs
  BY <1>1, <1>2, <1>3, <1>4 DEF Runs, AggregatesOf
<1>6. RunCases!Domain!transition_history(a) = <<>> /\ Len(<<>>) = 0
  BY <1>1, <1>2 DEF RunCases!Domain!transition_history, RunCases!Domain!HistoryTable
<1>7. RunCases!Domain!Reconstructs(a)
  BY <1>1, <1>2, <1>6 DEF RunCases!Domain!Reconstructs, RunCases!Domain!ValidHistory, RunCases!Domain!Manifests
<1> QED
  BY <1>2, <1>5, <1>7 DEF a

------------------------------------------------------------------------------
(* The EvidencePackage. *)

LEMMA PackageShared ==
    ASSUME NEW a
    PROVE  /\ \A f, t, r : PackageCases!Domain!Transition(a, f, t, r) = Transition(a, f, t, r)
           /\ \A t, v : PackageCases!Domain!AppendOwned(a, t, v) = AppendOwned(a, t, v)
           /\ \A i, e, t : PackageCases!Domain!ValidHistory(a, i, e, t) <=> ValidHistory(a, i, e, t)
           /\ PackageCases!Domain!transition_history(a) = transition_history(a)
           /\ PackageCases!Domain!Given = Given /\ PackageCases!Domain!NoReason = NoReason
           /\ \A v : PackageCases!Domain!NoDuplicates(v) <=> NoDuplicates(v)
BY DEF PackageCases!Domain!Transition, PackageCases!Domain!AppendOwned,
       PackageCases!Domain!ValidHistory, PackageCases!Domain!transition_history,
       PackageCases!Domain!HistoryTable, PackageCases!Domain!Given, PackageCases!Domain!NoReason,
       PackageCases!Domain!NoDuplicates, NoDuplicates, Transition, AppendOwned, ValidHistory,
       transition_history, HistoryTable, Given, NoReason

\* b is a after a legal transition; only a package with content is sealed.
PackageMoves(a, b) ==
    \E from, to \in LifecycleStates, reason \in Reasons :
       /\ b \in Transition(a, {from}, to, reason)
       /\ a.root.lifecycle_state = from
       /\ from \notin PackageCases!Domain!TerminalStates
       /\ <<from, to>> \in PackageCases!Domain!AllowedEdges
       /\ to = "SEALED" => a.tables[1] # <<>> /\ a.tables[2] # <<>>
       /\ to = "INVALIDATED" => reason = Given /\ from = "SEALED"

\* b is a, which is collecting, with one more criterion result or artifact.
PackageCollects(a, b) ==
    \E t \in {1, 2}, v \in Criterion \cup Artifact :
       /\ b = AppendOwned(a, t, v)
       /\ a.root.lifecycle_state = "COLLECTING"
       /\ \A i \in 1..Len(a.tables[t]) : a.tables[t][i] # v

LEMMA PackageMutations ==
    ASSUME NEW a \in Packages, NEW b \in PackageCases!Domain!Mutations(a)
    PROVE  PackageMoves(a, b) \/ PackageCollects(a, b)
<1> DEFINE s == a.root.lifecycle_state
<1>a. ASSUME NEW f, NEW to, NEW reason, b \in PackageCases!Domain!Transition(a, f, to, reason)
      PROVE  s \in f /\ b \in Transition(a, {s}, to, reason)
  <2>1. b \in Transition(a, f, to, reason)
    BY <1>a, PackageShared
  <2> QED
    BY <2>1, NarrowTransition
<1>b. ASSUME NEW to \in LifecycleStates, NEW reason \in Reasons, b \in Transition(a, {s}, to, reason),
             s \in LifecycleStates, s \notin PackageCases!Domain!TerminalStates,
             <<s, to>> \in PackageCases!Domain!AllowedEdges,
             to = "SEALED" => a.tables[1] # <<>> /\ a.tables[2] # <<>>,
             to = "INVALIDATED" => reason = Given /\ s = "SEALED"
      PROVE  PackageMoves(a, b)
  BY <1>b DEF PackageMoves
<1>c. ASSUME NEW t \in {1, 2}, NEW v \in Criterion \cup Artifact,
             b \in PackageCases!Domain!AddWhileCollecting(a, t, v)
      PROVE  PackageCollects(a, b)
  <2>1. b = AppendOwned(a, t, v)
    BY <1>c, PackageShared DEF PackageCases!Domain!AddWhileCollecting
  <2>2. s = "COLLECTING" /\ \A i \in 1..Len(a.tables[t]) : a.tables[t][i] # v
    BY <1>c DEF PackageCases!Domain!AddWhileCollecting
  <2> QED
    BY <2>1, <2>2 DEF PackageCollects
<1> HIDE DEF s
<1> USE DEF PackageCases!Domain!AllowedEdges, PackageCases!Domain!TerminalStates, Reasons, Given,
            NoReason, PackageCases!Domain!Given, PackageCases!Domain!NoReason, LifecycleStates,
            PackageCases!Domain!CriterionResults, PackageCases!Domain!ArtifactReferences
<1>1. CASE b \in PackageCases!Domain!start_collection(a)
  BY <1>a, <1>b, <1>1 DEF PackageCases!Domain!start_collection
<1>2. CASE b \in PackageCases!Domain!seal(a)
  <2>1. /\ b \in PackageCases!Domain!Transition(a, {"COLLECTING"}, "SEALED", NoReason)
        /\ a.tables[1] # <<>> /\ a.tables[2] # <<>>
    BY <1>2 DEF PackageCases!Domain!seal, PackageCases!Domain!HasContent
  <2> QED
    BY <1>a, <1>b, <2>1
<1>3. CASE b \in PackageCases!Domain!invalidate(a)
  BY <1>a, <1>b, <1>3 DEF PackageCases!Domain!invalidate
<1>4. ASSUME NEW x \in Criterion, b \in PackageCases!Domain!add_criterion_result(a, x)
      PROVE  PackageCollects(a, b)
  BY <1>c, <1>4 DEF PackageCases!Domain!add_criterion_result
<1>5. ASSUME NEW x \in Artifact, b \in PackageCases!Domain!add_artifact_reference(a, x)
      PROVE  PackageCollects(a, b)
  BY <1>c, <1>5 DEF PackageCases!Domain!add_artifact_reference
<1> QED
  BY <1>1, <1>2, <1>3, <1>4, <1>5 DEF PackageCases!Domain!Mutations

\* A table without duplicates to which a new value is added has none.
LEMMA AppendDistinct ==
    ASSUME NEW S, NEW f \in Seq(S), NEW v \in S, NoDuplicates(f), \A i \in 1..Len(f) : f[i] # v
    PROVE  NoDuplicates(Append(f, v))
<1> DEFINE g == Append(f, v)
<1>1. Len(f) \in Nat
  BY LenProperties
<1>2. Len(g) = Len(f) + 1 /\ g[Len(f) + 1] = v /\ \A i \in 1..Len(f) : g[i] = f[i]
  BY AppendFacts
<1> HIDE DEF g
<1>3. ASSUME NEW i \in 1..Len(g), NEW j \in 1..Len(g), g[i] = g[j]
      PROVE  i = j
  <2>1. CASE i \in 1..Len(f) /\ j \in 1..Len(f)
    BY <1>2, <1>3, <2>1 DEF NoDuplicates
  <2>2. CASE i = Len(f) + 1 /\ j \in 1..Len(f)
    BY <1>2, <1>3, <2>2
  <2>3. CASE i \in 1..Len(f) /\ j = Len(f) + 1
    BY <1>2, <1>3, <2>3
  <2> QED
    BY <1>1, <1>2, <2>1, <2>2, <2>3
<1> QED
  BY <1>3 DEF NoDuplicates, g

\* Every business method of the package takes the next version, keeps the child
\* rows, and leaves a package that reconstructs if it was given one.
LEMMA PackageMutationFacts ==
    ASSUME NEW a \in Packages, NEW b \in PackageCases!Domain!Mutations(a)
    PROVE  /\ Successor(Packages, a, b)
           /\ PackageCases!Domain!Reconstructs(a) => PackageCases!Domain!Reconstructs(b)
<1> DEFINE att == {<<>>}
           own == Criterion \cup Artifact
           edges == PackageCases!Domain!AllowedEdges
           terminal == PackageCases!Domain!TerminalStates
           Content(x) == x.tables[1] # <<>> /\ x.tables[2] # <<>>
           LastReason(x) == transition_history(x)[Len(transition_history(x))].reason
<1>0. a \in AggregatesOf(att, own, 3) /\ 3 \in Nat \ {0}
  BY DEF Packages
<1>1. /\ a.root.version \in Nat
      /\ \A t \in {1, 2} : a.tables[t] \in Seq(own \cup Records) /\ Len(a.tables[t]) \in Nat
  <2> HIDE DEF att, own
  <2>1. ASSUME NEW t \in {1, 2}
        PROVE  a.tables[t] \in Seq(own \cup Records)
    <3>1. t \in 1..3
      OBVIOUS
    <3> QED
      BY <1>0, <3>1, Tables
  <2> QED
    BY <1>0, <2>1, Fields, LenProperties
<1>2. ASSUME PackageCases!Domain!Reconstructs(a)
      PROVE  /\ ValidHistory(a, "INITIALIZED", edges, terminal)
             /\ NoDuplicates(a.tables[1]) /\ NoDuplicates(a.tables[2])
             /\ Len(a.tables[1]) + Len(a.tables[2]) <= a.root.version
             /\ a.root.lifecycle_state = "SEALED" => Content(a)
  BY <1>2, PackageShared DEF PackageCases!Domain!Reconstructs, PackageCases!Domain!HasContent,
     PackageCases!Domain!CriterionResults, PackageCases!Domain!ArtifactReferences
<1>3. ASSUME ValidHistory(b, "INITIALIZED", edges, terminal),
             NoDuplicates(b.tables[1]), NoDuplicates(b.tables[2]),
             Len(b.tables[1]) + Len(b.tables[2]) <= b.root.version,
             b.root.lifecycle_state # "INITIALIZED",
             b.root.lifecycle_state \in {"SEALED", "INVALIDATED"} => Content(b),
             b.root.lifecycle_state = "INVALIDATED" =>
                transition_history(b) # <<>> /\ LastReason(b) = Given
      PROVE  PackageCases!Domain!Reconstructs(b)
  BY <1>3, PackageShared DEF PackageCases!Domain!Reconstructs, PackageCases!Domain!HasContent,
     PackageCases!Domain!CriterionResults, PackageCases!Domain!ArtifactReferences
<1>4. CASE PackageMoves(a, b)
  <2>1. PICK from \in LifecycleStates, to \in LifecycleStates, reason \in Reasons :
          /\ b \in Transition(a, {from}, to, reason)
          /\ a.root.lifecycle_state = from
          /\ from \notin terminal /\ <<from, to>> \in edges
          /\ to = "SEALED" => Content(a)
          /\ to = "INVALIDATED" => reason = Given /\ from = "SEALED"
    BY <1>4 DEF PackageMoves
  <2>2. Successor(Packages, a, b) /\ IsTransition(a, to, reason, 3, b)
    BY <1>0, <2>1, TransitionFacts DEF Packages
  <2>3. /\ b.tables[1] = a.tables[1] /\ b.tables[2] = a.tables[2]
        /\ b.root.version = a.root.version + 1 /\ b.root.lifecycle_state = to
    BY <2>2 DEF IsTransition
  <2>4. ASSUME PackageCases!Domain!Reconstructs(a)
        PROVE  PackageCases!Domain!Reconstructs(b)
    <3>1. /\ ValidHistory(b, "INITIALIZED", edges, terminal)
          /\ transition_history(b) # <<>> /\ LastReason(b) = reason
      <4>1. ValidHistory(a, "INITIALIZED", edges, terminal)
        BY <1>2, <2>4
      <4>2. a.root.lifecycle_state \notin terminal /\ <<a.root.lifecycle_state, to>> \in edges
        BY <2>1
      <4> HIDE DEF att, own, edges, terminal
      <4> QED
        BY <1>0, <2>1, <4>1, <4>2, TransitionKeepsHistory
    <3>2. Len(b.tables[1]) + Len(b.tables[2]) <= b.root.version
      <4>1. /\ Len(a.tables[1]) + Len(a.tables[2]) <= a.root.version
            /\ Len(a.tables[1]) \in Nat /\ Len(a.tables[2]) \in Nat /\ a.root.version \in Nat
        BY <1>1, <1>2, <2>4
      <4>2. \A x, y, z \in Nat : x + y <= z => x + y <= z + 1
        OBVIOUS
      <4>3. Len(a.tables[1]) + Len(a.tables[2]) <= a.root.version + 1
        BY <4>1, <4>2
      <4> QED
        BY <2>3, <4>3
    <3>3. to # "INITIALIZED"
      BY <2>1 DEF PackageCases!Domain!AllowedEdges
    <3>4. NoDuplicates(b.tables[1]) /\ NoDuplicates(b.tables[2])
      BY <1>2, <2>3, <2>4
    <3>5. to \in {"SEALED", "INVALIDATED"} => Content(b)
      BY <1>2, <2>1, <2>3, <2>4
    <3> QED
      BY <1>3, <2>1, <2>3, <3>1, <3>2, <3>3, <3>4, <3>5
  <2> QED
    BY <2>2, <2>4
<1>5. CASE PackageCollects(a, b)
  <2>1. PICK t \in {1, 2}, v \in own :
          /\ b = AppendOwned(a, t, v)
          /\ a.root.lifecycle_state = "COLLECTING"
          /\ \A i \in 1..Len(a.tables[t]) : a.tables[t][i] # v
    BY <1>5 DEF PackageCollects
  <2>2. Successor(Packages, a, b) /\ IsAppend(a, t, v, 3, b)
    <3>1. t \in 1..3 /\ t # 3
      OBVIOUS
    <3> QED
      BY <1>0, <2>1, <3>1, AppendOwnedFacts DEF Packages
  <2>3. /\ b.tables[t] = Append(a.tables[t], v) /\ b.tables[3] = a.tables[3]
        /\ \A k \in {1, 2} : k # t => b.tables[k] = a.tables[k]
        /\ b.root.version = a.root.version + 1
        /\ b.root.lifecycle_state = a.root.lifecycle_state
        /\ b.root.next_transition_sequence = a.root.next_transition_sequence
    BY <2>2 DEF IsAppend
  <2>4. ASSUME PackageCases!Domain!Reconstructs(a)
        PROVE  PackageCases!Domain!Reconstructs(b)
    <3>1. b \in AggregatesOf(att, own, 3)
      BY <2>2 DEF Successor, Packages
    <3>2. ValidHistory(b, "INITIALIZED", edges, terminal)
      BY <1>0, <1>2, <2>3, <2>4, <3>1, MutationKeepsHistory
    <3>3. NoDuplicates(b.tables[t]) /\ Len(b.tables[t]) = Len(a.tables[t]) + 1
      <4>1. a.tables[t] \in Seq(own \cup Records) /\ v \in own \cup Records
        BY <1>1
      <4>2. NoDuplicates(a.tables[t])
        BY <1>2, <2>4
      <4>3. \A i \in 1..Len(a.tables[t]) : a.tables[t][i] # v
        BY <2>1
      <4> HIDE DEF own
      <4>4. NoDuplicates(Append(a.tables[t], v))
        BY <4>1, <4>2, <4>3, AppendDistinct
      <4>5. Len(Append(a.tables[t], v)) = Len(a.tables[t]) + 1
        BY <4>1, AppendFacts
      <4> QED
        BY <2>3, <4>4, <4>5
    <3>4. NoDuplicates(b.tables[1]) /\ NoDuplicates(b.tables[2])
      BY <1>2, <2>3, <2>4, <3>3
    <3>5. Len(b.tables[1]) + Len(b.tables[2]) <= b.root.version
      <4>1. /\ Len(a.tables[1]) + Len(a.tables[2]) <= a.root.version
            /\ Len(a.tables[1]) \in Nat /\ Len(a.tables[2]) \in Nat /\ a.root.version \in Nat
        BY <1>1, <1>2, <2>4
      <4>2. \/ b.tables[2] = a.tables[2] /\ Len(b.tables[1]) = Len(a.tables[1]) + 1
            \/ b.tables[1] = a.tables[1] /\ Len(b.tables[2]) = Len(a.tables[2]) + 1
        BY <2>3, <3>3
      <4>3. \A x, y, z \in Nat : x + y <= z => (x + 1) + y <= z + 1 /\ x + (y + 1) <= z + 1
        OBVIOUS
      <4>4. /\ (Len(a.tables[1]) + 1) + Len(a.tables[2]) <= a.root.version + 1
            /\ Len(a.tables[1]) + (Len(a.tables[2]) + 1) <= a.root.version + 1
        BY <4>1, <4>3
      <4> QED
        BY <2>3, <4>2, <4>4
    <3> QED
      BY <1>3, <2>1, <2>3, <3>2, <3>4, <3>5
  <2> QED
    BY <2>2, <2>4
<1> QED
  BY <1>4, <1>5, PackageMutations

\* A new package is at version 0, without rows, and reconstructs.
LEMMA PackageCreateFacts ==
    /\ PackageCases!Domain!create \in Packages
    /\ PackageCases!Domain!create.root.version = 0
    /\ PackageCases!Domain!create.root.lifecycle_state # "SEALED"
    /\ PackageCases!Domain!Reconstructs(PackageCases!Domain!create)
<1> DEFINE a == PackageCases!Domain!create
           rows == << <<>>, <<>>, <<>> >>
<1>1. /\ Append(<< <<>>, <<>> >>, <<>>) = rows
      /\ Len(rows) = 3 /\ rows[1] = <<>> /\ rows[2] = <<>> /\ rows[3] = <<>>
  BY Repeated
<1>2. /\ a.root = [lifecycle_state |-> "INITIALIZED", version |-> 0,
                   next_transition_sequence |-> 1, attributes |-> <<>>]
      /\ a.tables = rows
      /\ a = [root |-> a.root, tables |-> a.tables]
  BY <1>1 DEF PackageCases!Domain!create, PackageCases!Domain!NewAggregate
<1>3. rows \in Seq(Seq((Criterion \cup Artifact) \cup Records)) /\ <<>> \in Seq(Records)
  BY EmptyTables
<1> HIDE DEF a, rows
<1>4. a.root \in Roots({<<>>})
  BY <1>2 DEF Roots, LifecycleStates
<1>5. a \in Packages
  BY <1>1, <1>2, <1>3, <1>4 DEF Packages, AggregatesOf
<1>6. PackageCases!Domain!transition_history(a) = <<>> /\ Len(<<>>) = 0
  BY <1>1, <1>2 DEF PackageCases!Domain!transition_history, PackageCases!Domain!HistoryTable
<1>7. PackageCases!Domain!Reconstructs(a)
  BY <1>1, <1>2, <1>6 DEF PackageCases!Domain!Reconstructs, PackageCases!Domain!ValidHistory,
     PackageCases!Domain!NoDuplicates, PackageCases!Domain!CriterionResults,
     PackageCases!Domain!ArtifactReferences
<1> QED
  BY <1>2, <1>5, <1>7 DEF a
------------------------------------------------------------------------------
(* The Review. *)

LEMMA ReviewShared ==
    ASSUME NEW a
    PROVE  /\ \A f, t, r : ReviewCases!Domain!Transition(a, f, t, r) = Transition(a, f, t, r)
           /\ \A t, v : ReviewCases!Domain!AppendOwned(a, t, v) = AppendOwned(a, t, v)
           /\ \A i, e, t : ReviewCases!Domain!ValidHistory(a, i, e, t) <=> ValidHistory(a, i, e, t)
           /\ ReviewCases!Domain!transition_history(a) = transition_history(a)
           /\ ReviewCases!Domain!Given = Given /\ ReviewCases!Domain!NoReason = NoReason
BY DEF ReviewCases!Domain!Transition, ReviewCases!Domain!AppendOwned,
       ReviewCases!Domain!ValidHistory, ReviewCases!Domain!transition_history,
       ReviewCases!Domain!HistoryTable, ReviewCases!Domain!Given, ReviewCases!Domain!NoReason,
       Transition, AppendOwned, ValidHistory, transition_history, HistoryTable, Given, NoReason

Metadata ==
    [disposition : Disposition \cup {NoDisposition}, rationale : BOOLEAN, cancellation : BOOLEAN]

\* b is e with the metadata m.
IsRestated(e, m, b) ==
    /\ b.root = [lifecycle_state |-> e.root.lifecycle_state, version |-> e.root.version,
                 next_transition_sequence |-> e.root.next_transition_sequence, attributes |-> m]
    /\ b.tables = e.tables
    /\ b = [root |-> b.root, tables |-> b.tables]

\* What the metadata m become with a transition to a state.
NewMetadata(m, to, new) ==
    \/ to = "IN_PROGRESS" /\ new = m
    \/ /\ to = "COMPLETED"
       /\ \E d \in Disposition :
             new = [disposition |-> d, rationale |-> TRUE, cancellation |-> m.cancellation]
    \/ /\ to = "CANCELLED"
       /\ new = [disposition |-> m.disposition, rationale |-> m.rationale, cancellation |-> TRUE]

\* b is a after a legal transition, with its metadata; only a Review with
\* findings is completed.
ReviewMoves(a, b) ==
    \E to \in LifecycleStates, reason \in Reasons, m \in Metadata, e \in Reviews :
       /\ e \in Transition(a, {a.root.lifecycle_state}, to, reason)
       /\ IsRestated(e, m, b)
       /\ a.root.lifecycle_state \notin ReviewCases!Domain!TerminalStates
       /\ <<a.root.lifecycle_state, to>> \in ReviewCases!Domain!AllowedEdges
       /\ NewMetadata(a.root.attributes, to, m)
       /\ to = "COMPLETED" => a.tables[1] # <<>>

\* b is a, which is in progress, with one finding more.
ReviewCollects(a, b) ==
    /\ a.root.lifecycle_state = "IN_PROGRESS"
    /\ b = AppendOwned(a, 1, ReviewCases!Domain!next_finding_sequence(a))

\* Setting the metadata of a Review.
LEMMA RestatedFacts ==
    ASSUME NEW e \in Reviews, NEW b
    PROVE  /\ IsRestated(e, e.root.attributes, e)
           /\ \A d : b = [e EXCEPT !.root.attributes.disposition = d,
                                   !.root.attributes.rationale = TRUE]
                 => IsRestated(e, [disposition |-> d, rationale |-> TRUE,
                                   cancellation |-> e.root.attributes.cancellation], b)
           /\ b = [e EXCEPT !.root.attributes.cancellation = TRUE]
                 => IsRestated(e, [disposition |-> e.root.attributes.disposition,
                                   rationale |-> e.root.attributes.rationale,
                                   cancellation |-> TRUE], b)
<1> DEFINE T == Seq(Seq(Nat \cup Records))
<1>0. e \in [root : Roots(Metadata), tables : T]
  BY DEF Reviews, AggregatesOf, Metadata
<1> HIDE DEF T
<1>1. IsRestated(e, e.root.attributes, e)
  BY <1>0 DEF IsRestated, Roots
<1>2. ASSUME NEW d, b = [e EXCEPT !.root.attributes.disposition = d,
                                  !.root.attributes.rationale = TRUE]
      PROVE  IsRestated(e, [disposition |-> d, rationale |-> TRUE,
                            cancellation |-> e.root.attributes.cancellation], b)
  BY <1>0, <1>2 DEF IsRestated, Roots, Metadata
<1>3. ASSUME b = [e EXCEPT !.root.attributes.cancellation = TRUE]
      PROVE  IsRestated(e, [disposition |-> e.root.attributes.disposition,
                            rationale |-> e.root.attributes.rationale,
                            cancellation |-> TRUE], b)
  BY <1>0, <1>3 DEF IsRestated, Roots, Metadata
<1> QED
  BY <1>1, <1>2, <1>3

LEMMA ReviewMutations ==
    ASSUME NEW a \in Reviews, NEW b \in ReviewCases!Domain!Mutations(a)
    PROVE  ReviewMoves(a, b) \/ ReviewCollects(a, b)
<1> DEFINE s == a.root.lifecycle_state
           m == a.root.attributes
<1>k. a \in AggregatesOf(Metadata, Nat, 2) /\ 2 \in Nat \ {0} /\ Reviews = AggregatesOf(Metadata, Nat, 2)
  BY DEF Reviews, Metadata
<1>0. m \in Metadata /\ s \in LifecycleStates
  BY <1>k, Fields
<1>a. ASSUME NEW f, NEW to \in LifecycleStates, NEW reason \in Reasons,
             NEW e \in ReviewCases!Domain!Transition(a, f, to, reason)
      PROVE  /\ s \in f /\ e \in Transition(a, {s}, to, reason)
             /\ e \in Reviews /\ e.root.attributes = m
  <2>1. e \in Transition(a, f, to, reason)
    BY <1>a, ReviewShared
  <2>2. s \in f /\ e \in Transition(a, {s}, to, reason)
    BY <2>1, NarrowTransition
  <2>3. Successor(Reviews, a, e) /\ IsTransition(a, to, reason, 2, e)
    BY <1>k, <2>1, TransitionFacts
  <2> QED
    BY <2>2, <2>3 DEF Successor, IsTransition
<1>b. ASSUME NEW to \in LifecycleStates, NEW reason \in Reasons, NEW new \in Metadata,
             NEW e \in Reviews, e \in Transition(a, {s}, to, reason), IsRestated(e, new, b),
             s \notin ReviewCases!Domain!TerminalStates,
             <<s, to>> \in ReviewCases!Domain!AllowedEdges,
             NewMetadata(m, to, new), to = "COMPLETED" => a.tables[1] # <<>>
      PROVE  ReviewMoves(a, b)
  BY <1>b DEF ReviewMoves
<1> HIDE DEF s, m
<1>c. /\ "IN_PROGRESS" \in LifecycleStates /\ "COMPLETED" \in LifecycleStates
      /\ "CANCELLED" \in LifecycleStates /\ Given \in Reasons /\ NoReason \in Reasons
      /\ ReviewCases!Domain!Given = Given /\ ReviewCases!Domain!NoReason = NoReason
  BY ReviewShared DEF LifecycleStates, Reasons
<1>1. CASE b \in ReviewCases!Domain!start(a)
  <2>1. b \in ReviewCases!Domain!Transition(a, {"ASSIGNED"}, "IN_PROGRESS", NoReason)
    BY <1>c, <1>1 DEF ReviewCases!Domain!start
  <2>2. /\ s \in {"ASSIGNED"} /\ b \in Transition(a, {s}, "IN_PROGRESS", NoReason)
        /\ b \in Reviews /\ b.root.attributes = m
    BY <1>a, <1>c, <2>1
  <2>3. IsRestated(b, m, b)
    BY <2>2, RestatedFacts
  <2>4. /\ s \notin ReviewCases!Domain!TerminalStates
        /\ <<s, "IN_PROGRESS">> \in ReviewCases!Domain!AllowedEdges
        /\ NewMetadata(m, "IN_PROGRESS", m)
    BY <2>2 DEF ReviewCases!Domain!TerminalStates, ReviewCases!Domain!AllowedEdges, NewMetadata
  <2> QED
    BY <1>0, <1>b, <1>c, <2>2, <2>3, <2>4
<1>2. ASSUME NEW d \in Disposition, b \in ReviewCases!Domain!complete(a, d)
      PROVE  ReviewMoves(a, b)
  <2>1. PICK e \in ReviewCases!Domain!Transition(a, {"IN_PROGRESS"}, "COMPLETED", Given) :
          /\ a.tables[1] # <<>>
          /\ b = [e EXCEPT !.root.attributes.disposition = d, !.root.attributes.rationale = TRUE]
    BY <1>c, <1>2 DEF ReviewCases!Domain!complete, ReviewCases!Domain!Findings
  <2>2. /\ s \in {"IN_PROGRESS"} /\ e \in Transition(a, {s}, "COMPLETED", Given)
        /\ e \in Reviews /\ e.root.attributes = m
    BY <1>a, <1>c, <2>1
  <2> DEFINE new == [disposition |-> d, rationale |-> TRUE, cancellation |-> m.cancellation]
  <2>3. IsRestated(e, new, b)
    BY <2>1, <2>2, RestatedFacts
  <2>4. new \in Metadata /\ NewMetadata(m, "COMPLETED", new)
    BY <1>0 DEF Metadata, NewMetadata
  <2>5. /\ s \notin ReviewCases!Domain!TerminalStates
        /\ <<s, "COMPLETED">> \in ReviewCases!Domain!AllowedEdges
    BY <2>2 DEF ReviewCases!Domain!TerminalStates, ReviewCases!Domain!AllowedEdges
  <2> HIDE DEF new
  <2> QED
    BY <1>b, <1>c, <2>1, <2>2, <2>3, <2>4, <2>5
<1>3. CASE b \in ReviewCases!Domain!cancel(a)
  <2>1. PICK e \in ReviewCases!Domain!Transition(a, {"ASSIGNED", "IN_PROGRESS"}, "CANCELLED", Given) :
          b = [e EXCEPT !.root.attributes.cancellation = TRUE]
    BY <1>c, <1>3 DEF ReviewCases!Domain!cancel
  <2>2. /\ s \in {"ASSIGNED", "IN_PROGRESS"} /\ e \in Transition(a, {s}, "CANCELLED", Given)
        /\ e \in Reviews /\ e.root.attributes = m
    BY <1>a, <1>c, <2>1
  <2> DEFINE new == [disposition |-> m.disposition, rationale |-> m.rationale, cancellation |-> TRUE]
  <2>3. IsRestated(e, new, b)
    BY <2>1, <2>2, RestatedFacts
  <2>4. new \in Metadata /\ NewMetadata(m, "CANCELLED", new)
    BY <1>0 DEF Metadata, NewMetadata
  <2>5. /\ s \notin ReviewCases!Domain!TerminalStates
        /\ <<s, "CANCELLED">> \in ReviewCases!Domain!AllowedEdges
    BY <2>2 DEF ReviewCases!Domain!TerminalStates, ReviewCases!Domain!AllowedEdges
  <2> HIDE DEF new
  <2> QED
    BY <1>b, <1>c, <2>2, <2>3, <2>4, <2>5
<1>4. CASE b \in ReviewCases!Domain!add_finding(a)
  <2>1. /\ a.root.lifecycle_state = "IN_PROGRESS"
        /\ b = ReviewCases!Domain!AppendOwned(a, 1, ReviewCases!Domain!next_finding_sequence(a))
    BY <1>4 DEF ReviewCases!Domain!add_finding, ReviewCases!Domain!Findings
  <2> QED
    BY <2>1, ReviewShared DEF ReviewCollects
<1> QED
  BY <1>1, <1>2, <1>3, <1>4 DEF ReviewCases!Domain!Mutations

\* Setting the metadata of a Review does not touch its rows or its history.
LEMMA RestatedKeeps ==
    ASSUME NEW a \in Reviews, NEW e \in Reviews, Successor(Reviews, a, e), NEW m \in Metadata,
           NEW b, IsRestated(e, m, b)
    PROVE  /\ Successor(Reviews, a, b)
           /\ transition_history(b) = transition_history(e)
           /\ \A i, s, t : ValidHistory(e, i, s, t) => ValidHistory(b, i, s, t)
<1>0. e \in AggregatesOf(Metadata, Nat, 2) /\ 2 \in Nat \ {0}
  BY DEF Reviews, Metadata
<1>1. e.root \in Roots(Metadata)
  BY <1>0, Fields
<1>2. b.root \in Roots(Metadata)
  BY <1>1 DEF IsRestated, Roots
<1>3. b \in Reviews
  BY <1>2 DEF IsRestated, Reviews, AggregatesOf, Metadata
<1>4. /\ b.tables = e.tables /\ b.root.version = e.root.version
      /\ b.root.lifecycle_state = e.root.lifecycle_state
      /\ b.root.next_transition_sequence = e.root.next_transition_sequence
  BY DEF IsRestated
<1>5. Successor(Reviews, a, b)
  BY <1>3, <1>4 DEF Successor
<1>6. transition_history(b) = transition_history(e)
  BY <1>4 DEF transition_history, HistoryTable
<1>7. \A i, s, t : ValidHistory(e, i, s, t) => ValidHistory(b, i, s, t)
  BY <1>4, <1>6 DEF ValidHistory
<1> QED
  BY <1>5, <1>6, <1>7

\* Every business method of a Review that reconstructs takes the next version,
\* keeps the child rows, is refused once the Review is completed or cancelled,
\* and leaves a Review that reconstructs.
LEMMA ReviewMutationFacts ==
    ASSUME NEW a \in Reviews, NEW b \in ReviewCases!Domain!Mutations(a),
           ReviewCases!Domain!Reconstructs(a)
    PROVE  /\ Successor(Reviews, a, b)
           /\ a.root.attributes.disposition = NoDisposition
           /\ ReviewCases!Domain!Reconstructs(b)
<1> DEFINE f == a.tables[1]
           g == b.tables[1]
           edges == ReviewCases!Domain!AllowedEdges
           terminal == ReviewCases!Domain!TerminalStates
           none == ReviewCases!Domain!NoMetadata
<1>0. /\ a \in AggregatesOf(Metadata, Nat, 2) /\ 2 \in Nat \ {0} /\ 1 \in 1..2 /\ 1 # 2
      /\ Reviews = AggregatesOf(Metadata, Nat, 2)
  BY DEF Reviews, Metadata
<1>1. a.root.version \in Nat /\ f \in Seq(Nat \cup Records) /\ Len(f) \in Nat
  BY <1>0, Tables, Fields, LenProperties
<1>2. /\ ValidHistory(a, "ASSIGNED", edges, terminal)
      /\ \A i \in 1..Len(f) : f[i] = i
      /\ Len(f) <= a.root.version
      /\ ReviewCases!Domain!ValidTerminalMetadata(a)
  BY ReviewShared DEF ReviewCases!Domain!Reconstructs, ReviewCases!Domain!Findings
<1>3. a.root.lifecycle_state \notin terminal => a.root.attributes = none
  BY <1>2 DEF ReviewCases!Domain!ValidTerminalMetadata, ReviewCases!Domain!TerminalStates
<1>4. /\ none.disposition = NoDisposition
      /\ none = [disposition |-> NoDisposition, rationale |-> FALSE, cancellation |-> FALSE]
  BY DEF ReviewCases!Domain!NoMetadata
<1>5. ASSUME ValidHistory(b, "ASSIGNED", edges, terminal),
             \A i \in 1..Len(g) : g[i] = i, Len(g) <= b.root.version,
             ReviewCases!Domain!ValidTerminalMetadata(b)
      PROVE  ReviewCases!Domain!Reconstructs(b)
  BY <1>5, ReviewShared DEF ReviewCases!Domain!Reconstructs, ReviewCases!Domain!Findings
<1> HIDE DEF none
<1>6. CASE ReviewMoves(a, b)
  <2>1. PICK to \in LifecycleStates, reason \in Reasons, m \in Metadata, e \in Reviews :
          /\ e \in Transition(a, {a.root.lifecycle_state}, to, reason)
          /\ IsRestated(e, m, b)
          /\ a.root.lifecycle_state \notin terminal
          /\ <<a.root.lifecycle_state, to>> \in edges
          /\ NewMetadata(a.root.attributes, to, m)
          /\ to = "COMPLETED" => a.tables[1] # <<>>
    BY <1>6 DEF ReviewMoves
  <2>2. Successor(Reviews, a, e) /\ IsTransition(a, to, reason, 2, e)
    BY <1>0, <2>1, TransitionFacts
  <2>3. Successor(Reviews, a, b)
    BY <2>1, <2>2, RestatedKeeps
  <2>4. ValidHistory(b, "ASSIGNED", edges, terminal)
    <3>1. ValidHistory(e, "ASSIGNED", edges, terminal)
      <4> HIDE DEF edges, terminal
      <4> QED
        BY <1>0, <1>2, <2>1, TransitionKeepsHistory
    <3> QED
      BY <2>1, <2>2, <3>1, RestatedKeeps
  <2>5. /\ g = f /\ b.root.version = a.root.version + 1 /\ b.root.lifecycle_state = to
        /\ b.root.attributes = m
    <3>1. e.tables[1] = a.tables[1] /\ e.root.lifecycle_state = to
      BY <1>0, <2>2 DEF IsTransition
    <3> QED
      BY <2>1, <2>3, <3>1 DEF IsRestated, Successor
  <2>6. NewMetadata(none, to, m)
    BY <1>3, <2>1
  <2>7. ReviewCases!Domain!ValidTerminalMetadata(b)
    <3>1. CASE to = "IN_PROGRESS"
      BY <2>5, <2>6, <3>1 DEF NewMetadata, ReviewCases!Domain!ValidTerminalMetadata, none
    <3>2. CASE to = "COMPLETED"
      <4>1. PICK d \in Disposition :
              m = [disposition |-> d, rationale |-> TRUE, cancellation |-> none.cancellation]
        BY <2>6, <3>2 DEF NewMetadata
      <4>2. d # NoDisposition
        BY MarkersAssumption
      <4>3. m.disposition # NoDisposition /\ m.rationale /\ ~m.cancellation
        BY <1>4, <4>1, <4>2
      <4>4. g # <<>>
        BY <2>1, <2>5, <3>2
      <4> QED
        BY <2>5, <3>2, <4>3, <4>4 DEF ReviewCases!Domain!ValidTerminalMetadata, ReviewCases!Domain!Findings
    <3>3. CASE to = "CANCELLED"
      <4>1. m.disposition = NoDisposition /\ ~m.rationale /\ m.cancellation
        BY <1>4, <2>6, <3>3 DEF NewMetadata
      <4> QED
        BY <2>5, <3>3, <4>1 DEF ReviewCases!Domain!ValidTerminalMetadata
    <3> QED
      BY <2>6, <3>1, <3>2, <3>3 DEF NewMetadata
  <2>8. Len(g) <= b.root.version
    BY <1>1, <1>2, <2>5
  <2> QED
    BY <1>2, <1>3, <1>4, <1>5, <2>1, <2>3, <2>4, <2>5, <2>7, <2>8
<1>7. CASE ReviewCollects(a, b)
  <2> DEFINE v == ReviewCases!Domain!next_finding_sequence(a)
  <2>1. a.root.lifecycle_state = "IN_PROGRESS" /\ b = AppendOwned(a, 1, v)
    BY <1>7 DEF ReviewCollects
  <2>2. v = Len(f) + 1
    <3>1. CASE f = <<>>
      BY <1>1, <3>1, EmptySeq DEF ReviewCases!Domain!next_finding_sequence, ReviewCases!Domain!Findings
    <3>2. CASE f # <<>>
      <4>1. Len(f) \in 1..Len(f)
        BY <1>1, <3>2, EmptySeq
      <4>2. f[Len(f)] = Len(f)
        BY <1>2, <4>1
      <4> QED
        BY <3>2, <4>2 DEF ReviewCases!Domain!next_finding_sequence, ReviewCases!Domain!Findings
    <3> QED
      BY <3>1, <3>2
  <2> HIDE DEF v
  <2>3. Successor(Reviews, a, b) /\ IsAppend(a, 1, v, 2, b)
    <3>1. v \in Nat
      BY <1>1, <2>2
    <3> QED
      BY <1>0, <2>1, <3>1, AppendOwnedFacts
  <2>4. /\ g = Append(f, v) /\ b.tables[2] = a.tables[2]
        /\ b.root.version = a.root.version + 1
        /\ b.root.lifecycle_state = a.root.lifecycle_state
        /\ b.root.next_transition_sequence = a.root.next_transition_sequence
        /\ b.root.attributes = a.root.attributes
    BY <2>3 DEF IsAppend
  <2>5. Len(g) = Len(f) + 1 /\ \A i \in 1..Len(g) : g[i] = i
    <3> DEFINE h == Append(f, v)
    <3>1. v \in Nat \cup Records
      BY <1>1, <2>2
    <3>2. /\ Len(h) = Len(f) + 1 /\ h[Len(f) + 1] = v
          /\ \A i \in 1..Len(f) : h[i] = f[i]
      BY <1>1, <3>1, AppendFacts
    <3> HIDE DEF h, f
    <3>3. \A i \in 1..Len(h) : h[i] = i
      BY <1>1, <1>2, <2>2, <3>2
    <3> QED
      BY <2>4, <3>2, <3>3 DEF h, f
  <2>6. ValidHistory(b, "ASSIGNED", edges, terminal)
    <3>1. b \in AggregatesOf(Metadata, Nat, 2)
      BY <1>0, <2>3 DEF Successor
    <3> HIDE DEF edges, terminal
    <3> QED
      BY <1>0, <1>2, <2>4, <3>1, MutationKeepsHistory
  <2>7. a.root.attributes = none
    BY <1>3, <2>1 DEF ReviewCases!Domain!TerminalStates
  <2>8. ReviewCases!Domain!ValidTerminalMetadata(b)
    BY <2>1, <2>4, <2>7 DEF ReviewCases!Domain!ValidTerminalMetadata, none
  <2>9. Len(g) <= b.root.version
    BY <1>1, <1>2, <2>4, <2>5
  <2> QED
    BY <1>4, <1>5, <2>3, <2>5, <2>6, <2>7, <2>8, <2>9
<1> QED
  BY <1>6, <1>7, ReviewMutations

\* A new Review is at version 0, without rows, and reconstructs.
LEMMA ReviewCreateFacts ==
    /\ ReviewCases!Domain!create \in Reviews
    /\ ReviewCases!Domain!create.root.version = 0
    /\ ReviewCases!Domain!Reconstructs(ReviewCases!Domain!create)
<1> DEFINE a == ReviewCases!Domain!create
           none == ReviewCases!Domain!NoMetadata
           rows == << <<>>, <<>> >>
<1>1. /\ Append(<< <<>> >>, <<>>) = rows
      /\ Len(rows) = 2 /\ rows[1] = <<>> /\ rows[2] = <<>>
  BY Repeated
<1>2. /\ a.root = [lifecycle_state |-> "ASSIGNED", version |-> 0,
                   next_transition_sequence |-> 1, attributes |-> none]
      /\ a.tables = rows
      /\ a = [root |-> a.root, tables |-> a.tables]
  BY <1>1 DEF ReviewCases!Domain!create, ReviewCases!Domain!NewAggregate
<1>3. rows \in Seq(Seq(Nat \cup Records)) /\ <<>> \in Seq(Records)
  BY EmptyTables
<1>4. none \in Metadata
  BY DEF ReviewCases!Domain!NoMetadata, Metadata
<1> HIDE DEF a, rows, none
<1>5. a.root \in Roots(Metadata)
  BY <1>2, <1>4 DEF Roots, LifecycleStates
<1>6. a \in Reviews
  <2>1. a \in AggregatesOf(Metadata, Nat, 2)
    BY <1>1, <1>2, <1>3, <1>5 DEF AggregatesOf
  <2> QED
    BY <2>1 DEF Reviews, Metadata
<1>7. ReviewCases!Domain!transition_history(a) = <<>> /\ Len(<<>>) = 0
  BY <1>1, <1>2 DEF ReviewCases!Domain!transition_history, ReviewCases!Domain!HistoryTable
<1>8. ReviewCases!Domain!ValidTerminalMetadata(a)
  BY <1>2 DEF ReviewCases!Domain!ValidTerminalMetadata, none
<1>9. ReviewCases!Domain!Reconstructs(a)
  BY <1>1, <1>2, <1>7, <1>8 DEF ReviewCases!Domain!Reconstructs, ReviewCases!Domain!ValidHistory,
     ReviewCases!Domain!Findings
<1> QED
  BY <1>2, <1>6, <1>9 DEF a

------------------------------------------------------------------------------
(* The Campaign whose callers guess versions. *)

LEMMA CampaignShared ==
    ASSUME NEW a
    PROVE  /\ \A f, t, r : GuessCases!Domain!Transition(a, f, t, r) = Transition(a, f, t, r)
           /\ GuessCases!Domain!Given = Given /\ GuessCases!Domain!NoReason = NoReason
           /\ GuessCases!Domain!Reasons = Reasons
BY DEF GuessCases!Domain!Transition, GuessCases!Domain!HistoryTable, GuessCases!Domain!Given,
       GuessCases!Domain!NoReason, GuessCases!Domain!Reasons, Transition, HistoryTable, Given,
       NoReason, Reasons

\* Every business method of the Campaign takes the next version and keeps the
\* child rows.
LEMMA CampaignMutationFacts ==
    ASSUME NEW a \in Campaigns, NEW b \in GuessCases!Domain!Mutations(a)
    PROVE  Successor(Campaigns, a, b)
<1>0. a \in AggregatesOf(Scope, {}, 1) /\ 1 \in Nat \ {0} /\ Campaigns = AggregatesOf(Scope, {}, 1)
  BY DEF Campaigns
<1>a. ASSUME NEW f, NEW to \in LifecycleStates, NEW reason \in Reasons,
             b \in GuessCases!Domain!Transition(a, f, to, reason)
      PROVE  Successor(Campaigns, a, b)
  <2>1. b \in Transition(a, f, to, reason)
    BY <1>a, CampaignShared
  <2> QED
    BY <1>0, <2>1, TransitionFacts
<1>c. /\ "READY_FOR_AUTHORIZATION" \in LifecycleStates /\ "AUTHORIZED" \in LifecycleStates
      /\ "ACTIVE" \in LifecycleStates /\ "SUSPENDED" \in LifecycleStates
      /\ "COMPLETED" \in LifecycleStates /\ "CANCELLED" \in LifecycleStates
      /\ GuessCases!Domain!Given \in Reasons /\ GuessCases!Domain!NoReason \in Reasons
      /\ GuessCases!Domain!Reasons = Reasons
  BY CampaignShared DEF LifecycleStates, Reasons
<1>1. ASSUME NEW x \in Scope, b \in GuessCases!Domain!revise_scope_statement(a, x)
      PROVE  Successor(Campaigns, a, b)
  <2> DEFINE T == Seq(Seq({} \cup Records))
             root == [lifecycle_state |-> a.root.lifecycle_state, version |-> a.root.version + 1,
                      next_transition_sequence |-> a.root.next_transition_sequence, attributes |-> x]
  <2>1. b = [a EXCEPT !.root.version = @ + 1, !.root.attributes = x]
    BY <1>1 DEF GuessCases!Domain!revise_scope_statement
  <2>2. a \in [root : Roots(Scope), tables : T]
    BY <1>0 DEF AggregatesOf
  <2>3. b.root = root /\ b.tables = a.tables /\ b = [root |-> b.root, tables |-> b.tables]
    <3> HIDE DEF T
    <3> QED
      BY <2>1, <2>2 DEF Roots
  <2>4. a.root.version \in Nat /\ a.root.next_transition_sequence \in Nat
        /\ a.root.lifecycle_state \in LifecycleStates
        /\ a.tables \in T /\ Len(a.tables) = 1 /\ a.tables[1] \in Seq(Records)
    <3>1. a.tables \in T /\ a.root \in Roots(Scope)
      BY <2>2
    <3>2. Len(a.tables) = 1 /\ a.tables[1] \in Seq(Records)
      BY <1>0 DEF AggregatesOf
    <3> QED
      BY <3>1, <3>2 DEF Roots
  <2>5. root \in Roots(Scope)
    BY <2>4 DEF Roots
  <2> HIDE DEF T, root
  <2>6. b \in Campaigns
    BY <1>0, <2>3, <2>4, <2>5 DEF AggregatesOf, T
  <2>7. \A k \in 1..Len(a.tables) : Continues(b.tables[k], a.tables[k])
    <3>1. \A k \in 1..Len(a.tables) : a.tables[k] \in Seq(Records)
      BY <2>4
    <3> QED
      BY <2>3, <3>1, ContinuesFacts
  <2> QED
    BY <2>3, <2>6, <2>7 DEF Successor, root
<1>2. CASE b \in GuessCases!Domain!prepare_for_authorization(a)
  BY <1>a, <1>c, <1>2 DEF GuessCases!Domain!prepare_for_authorization
<1>3. CASE b \in GuessCases!Domain!record_authorization(a)
  BY <1>a, <1>c, <1>3 DEF GuessCases!Domain!record_authorization
<1>4. CASE b \in GuessCases!Domain!activate(a)
  BY <1>a, <1>c, <1>4 DEF GuessCases!Domain!activate
<1>5. CASE b \in GuessCases!Domain!suspend(a)
  BY <1>a, <1>c, <1>5 DEF GuessCases!Domain!suspend
<1>6. CASE b \in GuessCases!Domain!resume(a)
  BY <1>a, <1>c, <1>6 DEF GuessCases!Domain!resume
<1>7. CASE b \in GuessCases!Domain!complete(a)
  BY <1>a, <1>c, <1>7 DEF GuessCases!Domain!complete
<1>8. ASSUME NEW r \in Reasons, b \in GuessCases!Domain!cancel(a, r)
      PROVE  Successor(Campaigns, a, b)
  BY <1>a, <1>c, <1>8 DEF GuessCases!Domain!cancel
<1> QED
  BY <1>c, <1>1, <1>2, <1>3, <1>4, <1>5, <1>6, <1>7, <1>8 DEF GuessCases!Domain!Mutations

\* A new Campaign is at version 0, without rows.
LEMMA CampaignCreateFacts ==
    ASSUME NEW x \in Scope
    PROVE  /\ GuessCases!Domain!create(x) \in Campaigns
           /\ GuessCases!Domain!create(x).root.version = 0
<1> DEFINE a == GuessCases!Domain!create(x)
           rows == << <<>> >>
<1>1. Append(<<>>, <<>>) = rows /\ Len(rows) = 1 /\ rows[1] = <<>>
  BY Repeated
<1>2. /\ a.root = [lifecycle_state |-> "DRAFT", version |-> 0,
                   next_transition_sequence |-> 1, attributes |-> x]
      /\ a.tables = rows
      /\ a = [root |-> a.root, tables |-> a.tables]
  BY <1>1 DEF GuessCases!Domain!create, GuessCases!Domain!NewAggregate
<1>3. rows \in Seq(Seq({} \cup Records)) /\ <<>> \in Seq(Records)
  BY EmptyTables
<1> HIDE DEF a, rows
<1>4. a.root \in Roots(Scope)
  BY <1>2 DEF Roots, LifecycleStates
<1>5. a \in Campaigns
  BY <1>1, <1>2, <1>3, <1>4 DEF Campaigns, AggregatesOf
<1> QED
  BY <1>2, <1>5 DEF a

------------------------------------------------------------------------------
(* The steps of the use cases, in terms of the store. *)

\* A handler that got "valid" rows saves one of the results of its method.
HandlerSaves(c, valid, results, bound) ==
    /\ IsLoaded(c) /\ valid
    /\ \E a \in results : a.root.version <= bound /\ Saves(c, a)

RunCommand(c) ==
    HandlerSaves(c, RunCases!Domain!Reconstructs(Loaded(c)),
                 RunCases!Domain!Mutations(Loaded(c)), MaxVersion)

LEMMA RunSteps ==
    ASSUME RunCases!Next
    PROVE  \/ add(RunCases!Domain!create)
           \/ \E c \in Client : Reading(c) \/ RunCommand(c)
<1>1. CASE RunCases!CreateRun
  BY <1>1 DEF RunCases!CreateRun, RunCases!add, add
<1>2. ASSUME NEW c \in Client, RunCases!ClientStep(c)
      PROVE  Reading(c) \/ RunCommand(c)
  <2> DEFINE L == Loaded(c)
  <2>0. RunCases!Loaded(c) = L
    BY DEF RunCases!Loaded, Loaded
  <2>a. ASSUME NEW results, RunCases!Command(c, results),
               \A b \in results : b \in RunCases!Domain!Mutations(L)
        PROVE  RunCommand(c)
    BY <2>0, <2>a DEF RunCases!Command, RunCases!get, RunCases!Handle, RunCases!IsLoaded, IsLoaded,
       RunCases!save, RunCases!Written, Written, Saves, RunCases!Idle, Idle, RunCommand, HandlerSaves
  <2> HIDE DEF L
  <2>1. CASE RunCases!Reading(c)
    BY <2>1 DEF RunCases!Reading, RunCases!GetRoot, RunCases!GetTable, RunCases!Leave,
       RunCases!Idle, Reading, GetRoot, GetTable, Leave, Idle
  <2>2. CASE RunCases!AuthorizeRun(c)
    BY <2>0, <2>a, <2>2 DEF RunCases!AuthorizeRun, RunCases!Domain!Mutations
  <2>3. CASE RunCases!StartRunAcquisition(c)
    BY <2>0, <2>a, <2>3 DEF RunCases!StartRunAcquisition, RunCases!Domain!Mutations
  <2>4. CASE RunCases!StartRunNormalization(c)
    BY <2>0, <2>a, <2>4 DEF RunCases!StartRunNormalization, RunCases!Domain!Mutations
  <2>5. CASE RunCases!StartRunValidation(c)
    BY <2>0, <2>a, <2>5 DEF RunCases!StartRunValidation, RunCases!Domain!Mutations
  <2>6. CASE RunCases!CompleteRunExecution(c)
    BY <2>0, <2>a, <2>6 DEF RunCases!CompleteRunExecution, RunCases!Domain!Mutations
  <2>7. CASE RunCases!FailRun(c)
    BY <2>0, <2>a, <2>7 DEF RunCases!FailRun, RunCases!Domain!Mutations
  <2>8. CASE RunCases!AppendRunManifest(c)
    BY <2>0, <2>a, <2>8 DEF RunCases!AppendRunManifest, RunCases!Domain!Mutations
  <2> QED
    BY <1>2, <2>1, <2>2, <2>3, <2>4, <2>5, <2>6, <2>7, <2>8 DEF RunCases!ClientStep
<1> QED
  BY <1>1, <1>2 DEF RunCases!Next

PackageCommand(c) ==
    HandlerSaves(c, PackageCases!Domain!Reconstructs(Loaded(c))
                       /\ Loaded(c).root.lifecycle_state # "SEALED",
                 PackageCases!Domain!Mutations(Loaded(c)), MaxVersion)

\* No use case touches a sealed package.
LEMMA PackageSteps ==
    ASSUME PackageCases!Next
    PROVE  \/ add(PackageCases!Domain!create)
           \/ \E c \in Client : Reading(c) \/ PackageCommand(c)
<1>1. CASE PackageCases!CreateEvidencePackage
  BY <1>1 DEF PackageCases!CreateEvidencePackage, PackageCases!add, add
<1>2. ASSUME NEW c \in Client, PackageCases!ClientStep(c)
      PROVE  Reading(c) \/ PackageCommand(c)
  <2> DEFINE L == Loaded(c)
  <2>0. PackageCases!Loaded(c) = L
    BY DEF PackageCases!Loaded, Loaded
  <2>a. ASSUME NEW results, PackageCases!Command(c, results),
               \A b \in results : /\ b \in PackageCases!Domain!Mutations(L)
                                  /\ L.root.lifecycle_state # "SEALED"
        PROVE  PackageCommand(c)
    BY <2>0, <2>a DEF PackageCases!Command, PackageCases!get, PackageCases!Handle,
       PackageCases!IsLoaded, IsLoaded, PackageCases!save, PackageCases!Written, Written, Saves,
       PackageCases!Idle, Idle, PackageCommand, HandlerSaves
  <2>b. ASSUME NEW f, NEW t, NEW r, "SEALED" \notin f,
               NEW b \in PackageCases!Domain!Transition(L, f, t, r)
        PROVE  L.root.lifecycle_state # "SEALED"
    BY <2>b DEF PackageCases!Domain!Transition
  <2>c. ASSUME NEW t, NEW v, NEW b \in PackageCases!Domain!AddWhileCollecting(L, t, v)
        PROVE  L.root.lifecycle_state # "SEALED"
    BY <2>c DEF PackageCases!Domain!AddWhileCollecting
  <2> HIDE DEF L
  <2>1. CASE PackageCases!Reading(c)
    BY <2>1 DEF PackageCases!Reading, PackageCases!GetRoot, PackageCases!GetTable,
       PackageCases!Leave, PackageCases!Idle, Reading, GetRoot, GetTable, Leave, Idle
  <2>2. CASE PackageCases!StartEvidencePackageCollection(c)
    <3>1. \A b \in PackageCases!Domain!start_collection(L) :
             b \in PackageCases!Domain!Mutations(L) /\ L.root.lifecycle_state # "SEALED"
      BY <2>b DEF PackageCases!Domain!start_collection, PackageCases!Domain!Mutations
    <3> QED
      BY <2>0, <2>a, <2>2, <3>1 DEF PackageCases!StartEvidencePackageCollection
  <2>3. CASE PackageCases!RecordEvidencePackageCriterionResult(c)
    <3>1. ASSUME NEW x \in Criterion
          PROVE  \A b \in PackageCases!Domain!add_criterion_result(L, x) :
                    b \in PackageCases!Domain!Mutations(L) /\ L.root.lifecycle_state # "SEALED"
      BY <2>c DEF PackageCases!Domain!add_criterion_result, PackageCases!Domain!Mutations
    <3> QED
      BY <2>0, <2>a, <2>3, <3>1 DEF PackageCases!RecordEvidencePackageCriterionResult
  <2>4. CASE PackageCases!RecordEvidencePackageArtifactReference(c)
    <3>1. ASSUME NEW x \in Artifact
          PROVE  \A b \in PackageCases!Domain!add_artifact_reference(L, x) :
                    b \in PackageCases!Domain!Mutations(L) /\ L.root.lifecycle_state # "SEALED"
      BY <2>c DEF PackageCases!Domain!add_artifact_reference, PackageCases!Domain!Mutations
    <3> QED
      BY <2>0, <2>a, <2>4, <3>1 DEF PackageCases!RecordEvidencePackageArtifactReference
  <2>5. CASE PackageCases!SealEvidencePackage(c)
    <3>1. \A b \in PackageCases!Domain!seal(L) :
             b \in PackageCases!Domain!Mutations(L) /\ L.root.lifecycle_state # "SEALED"
      BY <2>b DEF PackageCases!Domain!seal, PackageCases!Domain!Mutations
    <3> QED
      BY <2>0, <2>a, <2>5, <3>1 DEF PackageCases!SealEvidencePackage
  <2> QED
    BY <1>2, <2>1, <2>2, <2>3, <2>4, <2>5 DEF PackageCases!ClientStep
<1> QED
  BY <1>1, <1>2 DEF PackageCases!Next

ReviewCommand(c) ==
    HandlerSaves(c, ReviewCases!Domain!Reconstructs(Loaded(c)),
                 ReviewCases!Domain!Mutations(Loaded(c)), MaxVersion)

LEMMA ReviewSteps ==
    ASSUME ReviewCases!Next
    PROVE  \/ add(ReviewCases!Domain!create)
           \/ \E c \in Client : Reading(c) \/ ReviewCommand(c)
<1>1. CASE ReviewCases!CreateReview
  BY <1>1 DEF ReviewCases!CreateReview, ReviewCases!add, add
<1>2. ASSUME NEW c \in Client, ReviewCases!ClientStep(c)
      PROVE  Reading(c) \/ ReviewCommand(c)
  <2> DEFINE L == Loaded(c)
  <2>0. ReviewCases!Loaded(c) = L
    BY DEF ReviewCases!Loaded, Loaded
  <2>a. ASSUME NEW results, ReviewCases!Command(c, results),
               \A b \in results : b \in ReviewCases!Domain!Mutations(L)
        PROVE  ReviewCommand(c)
    BY <2>0, <2>a DEF ReviewCases!Command, ReviewCases!get, ReviewCases!Handle,
       ReviewCases!IsLoaded, IsLoaded, ReviewCases!save, ReviewCases!Written, Written, Saves,
       ReviewCases!Idle, Idle, ReviewCommand, HandlerSaves
  <2> HIDE DEF L
  <2>1. CASE ReviewCases!Reading(c)
    BY <2>1 DEF ReviewCases!Reading, ReviewCases!GetRoot, ReviewCases!GetTable,
       ReviewCases!Leave, ReviewCases!Idle, Reading, GetRoot, GetTable, Leave, Idle
  <2>2. CASE ReviewCases!StartReview(c)
    BY <2>0, <2>a, <2>2 DEF ReviewCases!StartReview, ReviewCases!Domain!Mutations
  <2>3. CASE ReviewCases!AddReviewFinding(c)
    BY <2>0, <2>a, <2>3 DEF ReviewCases!AddReviewFinding, ReviewCases!Domain!Mutations
  <2>4. CASE ReviewCases!CompleteReview(c)
    BY <2>0, <2>a, <2>4 DEF ReviewCases!CompleteReview, ReviewCases!Domain!Mutations
  <2>5. CASE ReviewCases!CancelReview(c)
    BY <2>0, <2>a, <2>5 DEF ReviewCases!CancelReview, ReviewCases!Domain!Mutations
  <2> QED
    BY <1>2, <2>1, <2>2, <2>3, <2>4, <2>5 DEF ReviewCases!ClientStep
<1> QED
  BY <1>1, <1>2 DEF ReviewCases!Next

CampaignCommand(c) ==
    HandlerSaves(c, GuessCases!Domain!Reconstructs(Loaded(c)),
                 GuessCases!Domain!Mutations(Loaded(c)), MaxGuessVersion)

\* The callers of this Campaign may expect any version.
LEMMA CampaignSteps ==
    ASSUME GuessCases!CampaignNext, db # NoRow => db.root.version \in Nat
    PROVE  \/ \E x \in Scope : add(GuessCases!Domain!create(x))
           \/ \E c \in Client : ReadsRoot(c) \/ GetTable(c) \/ Leave(c) \/ CampaignCommand(c)
<1>1. CASE GuessCases!CreateCampaign
  BY <1>1 DEF GuessCases!CreateCampaign, GuessCases!add, add
<1>2. ASSUME NEW c \in Client, GuessCases!ClientStep(c)
      PROVE  ReadsRoot(c) \/ GetTable(c) \/ Leave(c) \/ CampaignCommand(c)
  <2> DEFINE L == Loaded(c)
  <2>0. GuessCases!Loaded(c) = L /\ GuessCases!Reasons = GuessCases!Domain!Reasons
    BY DEF GuessCases!Loaded, Loaded, GuessCases!Reasons, GuessCases!Domain!Reasons,
       GuessCases!Given, GuessCases!NoReason, GuessCases!Domain!Given, GuessCases!Domain!NoReason
  <2>a. ASSUME NEW results, GuessCases!Command(c, results),
               \A b \in results : b \in GuessCases!Domain!Mutations(L)
        PROVE  CampaignCommand(c)
    BY <2>0, <2>a DEF GuessCases!Command, GuessCases!get, GuessCases!Handle, GuessCases!IsLoaded,
       IsLoaded, GuessCases!save, GuessCases!Written, Written, Saves, GuessCases!Idle, Idle,
       CampaignCommand, HandlerSaves
  <2> HIDE DEF L
  <2>b. CASE GuessCases!GetRoot(c)
    <3>1. db # NoRow /\ db.root.version \in Nat
      BY <2>b DEF GuessCases!GetRoot
    <3>2. 0..(db.root.version + 1) \subseteq Nat
      BY <3>1
    <3> QED
      BY <2>b, <3>2 DEF GuessCases!GetRoot, ReadsRoot
  <2>1. CASE GuessCases!Reading(c)
    BY <2>b, <2>1 DEF GuessCases!Reading, GuessCases!GetTable, GuessCases!Leave, GuessCases!Idle,
       GetTable, Leave, Idle
  <2>2. CASE GuessCases!ReviseCampaignScopeStatement(c)
    BY <2>0, <2>a, <2>2 DEF GuessCases!ReviseCampaignScopeStatement, GuessCases!Domain!Mutations
  <2>3. CASE GuessCases!PrepareCampaignForAuthorization(c)
    BY <2>0, <2>a, <2>3 DEF GuessCases!PrepareCampaignForAuthorization, GuessCases!Domain!Mutations
  <2>4. CASE GuessCases!RecordCampaignAuthorization(c)
    BY <2>0, <2>a, <2>4 DEF GuessCases!RecordCampaignAuthorization, GuessCases!Domain!Mutations
  <2>5. CASE GuessCases!ActivateCampaign(c)
    BY <2>0, <2>a, <2>5 DEF GuessCases!ActivateCampaign, GuessCases!Domain!Mutations
  <2>6. CASE GuessCases!SuspendCampaign(c)
    BY <2>0, <2>a, <2>6 DEF GuessCases!SuspendCampaign, GuessCases!Domain!Mutations
  <2>7. CASE GuessCases!ResumeCampaign(c)
    BY <2>0, <2>a, <2>7 DEF GuessCases!ResumeCampaign, GuessCases!Domain!Mutations
  <2>8. CASE GuessCases!CompleteCampaign(c)
    BY <2>0, <2>a, <2>8 DEF GuessCases!CompleteCampaign, GuessCases!Domain!Mutations
  <2>9. CASE GuessCases!CancelCampaign(c)
    BY <2>0, <2>a, <2>9 DEF GuessCases!CancelCampaign, GuessCases!Domain!Mutations
  <2> QED
    BY <1>2, <2>1, <2>2, <2>3, <2>4, <2>5, <2>6, <2>7, <2>8, <2>9 DEF GuessCases!ClientStep
<1> QED
  BY <1>1, <1>2 DEF GuessCases!CampaignNext

------------------------------------------------------------------------------
(* What a handler holds, and what its save() does. *)

\* The two invariants of the store, for aggregates of one type.
TypedStoreInv(att, own, n) ==
    StoreInv(AggregatesOf(att, own, n), Roots(att), Seq(own \cup Records), n)

TypedTablesInv(att, own, n) ==
    TablesInv(AggregatesOf(att, own, n), Roots(att), Seq(own \cup Records), n)

\* What get() assembles is well typed, even if its rows come from several commits.
LEMMA LoadedIsTyped ==
    ASSUME NEW att, NEW own, NEW n \in Nat \ {0}, NoRow \notin AggregatesOf(att, own, n),
           RowsInv(AggregatesOf(att, own, n), Roots(att), Seq(own \cup Records), n),
           NEW c \in Client, IsLoaded(c)
    PROVE  Loaded(c) \in AggregatesOf(att, own, n)
<1> DEFINE A == AggregatesOf(att, own, n)
           R == Roots(att)
           T == Seq(own \cup Records)
           s == session[c]
           m == Len(committed)
<1>1. AggregateKind(A, R, T, n)
  BY IsKind
<1>2. s.pc # "idle"
  BY DEF IsLoaded
<1>3. /\ s.tables \in Seq(T) /\ Len(s.tables) = n
      /\ committed \in Seq(A) /\ m \in Nat
  BY LenProperties DEF RowsInv, StoreTypes, IsLoaded
<1> HIDE DEF A, R, T
<1>4. PICK i \in 1..m :
        /\ s.root = committed[i].root
        /\ \A k \in 1..Len(s.tables) : \E j \in i..m : s.tables[k] = committed[j].tables[k]
  BY <1>1, <1>2, HeldRows DEF A, R, T
<1>5. committed[i] \in A
  BY <1>3, <1>4, ElementOfSeq
<1>6. s.root \in R
  BY <1>1, <1>4, <1>5 DEF AggregateKind
<1>7. s.tables[n] \in Seq(Records)
  <2>1. n \in 1..Len(s.tables)
    BY <1>3
  <2>2. PICK j \in i..m : s.tables[n] = committed[j].tables[n]
    BY <1>4, <2>1
  <2>3. j \in 1..m
    BY <1>3, <1>4
  <2>4. committed[j] \in A
    BY <1>3, <2>3, ElementOfSeq
  <2> QED
    BY <2>2, <2>4 DEF A, AggregatesOf
<1> QED
  BY <1>3, <1>6, <1>7 DEF Loaded, AggregatesOf, A, R, T

\* Every child row that is stored stays where it is.
RowsGrow ==
    db # NoRow /\ db' # db =>
       \A t \in 1..Len(db.tables) : IsPrefix(db.tables[t], db'.tables[t])

\* A successor keeps every child row of an aggregate.
LEMMA TablesGrow ==
    ASSUME NEW att, NEW own, NEW n \in Nat \ {0}, NEW a \in AggregatesOf(att, own, n),
           NEW b \in AggregatesOf(att, own, n),
           \A k \in 1..Len(a.tables) : Continues(b.tables[k], a.tables[k])
    PROVE  \A t \in 1..Len(a.tables) : IsPrefix(a.tables[t], b.tables[t])
<1> SUFFICES ASSUME NEW t \in 1..Len(a.tables)
             PROVE  IsPrefix(a.tables[t], b.tables[t])
  OBVIOUS
<1>1. t \in 1..n
  BY Fields
<1>2. a.tables[t] \in Seq(own \cup Records) /\ b.tables[t] \in Seq(own \cup Records)
  BY <1>1, Tables
<1> QED
  BY <1>2, ContinuesIsPrefix

\* Whatever version the caller expects, saving a successor of what was loaded
\* keeps every stored child row.
LEMMA SaveGrows ==
    ASSUME NEW att, NEW own, NEW n \in Nat \ {0}, NoRow \notin AggregatesOf(att, own, n),
           TypedTablesInv(att, own, n), NEW c \in Client, IsLoaded(c),
           NEW a, Successor(AggregatesOf(att, own, n), Loaded(c), a), Saves(c, a)
    PROVE  TypedTablesInv(att, own, n)' /\ RowsGrow
<1> DEFINE A == AggregatesOf(att, own, n)
           R == Roots(att)
           T == Seq(own \cup Records)
<1>1. AggregateKind(A, R, T, n)
  BY IsKind
<1>2. /\ a \in A /\ a.root.version = Loaded(c).root.version + 1
      /\ Len(a.tables) = Len(Loaded(c).tables)
      /\ \A k \in 1..Len(Loaded(c).tables) : Continues(a.tables[k], Loaded(c).tables[k])
  BY DEF Successor
<1>3. db \in A => [root |-> a.root, tables |-> db.tables] \in A
  BY <1>2 DEF AggregatesOf
<1> HIDE DEF A, R, T
<1>4. /\ TablesInv(A, R, T, n)'
      /\ \/ db' = db
         \/ db # NoRow /\ db'.tables = db.tables
         \/ db # NoRow /\ Loaded(c).tables = db.tables /\ db'.tables = a.tables
  BY <1>1, <1>2, <1>3, SaveKeepsTables DEF TypedTablesInv, A, R, T
<1>5. CASE db # NoRow /\ db'.tables = db.tables
  <2>1. \A t \in 1..Len(db.tables) : IsPrefix(db.tables[t], db.tables[t])
    <3>1. db \in A
      BY <1>5 DEF TypedTablesInv, TablesInv, StoreTypes, A
    <3>2. Len(db.tables) = n
      BY <1>1, <3>1 DEF AggregateKind
    <3>3. \A t \in 1..n : db.tables[t] \in T
      BY <3>1, Tables DEF A, T
    <3>4. \A t \in 1..Len(db.tables) : Continues(db.tables[t], db.tables[t])
      BY <3>2, <3>3, ContinuesFacts DEF T
    <3> QED
      BY <3>1, <3>4, TablesGrow DEF A
  <2> QED
    BY <1>4, <1>5, <2>1 DEF RowsGrow, TypedTablesInv, A, R, T
<1>6. CASE db # NoRow /\ Loaded(c).tables = db.tables /\ db'.tables = a.tables
  <2>1. db \in A
    BY <1>6 DEF TypedTablesInv, TablesInv, StoreTypes, A
  <2>2. \A t \in 1..Len(db.tables) : IsPrefix(db.tables[t], a.tables[t])
    BY <1>2, <1>6, <2>1, TablesGrow DEF A
  <2> QED
    BY <1>4, <1>6, <2>2 DEF RowsGrow, TypedTablesInv, A, R, T
<1>7. CASE db' = db
  BY <1>4, <1>7 DEF RowsGrow, TypedTablesInv, A, R, T
<1> QED
  BY <1>4, <1>5, <1>6, <1>7

\* The other steps of the store write nothing, or only the first row.
LEMMA ReadGrows ==
    ASSUME NEW att, NEW own, NEW n \in Nat \ {0}, NoRow \notin AggregatesOf(att, own, n),
           TypedTablesInv(att, own, n), NEW c \in Client,
           ReadsRoot(c) \/ GetRoot(c) \/ GetTable(c) \/ Leave(c)
    PROVE  TypedTablesInv(att, own, n)' /\ RowsGrow
<1> DEFINE A == AggregatesOf(att, own, n)
           R == Roots(att)
           T == Seq(own \cup Records)
<1>1. AggregateKind(A, R, T, n)
  BY IsKind
<1>2. TablesInv(A, R, T, n) /\ RowsInv(A, R, T, n)
  BY DEF TypedTablesInv, TablesInv, RowsInv, VersionNamesTables
<1> HIDE DEF A, R, T
<1>3. ReadsRoot(c) \/ GetTable(c) \/ Leave(c)
  BY <1>1, <1>2, GetRootReads
<1>4. TablesInv(A, R, T, n)' /\ UNCHANGED <<db, committed>>
  BY <1>1, <1>2, <1>3, ReadsKeepTables
<1> QED
  BY <1>4 DEF TypedTablesInv, RowsGrow, A, R, T

LEMMA AddGrows ==
    ASSUME NEW att, NEW own, NEW n \in Nat \ {0}, NoRow \notin AggregatesOf(att, own, n),
           TypedTablesInv(att, own, n), NEW a \in AggregatesOf(att, own, n),
           a.root.version = 0, add(a)
    PROVE  TypedTablesInv(att, own, n)' /\ RowsGrow
<1> DEFINE A == AggregatesOf(att, own, n)
           R == Roots(att)
           T == Seq(own \cup Records)
<1>1. AggregateKind(A, R, T, n)
  BY IsKind
<1>2. TablesInv(A, R, T, n) /\ RowsInv(A, R, T, n)
  BY DEF TypedTablesInv, TablesInv, RowsInv, VersionNamesTables
<1> HIDE DEF A, R, T
<1>3. TablesInv(A, R, T, n)' /\ db = NoRow
  BY <1>1, <1>2, AddPreserves DEF A
<1> QED
  BY <1>3 DEF TypedTablesInv, RowsGrow, A, R, T

------------------------------------------------------------------------------
(* No child row is ever lost. *)

\* Run and EvidencePackage as plain objects have the same methods.
LEMMA RunObjectShared ==
    /\ RunObject!create = RunCases!Domain!create
    /\ \A a : RunObject!Mutations(a) = RunCases!Domain!Mutations(a)
    /\ \A a : RunObject!Reconstructs(a) <=> RunCases!Domain!Reconstructs(a)
    /\ RunObject!TerminalStates = RunCases!Domain!TerminalStates
<1>1. RunObject!create = RunCases!Domain!create
  BY DEF RunObject!create, RunCases!Domain!create, RunObject!NewAggregate, RunCases!Domain!NewAggregate
<1>2. /\ RunObject!TerminalStates = RunCases!Domain!TerminalStates
      /\ RunObject!AllowedEdges = RunCases!Domain!AllowedEdges
      /\ RunObject!ManifestAppendStates = RunCases!Domain!ManifestAppendStates
      /\ RunObject!Manifests = RunCases!Domain!Manifests
      /\ RunObject!Given = RunCases!Domain!Given /\ RunObject!NoReason = RunCases!Domain!NoReason
  BY DEF RunObject!TerminalStates, RunCases!Domain!TerminalStates, RunObject!AllowedEdges,
     RunCases!Domain!AllowedEdges, RunObject!ManifestAppendStates,
     RunCases!Domain!ManifestAppendStates, RunObject!Manifests, RunCases!Domain!Manifests,
     RunObject!Given, RunCases!Domain!Given, RunObject!NoReason, RunCases!Domain!NoReason
<1>3. ASSUME NEW a
      PROVE  /\ \A f, t, r : RunObject!Transition(a, f, t, r) = RunCases!Domain!Transition(a, f, t, r)
             /\ \A t, v : RunObject!AppendOwned(a, t, v) = RunCases!Domain!AppendOwned(a, t, v)
             /\ \A i, e, t : RunObject!ValidHistory(a, i, e, t) <=> RunCases!Domain!ValidHistory(a, i, e, t)
             /\ RunObject!transition_history(a) = RunCases!Domain!transition_history(a)
  BY DEF RunObject!Transition, RunCases!Domain!Transition, RunObject!AppendOwned,
     RunCases!Domain!AppendOwned, RunObject!ValidHistory, RunCases!Domain!ValidHistory,
     RunObject!transition_history, RunCases!Domain!transition_history, RunObject!HistoryTable,
     RunCases!Domain!HistoryTable
<1>4. ASSUME NEW a
      PROVE  RunObject!Mutations(a) = RunCases!Domain!Mutations(a)
  <2>1. ASSUME NEW m
        PROVE  RunObject!append_manifest(a, m) = RunCases!Domain!append_manifest(a, m)
    BY <1>2, <1>3 DEF RunObject!append_manifest, RunCases!Domain!append_manifest
  <2>2. /\ RunObject!authorize(a) = RunCases!Domain!authorize(a)
        /\ RunObject!start_acquisition(a) = RunCases!Domain!start_acquisition(a)
        /\ RunObject!start_normalization(a) = RunCases!Domain!start_normalization(a)
        /\ RunObject!start_validation(a) = RunCases!Domain!start_validation(a)
        /\ RunObject!complete_execution(a) = RunCases!Domain!complete_execution(a)
        /\ RunObject!cancel(a) = RunCases!Domain!cancel(a)
        /\ RunObject!fail(a) = RunCases!Domain!fail(a)
    BY <1>2, <1>3 DEF RunObject!authorize, RunCases!Domain!authorize,
       RunObject!start_acquisition, RunCases!Domain!start_acquisition,
       RunObject!start_normalization, RunCases!Domain!start_normalization,
       RunObject!start_validation, RunCases!Domain!start_validation,
       RunObject!complete_execution, RunCases!Domain!complete_execution,
       RunObject!cancel, RunCases!Domain!cancel, RunObject!fail, RunCases!Domain!fail
  <2> QED
    BY <2>1, <2>2 DEF RunObject!Mutations, RunCases!Domain!Mutations
<1>5. ASSUME NEW a
      PROVE  RunObject!Reconstructs(a) <=> RunCases!Domain!Reconstructs(a)
  BY <1>2, <1>3 DEF RunObject!Reconstructs, RunCases!Domain!Reconstructs
<1> QED
  BY <1>1, <1>2, <1>4, <1>5

LEMMA PackageObjectShared ==
    /\ PackageObject!create = PackageCases!Domain!create
    /\ \A a : PackageObject!Mutations(a) = PackageCases!Domain!Mutations(a)
    /\ \A a : PackageObject!Reconstructs(a) <=> PackageCases!Domain!Reconstructs(a)
<1>1. PackageObject!create = PackageCases!Domain!create
  BY DEF PackageObject!create, PackageCases!Domain!create, PackageObject!NewAggregate,
     PackageCases!Domain!NewAggregate
<1>2. /\ PackageObject!TerminalStates = PackageCases!Domain!TerminalStates
      /\ PackageObject!AllowedEdges = PackageCases!Domain!AllowedEdges
      /\ PackageObject!CriterionResults = PackageCases!Domain!CriterionResults
      /\ PackageObject!ArtifactReferences = PackageCases!Domain!ArtifactReferences
      /\ PackageObject!Given = PackageCases!Domain!Given
      /\ PackageObject!NoReason = PackageCases!Domain!NoReason
  BY DEF PackageObject!TerminalStates, PackageCases!Domain!TerminalStates,
     PackageObject!AllowedEdges, PackageCases!Domain!AllowedEdges,
     PackageObject!CriterionResults, PackageCases!Domain!CriterionResults,
     PackageObject!ArtifactReferences, PackageCases!Domain!ArtifactReferences,
     PackageObject!Given, PackageCases!Domain!Given, PackageObject!NoReason,
     PackageCases!Domain!NoReason
<1>3. ASSUME NEW a
      PROVE  /\ \A f, t, r : PackageObject!Transition(a, f, t, r) = PackageCases!Domain!Transition(a, f, t, r)
             /\ \A t, v : PackageObject!AppendOwned(a, t, v) = PackageCases!Domain!AppendOwned(a, t, v)
             /\ \A i, e, t : PackageObject!ValidHistory(a, i, e, t)
                               <=> PackageCases!Domain!ValidHistory(a, i, e, t)
             /\ PackageObject!transition_history(a) = PackageCases!Domain!transition_history(a)
             /\ PackageObject!HasContent(a) <=> PackageCases!Domain!HasContent(a)
             /\ \A v : PackageObject!NoDuplicates(v) <=> PackageCases!Domain!NoDuplicates(v)
  BY <1>2 DEF PackageObject!Transition, PackageCases!Domain!Transition, PackageObject!AppendOwned,
     PackageCases!Domain!AppendOwned, PackageObject!ValidHistory, PackageCases!Domain!ValidHistory,
     PackageObject!transition_history, PackageCases!Domain!transition_history,
     PackageObject!HistoryTable, PackageCases!Domain!HistoryTable, PackageObject!HasContent,
     PackageCases!Domain!HasContent, PackageObject!NoDuplicates, PackageCases!Domain!NoDuplicates
<1>4. ASSUME NEW a
      PROVE  PackageObject!Mutations(a) = PackageCases!Domain!Mutations(a)
  <2>1. ASSUME NEW x
        PROVE  /\ PackageObject!add_criterion_result(a, x) = PackageCases!Domain!add_criterion_result(a, x)
               /\ PackageObject!add_artifact_reference(a, x) = PackageCases!Domain!add_artifact_reference(a, x)
    BY <1>2, <1>3 DEF PackageObject!add_criterion_result, PackageCases!Domain!add_criterion_result,
       PackageObject!add_artifact_reference, PackageCases!Domain!add_artifact_reference,
       PackageObject!AddWhileCollecting, PackageCases!Domain!AddWhileCollecting
  <2>2. /\ PackageObject!start_collection(a) = PackageCases!Domain!start_collection(a)
        /\ PackageObject!seal(a) = PackageCases!Domain!seal(a)
        /\ PackageObject!invalidate(a) = PackageCases!Domain!invalidate(a)
    BY <1>2, <1>3 DEF PackageObject!start_collection, PackageCases!Domain!start_collection,
       PackageObject!seal, PackageCases!Domain!seal, PackageObject!invalidate,
       PackageCases!Domain!invalidate
  <2> QED
    BY <2>1, <2>2 DEF PackageObject!Mutations, PackageCases!Domain!Mutations
<1>5. ASSUME NEW a
      PROVE  PackageObject!Reconstructs(a) <=> PackageCases!Domain!Reconstructs(a)
  BY <1>2, <1>3 DEF PackageObject!Reconstructs, PackageCases!Domain!Reconstructs
<1> QED
  BY <1>1, <1>4, <1>5

\* The store starts empty.
LEMMA StoreStarts ==
    ASSUME NEW att, NEW own, NEW n \in Nat \ {0}, StoreInit
    PROVE  TypedTablesInv(att, own, n) /\ TypedStoreInv(att, own, n)
<1> DEFINE A == AggregatesOf(att, own, n)
           R == Roots(att)
           T == Seq(own \cup Records)
<1>1. <<>> \in Seq(A) /\ <<>> \in Seq(T) /\ Len(<<>>) = 0
  BY EmptySeq
<1> HIDE DEF A, R, T
<1>2. StoreTypes(A, R, T, n) /\ RowsAreCommitted
  BY <1>1 DEF StoreInit, StoreTypes, Idle, IsLoaded, RowsAreCommitted
<1>3. VersionNamesTables
  BY <1>1, <1>2 DEF StoreInit, VersionNamesTables
<1>4. VersionNamesContent
  BY <1>1, <1>2 DEF StoreInit, VersionNamesContent, Idle
<1> QED
  BY <1>2, <1>3, <1>4 DEF TypedTablesInv, TypedStoreInv, TablesInv, StoreInv, A, R, T

Manifest == ManifestId \cup {NoManifestId}

Content == Criterion \cup Artifact

\* The invariant that needs nothing of the callers.
GrowInv ==
    /\ kind \in Kind
    /\ kind = "Run" => TypedTablesInv({<<>>}, Manifest, 2)
    /\ kind = "EvidencePackage" => TypedTablesInv({<<>>}, Content, 3)
    /\ kind = "Review" => TypedTablesInv(Metadata, Nat, 2)
    /\ kind = "Guess" => TypedTablesInv(Scope, {}, 1)
    /\ kind = "RunObject" => db \in Runs \cup {NoRow}
    /\ kind = "PackageObject" => db \in Packages \cup {NoRow}

LEMMA Kinds ==
    /\ Runs = AggregatesOf({<<>>}, Manifest, 2) /\ Packages = AggregatesOf({<<>>}, Content, 3)
    /\ Reviews = AggregatesOf(Metadata, Nat, 2) /\ Campaigns = AggregatesOf(Scope, {}, 1)
    /\ NoRow \notin AggregatesOf({<<>>}, Manifest, 2) /\ NoRow \notin AggregatesOf({<<>>}, Content, 3)
    /\ NoRow \notin AggregatesOf(Metadata, Nat, 2) /\ NoRow \notin AggregatesOf(Scope, {}, 1)
    /\ 1 \in Nat \ {0} /\ 2 \in Nat \ {0} /\ 3 \in Nat \ {0}
BY MarkersAssumption DEF Runs, Packages, Reviews, Campaigns, Manifest, Content, Metadata

\* One step of each kind.
LEMMA RunGrows ==
    ASSUME TypedTablesInv({<<>>}, Manifest, 2), RunCases!Next
    PROVE  TypedTablesInv({<<>>}, Manifest, 2)' /\ RowsGrow
<1>1. CASE add(RunCases!Domain!create)
  BY <1>1, Kinds, AddGrows, RunCreateFacts
<1>2. ASSUME NEW c \in Client, Reading(c)
      PROVE  TypedTablesInv({<<>>}, Manifest, 2)' /\ RowsGrow
  BY <1>2, Kinds, ReadGrows DEF Reading
<1>3. ASSUME NEW c \in Client, RunCommand(c)
      PROVE  TypedTablesInv({<<>>}, Manifest, 2)' /\ RowsGrow
  <2>1. PICK a \in RunCases!Domain!Mutations(Loaded(c)) : IsLoaded(c) /\ Saves(c, a)
    BY <1>3 DEF RunCommand, HandlerSaves
  <2>2. Loaded(c) \in Runs
    BY <2>1, Kinds, LoadedIsTyped DEF TypedTablesInv, TablesInv, RowsInv, VersionNamesTables
  <2>3. Successor(Runs, Loaded(c), a)
    BY <2>1, <2>2, RunMutationFacts
  <2> QED
    BY <2>1, <2>3, Kinds, SaveGrows
<1> QED
  BY <1>1, <1>2, <1>3, RunSteps

LEMMA PackageGrows ==
    ASSUME TypedTablesInv({<<>>}, Content, 3), PackageCases!Next
    PROVE  TypedTablesInv({<<>>}, Content, 3)' /\ RowsGrow
<1>1. CASE add(PackageCases!Domain!create)
  BY <1>1, Kinds, AddGrows, PackageCreateFacts
<1>2. ASSUME NEW c \in Client, Reading(c)
      PROVE  TypedTablesInv({<<>>}, Content, 3)' /\ RowsGrow
  BY <1>2, Kinds, ReadGrows DEF Reading
<1>3. ASSUME NEW c \in Client, PackageCommand(c)
      PROVE  TypedTablesInv({<<>>}, Content, 3)' /\ RowsGrow
  <2>1. PICK a \in PackageCases!Domain!Mutations(Loaded(c)) : IsLoaded(c) /\ Saves(c, a)
    BY <1>3 DEF PackageCommand, HandlerSaves
  <2>2. Loaded(c) \in Packages
    BY <2>1, Kinds, LoadedIsTyped DEF TypedTablesInv, TablesInv, RowsInv, VersionNamesTables
  <2>3. Successor(Packages, Loaded(c), a)
    BY <2>1, <2>2, PackageMutationFacts
  <2> QED
    BY <2>1, <2>3, Kinds, SaveGrows
<1> QED
  BY <1>1, <1>2, <1>3, PackageSteps

LEMMA ReviewGrows ==
    ASSUME TypedTablesInv(Metadata, Nat, 2), ReviewCases!Next
    PROVE  TypedTablesInv(Metadata, Nat, 2)' /\ RowsGrow
<1>1. CASE add(ReviewCases!Domain!create)
  BY <1>1, Kinds, AddGrows, ReviewCreateFacts
<1>2. ASSUME NEW c \in Client, Reading(c)
      PROVE  TypedTablesInv(Metadata, Nat, 2)' /\ RowsGrow
  BY <1>2, Kinds, ReadGrows DEF Reading
<1>3. ASSUME NEW c \in Client, ReviewCommand(c)
      PROVE  TypedTablesInv(Metadata, Nat, 2)' /\ RowsGrow
  <2>1. PICK a \in ReviewCases!Domain!Mutations(Loaded(c)) :
          IsLoaded(c) /\ Saves(c, a) /\ ReviewCases!Domain!Reconstructs(Loaded(c))
    BY <1>3 DEF ReviewCommand, HandlerSaves
  <2>2. Loaded(c) \in Reviews
    BY <2>1, Kinds, LoadedIsTyped DEF TypedTablesInv, TablesInv, RowsInv, VersionNamesTables
  <2>3. Successor(Reviews, Loaded(c), a)
    BY <2>1, <2>2, ReviewMutationFacts
  <2> QED
    BY <2>1, <2>3, Kinds, SaveGrows
<1> QED
  BY <1>1, <1>2, <1>3, ReviewSteps

LEMMA CampaignGrows ==
    ASSUME TypedTablesInv(Scope, {}, 1), GuessCases!CampaignNext
    PROVE  TypedTablesInv(Scope, {}, 1)' /\ RowsGrow
<1>0. db # NoRow => db.root.version \in Nat
  <2>1. db # NoRow => db \in AggregatesOf(Scope, {}, 1)
    BY DEF TypedTablesInv, TablesInv, StoreTypes
  <2> QED
    BY <2>1 DEF AggregatesOf, Roots
<1>1. ASSUME NEW x \in Scope, add(GuessCases!Domain!create(x))
      PROVE  TypedTablesInv(Scope, {}, 1)' /\ RowsGrow
  BY <1>1, Kinds, AddGrows, CampaignCreateFacts
<1>2. ASSUME NEW c \in Client, ReadsRoot(c) \/ GetTable(c) \/ Leave(c)
      PROVE  TypedTablesInv(Scope, {}, 1)' /\ RowsGrow
  BY <1>2, Kinds, ReadGrows
<1>3. ASSUME NEW c \in Client, CampaignCommand(c)
      PROVE  TypedTablesInv(Scope, {}, 1)' /\ RowsGrow
  <2>1. PICK a \in GuessCases!Domain!Mutations(Loaded(c)) : IsLoaded(c) /\ Saves(c, a)
    BY <1>3 DEF CampaignCommand, HandlerSaves
  <2>2. Loaded(c) \in Campaigns
    BY <2>1, Kinds, LoadedIsTyped DEF TypedTablesInv, TablesInv, RowsInv, VersionNamesTables
  <2>3. Successor(Campaigns, Loaded(c), a)
    BY <2>1, <2>2, CampaignMutationFacts
  <2> QED
    BY <2>1, <2>3, Kinds, SaveGrows
<1> QED
  BY <1>0, <1>1, <1>2, <1>3, CampaignSteps

LEMMA ObjectsGrow ==
    /\ db \in Runs \cup {NoRow} /\ RunObject!Next => db' \in Runs \cup {NoRow} /\ RowsGrow
    /\ db \in Packages \cup {NoRow} /\ PackageObject!Next => db' \in Packages \cup {NoRow} /\ RowsGrow
<1>1. ASSUME db \in Runs \cup {NoRow}, RunObject!Next
      PROVE  db' \in Runs \cup {NoRow} /\ RowsGrow
  <2>1. CASE RunObject!Create
    BY <2>1, RunObjectShared, RunCreateFacts DEF RunObject!Create, RowsGrow
  <2>2. CASE RunObject!Mutate
    <3>1. db \in Runs /\ db' \in RunCases!Domain!Mutations(db)
      BY <1>1, <2>2, RunObjectShared DEF RunObject!Mutate
    <3>2. Successor(Runs, db, db')
      BY <3>1, RunMutationFacts
    <3>3. \A t \in 1..Len(db.tables) : IsPrefix(db.tables[t], db'.tables[t])
      BY <3>1, <3>2, Kinds, TablesGrow DEF Successor
    <3> QED
      BY <3>2, <3>3 DEF Successor, RowsGrow
  <2> QED
    BY <1>1, <2>1, <2>2 DEF RunObject!Next
<1>2. ASSUME db \in Packages \cup {NoRow}, PackageObject!Next
      PROVE  db' \in Packages \cup {NoRow} /\ RowsGrow
  <2>1. CASE PackageObject!Create
    BY <2>1, PackageObjectShared, PackageCreateFacts DEF PackageObject!Create, RowsGrow
  <2>2. CASE PackageObject!Mutate
    <3>1. db \in Packages /\ db' \in PackageCases!Domain!Mutations(db)
      BY <1>2, <2>2, PackageObjectShared DEF PackageObject!Mutate
    <3>2. Successor(Packages, db, db')
      BY <3>1, PackageMutationFacts
    <3>3. \A t \in 1..Len(db.tables) : IsPrefix(db.tables[t], db'.tables[t])
      BY <3>1, <3>2, Kinds, TablesGrow DEF Successor
    <3> QED
      BY <3>2, <3>3 DEF Successor, RowsGrow
  <2> QED
    BY <1>2, <2>1, <2>2 DEF PackageObject!Next
<1> QED
  BY <1>1, <1>2

LEMMA GrowInit ==
    Init => GrowInv
<1> SUFFICES ASSUME Init PROVE GrowInv
  OBVIOUS
<1>1. StoreInit /\ kind \in Kind /\ db = NoRow
  BY DEF Init, StoreInit
<1>2. /\ TypedTablesInv({<<>>}, Manifest, 2) /\ TypedTablesInv({<<>>}, Content, 3)
      /\ TypedTablesInv(Metadata, Nat, 2) /\ TypedTablesInv(Scope, {}, 1)
  BY <1>1, Kinds, StoreStarts
<1> QED
  BY <1>1, <1>2 DEF GrowInv

LEMMA GrowNext ==
    GrowInv /\ [Next]_vars => GrowInv' /\ (db' = db \/ RowsGrow)
<1> SUFFICES ASSUME GrowInv, [Next]_vars
             PROVE  GrowInv' /\ (db' = db \/ RowsGrow)
  OBVIOUS
<1>1. CASE UNCHANGED vars
  BY <1>1 DEF vars, GrowInv, TypedTablesInv, TablesInv, StoreTypes, IsLoaded, VersionNamesTables,
     RowsAreCommitted
<1>2. CASE kind = "Run" /\ RunCases!Next /\ UNCHANGED kind
  BY <1>2, RunGrows DEF GrowInv
<1>3. CASE kind = "EvidencePackage" /\ PackageCases!Next /\ UNCHANGED kind
  BY <1>3, PackageGrows DEF GrowInv
<1>4. CASE kind = "Review" /\ ReviewCases!Next /\ UNCHANGED kind
  BY <1>4, ReviewGrows DEF GrowInv
<1>5. CASE kind = "Guess" /\ GuessCases!CampaignNext /\ UNCHANGED kind
  BY <1>5, CampaignGrows DEF GrowInv
<1>6. CASE kind = "RunObject" /\ RunObject!Next /\ UNCHANGED kind
  BY <1>6, ObjectsGrow DEF GrowInv
<1>7. CASE kind = "PackageObject" /\ PackageObject!Next /\ UNCHANGED kind
  BY <1>7, ObjectsGrow DEF GrowInv
<1> QED
  BY <1>1, <1>2, <1>3, <1>4, <1>5, <1>6, <1>7 DEF Next

\* save() deletes and re-inserts the child rows, and no interleaving of handlers,
\* whatever versions their callers expect, drops, rewrites or reorders one.
THEOREM RowsAreNeverLost ==
    Spec => ChildRowsOnlyGrow
<1> DEFINE Grow == db # NoRow => \A t \in 1..Len(db.tables) : IsPrefix(db.tables[t], db'.tables[t])
<1>1. Init => GrowInv
  BY GrowInit
<1>2. GrowInv /\ [Next]_vars => GrowInv' /\ [Grow]_db
  BY GrowNext DEF RowsGrow
<1> QED
  BY <1>1, <1>2, PTL DEF Spec, ChildRowsOnlyGrow

------------------------------------------------------------------------------
(* With callers that expect only versions they have been told, the stored rows *)
(* are one object whose methods are called one at a time.                      *)

LEMMA AddStores ==
    ASSUME NEW att, NEW own, NEW n \in Nat \ {0}, NoRow \notin AggregatesOf(att, own, n),
           TypedStoreInv(att, own, n), NEW a \in AggregatesOf(att, own, n),
           a.root.version = 0, add(a)
    PROVE  /\ TypedStoreInv(att, own, n)'
           /\ db = NoRow /\ db' = a /\ Len(committed) = 0 /\ committed' = Append(committed, a)
<1> DEFINE A == AggregatesOf(att, own, n)
           R == Roots(att)
           T == Seq(own \cup Records)
<1>1. AggregateKind(A, R, T, n)
  BY IsKind
<1>2. StoreInv(A, R, T, n) /\ RowsInv(A, R, T, n)
  BY DEF TypedStoreInv, StoreInv, RowsInv, VersionNamesContent
<1> HIDE DEF A, R, T
<1>3. /\ StoreInv(A, R, T, n)'
      /\ db = NoRow /\ db' = a /\ Len(committed) = 0 /\ committed' = Append(committed, a)
  BY <1>1, <1>2, AddPreserves DEF A
<1> QED
  BY <1>3 DEF TypedStoreInv, A, R, T

LEMMA ReadStoresNothing ==
    ASSUME NEW att, NEW own, NEW n \in Nat \ {0}, NoRow \notin AggregatesOf(att, own, n),
           TypedStoreInv(att, own, n), Ahead = 0, NEW c \in Client, Reading(c)
    PROVE  TypedStoreInv(att, own, n)' /\ UNCHANGED <<db, committed>>
<1> DEFINE A == AggregatesOf(att, own, n)
           R == Roots(att)
           T == Seq(own \cup Records)
<1>1. AggregateKind(A, R, T, n)
  BY IsKind
<1>2. StoreInv(A, R, T, n)
  BY DEF TypedStoreInv
<1> HIDE DEF A, R, T
<1>3. StoreInv(A, R, T, n)' /\ UNCHANGED <<db, committed>>
  BY <1>1, <1>2, ReadingPreserves
<1> QED
  BY <1>3 DEF TypedStoreInv, A, R, T

LEMMA SaveReplacesLoaded ==
    ASSUME NEW att, NEW own, NEW n \in Nat \ {0}, NoRow \notin AggregatesOf(att, own, n),
           TypedStoreInv(att, own, n), NEW c \in Client, IsLoaded(c),
           NEW a, Successor(AggregatesOf(att, own, n), Loaded(c), a), Saves(c, a)
    PROVE  /\ TypedStoreInv(att, own, n)'
           /\ \/ UNCHANGED <<db, committed>>
              \/ /\ db # NoRow /\ Loaded(c) = db /\ db' = a
                 /\ committed' = Append(committed, a)
<1> DEFINE A == AggregatesOf(att, own, n)
           R == Roots(att)
           T == Seq(own \cup Records)
<1>1. AggregateKind(A, R, T, n)
  BY IsKind
<1>2. StoreInv(A, R, T, n)
  BY DEF TypedStoreInv
<1>3. a \in A /\ a.root.version = Loaded(c).root.version + 1
  BY DEF Successor
<1> HIDE DEF A, R, T
<1>4. /\ StoreInv(A, R, T, n)'
      /\ \/ db' = db /\ committed' = committed
         \/ db # NoRow /\ Loaded(c) = db /\ db' = a /\ committed' = Append(committed, a)
  BY <1>1, <1>2, <1>3, SavePreserves
<1> QED
  BY <1>4 DEF TypedStoreInv, A, R, T

LEMMA TypedRows ==
    ASSUME NEW att, NEW own, NEW n, TypedStoreInv(att, own, n)
    PROVE  RowsInv(AggregatesOf(att, own, n), Roots(att), Seq(own \cup Records), n)
BY DEF TypedStoreInv, StoreInv, RowsInv, VersionNamesContent

RunInv == TypedStoreInv({<<>>}, Manifest, 2) /\ RunCases!StoredReconstructs

\* A step of the Run use cases is a step of the Run as an object, or changes
\* nothing that is stored; a finished Run is not changed.
LEMMA RunIsAtomic ==
    ASSUME RunInv, Ahead = 0, RunCases!Next
    PROVE  /\ RunInv'
           /\ db' = db \/ /\ RunCases!Domain!Next
                          /\ db # NoRow => db.root.lifecycle_state \notin RunCases!Domain!TerminalStates
<1>0. TypedStoreInv({<<>>}, Manifest, 2) /\ RunCases!StoredReconstructs
  BY DEF RunInv
<1>1. CASE add(RunCases!Domain!create)
  <2>1. TypedStoreInv({<<>>}, Manifest, 2)' /\ db = NoRow /\ db' = RunCases!Domain!create
    BY <1>0, <1>1, Kinds, AddStores, RunCreateFacts
  <2> QED
    BY <2>1, RunCreateFacts DEF RunInv, RunCases!StoredReconstructs, RunCases!Domain!Next,
       RunCases!Domain!Create
<1>2. ASSUME NEW c \in Client, Reading(c)
      PROVE  RunInv' /\ db' = db
  <2>1. TypedStoreInv({<<>>}, Manifest, 2)' /\ UNCHANGED <<db, committed>>
    BY <1>0, <1>2, Kinds, ReadStoresNothing
  <2> QED
    BY <1>0, <2>1 DEF RunInv, RunCases!StoredReconstructs, RunCases!Domain!Reconstructs
<1>3. ASSUME NEW c \in Client, RunCommand(c)
      PROVE  /\ RunInv'
             /\ db' = db \/ /\ RunCases!Domain!Next
                            /\ db # NoRow => db.root.lifecycle_state \notin RunCases!Domain!TerminalStates
  <2>1. PICK a \in RunCases!Domain!Mutations(Loaded(c)) :
          IsLoaded(c) /\ a.root.version <= MaxVersion /\ Saves(c, a)
    BY <1>3 DEF RunCommand, HandlerSaves
  <2>2. Loaded(c) \in Runs
    BY <1>0, <2>1, Kinds, LoadedIsTyped, TypedRows
  <2>3. /\ Successor(Runs, Loaded(c), a)
        /\ Loaded(c).root.lifecycle_state \notin RunCases!Domain!TerminalStates
        /\ RunCases!Domain!Reconstructs(Loaded(c)) => RunCases!Domain!Reconstructs(a)
    BY <2>1, <2>2, RunMutationFacts
  <2>4. /\ TypedStoreInv({<<>>}, Manifest, 2)'
        /\ \/ UNCHANGED <<db, committed>>
           \/ db # NoRow /\ Loaded(c) = db /\ db' = a
    BY <1>0, <2>1, <2>3, Kinds, SaveReplacesLoaded
  <2>5. CASE UNCHANGED <<db, committed>>
    BY <1>0, <2>4, <2>5 DEF RunInv, RunCases!StoredReconstructs, RunCases!Domain!Reconstructs
  <2>6. CASE db # NoRow /\ Loaded(c) = db /\ db' = a
    <3>1. RunCases!Domain!Reconstructs(db')
      BY <1>0, <2>3, <2>6 DEF RunCases!StoredReconstructs
    <3>2. RunCases!Domain!Next
      BY <2>1, <2>6 DEF RunCases!Domain!Next, RunCases!Domain!Mutate
    <3> QED
      BY <2>3, <2>4, <2>6, <3>1, <3>2 DEF RunInv, RunCases!StoredReconstructs
  <2> QED
    BY <2>4, <2>5, <2>6
<1> QED
  BY <1>1, <1>2, <1>3, RunSteps

ReviewInv == TypedStoreInv(Metadata, Nat, 2) /\ ReviewCases!StoredReconstructs

\* The same of the Review, which is finished once it has a disposition.
LEMMA ReviewIsAtomic ==
    ASSUME ReviewInv, Ahead = 0, ReviewCases!Next
    PROVE  /\ ReviewInv'
           /\ db' = db \/ /\ ReviewCases!Domain!Next
                          /\ db # NoRow => db.root.attributes.disposition = NoDisposition
<1>0. TypedStoreInv(Metadata, Nat, 2) /\ ReviewCases!StoredReconstructs
  BY DEF ReviewInv
<1>1. CASE add(ReviewCases!Domain!create)
  <2>1. TypedStoreInv(Metadata, Nat, 2)' /\ db = NoRow /\ db' = ReviewCases!Domain!create
    BY <1>0, <1>1, Kinds, AddStores, ReviewCreateFacts
  <2> QED
    BY <2>1, ReviewCreateFacts DEF ReviewInv, ReviewCases!StoredReconstructs,
       ReviewCases!Domain!Next, ReviewCases!Domain!Create
<1>2. ASSUME NEW c \in Client, Reading(c)
      PROVE  ReviewInv' /\ db' = db
  <2>1. TypedStoreInv(Metadata, Nat, 2)' /\ UNCHANGED <<db, committed>>
    BY <1>0, <1>2, Kinds, ReadStoresNothing
  <2> QED
    BY <1>0, <2>1 DEF ReviewInv, ReviewCases!StoredReconstructs, ReviewCases!Domain!Reconstructs
<1>3. ASSUME NEW c \in Client, ReviewCommand(c)
      PROVE  /\ ReviewInv'
             /\ db' = db \/ /\ ReviewCases!Domain!Next
                            /\ db # NoRow => db.root.attributes.disposition = NoDisposition
  <2>1. PICK a \in ReviewCases!Domain!Mutations(Loaded(c)) :
          /\ IsLoaded(c) /\ a.root.version <= MaxVersion /\ Saves(c, a)
          /\ ReviewCases!Domain!Reconstructs(Loaded(c))
    BY <1>3 DEF ReviewCommand, HandlerSaves
  <2>2. Loaded(c) \in Reviews
    BY <1>0, <2>1, Kinds, LoadedIsTyped, TypedRows
  <2>3. /\ Successor(Reviews, Loaded(c), a)
        /\ Loaded(c).root.attributes.disposition = NoDisposition
        /\ ReviewCases!Domain!Reconstructs(a)
    BY <2>1, <2>2, ReviewMutationFacts
  <2>4. /\ TypedStoreInv(Metadata, Nat, 2)'
        /\ \/ UNCHANGED <<db, committed>>
           \/ db # NoRow /\ Loaded(c) = db /\ db' = a
    BY <1>0, <2>1, <2>3, Kinds, SaveReplacesLoaded
  <2>5. CASE UNCHANGED <<db, committed>>
    BY <1>0, <2>4, <2>5 DEF ReviewInv, ReviewCases!StoredReconstructs, ReviewCases!Domain!Reconstructs
  <2>6. CASE db # NoRow /\ Loaded(c) = db /\ db' = a
    <3>1. ReviewCases!Domain!Next
      BY <2>1, <2>6 DEF ReviewCases!Domain!Next, ReviewCases!Domain!Mutate
    <3> QED
      BY <2>3, <2>4, <2>6, <3>1 DEF ReviewInv, ReviewCases!StoredReconstructs
  <2> QED
    BY <2>4, <2>5, <2>6
<1> QED
  BY <1>1, <1>2, <1>3, ReviewSteps

\* Nothing is committed after a SEALED package.
SealedIsLast ==
    \A i \in 1..Len(committed) :
       committed[i].root.lifecycle_state = "SEALED" => i = Len(committed)

PackageInv ==
    /\ TypedStoreInv({<<>>}, Content, 3)
    /\ PackageCases!StoredReconstructs
    /\ SealedIsLast

\* A commit on top of a package that is not sealed.
LEMMA SealedStaysLast ==
    ASSUME NEW A, committed \in Seq(A), NEW a \in A, committed' = Append(committed, a),
           \A i \in 1..Len(committed) : committed[i].root.lifecycle_state # "SEALED"
    PROVE  SealedIsLast'
<1> DEFINE m == Len(committed)
<1>1. m \in Nat
  BY LenProperties
<1>2. Len(committed') = m + 1 /\ \A i \in 1..m : committed'[i] = committed[i]
  BY AppendFacts
<1>3. ASSUME NEW i \in 1..Len(committed'), committed'[i].root.lifecycle_state = "SEALED"
      PROVE  i = Len(committed')
  BY <1>1, <1>2, <1>3
<1> QED
  BY <1>3 DEF SealedIsLast

\* The same of the package, which is finished when it is sealed: no use case
\* invalidates it.
LEMMA PackageIsAtomic ==
    ASSUME PackageInv, Ahead = 0, PackageCases!Next
    PROVE  /\ PackageInv'
           /\ db' = db \/ /\ PackageCases!Domain!Next
                          /\ db # NoRow => db.root.lifecycle_state # "SEALED"
<1> DEFINE A == AggregatesOf({<<>>}, Content, 3)
<1>0. /\ TypedStoreInv({<<>>}, Content, 3) /\ PackageCases!StoredReconstructs /\ SealedIsLast
      /\ committed \in Seq(A)
  BY DEF PackageInv, TypedStoreInv, StoreInv, StoreTypes
<1> HIDE DEF A
<1>1. CASE add(PackageCases!Domain!create)
  <2>1. /\ TypedStoreInv({<<>>}, Content, 3)' /\ db = NoRow /\ db' = PackageCases!Domain!create
        /\ Len(committed) = 0 /\ committed' = Append(committed, PackageCases!Domain!create)
    BY <1>0, <1>1, Kinds, AddStores, PackageCreateFacts
  <2>2. SealedIsLast'
    <3>1. PackageCases!Domain!create \in A
      BY Kinds, PackageCreateFacts DEF A
    <3>2. 1..Len(committed) = {}
      BY <2>1
    <3> QED
      BY <1>0, <2>1, <3>1, <3>2, SealedStaysLast
  <2> QED
    BY <2>1, <2>2, PackageCreateFacts DEF PackageInv, PackageCases!StoredReconstructs,
       PackageCases!Domain!Next, PackageCases!Domain!Create
<1>2. ASSUME NEW c \in Client, Reading(c)
      PROVE  PackageInv' /\ db' = db
  <2>1. TypedStoreInv({<<>>}, Content, 3)' /\ UNCHANGED <<db, committed>>
    BY <1>0, <1>2, Kinds, ReadStoresNothing
  <2> QED
    BY <1>0, <2>1 DEF PackageInv, PackageCases!StoredReconstructs,
       PackageCases!Domain!Reconstructs, SealedIsLast
<1>3. ASSUME NEW c \in Client, PackageCommand(c)
      PROVE  /\ PackageInv'
             /\ db' = db \/ /\ PackageCases!Domain!Next
                            /\ db # NoRow => db.root.lifecycle_state # "SEALED"
  <2>1. PICK a \in PackageCases!Domain!Mutations(Loaded(c)) :
          /\ IsLoaded(c) /\ a.root.version <= MaxVersion /\ Saves(c, a)
          /\ Loaded(c).root.lifecycle_state # "SEALED"
    BY <1>3 DEF PackageCommand, HandlerSaves
  <2>2. Loaded(c) \in Packages
    BY <1>0, <2>1, Kinds, LoadedIsTyped, TypedRows
  <2>3. /\ Successor(Packages, Loaded(c), a)
        /\ PackageCases!Domain!Reconstructs(Loaded(c)) => PackageCases!Domain!Reconstructs(a)
    BY <2>1, <2>2, PackageMutationFacts
  <2>4. /\ TypedStoreInv({<<>>}, Content, 3)'
        /\ \/ UNCHANGED <<db, committed>>
           \/ db # NoRow /\ Loaded(c) = db /\ db' = a /\ committed' = Append(committed, a)
    BY <1>0, <2>1, <2>3, Kinds, SaveReplacesLoaded
  <2>5. CASE UNCHANGED <<db, committed>>
    BY <1>0, <2>4, <2>5 DEF PackageInv, PackageCases!StoredReconstructs,
       PackageCases!Domain!Reconstructs, SealedIsLast
  <2>6. CASE db # NoRow /\ Loaded(c) = db /\ db' = a /\ committed' = Append(committed, a)
    <3>1. PackageCases!Domain!Reconstructs(db')
      BY <1>0, <2>3, <2>6 DEF PackageCases!StoredReconstructs
    <3>2. PackageCases!Domain!Next
      BY <2>1, <2>6 DEF PackageCases!Domain!Next, PackageCases!Domain!Mutate
    <3>3. \A i \in 1..Len(committed) : committed[i].root.lifecycle_state # "SEALED"
      <4>1. db = committed[Len(committed)]
        BY <1>0, <2>6, StoredIsLast, TypedRows
      <4> QED
        BY <1>0, <2>1, <2>6, <4>1 DEF SealedIsLast
    <3>4. a \in A
      BY <2>3, Kinds DEF Successor, A
    <3>5. SealedIsLast'
      BY <1>0, <2>6, <3>3, <3>4, SealedStaysLast
    <3> QED
      BY <2>1, <2>4, <2>6, <3>1, <3>2, <3>5 DEF PackageInv, PackageCases!StoredReconstructs
  <2> QED
    BY <2>4, <2>5, <2>6
<1> QED
  BY <1>1, <1>2, <1>3, PackageSteps

\* Rows drawn from the commits whose root is that of a SEALED one are the stored
\* ones, as nothing is committed after it.
LEMMA SealedIsStored ==
    ASSUME PackageInv, NEW c \in Client, IsLoaded(c), session[c].root.lifecycle_state = "SEALED"
    PROVE  Loaded(c) = db
<1> DEFINE A == AggregatesOf({<<>>}, Content, 3)
           R == Roots({<<>>})
           T == Seq(Content \cup Records)
           s == session[c]
           m == Len(committed)
<1>1. AggregateKind(A, R, T, 3) /\ RowsInv(A, R, T, 3)
  BY Kinds, IsKind, TypedRows DEF PackageInv
<1> HIDE DEF A, R, T
<1>2. s.pc # "idle"
  BY DEF IsLoaded
<1>3. PICK i \in 1..m :
        /\ s.root = committed[i].root
        /\ \A k \in 1..Len(s.tables) : \E j \in i..m : s.tables[k] = committed[j].tables[k]
  BY <1>1, <1>2, HeldRows
<1>4. db # NoRow
  BY <1>1, <1>2, HeldRows
<1>5. m \in Nat \ {0} /\ db = committed[m] /\ db \in A
  BY <1>1, <1>4, StoredIsLast
<1>6. i = m
  BY <1>3 DEF PackageInv, SealedIsLast
<1>7. s.root = db.root
  BY <1>3, <1>5, <1>6
<1>8. \A k \in 1..Len(s.tables) : s.tables[k] = db.tables[k]
  <2>1. \A j \in i..m : j = m
    BY <1>5, <1>6
  <2> QED
    BY <1>3, <1>5, <2>1
<1>9. s.tables = db.tables
  BY <1>1, <1>5, <1>8, SameTables
<1>10. db = [root |-> db.root, tables |-> db.tables]
  BY <1>1, <1>5 DEF AggregateKind
<1> QED
  BY <1>7, <1>9, <1>10 DEF Loaded

ObjectInv ==
    /\ kind = "RunObject" =>
          db \in Runs \cup {NoRow} /\ (db # NoRow => RunCases!Domain!Reconstructs(db))
    /\ kind = "PackageObject" =>
          db \in Packages \cup {NoRow} /\ (db # NoRow => PackageCases!Domain!Reconstructs(db))

\* The inductive invariant.
IInv ==
    /\ kind \in Kind
    /\ kind = "Run" => RunInv
    /\ kind = "EvidencePackage" => PackageInv
    /\ kind = "Review" => ReviewInv
    /\ ObjectInv

LEMMA InitFacts ==
    Init => IInv
<1> SUFFICES ASSUME Init PROVE IInv
  OBVIOUS
<1>1. StoreInit /\ kind \in Kind /\ db = NoRow /\ committed = <<>>
  BY DEF Init, StoreInit
<1>2. /\ TypedStoreInv({<<>>}, Manifest, 2) /\ TypedStoreInv({<<>>}, Content, 3)
      /\ TypedStoreInv(Metadata, Nat, 2)
  BY <1>1, Kinds, StoreStarts
<1>3. SealedIsLast
  BY <1>1, EmptySeq DEF SealedIsLast
<1> QED
  BY <1>1, <1>2, <1>3 DEF IInv, RunInv, PackageInv, ReviewInv, ObjectInv,
     RunCases!StoredReconstructs, PackageCases!StoredReconstructs, ReviewCases!StoredReconstructs

LEMMA ObjectSteps ==
    ASSUME ObjectInv, UNCHANGED kind,
           \/ kind = "RunObject" /\ RunObject!Next
           \/ kind = "PackageObject" /\ PackageObject!Next
    PROVE  ObjectInv'
<1>1. CASE kind = "RunObject" /\ RunObject!Next
  <2>1. CASE RunObject!Create
    BY <1>1, <2>1, RunObjectShared, RunCreateFacts DEF ObjectInv, RunObject!Create
  <2>2. CASE RunObject!Mutate
    <3>1. /\ db \in Runs /\ db' \in RunCases!Domain!Mutations(db)
          /\ RunCases!Domain!Reconstructs(db)
      BY <1>1, <2>2, RunObjectShared DEF ObjectInv, RunObject!Mutate
    <3>2. Successor(Runs, db, db') /\ RunCases!Domain!Reconstructs(db')
      BY <3>1, RunMutationFacts
    <3> QED
      BY <1>1, <3>2 DEF ObjectInv, Successor
  <2> QED
    BY <1>1, <2>1, <2>2 DEF RunObject!Next
<1>2. CASE kind = "PackageObject" /\ PackageObject!Next
  <2>1. CASE PackageObject!Create
    BY <1>2, <2>1, PackageObjectShared, PackageCreateFacts DEF ObjectInv, PackageObject!Create
  <2>2. CASE PackageObject!Mutate
    <3>1. /\ db \in Packages /\ db' \in PackageCases!Domain!Mutations(db)
          /\ PackageCases!Domain!Reconstructs(db)
      BY <1>2, <2>2, PackageObjectShared DEF ObjectInv, PackageObject!Mutate
    <3>2. Successor(Packages, db, db') /\ PackageCases!Domain!Reconstructs(db')
      BY <3>1, PackageMutationFacts
    <3> QED
      BY <1>2, <3>2 DEF ObjectInv, Successor
  <2> QED
    BY <1>2, <2>1, <2>2 DEF PackageObject!Next
<1> QED
  BY <1>1, <1>2

\* One step: the invariant is kept, the object is served, what is finished stays.
LEMMA StepFacts ==
    ASSUME IInv, Ahead = 0, [Next]_vars
    PROVE  /\ IInv'
           /\ db' # db =>
                 /\ kind = "Run" =>
                       /\ RunCases!Domain!Next
                       /\ db # NoRow => db.root.lifecycle_state \notin RunCases!Domain!TerminalStates
                 /\ kind = "EvidencePackage" =>
                       /\ PackageCases!Domain!Next
                       /\ db # NoRow => db.root.lifecycle_state # "SEALED"
                 /\ kind = "Review" =>
                       /\ ReviewCases!Domain!Next
                       /\ db # NoRow => db.root.attributes.disposition = NoDisposition
<1>1. CASE UNCHANGED vars
  <2>1. db' = db /\ committed' = committed /\ session' = session /\ kind' = kind
    BY <1>1 DEF vars
  <2>2. ASSUME NEW att, NEW own, NEW n, TypedStoreInv(att, own, n)
        PROVE  TypedStoreInv(att, own, n)'
    BY <2>1, <2>2 DEF TypedStoreInv, StoreInv, StoreTypes, IsLoaded, VersionNamesContent,
       RowsAreCommitted
  <2>3. RunInv => RunInv'
    BY <2>1, <2>2 DEF RunInv, RunCases!StoredReconstructs
  <2>4. PackageInv => PackageInv'
    BY <2>1, <2>2 DEF PackageInv, PackageCases!StoredReconstructs, SealedIsLast
  <2>5. ReviewInv => ReviewInv'
    BY <2>1, <2>2 DEF ReviewInv, ReviewCases!StoredReconstructs
  <2>6. ObjectInv => ObjectInv'
    BY <2>1 DEF ObjectInv
  <2> QED
    BY <2>1, <2>3, <2>4, <2>5, <2>6 DEF IInv
<1>2. CASE kind = "Run" /\ RunCases!Next /\ UNCHANGED kind
  BY <1>2, RunIsAtomic DEF IInv, ObjectInv
<1>3. CASE kind = "EvidencePackage" /\ PackageCases!Next /\ UNCHANGED kind
  BY <1>3, PackageIsAtomic DEF IInv, ObjectInv
<1>4. CASE kind = "Review" /\ ReviewCases!Next /\ UNCHANGED kind
  BY <1>4, ReviewIsAtomic DEF IInv, ObjectInv
<1>5. CASE kind = "Guess" /\ UNCHANGED kind
  BY <1>5 DEF IInv, ObjectInv
<1>6. CASE UNCHANGED kind /\ \/ kind = "RunObject" /\ RunObject!Next
                             \/ kind = "PackageObject" /\ PackageObject!Next
  BY <1>6, ObjectSteps DEF IInv
<1> QED
  BY <1>1, <1>2, <1>3, <1>4, <1>5, <1>6 DEF Next

\* The inductive invariant holds in every reachable state.
THEOREM Invariant ==
    ASSUME Ahead = 0
    PROVE  Spec => []IInv
<1>1. Init => IInv
  BY InitFacts
<1>2. IInv /\ [Next]_vars => IInv'
  BY StepFacts
<1> QED
  BY <1>1, <1>2, PTL DEF Spec

\* Whatever handlers run concurrently, what is stored passes the reconstruction
\* rules of its kind, so that it can be loaded again.
THEOREM StoredAggregatesReconstruct ==
    ASSUME Ahead = 0
    PROVE  Spec => []StoredReconstructs
<1>1. IInv => StoredReconstructs
  BY RunObjectShared, PackageObjectShared DEF IInv, RunInv, PackageInv, ReviewInv, ObjectInv,
     StoredReconstructs
<1> QED
  BY <1>1, Invariant, PTL

\* Rows read in three statements that show a SEALED package are the stored
\* package: its content is never older than its root, and its root is the last.
THEOREM SealedLoadsAreExact ==
    ASSUME Ahead = 0
    PROVE  Spec => []SealedLoadIsExact
<1>1. IInv => SealedLoadIsExact
  <2> SUFFICES ASSUME IInv, kind = "EvidencePackage", NEW c \in Client, PackageCases!get(c),
                      session[c].root.lifecycle_state = "SEALED"
               PROVE  PackageCases!Loaded(c) = db
    BY DEF SealedLoadIsExact, PackageCases!SealedLoadIsExact
  <2>1. IsLoaded(c) /\ PackageCases!Loaded(c) = Loaded(c)
    BY DEF PackageCases!get, PackageCases!IsLoaded, IsLoaded, PackageCases!Loaded, Loaded
  <2> QED
    BY <2>1, SealedIsStored DEF IInv
<1> QED
  BY <1>1, Invariant, PTL

\* No lost update: every change of a stored Run, EvidencePackage or Review is one
\* method called on the value the previous change left.
THEOREM HandlersAreAtomic ==
    ASSUME Ahead = 0
    PROVE  Spec => Atomic
<1>1. IInv /\ [Next]_vars => [/\ kind = "Run" => RunCases!Domain!Next
                              /\ kind = "EvidencePackage" => PackageCases!Domain!Next
                              /\ kind = "Review" => ReviewCases!Domain!Next]_db
  BY StepFacts
<1> QED
  BY <1>1, Invariant, PTL DEF Spec, Atomic

\* A finished Run, a sealed package and a Review with a disposition are never
\* changed, by whatever handler loaded them before they were finished.
THEOREM FinishedStaysFrozen ==
    ASSUME Ahead = 0
    PROVE  Spec => FinishedIsFrozen
<1>1. IInv /\ [Next]_vars =>
        [db # NoRow =>
            /\ kind = "Run" => db.root.lifecycle_state \notin RunObject!TerminalStates
            /\ kind = "EvidencePackage" => db.root.lifecycle_state # "SEALED"
            /\ kind = "Review" => db.root.attributes.disposition = NoDisposition]_db
  BY StepFacts, RunObjectShared
<1> QED
  BY <1>1, Invariant, PTL DEF Spec, FinishedIsFrozen

------------------------------------------------------------------------------
(* The Campaign. *)

\* The record _transition appends.
CampaignNewRecord(a, to, reason) ==
    [from_state |-> a.root.lifecycle_state, to_state |-> to, version |-> a.root.version + 1,
     sequence |-> a.root.next_transition_sequence, reason |-> reason]

\* What a transition to state "to" makes of a Campaign's root row and history.
CampaignIsTransition(a, to, reason, b) ==
    /\ b \in Domain!Campaigns
    /\ b.root.lifecycle_state = to /\ b.root.version = a.root.version + 1
    /\ b.root.next_transition_sequence = a.root.next_transition_sequence + 1
    /\ CampaignNewRecord(a, to, reason) \in Domain!Record
    /\ b.tables[1] = Append(a.tables[1], CampaignNewRecord(a, to, reason))

\* The _transition method does just that, and only out of the states it allows.
LEMMA CampaignTransitionFacts ==
    ASSUME NEW a \in Domain!Campaigns, NEW from,
           NEW to \in Domain!State, NEW reason \in Domain!Reasons,
           NEW b \in Domain!Transition(a, from, to, reason)
    PROVE  a.root.lifecycle_state \in from /\ CampaignIsTransition(a, to, reason, b)
<1> DEFINE h == a.tables[1]
           r == CampaignNewRecord(a, to, reason)
<1>1. /\ a.root \in Domain!Root
      /\ a.tables \in Seq(Seq(Domain!Record)) /\ Len(a.tables) = 1
  BY DEF Domain!Campaigns
<1>2. h \in Seq(Domain!Record)
  BY <1>1, ElementOfSeq
<1>3. r \in Domain!Record
  BY <1>1 DEF Domain!Root, Domain!Record, CampaignNewRecord
<1>4. Append(h, r) \in Seq(Domain!Record)
  BY <1>2, <1>3, AppendFacts
<1>5. /\ a.root.lifecycle_state \in from
      /\ b = [root   |-> [a.root EXCEPT !.lifecycle_state = to, !.version = @ + 1,
                                        !.next_transition_sequence = @ + 1],
              tables |-> [a.tables EXCEPT ![1] = Append(h, r)]]
  BY <1>1 DEF Domain!Transition, Domain!HistoryTable, CampaignNewRecord
<1>6. /\ [a.tables EXCEPT ![1] = Append(h, r)] \in Seq(Seq(Domain!Record))
      /\ Len([a.tables EXCEPT ![1] = Append(h, r)]) = 1
      /\ [a.tables EXCEPT ![1] = Append(h, r)][1] = Append(h, r)
  BY <1>1, <1>4, ExceptSeq
<1>7. b.root = [lifecycle_state |-> to, version |-> a.root.version + 1,
                next_transition_sequence |-> a.root.next_transition_sequence + 1,
                attributes |-> a.root.attributes]
  BY <1>1, <1>5 DEF Domain!Root
<1>8. b.root \in Domain!Root
  BY <1>1, <1>7 DEF Domain!Root
<1>9. b \in Domain!Campaigns
  BY <1>5, <1>6, <1>8 DEF Domain!Campaigns
<1> QED
  BY <1>3, <1>5, <1>6, <1>7, <1>9 DEF CampaignIsTransition

\* A transition along an allowed edge, with a reason where one is required, out
\* of a state that is not terminal, keeps a Campaign reconstructible.
LEMMA TransitionReconstructs ==
    ASSUME NEW a \in Domain!Campaigns, Domain!Reconstructs(a),
           NEW from,
           NEW to \in Domain!State, NEW reason \in Domain!Reasons,
           NEW b \in Domain!Transition(a, from, to, reason),
           a.root.lifecycle_state \notin Domain!TerminalStates,
           <<a.root.lifecycle_state, to>> \in Domain!AllowedEdges,
           <<a.root.lifecycle_state, to>> \in Domain!RequiredReasonEdges => reason = Domain!Given
    PROVE  Domain!Reconstructs(b)
<1> DEFINE h == a.tables[1]
           r == CampaignNewRecord(a, to, reason)
           g == b.tables[1]
           m == Len(h)
<1>0. CampaignIsTransition(a, to, reason, b)
  BY CampaignTransitionFacts
<1>1. /\ b \in Domain!Campaigns /\ r \in Domain!Record /\ g = Append(h, r)
      /\ b.root.lifecycle_state = to /\ b.root.version = a.root.version + 1
      /\ b.root.next_transition_sequence = a.root.next_transition_sequence + 1
  BY <1>0 DEF CampaignIsTransition
<1>2. /\ a.root.version \in Nat /\ Len(a.tables) = 1 /\ Len(b.tables) = 1
      /\ h \in Seq(Domain!Record) /\ m \in Nat
  BY <1>1, ElementOfSeq, LenProperties DEF Domain!Campaigns, Domain!Root
<1>3. /\ Domain!transition_history(a) = h /\ Domain!transition_history(b) = g
  BY <1>2 DEF Domain!transition_history, Domain!HistoryTable
<1> HIDE DEF h, g, r
<1>4. /\ g # <<>> /\ Len(g) = m + 1 /\ g[m + 1] = r
      /\ \A i \in 1..m : g[i] = h[i]
  BY <1>1, <1>2, AppendFacts
<1>5. /\ h = <<>> => a.root.lifecycle_state = "DRAFT"
      /\ \A i \in 1..m :
            /\ h[i].sequence = i
            /\ <<h[i].from_state, h[i].to_state>> \in Domain!AllowedEdges
            /\ h[i].from_state = IF i = 1 THEN "DRAFT" ELSE h[i - 1].to_state
            /\ i > 1 => h[i - 1].to_state \notin Domain!TerminalStates
            /\ h[i].version <= a.root.version
      /\ h # <<>> => h[m].to_state = a.root.lifecycle_state
      /\ a.root.next_transition_sequence = m + 1
  BY <1>3 DEF Domain!Reconstructs, Domain!ValidHistory
<1>6. \A i \in 1..m : <<h[i].from_state, h[i].to_state>> \in Domain!RequiredReasonEdges
                         => h[i].reason = Domain!Given
  BY <1>3 DEF Domain!Reconstructs
<1>7. /\ r.from_state = a.root.lifecycle_state /\ r.to_state = to
      /\ r.version = b.root.version /\ r.sequence = m + 1 /\ r.reason = reason
  BY <1>1, <1>5 DEF r, CampaignNewRecord
<1>8. m = 0 <=> h = <<>>
  BY <1>2, EmptySeq
<1>9. ASSUME NEW i \in 1..Len(g)
      PROVE  /\ g[i].sequence = i
             /\ <<g[i].from_state, g[i].to_state>> \in Domain!AllowedEdges
             /\ g[i].from_state = IF i = 1 THEN "DRAFT" ELSE g[i - 1].to_state
             /\ i > 1 => g[i - 1].to_state \notin Domain!TerminalStates
             /\ g[i].version <= b.root.version
             /\ <<g[i].from_state, g[i].to_state>> \in Domain!RequiredReasonEdges => g[i].reason = Domain!Given
  <2>1. CASE i \in 1..m
    <3>1. g[i] = h[i] /\ (i > 1 => g[i - 1] = h[i - 1])
      BY <1>2, <1>4, <2>1
    <3>2. h[i] \in Domain!Record
      BY <1>2, <2>1, ElementOfSeq
    <3>3. h[i].version \in Nat /\ h[i].version <= a.root.version
      BY <1>5, <2>1, <3>2 DEF Domain!Record
    <3>4. g[i].version <= b.root.version
      BY <1>1, <1>2, <3>1, <3>3
    <3> QED
      BY <1>5, <1>6, <2>1, <3>1, <3>4
  <2>2. CASE i = m + 1
    <3>1. g[i] = r /\ (i > 1 => g[i - 1] = h[m])
      BY <1>2, <1>4, <2>2
    <3>2. b.root.version <= b.root.version
      BY <1>1, <1>2
    <3>3. i = 1 <=> h = <<>>
      BY <1>2, <1>8, <2>2
    <3>4. i > 1 <=> h # <<>>
      BY <1>2, <1>8, <2>2
    <3> QED
      BY <1>5, <1>7, <2>2, <3>1, <3>2, <3>3, <3>4
  <2> QED
    BY <1>2, <1>4, <2>1, <2>2
<1>10. g[Len(g)].to_state = b.root.lifecycle_state /\ b.root.next_transition_sequence = Len(g) + 1
  BY <1>1, <1>2, <1>4, <1>5, <1>7
<1>11. Domain!ValidHistory(b, "DRAFT", Domain!AllowedEdges, Domain!TerminalStates)
  BY <1>3, <1>4, <1>9, <1>10 DEF Domain!ValidHistory
<1> QED
  BY <1>3, <1>9, <1>11 DEF Domain!Reconstructs

\* The history g continues the history h.
CampaignContinues(g, h) ==
    Len(h) <= Len(g) /\ \A i \in 1..Len(h) : g[i] = h[i]

\* b is a Campaign one version after a that reconstructs and keeps a's history.
CampaignSuccessor(a, b) ==
    /\ b \in Domain!Campaigns
    /\ b.root.version = a.root.version + 1
    /\ Domain!Reconstructs(b)
    /\ CampaignContinues(b.tables[1], a.tables[1])

\* Every business method takes the next version and leaves a Campaign that
\* reconstructs if it was given one.
LEMMA MutationFacts ==
    ASSUME NEW a \in Domain!Campaigns, Domain!Reconstructs(a), NEW b \in Domain!Mutations(a)
    PROVE  CampaignSuccessor(a, b)
<1>1. ASSUME NEW s \in ScopeStatement, b \in Domain!revise_scope_statement(a, s)
      PROVE  CampaignSuccessor(a, b)
  <2>1. /\ a \in [root : Domain!Root, tables : Seq(Seq(Domain!Record))]
        /\ Len(a.tables) = 1
    BY DEF Domain!Campaigns
  <2>2. b = [a EXCEPT !.root.version = @ + 1, !.root.attributes = s]
    BY <1>1 DEF Domain!revise_scope_statement
  <2>3. b = [root |-> [lifecycle_state |-> a.root.lifecycle_state,
                       version |-> a.root.version + 1,
                       next_transition_sequence |-> a.root.next_transition_sequence,
                       attributes |-> s],
             tables |-> a.tables]
    BY <2>1, <2>2 DEF Domain!Root
  <2>4. b \in Domain!Campaigns
    BY <2>1, <2>3 DEF Domain!Campaigns, Domain!Root
  <2>5. /\ b.tables = a.tables /\ b.root.lifecycle_state = a.root.lifecycle_state
        /\ b.root.next_transition_sequence = a.root.next_transition_sequence
        /\ b.root.version = a.root.version + 1
    BY <2>3
  <2>6. Domain!transition_history(b) = Domain!transition_history(a)
    BY <2>5 DEF Domain!transition_history, Domain!HistoryTable
  <2> DEFINE h == Domain!transition_history(a)
  <2>7. h \in Seq(Domain!Record) /\ a.root.version \in Nat
    BY <2>1, ElementOfSeq DEF Domain!transition_history, Domain!HistoryTable, Domain!Root
  <2>8. \A i \in 1..Len(h) : h[i].version \in Nat
    <3>1. \A i \in 1..Len(h) : h[i] \in Domain!Record
      BY <2>7, ElementOfSeq
    <3> QED
      BY <3>1 DEF Domain!Record
  <2> HIDE DEF h
  <2>9. \A i \in 1..Len(h) : h[i].version <= a.root.version => h[i].version <= b.root.version
    BY <2>5, <2>7, <2>8
  <2>10. Domain!Reconstructs(b)
    BY <2>5, <2>6, <2>9 DEF Domain!Reconstructs, Domain!ValidHistory, h
  <2>11. CampaignContinues(b.tables[1], a.tables[1])
    <3>1. b.tables[1] = a.tables[1] /\ a.tables[1] \in Seq(Domain!Record)
      BY <2>1, <2>5, ElementOfSeq
    <3>2. Len(a.tables[1]) \in Nat
      BY <3>1, LenProperties
    <3> QED
      BY <3>1, <3>2 DEF CampaignContinues
  <2> QED
    BY <2>4, <2>5, <2>10, <2>11 DEF CampaignSuccessor
<1>2. ASSUME NEW from, NEW to \in Domain!State, NEW reason \in Domain!Reasons,
             b \in Domain!Transition(a, from, to, reason),
             a.root.lifecycle_state \notin Domain!TerminalStates,
             <<a.root.lifecycle_state, to>> \in Domain!AllowedEdges,
             <<a.root.lifecycle_state, to>> \in Domain!RequiredReasonEdges => reason = Domain!Given
      PROVE  CampaignSuccessor(a, b)
  <2>1. CampaignIsTransition(a, to, reason, b)
    BY <1>2, CampaignTransitionFacts
  <2>2. Domain!Reconstructs(b)
    BY <1>2, TransitionReconstructs
  <2>3. a.tables[1] \in Seq(Domain!Record)
    BY ElementOfSeq DEF Domain!Campaigns
  <2>4. CampaignContinues(b.tables[1], a.tables[1])
    BY <2>1, <2>3, AppendFacts, LenProperties DEF CampaignIsTransition, CampaignContinues
  <2> QED
    BY <2>1, <2>2, <2>4 DEF CampaignIsTransition, CampaignSuccessor
<1>3. ASSUME NEW from, NEW to \in Domain!State, NEW reason \in Domain!Reasons,
             b \in Domain!Transition(a, from, to, reason)
      PROVE  a.root.lifecycle_state \in from
  BY <1>3, CampaignTransitionFacts
<1> USE DEF Domain!AllowedEdges, Domain!TerminalStates, Domain!RequiredReasonEdges, Domain!State,
            Domain!Reasons, Domain!Given, Domain!NoReason
<1>4. CASE b \in Domain!prepare_for_authorization(a)
  BY <1>2, <1>3, <1>4 DEF Domain!prepare_for_authorization
<1>5. CASE b \in Domain!record_authorization(a)
  BY <1>2, <1>3, <1>5 DEF Domain!record_authorization
<1>6. CASE b \in Domain!activate(a)
  BY <1>2, <1>3, <1>6 DEF Domain!activate
<1>7. CASE b \in Domain!suspend(a)
  BY <1>2, <1>3, <1>7 DEF Domain!suspend
<1>8. CASE b \in Domain!resume(a)
  BY <1>2, <1>3, <1>8 DEF Domain!resume
<1>9. CASE b \in Domain!complete(a)
  BY <1>2, <1>3, <1>9 DEF Domain!complete
<1>10. ASSUME NEW reason \in Domain!Reasons, b \in Domain!cancel(a, reason)
       PROVE  CampaignSuccessor(a, b)
  <2> DEFINE from == {"DRAFT", "READY_FOR_AUTHORIZATION"} \cup Domain!PostAuthorization
  <2>1. /\ b \in Domain!Transition(a, from, "CANCELLED", reason)
        /\ a.root.lifecycle_state \in Domain!PostAuthorization => reason = Domain!Given
    BY <1>10 DEF Domain!cancel
  <2>2. a.root.lifecycle_state \in from
    BY <1>3, <2>1 DEF Domain!PostAuthorization
  <2>3. <<a.root.lifecycle_state, "CANCELLED">> \in Domain!RequiredReasonEdges => reason = Domain!Given
    BY <2>1, <2>2 DEF Domain!PostAuthorization
  <2> QED
    BY <1>2, <2>1, <2>2, <2>3 DEF Domain!PostAuthorization
<1> QED
  BY <1>1, <1>4, <1>5, <1>6, <1>7, <1>8, <1>9, <1>10 DEF Domain!Mutations

------------------------------------------------------------------------------
\* The inductive invariant: the store's, and that every commit reconstructs and
\* continues the history of the commits before it.
CampaignStore == StoreInv(Domain!Campaigns, Domain!Root, Seq(Domain!Record), 1)

CommitsContinue ==
    \A j \in 1..Len(committed) :
       /\ Domain!Reconstructs(committed[j])
       /\ \A i \in 1..j : CampaignContinues(committed[j].tables[1], committed[i].tables[1])

CampaignIInv == CampaignStore /\ CommitsContinue

\* Campaigns are aggregates with one child table, their history.
LEMMA CampaignKind ==
    AggregateKind(Domain!Campaigns, Domain!Root, Seq(Domain!Record), 1)
BY NoRowAssumption DEF AggregateKind, Domain!Campaigns, Domain!Root

\* A new Campaign is at version 0, without history, and reconstructs.
LEMMA CreateFacts ==
    ASSUME NEW s \in ScopeStatement
    PROVE  /\ Domain!create(s) \in Domain!Campaigns
           /\ Domain!create(s).root.version = 0
           /\ Domain!Reconstructs(Domain!create(s))
<1> DEFINE a == Domain!create(s)
<1>1. Append(<<>>, <<>>) = << <<>> >> /\ Len(<< <<>> >>) = 1 /\ << <<>> >>[1] = <<>>
  OBVIOUS
<1>2. a = [root |-> [lifecycle_state |-> "DRAFT", version |-> 0,
                     next_transition_sequence |-> 1, attributes |-> s],
           tables |-> << <<>> >>]
  BY <1>1 DEF Domain!create, Domain!NewAggregate
<1>3. << <<>> >> \in Seq(Seq(Domain!Record))
  OBVIOUS
<1>4. a \in Domain!Campaigns
  BY <1>1, <1>2, <1>3 DEF Domain!Campaigns, Domain!Root, Domain!State
<1>5. Domain!transition_history(a) = <<>> /\ Len(<<>>) = 0
  BY <1>1, <1>2 DEF Domain!transition_history, Domain!HistoryTable
<1>6. Domain!Reconstructs(a)
  BY <1>2, <1>5 DEF Domain!Reconstructs, Domain!ValidHistory
<1> QED
  BY <1>2, <1>4, <1>6

\* What a handler has loaded is a Campaign.
LEMMA LoadedIsCampaign ==
    ASSUME CampaignStore, NEW c \in Client, IsLoaded(c)
    PROVE  Loaded(c) \in Domain!Campaigns
<1>1. PICK i \in 1..Len(committed) : session[c].root = committed[i].root
  BY DEF CampaignStore, StoreInv, VersionNamesContent, RowsAreCommitted, IsLoaded, DrawnFrom
<1>2. committed[i] \in Domain!Campaigns
  BY <1>1, ElementOfSeq DEF CampaignStore, StoreInv, StoreTypes
<1>3. /\ session[c].root \in Domain!Root
      /\ session[c].tables \in Seq(Seq(Domain!Record))
      /\ Len(session[c].tables) = 1
  BY <1>1, <1>2 DEF CampaignStore, StoreInv, StoreTypes, Domain!Campaigns, IsLoaded
<1> QED
  BY <1>3 DEF Loaded, Domain!Campaigns

\* Every command handler saves what one business method made of the Campaign it
\* loaded, and only if that Campaign reconstructs.
LEMMA CommandIsMutation ==
    ASSUME NEW c \in Client,
           \/ ReviseCampaignScopeStatement(c) \/ PrepareCampaignForAuthorization(c)
           \/ RecordCampaignAuthorization(c) \/ ActivateCampaign(c) \/ SuspendCampaign(c)
           \/ ResumeCampaign(c) \/ CompleteCampaign(c) \/ CancelCampaign(c)
    PROVE  /\ IsLoaded(c) /\ Domain!Reconstructs(Loaded(c))
           /\ \E a \in Domain!Mutations(Loaded(c)) : save(c, a)
<1> USE DEF Command, get, Handle, Domain!Mutations
<1>1. CASE ReviseCampaignScopeStatement(c)
  BY <1>1 DEF ReviseCampaignScopeStatement
<1>2. CASE PrepareCampaignForAuthorization(c)
  BY <1>2 DEF PrepareCampaignForAuthorization
<1>3. CASE RecordCampaignAuthorization(c)
  BY <1>3 DEF RecordCampaignAuthorization
<1>4. CASE ActivateCampaign(c)
  BY <1>4 DEF ActivateCampaign
<1>5. CASE SuspendCampaign(c)
  BY <1>5 DEF SuspendCampaign
<1>6. CASE ResumeCampaign(c)
  BY <1>6 DEF ResumeCampaign
<1>7. CASE CompleteCampaign(c)
  BY <1>7 DEF CompleteCampaign
<1>8. CASE CancelCampaign(c)
  BY <1>8 DEF CancelCampaign, Reasons, Domain!Reasons, Given, NoReason, Domain!Given, Domain!NoReason
<1> QED
  BY <1>1, <1>2, <1>3, <1>4, <1>5, <1>6, <1>7, <1>8

\* A commit that reconstructs and continues the last one continues them all.
LEMMA CommitContinues ==
    ASSUME CampaignStore, CommitsContinue, NEW a \in Domain!Campaigns, Domain!Reconstructs(a),
           committed' = Append(committed, a),
           Len(committed) # 0 => CampaignContinues(a.tables[1], committed[Len(committed)].tables[1])
    PROVE  CommitsContinue'
<1> DEFINE m == Len(committed)
<1>1. committed \in Seq(Domain!Campaigns) /\ m \in Nat
  BY LenProperties DEF CampaignStore, StoreInv, StoreTypes
<1>2. /\ Len(committed') = m + 1 /\ committed'[m + 1] = a
      /\ \A i \in 1..m : committed'[i] = committed[i]
  BY <1>1, AppendFacts
<1>3. ASSUME NEW x \in Domain!Campaigns
      PROVE  Len(x.tables[1]) \in Nat
  <2>1. x.tables[1] \in Seq(Domain!Record)
    BY ElementOfSeq DEF Domain!Campaigns
  <2> QED
    BY <2>1, LenProperties
<1>4. ASSUME NEW j \in 1..(m + 1)
      PROVE  /\ Domain!Reconstructs(committed'[j])
             /\ \A i \in 1..j : CampaignContinues(committed'[j].tables[1], committed'[i].tables[1])
  <2>1. CASE j \in 1..m
    <3>1. committed'[j] = committed[j] /\ \A i \in 1..j : committed'[i] = committed[i]
      BY <1>1, <1>2, <2>1
    <3> QED
      BY <2>1, <3>1 DEF CommitsContinue
  <2>2. CASE j = m + 1
    <3>1. ASSUME NEW i \in 1..j
          PROVE  CampaignContinues(a.tables[1], committed'[i].tables[1])
      <4>1. CASE i = m + 1
        BY <4>1, <1>2, <1>3 DEF CampaignContinues
      <4>2. CASE i \in 1..m
        <5> DEFINE h == committed[i].tables[1]
                   l == committed[m].tables[1]
        <5>1. m \in 1..m /\ i \in 1..m /\ m # 0
          BY <1>1, <4>2
        <5>2. CampaignContinues(l, h) /\ CampaignContinues(a.tables[1], l)
          BY <5>1 DEF CommitsContinue
        <5>3. committed[i] \in Domain!Campaigns /\ committed[m] \in Domain!Campaigns
          BY <1>1, <5>1, ElementOfSeq
        <5>4. Len(h) \in Nat /\ Len(l) \in Nat /\ Len(a.tables[1]) \in Nat
          BY <1>3, <5>3
        <5> HIDE DEF h, l
        <5>5. CampaignContinues(a.tables[1], h)
          BY <5>2, <5>4 DEF CampaignContinues
        <5> QED
          BY <5>5, <1>2, <4>2 DEF h
      <4> QED
        BY <1>1, <2>2, <4>1, <4>2
    <3> QED
      BY <1>2, <2>2, <3>1
  <2> QED
    BY <1>1, <2>1, <2>2
<1> QED
  BY <1>2, <1>4 DEF CommitsContinue

\* A stored Campaign is the last commit, so it reconstructs.
LEMMA StoredFacts ==
    ASSUME CampaignIInv, db # NoRow
    PROVE  /\ db \in Domain!Campaigns /\ Domain!Reconstructs(db)
           /\ Len(committed) \in Nat \ {0} /\ db = committed[Len(committed)]
<1>1. /\ Len(committed) \in Nat \ {0} /\ db = committed[Len(committed)]
      /\ db \in Domain!Campaigns
  BY StoredIsLast DEF CampaignIInv, CampaignStore, StoreInv, RowsInv, VersionNamesContent
<1>2. Len(committed) \in 1..Len(committed)
  BY <1>1
<1> QED
  BY <1>1, <1>2 DEF CampaignIInv, CommitsContinue

\* Every step preserves the invariant, and is a step of the atomic Campaign or
\* leaves the stored rows alone.
LEMMA CampaignStepFacts ==
    ASSUME CampaignIInv, Ahead = 0, CampaignNext
    PROVE  CampaignIInv' /\ (db' = db \/ Domain!Next)
<1>0. CampaignStore /\ CommitsContinue
  BY DEF CampaignIInv
<1>1. CASE CreateCampaign
  <2>1. PICK s \in ScopeStatement : add(Domain!create(s))
    BY <1>1 DEF CreateCampaign
  <2> DEFINE a == Domain!create(s)
  <2>2. a \in Domain!Campaigns /\ a.root.version = 0 /\ Domain!Reconstructs(a)
    BY CreateFacts
  <2>3. add(a)
    BY <2>1
  <2>4. Domain!Create \/ ~(db = NoRow /\ db' = a)
    BY DEF Domain!Create
  <2> HIDE DEF a
  <2>5. /\ CampaignStore' /\ db = NoRow /\ db' = a
        /\ Len(committed) = 0 /\ committed' = Append(committed, a)
    <3>1. RowsInv(Domain!Campaigns, Domain!Root, Seq(Domain!Record), 1)
      BY <1>0 DEF CampaignStore, StoreInv, RowsInv, VersionNamesContent
    <3> QED
      BY <1>0, <2>2, <2>3, <3>1, CampaignKind, AddPreserves DEF CampaignStore
  <2>6. CommitsContinue'
    BY <1>0, <2>2, <2>5, CommitContinues
  <2> QED
    BY <2>4, <2>5, <2>6 DEF CampaignIInv, Domain!Next
<1>2. ASSUME NEW c \in Client, Reading(c)
      PROVE  CampaignIInv' /\ db' = db
  <2>1. CampaignStore' /\ UNCHANGED <<db, committed>>
    BY <1>0, <1>2, CampaignKind, ReadingPreserves DEF CampaignStore
  <2> QED
    BY <1>0, <2>1 DEF CampaignIInv, CommitsContinue
<1>3. ASSUME NEW c \in Client, IsLoaded(c), Domain!Reconstructs(Loaded(c)),
             NEW a \in Domain!Mutations(Loaded(c)), save(c, a)
      PROVE  CampaignIInv' /\ (db' = db \/ Domain!Mutate)
  <2>1. Loaded(c) \in Domain!Campaigns
    BY <1>0, <1>3, LoadedIsCampaign
  <2>2. CampaignSuccessor(Loaded(c), a)
    BY <1>3, <2>1, MutationFacts
  <2>3. /\ a \in Domain!Campaigns /\ a.root.version = Loaded(c).root.version + 1
        /\ Domain!Reconstructs(a) /\ CampaignContinues(a.tables[1], Loaded(c).tables[1])
    BY <2>2 DEF CampaignSuccessor
  <2>4. /\ CampaignStore'
        /\ \/ db' = db /\ committed' = committed
           \/ /\ db # NoRow /\ Loaded(c) = db /\ db' = a
              /\ committed' = Append(committed, a)
    <3>1. Saves(c, a)
      BY <1>3 DEF save, Saves
    <3> QED
      BY <1>0, <1>3, <2>3, <3>1, CampaignKind, SavePreserves DEF CampaignStore
  <2>5. CASE db' = db /\ committed' = committed
    BY <1>0, <2>4, <2>5 DEF CampaignIInv, CommitsContinue
  <2>6. CASE db # NoRow /\ Loaded(c) = db /\ db' = a /\ committed' = Append(committed, a)
    <3>1. db = committed[Len(committed)]
      BY <2>6, StoredFacts
    <3>2. CommitsContinue'
      BY <1>0, <2>3, <2>6, <3>1, CommitContinues
    <3>3. Domain!Mutate
      BY <1>3, <2>6 DEF Domain!Mutate, save
    <3> QED
      BY <2>4, <3>2, <3>3 DEF CampaignIInv
  <2> QED
    BY <2>4, <2>5, <2>6
<1>4. ASSUME NEW c \in Client, ClientStep(c), ~Reading(c)
      PROVE  CampaignIInv' /\ (db' = db \/ Domain!Mutate)
  <2>1. /\ IsLoaded(c) /\ Domain!Reconstructs(Loaded(c))
        /\ \E a \in Domain!Mutations(Loaded(c)) : save(c, a)
    BY <1>4, CommandIsMutation DEF ClientStep
  <2> QED
    BY <1>3, <2>1
<1> QED
  BY <1>1, <1>2, <1>4 DEF CampaignNext, Domain!Next

\* The invariant holds of the empty store.
LEMMA CampaignInitFacts ==
    ASSUME CampaignInit
    PROVE  CampaignIInv /\ Domain!Init
<1>1. db = NoRow /\ committed = <<>> /\ session = [c \in Client |-> Idle]
  BY DEF CampaignInit, StoreInit
<1>2. <<>> \in Seq(Domain!Campaigns) /\ <<>> \in Seq(Seq(Domain!Record)) /\ Len(<<>>) = 0
  BY EmptySeq
<1>3. CampaignStore
  BY <1>1, <1>2 DEF CampaignStore, StoreInv, StoreTypes, VersionNamesContent, RowsAreCommitted, Idle, IsLoaded
<1>4. CommitsContinue
  BY <1>1, <1>2 DEF CommitsContinue
<1> QED
  BY <1>1, <1>3, <1>4 DEF CampaignIInv, Domain!Init

------------------------------------------------------------------------------
\* The inductive invariant holds in every state.
THEOREM CampaignInvariant ==
    ASSUME Ahead = 0
    PROVE  CampaignSpec => []CampaignIInv
<1>1. CampaignInit => CampaignIInv
  BY CampaignInitFacts
<1>2. CampaignIInv /\ [CampaignNext]_storeVars => CampaignIInv'
  <2> SUFFICES ASSUME CampaignIInv, [CampaignNext]_storeVars PROVE CampaignIInv'
    OBVIOUS
  <2>1. CASE CampaignNext
    BY <2>1, CampaignStepFacts
  <2>2. CASE UNCHANGED storeVars
    BY <2>2 DEF storeVars, CampaignIInv, CampaignStore, StoreInv, StoreTypes, VersionNamesContent,
                RowsAreCommitted, IsLoaded,
                CommitsContinue
  <2> QED
    BY <2>1, <2>2
<1> QED
  BY <1>1, <1>2, PTL DEF CampaignSpec

\* The rows and what the handlers hold are always well typed, in particular every
\* loaded Campaign has its one history table.
THEOREM TypeCorrect ==
    ASSUME Ahead = 0
    PROVE  CampaignSpec => []TypeOK
<1>1. CampaignIInv => TypeOK
  BY DEF CampaignIInv, CampaignStore, StoreInv, TypeOK
<1> QED
  BY <1>1, CampaignInvariant, PTL

\* Versions are handed out in commit order without gaps, so a version names one
\* content of the Campaign.
THEOREM VersionsNameContents ==
    ASSUME Ahead = 0
    PROVE  CampaignSpec => []VersionNamesContent
<1>1. CampaignIInv => VersionNamesContent
  BY DEF CampaignIInv, CampaignStore, StoreInv
<1> QED
  BY <1>1, CampaignInvariant, PTL

\* Whatever handlers run concurrently, the stored Campaign passes
\* _reconstruct_campaign.
THEOREM StoredCampaignReconstructs ==
    ASSUME Ahead = 0
    PROVE  CampaignSpec => []CampaignReconstructs
<1>1. CampaignIInv => CampaignReconstructs
  BY StoredFacts DEF CampaignReconstructs
<1> QED
  BY <1>1, CampaignInvariant, PTL

\* A Campaign assembled from two statements that reconstructs is one commit: the
\* root row fixes the length of the history, and histories only continue.
THEOREM LoadedCampaignIsCommitted ==
    ASSUME Ahead = 0
    PROVE  CampaignSpec => []LoadedIsCommitted
<1>1. ASSUME CampaignIInv, NEW c \in Client, IsLoaded(c), Domain!Reconstructs(Loaded(c))
      PROVE  \E i \in 1..Len(committed) : committed[i] = Loaded(c)
  <2> DEFINE m == Len(committed)
             s == session[c]
  <2>1. CampaignStore /\ CommitsContinue
    BY <1>1 DEF CampaignIInv
  <2>2. /\ committed \in Seq(Domain!Campaigns) /\ m \in Nat
        /\ s.tables \in Seq(Seq(Domain!Record)) /\ Len(s.tables) = 1
    BY <1>1, <2>1, LenProperties DEF CampaignStore, StoreInv, StoreTypes, IsLoaded
  <2>3. PICK i \in 1..m :
          /\ s.root = committed[i].root
          /\ \A k \in 1..Len(s.tables) : \E j \in i..m : s.tables[k] = committed[j].tables[k]
    BY <1>1, <2>1 DEF CampaignStore, StoreInv, VersionNamesContent, RowsAreCommitted, IsLoaded, DrawnFrom
  <2>4. PICK j \in i..m : s.tables[1] = committed[j].tables[1]
    BY <2>2, <2>3
  <2>5. j \in 1..m /\ i \in 1..j
    BY <2>2, <2>3, <2>4
  <2>6. committed[i] \in Domain!Campaigns /\ committed[j] \in Domain!Campaigns
    BY <2>2, <2>3, <2>5, ElementOfSeq
  <2> DEFINE h == committed[i].tables[1]
             g == committed[j].tables[1]
  <2>7. /\ committed[i].tables \in Seq(Seq(Domain!Record)) /\ Len(committed[i].tables) = 1
        /\ committed[i] = [root |-> committed[i].root, tables |-> committed[i].tables]
        /\ h \in Seq(Domain!Record) /\ g \in Seq(Domain!Record)
    BY <2>6, ElementOfSeq DEF Domain!Campaigns
  <2>8. Domain!Reconstructs(committed[i]) /\ CampaignContinues(g, h)
    BY <2>1, <2>3, <2>5 DEF CommitsContinue
  <2>9. s.root.next_transition_sequence = Len(h) + 1
    BY <2>3, <2>7, <2>8 DEF Domain!Reconstructs, Domain!ValidHistory,
                            Domain!transition_history, Domain!HistoryTable
  <2>10. s.root.next_transition_sequence = Len(g) + 1
    BY <1>1, <2>2, <2>4 DEF Loaded, Domain!Reconstructs, Domain!ValidHistory,
                            Domain!transition_history, Domain!HistoryTable
  <2> HIDE DEF h, g
  <2>11. Len(h) \in Nat /\ Len(g) \in Nat
    BY <2>7, LenProperties
  <2>12. h = g
    BY <2>7, <2>8, <2>9, <2>10, <2>11, SeqEqual DEF CampaignContinues
  <2>13. \A k \in 1..1 : committed[i].tables[k] = s.tables[k]
    BY <2>4, <2>12 DEF h, g
  <2>14. committed[i].tables = s.tables
    BY <2>2, <2>7, <2>13, SeqEqual
  <2> QED
    BY <2>3, <2>7, <2>14 DEF Loaded
<1>2. CampaignIInv => LoadedIsCommitted
  BY <1>1 DEF LoadedIsCommitted, get
<1> QED
  BY <1>2, CampaignInvariant, PTL

\* The stored rows implement the Campaign as an atomic object: no update is lost
\* and none is made on a value that is not the stored one.
THEOREM HandlersImplementAtomicCampaign ==
    ASSUME Ahead = 0
    PROVE  CampaignSpec => AtomicCampaign
<1>1. CampaignInit => Domain!Init
  BY CampaignInitFacts
<1>2. CampaignIInv /\ [CampaignNext]_storeVars => [Domain!Next]_db
  BY CampaignStepFacts DEF storeVars
<1> QED
  BY <1>1, <1>2, CampaignInvariant, PTL DEF CampaignSpec, AtomicCampaign, Domain!Spec
=============================================================================
