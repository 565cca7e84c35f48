--------------------- MODULE OperatorPositionLedgerProofs ---------------------
(***************************************************************************)
(* Proofs about the operator position ledger and the reports over it, for  *)
(* any number of clients, any positions, identities, quantities, prices    *)
(* and instants.                                                           *)
(*                                                                         *)
(* The first part is about the fold of one position.  Events that their    *)
(* order tells apart have a latest one, so what the loop computes is       *)
(* proved by induction over a log (LogInduction): a sequence that is not   *)
(* rejected was opened once and first, is closed last, and leaves what was *)
(* opened less what was reduced (Reference).                               *)
(*                                                                         *)
(* In the second part that the ledger folds is not inductive: a client     *)
(* inserts an event that it validated in an earlier statement.  The        *)
(* inductive invariant says that the validation of every open transaction  *)
(* still holds (Pending), because its client is the only one inside        *)
(* append_validated for that position (Exclusive).                         *)
(*                                                                         *)
(* The third part is about OperatorReports, whose invariant adds what an   *)
(* operator who writes everything down in order leaves in the ledger.      *)
(***************************************************************************)
EXTENDS OperatorPositionLedger, OperatorReports, FiniteSetTheorems, WellFoundedInduction, TLAPS

------------------------------------------------------------------------------
(* Folding a set of events in their order *)

\* A set of naturals has a least element.
LEMMA NatMin ==
    ASSUME NEW T \in SUBSET Nat, T # {}
    PROVE  \E x \in T : \A y \in T : x <= y
<1>. DEFINE R == {ss \in Nat \X Nat : ss[1] < ss[2]}
<1>1. IsWellFoundedOn(R, Nat)
  BY NatLessThanWellFounded DEF OpToRel
<1>. HIDE DEF R
<1>2. PICK x \in T : \A y \in T : ~(<<y, x>> \in R)
  BY <1>1, WFMin, Zenon
<1>3. \A y \in T : ~(y < x)
  BY <1>2 DEF R
<1>. QED  BY <1>3

\* A set of sets has a smallest one.
LEMMA SmallestSet ==
    ASSUME NEW D, D # {}, \A S \in D : IsFiniteSet(S)
    PROVE  \E S \in D : \A T \in D : Cardinality(S) <= Cardinality(T)
<1>. DEFINE N == {Cardinality(S) : S \in D}
<1>1. N \in SUBSET Nat /\ N # {}
  BY FS_CardinalityType
<1>. HIDE DEF N
<1>2. PICK n \in N : \A m \in N : n <= m
  BY <1>1, NatMin
<1>. QED  BY <1>2 DEF N

\* Events that the order of the fold tells apart.
Log(S) ==
    /\ IsFiniteSet(S)
    /\ \A e \in S : e.event_timestamp \in Nat /\ e.governance_id \in Nat
    /\ \A e, f \in S : e.governance_id = f.governance_id => e = f

LEMMA BeforeIsStrict ==
    ASSUME NEW S, Log(S), NEW e \in S, NEW f \in S
    PROVE  /\ e # f => Before(e, f) \/ Before(f, e)
           /\ ~(Before(e, f) /\ Before(f, e))
           /\ \A g \in S : Before(e, f) /\ Before(f, g) => Before(e, g)
  BY DEF Log, Before, _order_key

LEMMA PartOfLog ==
    ASSUME NEW S, Log(S), NEW T \in SUBSET S
    PROVE  Log(T)
  BY FS_Subset DEF Log

\* There is a latest event.
LEMMA LatestExists ==
    ASSUME NEW S, Log(S), S # {}
    PROVE  /\ Latest(S) \in S
           /\ \A f \in S \ {Latest(S)} : Before(f, Latest(S))
<1>. DEFINE D == {T \in SUBSET S : T # {} /\ ~\E e \in T : \A f \in T \ {e} : Before(f, e)}
<1>1. D = {}
  <2>1. SUFFICES ASSUME D # {} PROVE FALSE
    OBVIOUS
  <2>2. \A T \in D : IsFiniteSet(T)
    BY FS_Subset DEF Log
  <2>3. PICK T \in D : \A U \in D : Cardinality(T) <= Cardinality(U)
    <3>. HIDE DEF D
    <3>. QED  BY <2>1, <2>2, SmallestSet
  <2>4. PICK x : x \in T
    OBVIOUS
  <2>5. Cardinality(T \ {x}) = Cardinality(T) - 1 /\ Cardinality(T) \in Nat
    BY <2>2, <2>3, <2>4, FS_RemoveElement, FS_CardinalityType
  <2>6. T \ {x} \notin D
    <3>. HIDE DEF D
    <3>. QED  BY <2>3, <2>5
  <2>7. T \ {x} # {}
    BY <2>4
  <2>8. PICK e \in T \ {x} : \A f \in (T \ {x}) \ {e} : Before(f, e)
    BY <2>6, <2>7
  <2>9. \A f \in T : f = x \/ f = e \/ Before(f, e)
    BY <2>8
  <2>10. CASE Before(x, e)
    BY <2>8, <2>9, <2>10
  <2>11. CASE ~Before(x, e)
    <3>1. Before(e, x)
      BY <2>4, <2>8, <2>11, BeforeIsStrict
    <3>2. \A f \in T \ {x} : Before(f, x)
      BY <2>4, <2>8, <2>9, <3>1, BeforeIsStrict
    <3>. QED  BY <2>4, <3>2
  <2>. QED  BY <2>10, <2>11
<1>2. \E e \in S : \A f \in S \ {e} : Before(f, e)
  BY <1>1
<1>. QED  BY <1>2 DEF Latest

\* What holds of no events, and of some whenever it holds of all but the latest
\* of them, holds of a log.
LEMMA LogInduction ==
    ASSUME NEW S, Log(S), NEW D, {} \in D,
           \A T \in SUBSET S : T # {} /\ T \ {Latest(T)} \in D => T \in D
    PROVE  S \in D
<1>. DEFINE B == {T \in SUBSET S : T \notin D}
<1>1. SUFFICES ASSUME B # {} PROVE FALSE
  OBVIOUS
<1>2. \A T \in B : IsFiniteSet(T)
  BY FS_Subset DEF Log
<1>3. PICK T \in B : \A U \in B : Cardinality(T) <= Cardinality(U)
  <2>. HIDE DEF B
  <2>. QED  BY <1>1, <1>2, SmallestSet
<1>4. T # {} /\ Latest(T) \in T
  BY <1>3, PartOfLog, LatestExists
<1>5. Cardinality(T \ {Latest(T)}) = Cardinality(T) - 1 /\ Cardinality(T) \in Nat
  BY <1>2, <1>3, <1>4, FS_RemoveElement, FS_CardinalityType
<1>6. T \ {Latest(T)} \notin B
  BY <1>3, <1>5
<1>. QED  BY <1>3, <1>4, <1>6

\* g is the loop over the parts of S.
IsFold(g, S) ==
    g = [T \in SUBSET S |-> IF T = {} THEN NotOpened
                            ELSE Apply(g[T \ {Latest(T)}], Latest(T))]

LEMMA FoldIsChosen ==
    ASSUME NEW S
    PROVE  _fold_one_position(S) = (CHOOSE g : IsFold(g, S))[S]
  BY DEF _fold_one_position, MapThenFoldSet, IsFold

LEMMA FoldIsUnique ==
    ASSUME NEW S, Log(S), NEW g, IsFold(g, S), NEW h, IsFold(h, S)
    PROVE  g[S] = h[S]
<1>. DEFINE D == {T \in SUBSET S : g[T] = h[T]}
<1>1. \A T \in SUBSET S : g[T] = IF T = {} THEN NotOpened ELSE Apply(g[T \ {Latest(T)}], Latest(T))
  BY DEF IsFold
<1>2. \A T \in SUBSET S : h[T] = IF T = {} THEN NotOpened ELSE Apply(h[T \ {Latest(T)}], Latest(T))
  BY DEF IsFold
<1>3. {} \in D
  BY <1>1, <1>2
<1>4. ASSUME NEW T \in SUBSET S, T # {}, T \ {Latest(T)} \in D  PROVE T \in D
  BY <1>1, <1>2, <1>4
<1>5. S \in D
  <2>. HIDE DEF D
  <2>. QED  BY <1>3, <1>4, LogInduction
<1>. QED  BY <1>5

\* The fold, one event at a time.
LEMMA FoldStep ==
    ASSUME NEW S, Log(S)
    PROVE  _fold_one_position(S) =
             IF S = {} THEN NotOpened
             ELSE Apply(_fold_one_position(S \ {Latest(S)}), Latest(S))
<1>. DEFINE Folded(T) == IF T = {} THEN NotOpened
                         ELSE Apply(_fold_one_position(T \ {Latest(T)}), Latest(T))
            B == {T \in SUBSET S : _fold_one_position(T) # Folded(T)}
<1>1. ASSUME NEW T \in SUBSET S,
             \A U \in SUBSET T : U # T => _fold_one_position(U) = Folded(U)
      PROVE  _fold_one_position(T) = Folded(T)
  <2>. DEFINE h == [U \in SUBSET T |-> Folded(U)]
  <2>1. Log(T)
    BY PartOfLog
  <2>2. ASSUME NEW U \in SUBSET T, U # {}
        PROVE  /\ U \ {Latest(U)} \in SUBSET T
               /\ Folded(U \ {Latest(U)}) = _fold_one_position(U \ {Latest(U)})
    <3>1. Latest(U) \in U
      BY <2>1, <2>2, PartOfLog, LatestExists
    <3>2. U \ {Latest(U)} # T
      BY <3>1
    <3>. HIDE DEF Folded
    <3>. QED  BY <1>1, <3>2
  <2>3. IsFold(h, T)
    <3>1. \A U \in SUBSET T : U # {} => h[U \ {Latest(U)}] = _fold_one_position(U \ {Latest(U)})
      <4>. HIDE DEF Folded
      <4>. QED  BY <2>2
    <3>2. \A U \in SUBSET T : Folded(U) = IF U = {} THEN NotOpened
                                          ELSE Apply(h[U \ {Latest(U)}], Latest(U))
      BY <3>1
    <3>. HIDE DEF Folded
    <3>. QED  BY <3>2 DEF IsFold
  <2>. HIDE DEF h
  <2>4. IsFold(CHOOSE g : IsFold(g, T), T)
    BY <2>3
  <2>5. (CHOOSE g : IsFold(g, T))[T] = h[T]
    BY <2>1, <2>3, <2>4, FoldIsUnique
  <2>. QED  BY <2>5, FoldIsChosen DEF h
<1>. HIDE DEF Folded
<1>2. B = {}
  <2>1. SUFFICES ASSUME B # {} PROVE FALSE
    OBVIOUS
  <2>2. \A T \in B : IsFiniteSet(T)
    BY FS_Subset DEF Log
  <2>3. PICK T \in B : \A U \in B : Cardinality(T) <= Cardinality(U)
    <3>. HIDE DEF B
    <3>. QED  BY <2>1, <2>2, SmallestSet
  <2>4. ASSUME NEW U \in SUBSET T, U # T  PROVE U \notin B
    <3>1. Cardinality(U) < Cardinality(T) /\ Cardinality(U) \in Nat /\ Cardinality(T) \in Nat
      BY <2>2, <2>3, <2>4, FS_Subset, FS_CardinalityType
    <3>. QED  BY <2>3, <3>1
  <2>. QED  BY <1>1, <2>3, <2>4
<1>3. _fold_one_position(S) = Folded(S)
  BY <1>2
<1>. QED  BY <1>3 DEF Folded

------------------------------------------------------------------------------
(* Sums of quantities *)

Chosen(T) == CHOOSE x \in T : TRUE

IsTotal(g, S) ==
    g = [T \in SUBSET S |-> IF T = {} THEN 0 ELSE Chosen(T).quantity + g[T \ {Chosen(T)}]]

LEMMA TotalIsChosen ==
    ASSUME NEW S
    PROVE  Total(S) = (CHOOSE g : IsTotal(g, S))[S]
  BY DEF Total, MapThenSumSet, MapThenFoldSet, IsTotal, Chosen

LEMMA AnyIsIn ==
    ASSUME NEW T, T # {}
    PROVE  Chosen(T) \in T
  BY DEF Chosen

LEMMA SmallerPart ==
    ASSUME NEW T, IsFiniteSet(T), NEW U \in SUBSET T, U # T
    PROVE  IsFiniteSet(U) /\ Cardinality(U) \in Nat /\ Cardinality(T) \in Nat /\ Cardinality(U) < Cardinality(T)
  BY FS_Subset, FS_CardinalityType

LEMMA TotalIsUnique ==
    ASSUME NEW S, IsFiniteSet(S), NEW g, IsTotal(g, S), NEW h, IsTotal(h, S)
    PROVE  g[S] = h[S]
<1>. DEFINE B == {T \in SUBSET S : g[T] # h[T]}
<1>1. SUFFICES ASSUME B # {} PROVE FALSE
  OBVIOUS
<1>2. \A T \in B : IsFiniteSet(T)
  BY FS_Subset
<1>3. PICK T \in B : \A U \in B : Cardinality(T) <= Cardinality(U)
  <2>. HIDE DEF B
  <2>. QED  BY <1>1, <1>2, SmallestSet
<1>4. g[T] = IF T = {} THEN 0 ELSE Chosen(T).quantity + g[T \ {Chosen(T)}]
  BY <1>3 DEF IsTotal
<1>5. h[T] = IF T = {} THEN 0 ELSE Chosen(T).quantity + h[T \ {Chosen(T)}]
  BY <1>3 DEF IsTotal
<1>6. T # {}
  BY <1>3, <1>4, <1>5
<1>7. T \ {Chosen(T)} \in SUBSET T /\ T \ {Chosen(T)} # T
  BY <1>6, AnyIsIn
<1>8. T \ {Chosen(T)} \notin B
  <2>1. Cardinality(T \ {Chosen(T)}) < Cardinality(T) /\ Cardinality(T) \in Nat
        /\ Cardinality(T \ {Chosen(T)}) \in Nat
    BY <1>2, <1>3, <1>7, SmallerPart
  <2>. HIDE DEF B
  <2>. QED  BY <1>3, <2>1
<1>. QED  BY <1>3, <1>4, <1>5, <1>6, <1>8

\* A sum, one event at a time.
LEMMA TotalStep ==
    ASSUME NEW S, IsFiniteSet(S)
    PROVE  Total(S) = IF S = {} THEN 0 ELSE Chosen(S).quantity + Total(S \ {Chosen(S)})
<1>. DEFINE Summed(T) == IF T = {} THEN 0 ELSE Chosen(T).quantity + Total(T \ {Chosen(T)})
            B == {T \in SUBSET S : Total(T) # Summed(T)}
<1>1. ASSUME NEW T \in SUBSET S, \A U \in SUBSET T : U # T => Total(U) = Summed(U)
      PROVE  Total(T) = Summed(T)
  <2>. DEFINE h == [U \in SUBSET T |-> Summed(U)]
  <2>1. IsFiniteSet(T)
    BY FS_Subset
  <2>2. ASSUME NEW U \in SUBSET T, U # {}
        PROVE  U \ {Chosen(U)} \in SUBSET T /\ Summed(U \ {Chosen(U)}) = Total(U \ {Chosen(U)})
    <3>1. Chosen(U) \in U
      BY <2>2, AnyIsIn
    <3>2. U \ {Chosen(U)} # T
      BY <3>1
    <3>. HIDE DEF Summed
    <3>. QED  BY <1>1, <3>2
  <2>3. IsTotal(h, T)
    <3>1. \A U \in SUBSET T : U # {} => h[U \ {Chosen(U)}] = Total(U \ {Chosen(U)})
      <4>. HIDE DEF Summed
      <4>. QED  BY <2>2
    <3>2. \A U \in SUBSET T : Summed(U) = IF U = {} THEN 0 ELSE Chosen(U).quantity + h[U \ {Chosen(U)}]
      BY <3>1
    <3>. HIDE DEF Summed
    <3>. QED  BY <3>2 DEF IsTotal
  <2>. HIDE DEF h
  <2>4. IsTotal(CHOOSE g : IsTotal(g, T), T)
    BY <2>3
  <2>5. (CHOOSE g : IsTotal(g, T))[T] = h[T]
    BY <2>1, <2>3, <2>4, TotalIsUnique
  <2>. QED  BY <2>5, TotalIsChosen DEF h
<1>. HIDE DEF Summed
<1>2. B = {}
  <2>1. SUFFICES ASSUME B # {} PROVE FALSE
    OBVIOUS
  <2>2. \A T \in B : IsFiniteSet(T)
    BY FS_Subset
  <2>3. PICK T \in B : \A U \in B : Cardinality(T) <= Cardinality(U)
    <3>. HIDE DEF B
    <3>. QED  BY <2>1, <2>2, SmallestSet
  <2>4. ASSUME NEW U \in SUBSET T, U # T  PROVE U \notin B
    <3>1. Cardinality(U) < Cardinality(T) /\ Cardinality(U) \in Nat /\ Cardinality(T) \in Nat
      BY <2>2, <2>3, <2>4, SmallerPart
    <3>. HIDE DEF B
    <3>. QED  BY <2>3, <3>1
  <2>. QED  BY <1>1, <2>3, <2>4
<1>3. Total(S) = Summed(S)
  BY <1>2
<1>. QED  BY <1>3 DEF Summed

\* A sum does not depend on the order.
LEMMA TotalOf ==
    ASSUME NEW S, IsFiniteSet(S), \A e \in S : e.quantity \in Nat
    PROVE  /\ Total(S) \in Nat
           /\ S = {} => Total(S) = 0
           /\ \A x \in S : Total(S) = x.quantity + Total(S \ {x})
<1>. DEFINE Good(T) == Total(T) \in Nat /\ \A x \in T : Total(T) = x.quantity + Total(T \ {x})
            B == {T \in SUBSET S : ~Good(T)}
<1>1. ASSUME NEW T \in SUBSET S, \A U \in SUBSET T : U # T => Good(U)
      PROVE  Good(T)
  <2>1. IsFiniteSet(T) /\ \A e \in T : e.quantity \in Nat
    BY FS_Subset
  <2>2. CASE T = {}
    <3>1. Total(T) = 0
      BY <2>1, <2>2, TotalStep
    <3>. QED  BY <2>2, <3>1
  <2>3. CASE T # {}
    <3>1. PICK c : c = Chosen(T)
      OBVIOUS
    <3>2. c \in T /\ Total(T) = c.quantity + Total(T \ {c})
      BY <2>1, <2>3, <3>1, AnyIsIn, TotalStep
    <3>3. Good(T \ {c}) /\ c.quantity \in Nat
      <4>1. T \ {c} # T
        BY <3>2
      <4>. HIDE DEF Good
      <4>. QED  BY <1>1, <2>1, <3>2, <4>1
    <3>4. ASSUME NEW x \in T, x # c  PROVE Total(T) = x.quantity + Total(T \ {x})
      <4>1. Total(T \ {c}) = x.quantity + Total((T \ {c}) \ {x})
        BY <3>3, <3>4
      <4>2. Good(T \ {x})
        <5>1. T \ {x} # T
          OBVIOUS
        <5>. HIDE DEF Good
        <5>. QED  BY <1>1, <5>1
      <4>3. Total(T \ {x}) = c.quantity + Total((T \ {x}) \ {c})
        BY <3>2, <3>4, <4>2
      <4>4. (T \ {c}) \ {x} = (T \ {x}) \ {c}
        OBVIOUS
      <4>5. Total((T \ {c}) \ {x}) \in Nat
        <5>1. (T \ {c}) \ {x} # T
          OBVIOUS
        <5>2. Good((T \ {c}) \ {x})
          <6>. HIDE DEF Good
          <6>. QED  BY <1>1, <5>1
        <5>. QED  BY <5>2
      <4>6. x.quantity \in Nat
        BY <2>1
      <4>. QED  BY <3>2, <3>3, <4>1, <4>3, <4>4, <4>5, <4>6
    <3>5. Total(T) \in Nat
      BY <3>2, <3>3
    <3>. QED  BY <3>2, <3>4, <3>5
  <2>. QED  BY <2>2, <2>3
<1>. HIDE DEF Good
<1>2. B = {}
  <2>1. SUFFICES ASSUME B # {} PROVE FALSE
    OBVIOUS
  <2>2. \A T \in B : IsFiniteSet(T)
    BY FS_Subset
  <2>3. PICK T \in B : \A U \in B : Cardinality(T) <= Cardinality(U)
    <3>. HIDE DEF B
    <3>. QED  BY <2>1, <2>2, SmallestSet
  <2>4. ASSUME NEW U \in SUBSET T, U # T  PROVE U \notin B
    <3>1. Cardinality(U) < Cardinality(T) /\ Cardinality(U) \in Nat /\ Cardinality(T) \in Nat
      BY <2>2, <2>3, <2>4, SmallerPart
    <3>. HIDE DEF B
    <3>. QED  BY <2>3, <3>1
  <2>. QED  BY <1>1, <2>3, <2>4
<1>3. Good(S)
  BY <1>2
<1>4. S = {} => Total(S) = 0
  BY TotalStep
<1>. QED  BY <1>3, <1>4 DEF Good

------------------------------------------------------------------------------
(* What the loop computes *)

\* An event as it is stored.
Asserted(e) ==
    /\ e.event_timestamp \in Nat /\ e.governance_id \in Nat
    /\ e.kind \in Kind
    /\ e.quantity \in Nat
    /\ e.kind # "CLOSED" => e.quantity # 0

Events(S) == Log(S) /\ \A e \in S : Asserted(e)

OfKind(S, kind) == {e \in S : e.kind = kind}

Remaining(S) == Total(OfKind(S, "OPENED")) - Total(OfKind(S, "REDUCED"))

\* The state v of a position is the one its events S say, without a loop.
Reference(S, v) ==
    /\ \E o \in S : /\ o.kind = "OPENED" /\ v.instrument = o.instrument
                    /\ \A f \in S \ {o} : Before(o, f) /\ f.kind # "OPENED" /\ f.instrument = o.instrument
    /\ \A e \in OfKind(S, "CLOSED") : \A f \in S \ {e} : Before(f, e)
    /\ Remaining(S) \in Nat
    /\ v.status = IF OfKind(S, "CLOSED") # {} \/ Remaining(S) = 0 THEN "closed" ELSE "open"
    /\ v.quantity = IF OfKind(S, "CLOSED") # {} THEN 0 ELSE Remaining(S)
    /\ v = [status |-> v.status, quantity |-> v.quantity, instrument |-> v.instrument]

LEMMA PartOfEvents ==
    ASSUME NEW S, Events(S), NEW T \in SUBSET S
    PROVE  Events(T)
  BY PartOfLog DEF Events, Asserted

\* The sum of one kind in T is that in U with the event e.
Adds(T, U, e, kind) ==
    /\ Total(OfKind(U, kind)) \in Nat /\ Total(OfKind(T, kind)) \in Nat
    /\ Total(OfKind(T, kind)) = Total(OfKind(U, kind)) + (IF e.kind = kind THEN e.quantity ELSE 0)

LEMMA AddedKind ==
    ASSUME NEW T, Events(T), NEW e \in T, NEW U, U = T \ {e}, NEW kind
    PROVE  Adds(T, U, e, kind)
<1>1. /\ IsFiniteSet(OfKind(T, kind)) /\ \A f \in OfKind(T, kind) : f.quantity \in Nat
      /\ IsFiniteSet(OfKind(U, kind)) /\ \A f \in OfKind(U, kind) : f.quantity \in Nat
  <2>1. OfKind(T, kind) \subseteq T /\ OfKind(U, kind) \subseteq T
    BY DEF OfKind
  <2>. QED  BY <2>1, FS_Subset DEF Events, Asserted, Log
<1>2. Total(OfKind(T, kind)) \in Nat /\ Total(OfKind(U, kind)) \in Nat
  BY <1>1, TotalOf
<1>3. CASE e.kind = kind
  <2>1. e \in OfKind(T, kind) /\ OfKind(T, kind) \ {e} = OfKind(U, kind)
    BY <1>3 DEF OfKind
  <2>2. Total(OfKind(T, kind)) = e.quantity + Total(OfKind(T, kind) \ {e})
    BY <1>1, <2>1, TotalOf
  <2>3. e.quantity \in Nat
    BY DEF Events, Asserted
  <2>4. PICK a, b, q : a = Total(OfKind(T, kind)) /\ b = Total(OfKind(U, kind)) /\ q = e.quantity
    OBVIOUS
  <2>5. a = q + b
    BY <2>1, <2>2, <2>4
  <2>6. a = b + q
    BY <1>2, <2>3, <2>4, <2>5
  <2>. QED  BY <1>2, <1>3, <2>4, <2>6 DEF Adds
<1>4. CASE e.kind # kind
  <2>1. OfKind(T, kind) = OfKind(U, kind)
    BY <1>4 DEF OfKind
  <2>. QED  BY <1>2, <1>4, <2>1 DEF Adds
<1>. QED  BY <1>3, <1>4

\* The first event.
LEMMA FirstEvent ==
    ASSUME NEW T, Events(T), NEW e, T = {e}, NEW v, v = Apply(NotOpened, e)
    PROVE  v = Rejected \/ Reference(T, v)
<1>1. CASE e.kind = "OPENED"
  <2>1. v = Open(e)
    BY <1>1 DEF Apply, NotOpened
  <2>2. /\ v.status = "open" /\ v.quantity = e.quantity /\ v.instrument = e.instrument
        /\ v = [status |-> v.status, quantity |-> v.quantity, instrument |-> v.instrument]
    BY <2>1 DEF Open
  <2>3. OfKind(T, "CLOSED") = {} /\ e.quantity \in Nat \ {0}
    BY <1>1 DEF OfKind, Events, Asserted
  <2>4. PICK U : U = {} /\ U = T \ {e}
    OBVIOUS
  <2>5. OfKind(U, "OPENED") = {} /\ OfKind(U, "REDUCED") = {}
    BY <2>4 DEF OfKind
  <2>6. Total(OfKind(U, "OPENED")) = 0 /\ Total(OfKind(U, "REDUCED")) = 0
    BY <2>5, TotalOf, FS_EmptySet
  <2>7. Total(OfKind(T, "OPENED")) = e.quantity /\ Total(OfKind(T, "REDUCED")) = 0
    <3>1. e \in T
      OBVIOUS
    <3>2. Adds(T, U, e, "OPENED") /\ Adds(T, U, e, "REDUCED")
      BY <2>4, <3>1, AddedKind
    <3>. QED  BY <1>1, <2>3, <2>6, <3>2 DEF Adds
  <2>8. Remaining(T) = e.quantity
    BY <2>3, <2>7 DEF Remaining
  <2>. QED  BY <1>1, <2>2, <2>3, <2>8 DEF Reference
<1>2. CASE e.kind # "OPENED"
  BY <1>2 DEF Apply, Exits, NotOpened, Rejected
<1>. QED  BY <1>1, <1>2

\* An event after others.
LEMMA NextEvent ==
    ASSUME NEW T, Events(T), NEW e \in T, \A f \in T \ {e} : Before(f, e),
           NEW U, U = T \ {e}, NEW u, Reference(U, u), NEW v, v = Apply(u, e)
    PROVE  v = Rejected \/ Reference(T, v)
<1>1. PICK o \in U : /\ o.kind = "OPENED" /\ u.instrument = o.instrument
                     /\ \A f \in U \ {o} : Before(o, f) /\ f.kind # "OPENED" /\ f.instrument = o.instrument
  BY DEF Reference
<1>2. u.status \in {"open", "closed"} /\ Remaining(U) \in Nat
  BY DEF Reference
<1>3. SUFFICES ASSUME v # Rejected PROVE Reference(T, v)
  OBVIOUS
<1>4. /\ e.instrument = u.instrument /\ u.status = "open"
      /\ \/ e.kind = "REDUCED" /\ e.quantity <= u.quantity /\ v = Shrunk(u, u.quantity - e.quantity)
         \/ e.kind = "CLOSED" /\ v = Shrunk(u, 0)
  BY <1>2, <1>3 DEF Apply, Exits
<1>5. OfKind(U, "CLOSED") = {} /\ u.quantity = Remaining(U) /\ u.quantity # 0
  BY <1>4 DEF Reference
<1>6. \E p \in T : /\ p.kind = "OPENED" /\ u.instrument = p.instrument
                   /\ \A f \in T \ {p} : Before(p, f) /\ f.kind # "OPENED" /\ f.instrument = p.instrument
  <2>1. o \in T /\ Before(o, e)
    BY <1>1
  <2>2. e.kind # "OPENED" /\ e.instrument = o.instrument
    BY <1>1, <1>4
  <2>3. \A f \in T \ {o} : f = e \/ f \in U \ {o}
    OBVIOUS
  <2>. QED  BY <1>1, <2>1, <2>2, <2>3
<1>7. ASSUME NEW q
      PROVE  LET w == Shrunk(u, q) IN
             /\ w.quantity = q /\ w.instrument = u.instrument
             /\ w.status = (IF q = 0 THEN "closed" ELSE "open")
             /\ w = [status |-> w.status, quantity |-> w.quantity, instrument |-> w.instrument]
  <2>1. u = [status |-> u.status, quantity |-> u.quantity, instrument |-> u.instrument]
    BY DEF Reference
  <2>2. PICK st : st = IF q = 0 THEN "closed" ELSE "open"
    OBVIOUS
  <2>3. PICK s, n, i : u = [status |-> s, quantity |-> n, instrument |-> i]
    BY <2>1
  <2>4. PICK x : x = [u EXCEPT !.quantity = q]
    OBVIOUS
  <2>5. x = [status |-> s, quantity |-> q, instrument |-> i]
    BY <2>3, <2>4
  <2>6. [x EXCEPT !.status = st] = [status |-> st, quantity |-> q, instrument |-> i]
    BY <2>5
  <2>7. Shrunk(u, q) = [x EXCEPT !.status = st]
    BY <2>2, <2>4, Zenon DEF Shrunk
  <2>8. Shrunk(u, q) = [status |-> st, quantity |-> q, instrument |-> u.instrument]
    BY <2>3, <2>6, <2>7
  <2>. QED  BY <2>2, <2>8
<1>8. /\ Total(OfKind(T, "OPENED")) = Total(OfKind(U, "OPENED"))
      /\ Total(OfKind(T, "REDUCED")) = Total(OfKind(U, "REDUCED"))
                                        + (IF e.kind = "REDUCED" THEN e.quantity ELSE 0)
      /\ Total(OfKind(U, "OPENED")) \in Nat /\ Total(OfKind(U, "REDUCED")) \in Nat
      /\ e.quantity \in Nat
  <2>1. e \in T /\ e.kind # "OPENED" /\ e.quantity \in Nat
    BY <1>4 DEF Events, Asserted
  <2>2. Adds(T, U, e, "OPENED") /\ Adds(T, U, e, "REDUCED")
    BY <2>1, AddedKind
  <2>. QED  BY <2>1, <2>2 DEF Adds
<1>9. CASE e.kind = "REDUCED"
  <2>1. OfKind(T, "CLOSED") = {}
    BY <1>5, <1>9 DEF OfKind
  <2>2. Remaining(T) = Remaining(U) - e.quantity
    BY <1>8, <1>9 DEF Remaining
  <2>3. Remaining(T) \in Nat /\ v = Shrunk(u, Remaining(T))
    BY <1>2, <1>4, <1>5, <1>8, <1>9, <2>2
  <2>4. /\ v.quantity = Remaining(T) /\ v.instrument = u.instrument
        /\ v.status = (IF Remaining(T) = 0 THEN "closed" ELSE "open")
        /\ v = [status |-> v.status, quantity |-> v.quantity, instrument |-> v.instrument]
    BY <1>7, <2>3
  <2>. QED  BY <1>6, <2>1, <2>3, <2>4 DEF Reference
<1>10. CASE e.kind = "CLOSED"
  <2>1. OfKind(T, "CLOSED") = {e}
    BY <1>5, <1>10 DEF OfKind
  <2>2. Remaining(T) = Remaining(U)
    BY <1>8, <1>10 DEF Remaining
  <2>3. v = Shrunk(u, 0)
    BY <1>4, <1>10
  <2>4. /\ v.quantity = 0 /\ v.instrument = u.instrument /\ v.status = "closed"
        /\ v = [status |-> v.status, quantity |-> v.quantity, instrument |-> v.instrument]
    BY <1>7, <2>3
  <2>. QED  BY <1>2, <1>6, <2>1, <2>2, <2>4 DEF Reference
<1>. QED  BY <1>4, <1>9, <1>10

\* The loop says what the reference says, or rejects.
LEMMA FoldMeans ==
    ASSUME NEW S, Events(S), S # {}, NEW v, v = _fold_one_position(S)
    PROVE  v = Rejected \/ Reference(S, v)
<1>. DEFINE Good(T) == LET w == _fold_one_position(T)
                       IN  IF T = {} THEN w = NotOpened ELSE w = Rejected \/ Reference(T, w)
            D == {T \in SUBSET S : Good(T)}
<1>0. Log(S)
  BY DEF Events, Asserted
<1>1. {} \in D
  <2>1. _fold_one_position({}) = NotOpened
    BY <1>0, PartOfLog, FoldStep
  <2>. QED  BY <2>1
<1>2. ASSUME NEW T \in SUBSET S, T # {}, T \ {Latest(T)} \in D  PROVE T \in D
  <2>1. PICK e, U, u, w : /\ e = Latest(T) /\ U = T \ {e} /\ u = _fold_one_position(U)
                          /\ w = Apply(u, e)
    OBVIOUS
  <2>2. Events(T) /\ Log(T)
    BY PartOfEvents DEF Events, Asserted
  <2>3. e \in T /\ \A f \in T \ {e} : Before(f, e)
    BY <1>2, <2>1, <2>2, LatestExists
  <2>4. _fold_one_position(T) = w
    BY <1>2, <2>1, <2>2, FoldStep
  <2>5. IF U = {} THEN u = NotOpened ELSE u = Rejected \/ Reference(U, u)
    BY <1>2, <2>1
  <2>. HIDE DEF D
  <2>6. CASE U = {}
    <3>1. T = {e}
      BY <2>1, <2>3, <2>6
    <3>. QED  BY <1>2, <2>1, <2>2, <2>4, <2>5, <2>6, <3>1, FirstEvent DEF D
  <2>7. CASE U # {} /\ u = Rejected
    <3>1. w = Rejected
      BY <2>1, <2>7 DEF Apply, Exits, Rejected
    <3>. QED  BY <1>2, <2>4, <3>1 DEF D
  <2>8. CASE Reference(U, u)
    <3>1. w = Rejected \/ Reference(T, w)
      BY <2>1, <2>2, <2>3, <2>8, NextEvent
    <3>. QED  BY <1>2, <2>4, <3>1 DEF D
  <2>. QED  BY <2>5, <2>6, <2>7, <2>8
<1>3. S \in D
  <2>. HIDE DEF D
  <2>. QED  BY <1>0, <1>1, <1>2, LogInduction
<1>. QED  BY <1>3

\* A coherent position means what the reference says.
LEMMA FoldsMeans ==
    ASSUME NEW S, Events(S), S # {}, Folds(S)
    PROVE  Reference(S, _fold_one_position(S))
  BY FoldMeans DEF Folds, Rejected

\* What was coherent up to its last event was coherent before.
LEMMA FoldsBefore ==
    ASSUME NEW S, Events(S), Folds(S), NEW T \in SUBSET S, T # {},
           \A e \in T, f \in S \ T : Before(e, f)
    PROVE  Folds(T)
<1>. DEFINE D == {U \in SUBSET S : Folds(U) /\ T \subseteq U => Folds(T)}
<1>0. Log(S)
  BY DEF Events, Asserted
<1>1. {} \in D
  OBVIOUS
<1>2. ASSUME NEW U \in SUBSET S, U # {}, U \ {Latest(U)} \in D  PROVE U \in D
  <2>1. SUFFICES ASSUME Folds(U), T \subseteq U, T # U  PROVE Folds(T)
    OBVIOUS
  <2>2. Log(U) /\ Events(U)
    BY PartOfEvents DEF Events, Asserted
  <2>3. Latest(U) \in U /\ \A f \in U \ {Latest(U)} : Before(f, Latest(U))
    BY <1>2, <2>2, LatestExists
  <2>4. Latest(U) \notin T
    <3>1. PICK f \in U : f \notin T
      BY <2>1
    <3>2. SUFFICES ASSUME Latest(U) \in T PROVE FALSE
      OBVIOUS
    <3>3. Before(Latest(U), f) /\ Before(f, Latest(U))
      BY <2>3, <3>1, <3>2
    <3>. QED  BY <2>2, <2>3, <3>1, <3>3, BeforeIsStrict
  <2>5. T \subseteq U \ {Latest(U)}
    BY <2>1, <2>4
  <2>6. Folds(U \ {Latest(U)})
    <3>1. PICK V, v, l : V = U \ {Latest(U)} /\ v = _fold_one_position(V) /\ l = Latest(U)
      OBVIOUS
    <3>2. _fold_one_position(U) = Apply(v, l)
      BY <1>2, <2>2, <3>1, FoldStep
    <3>3. v # Rejected
      BY <2>1, <3>2 DEF Folds, Apply, Exits, Rejected
    <3>4. Events(V) /\ V # {}
      BY <2>2, <2>5, <3>1, PartOfEvents
    <3>5. Reference(V, v)
      BY <3>1, <3>3, <3>4, FoldMeans
    <3>. QED  BY <3>1, <3>5 DEF Folds, Reference
  <2>. QED  BY <1>2, <2>5, <2>6
<1>3. S \in D
  <2>. HIDE DEF D
  <2>. QED  BY <1>0, <1>1, <1>2, LogInduction
<1>. QED  BY <1>3

\* An event with an identity of its own can be added.
LEMMA AddedEvent ==
    ASSUME NEW S, Events(S), NEW e, Asserted(e), \A f \in S : f.governance_id # e.governance_id
    PROVE  Events(S \cup {e}) /\ e \notin S /\ (S \cup {e}) \ {e} = S
<1>1. IsFiniteSet(S \cup {e})
  BY FS_AddElement DEF Events, Log
<1>. QED  BY <1>1 DEF Events, Log, Asserted

\* The opening of a position is its only one, and nobody closes it twice.
LEMMA ReferenceHas ==
    ASSUME NEW S, Events(S), NEW v, Reference(S, v)
    PROVE  /\ S # {}
           /\ \A e, f \in S : e.kind = "OPENED" /\ f.kind = "OPENED" => e = f
           /\ \A e, f \in S : e.kind = "CLOSED" /\ f.kind = "CLOSED" => e = f
           /\ v.quantity \in Nat
           /\ v.status \in {"open", "closed"}
<1>1. \A e, f \in S : e.kind = "CLOSED" /\ f.kind = "CLOSED" => e = f
  BY BeforeIsStrict DEF Reference, OfKind, Events
<1>2. S # {} /\ \A e, f \in S : e.kind = "OPENED" /\ f.kind = "OPENED" => e = f
  BY DEF Reference
<1>3. v.quantity \in Nat /\ v.status \in {"open", "closed"}
  BY DEF Reference
<1>. QED  BY <1>1, <1>2, <1>3

\* One more event can only take away.
LEMMA OneMoreEvent ==
    ASSUME NEW T, Events(T), NEW e \in T, NEW U, U = T \ {e},
           NEW u, Reference(U, u), NEW v, Reference(T, v)
    PROVE  /\ v.status = u.status \/ v.status = "closed"
           /\ v.quantity <= u.quantity
<1>1. Events(U)
  BY PartOfEvents
<1>2. PICK o \in U : o.kind = "OPENED"
  BY DEF Reference
<1>3. e.kind # "OPENED" /\ e.kind \in Kind /\ e.quantity \in Nat
  <2>1. \A f, g \in T : f.kind = "OPENED" /\ g.kind = "OPENED" => f = g
    BY ReferenceHas
  <2>. QED  BY <1>2, <2>1 DEF Events, Asserted
<1>4. u.quantity \in Nat /\ v.quantity \in Nat /\ u.status \in {"open", "closed"}
  <2>1. u.quantity \in Nat /\ u.status \in {"open", "closed"}
    BY <1>1, ReferenceHas
  <2>. QED  BY <2>1, ReferenceHas
<1>5. CASE e.kind = "CLOSED"
  <2>1. OfKind(T, "CLOSED") # {}
    BY <1>5 DEF OfKind
  <2>. QED  BY <1>4, <2>1 DEF Reference
<1>6. CASE e.kind = "REDUCED"
  <2>1. OfKind(T, "CLOSED") = OfKind(U, "CLOSED")
    BY <1>6 DEF OfKind
  <2>2. CASE OfKind(U, "CLOSED") # {}
    <3>1. v.quantity = 0 /\ v.status = "closed"
      BY <2>1, <2>2 DEF Reference
    <3>. QED  BY <1>4, <3>1
  <2>3. CASE OfKind(U, "CLOSED") = {}
    <3>1. Adds(T, U, e, "OPENED") /\ Adds(T, U, e, "REDUCED")
      BY AddedKind
    <3>2. /\ Remaining(T) = Remaining(U) - e.quantity /\ e.quantity # 0
          /\ Remaining(U) \in Nat /\ Remaining(T) \in Nat
      <4>1. e.quantity # 0
        BY <1>6 DEF Events, Asserted
      <4>2. Remaining(U) \in Nat /\ Remaining(T) \in Nat
        BY DEF Reference
      <4>3. Remaining(T) = Remaining(U) - e.quantity
        BY <1>3, <1>6, <3>1 DEF Adds, Remaining
      <4>. QED  BY <4>1, <4>2, <4>3
    <3>3. /\ u.quantity = Remaining(U) /\ u.status = IF Remaining(U) = 0 THEN "closed" ELSE "open"
          /\ v.quantity = Remaining(T) /\ v.status = IF Remaining(T) = 0 THEN "closed" ELSE "open"
      BY <2>1, <2>3 DEF Reference
    <3>. QED  BY <1>3, <3>2, <3>3
  <2>. QED  BY <2>2, <2>3
<1>. QED  BY <1>3, <1>5, <1>6 DEF Kind

\* The event that is stored for a candidate is one, and it folds with the events
\* of its position; that of a CLOSED one takes what is left before it.
Validated(S, candidate, dom, prior, e) ==
    /\ \A x \in dom : x # "quantity" => e[x] = candidate[x]
    /\ candidate.kind # "CLOSED" => e = candidate
    /\ \A f \in S : f.governance_id # candidate.governance_id
    /\ Folds(OfPosition(S, candidate.position) \cup {e})
    /\ e.quantity \in Nat
    /\ candidate.kind = "CLOSED" /\ prior # {} =>
          Folds(prior) /\ e.quantity = _fold_one_position(prior).quantity

LEMMA ValidatedEvent ==
    ASSUME NEW S, Events(S), NEW candidate, Asserted(candidate),
           NEW dom, candidate = [x \in dom |-> candidate[x]], "quantity" \in dom,
           NEW e \in validate_appended_event(S, candidate),
           NEW prior, prior = {f \in OfPosition(S, candidate.position) : Before(f, candidate)}
    PROVE  Validated(S, candidate, dom, prior, e)
<1>. DEFINE remaining == IF prior = {} THEN 0 ELSE _fold_one_position(prior).quantity
<1>1. /\ \A f \in S : f.governance_id # candidate.governance_id
      /\ candidate.kind = "CLOSED" /\ prior # {} => Folds(prior)
      /\ e = IF candidate.kind = "CLOSED" THEN [candidate EXCEPT !.quantity = remaining] ELSE candidate
      /\ Folds(OfPosition(S, candidate.position) \cup {e})
  BY DEF validate_appended_event
<1>2. candidate.kind = "CLOSED" => remaining \in Nat
  <2>1. SUFFICES ASSUME candidate.kind = "CLOSED", prior # {} PROVE _fold_one_position(prior).quantity \in Nat
    OBVIOUS
  <2>2. Events(prior)
    <3>1. prior \in SUBSET S
      BY DEF OfPosition
    <3>. QED  BY <3>1, PartOfEvents
  <2>3. Reference(prior, _fold_one_position(prior))
    BY <1>1, <2>1, <2>2, FoldsMeans
  <2>. QED  BY <2>2, <2>3, ReferenceHas
<1>. HIDE DEF remaining
<1>3. CASE candidate.kind = "CLOSED"
  <2>1. e = [candidate EXCEPT !.quantity = remaining]
    BY <1>1, <1>3
  <2>2. e.quantity = remaining /\ \A x \in dom : x # "quantity" => e[x] = candidate[x]
    BY <2>1
  <2>3. prior # {} => remaining = _fold_one_position(prior).quantity
    BY DEF remaining
  <2>. QED  BY <1>1, <1>2, <1>3, <2>2, <2>3 DEF Validated
<1>4. CASE candidate.kind # "CLOSED"
  BY <1>1, <1>4 DEF Asserted, Validated
<1>. QED  BY <1>3, <1>4

------------------------------------------------------------------------------
(* The ledger *)

\* Whoever is inside append_validated holds the lock of its position.
Exclusive ==
    /\ lock \in [Position -> Client \cup {NoClient}]
    /\ DOMAIN session = Client
    /\ session = [c \in Client |-> session[c]]
    /\ \A c \in Client :
          \/ session[c] = Idle
          \/ /\ session[c].at \in {"locked", "validated"}
             /\ session[c].position \in Position
             /\ lock[session[c].position] = c

\* The event of an open transaction still folds with what is stored.
Pending ==
    \A c \in Client : session[c].at = "validated" =>
        /\ session[c].event.position = session[c].position
        /\ Asserted(session[c].event)
        /\ Folds(OfPosition(events, session[c].position) \cup {session[c].event})

IInv == Exclusive /\ Pending /\ Events(events) /\ LedgerFolds

LEMMA IdleAt == Idle.at = "idle"
  BY DEF Idle

\* The end of a transaction leaves the others inside with their locks.
LEMMA EndStep ==
    ASSUME IInv, NEW c \in Client, End(c)
    PROVE  /\ Exclusive'
           /\ \A d \in Client : session'[d] = IF d = c THEN Idle ELSE session[d]
<1>1. \A d \in Client : session'[d] = IF d = c THEN Idle ELSE session[d]
  BY DEF IInv, Exclusive, End
<1>2. lock' \in [Position -> Client \cup {NoClient}]
  BY DEF IInv, Exclusive, End
<1>3. DOMAIN session' = Client /\ session' = [d \in Client |-> session'[d]]
  BY DEF IInv, Exclusive, End
<1>4. ASSUME NEW d \in Client, d # c, session[d] # Idle
      PROVE  lock'[session[d].position] = d
  BY <1>4 DEF IInv, Exclusive, End
<1>. QED  BY <1>1, <1>2, <1>3, <1>4 DEF IInv, Exclusive

LEMMA AcquireStep ==
    ASSUME IInv, NEW c \in Client, NEW p \in Position, Acquire(c, p)
    PROVE  IInv'
<1>. DEFINE s == [at |-> "locked", position |-> p]
<1>1. \A d \in Client : session'[d] = IF d = c THEN s ELSE session[d]
  BY DEF IInv, Exclusive, Acquire
<1>2. DOMAIN session' = Client /\ session' = [d \in Client |-> session'[d]]
  BY DEF IInv, Exclusive, Acquire
<1>3. lock' \in [Position -> Client \cup {NoClient}] /\ lock'[p] = c
  BY DEF IInv, Exclusive, Acquire
<1>4. ASSUME NEW d \in Client, d # c, session[d] # Idle
      PROVE  lock'[session[d].position] = d
  BY <1>4, LedgerAssumption DEF IInv, Exclusive, Acquire
<1>5. Exclusive'
  BY <1>1, <1>2, <1>3, <1>4 DEF IInv, Exclusive
<1>6. Pending'
  BY <1>1 DEF IInv, Pending, Acquire
<1>7. Events(events') /\ LedgerFolds'
  BY DEF IInv, LedgerFolds, Acquire
<1>. QED  BY <1>5, <1>6, <1>7 DEF IInv

\* What is stored for a candidate folds with the events of its position.
LEMMA ValidatedFolds ==
    ASSUME Events(events), NEW candidate \in Candidate,
           NEW e \in validate_appended_event(events, candidate)
    PROVE  /\ e.position = candidate.position
           /\ Asserted(e)
           /\ Folds(OfPosition(events, candidate.position) \cup {e})
<1>. DEFINE dom == {"governance_id", "position", "instrument", "kind", "quantity", "event_timestamp"}
<1>1. candidate = [x \in dom |-> candidate[x]] /\ "quantity" \in dom
  BY DEF Candidate, OperatorAssertedPositionEvent
<1>2. Asserted(candidate)
  <2>1. /\ candidate.governance_id \in EventId /\ candidate.event_timestamp \in 0..MaxInstant
        /\ candidate.kind \in Kind /\ candidate.quantity \in 0..MaxQuantity
        /\ candidate.kind # "CLOSED" => candidate.quantity > 0
    BY DEF Candidate, OperatorAssertedPositionEvent, Instant
  <2>2. candidate.governance_id \in Nat
    BY <2>1, EventsAssumption
  <2>3. candidate.event_timestamp \in Nat /\ candidate.quantity \in Nat
    BY <2>1
  <2>. QED  BY <2>1, <2>2, <2>3 DEF Asserted
<1>3. PICK prior : prior = {f \in OfPosition(events, candidate.position) : Before(f, candidate)}
  OBVIOUS
<1>4. PICK S : S = events
  OBVIOUS
<1>. HIDE DEF dom
<1>5. Validated(S, candidate, dom, prior, e)
  BY <1>1, <1>2, <1>3, <1>4, ValidatedEvent
<1>6. /\ e.position = candidate.position /\ e.kind = candidate.kind
      /\ e.event_timestamp = candidate.event_timestamp /\ e.governance_id = candidate.governance_id
  BY <1>5 DEF dom, Validated
<1>. QED  BY <1>2, <1>4, <1>5, <1>6 DEF Asserted, Validated

LEMMA ValidateStep ==
    ASSUME IInv, NEW c \in Client, NEW candidate \in Candidate, Validate(c, candidate)
    PROVE  IInv'
<1>1. Events(events') /\ LedgerFolds'
  BY DEF IInv, LedgerFolds, Validate
<1>2. CASE End(c)
  <2>1. Pending'
    BY <1>2, EndStep, IdleAt DEF IInv, Pending, Validate
  <2>. QED  BY <1>1, <1>2, <2>1, EndStep DEF IInv
<1>3. ASSUME NEW e \in validate_appended_event(events, candidate),
             session' = [session EXCEPT ![c] =
                           [at |-> "validated", position |-> e.position, event |-> e]],
             UNCHANGED lock
      PROVE  IInv'
  <2>1. /\ \A d \in Client : session'[d] =
              IF d = c THEN [at |-> "validated", position |-> e.position, event |-> e]
              ELSE session[d]
        /\ DOMAIN session' = Client
        /\ session' = [d \in Client |-> session'[d]]
    BY <1>3 DEF IInv, Exclusive
  <2>2. /\ e.position = candidate.position /\ Asserted(e)
        /\ Folds(OfPosition(events, candidate.position) \cup {e})
    BY ValidatedFolds DEF IInv
  <2>3. e.position = session[c].position /\ session[c] # Idle
    BY <2>2, IdleAt DEF Validate
  <2>4. Exclusive'
    BY <1>3, <2>1, <2>3 DEF IInv, Exclusive
  <2>5. Pending'
    BY <2>1, <2>2 DEF IInv, Pending, Validate
  <2>. QED  BY <1>1, <2>4, <2>5 DEF IInv
<1>. QED  BY <1>2, <1>3 DEF Validate

\* What an insert finds: its own validation, still good.
Inserts(c, e, p) ==
    /\ p \in Position /\ lock[p] = c
    /\ e.position = p /\ Asserted(e)
    /\ Folds(OfPosition(events, p) \cup {e})
    /\ \/ events' = events
       \/ events' = events \cup {e} /\ \A f \in events : f.governance_id # e.governance_id

LEMMA InsertedEvent ==
    ASSUME IInv, NEW c \in Client, _insert(c), NEW e, e = session[c].event,
           NEW p, p = session[c].position
    PROVE  Inserts(c, e, p)
  BY IdleAt DEF IInv, Exclusive, Pending, Inserts, _insert

LEMMA InsertStep ==
    ASSUME IInv, NEW c \in Client, _insert(c)
    PROVE  IInv'
<1>1. Exclusive' /\ \A d \in Client : session'[d] = IF d = c THEN Idle ELSE session[d]
  BY EndStep DEF _insert
<1>2. PICK e, p : e = session[c].event /\ p = session[c].position
  OBVIOUS
<1>3. /\ p \in Position /\ lock[p] = c
      /\ e.position = p /\ Asserted(e)
      /\ Folds(OfPosition(events, p) \cup {e})
      /\ \/ events' = events
         \/ events' = events \cup {e} /\ \A f \in events : f.governance_id # e.governance_id
  <2>1. Inserts(c, e, p)
    BY <1>2, InsertedEvent
  <2>. QED  BY <2>1 DEF Inserts
<1>4. CASE events' = events
  BY <1>1, <1>4, IdleAt DEF IInv, Pending, LedgerFolds
<1>5. CASE events' = events \cup {e} /\ \A f \in events : f.governance_id # e.governance_id
  <2>1. Events(events')
    BY <1>3, <1>5, AddedEvent DEF IInv
  <2>2. \A q \in Position : OfPosition(events', q) =
            IF q = p THEN OfPosition(events, q) \cup {e} ELSE OfPosition(events, q)
    BY <1>3, <1>5 DEF OfPosition
  <2>3. LedgerFolds'
    BY <1>3, <2>2 DEF IInv, LedgerFolds
  <2>4. ASSUME NEW d \in Client, session'[d].at = "validated"
        PROVE  /\ session'[d].event.position = session'[d].position
               /\ Asserted(session'[d].event)
               /\ Folds(OfPosition(events', session'[d].position) \cup {session'[d].event})
    <3>1. d # c /\ session'[d] = session[d]
      BY <1>1, <2>4, IdleAt
    <3>2. session[d].position \in Position /\ session[d].position # p
      BY <1>2, <1>3, <2>4, <3>1, IdleAt DEF IInv, Exclusive
    <3>. QED  BY <2>2, <2>4, <3>1, <3>2 DEF IInv, Pending
  <2>5. Pending'
    BY <2>4 DEF Pending
  <2>. QED  BY <1>1, <2>1, <2>3, <2>5 DEF IInv
<1>. QED  BY <1>3, <1>4, <1>5

LEMMA DieStep ==
    ASSUME IInv, NEW c \in Client, Die(c)
    PROVE  IInv'
<1>1. Exclusive' /\ \A d \in Client : session'[d] = IF d = c THEN Idle ELSE session[d]
  BY EndStep DEF Die
<1>. QED  BY <1>1, IdleAt DEF IInv, Pending, LedgerFolds, Die

LEMMA NoEvents == Events({})
  BY FS_EmptySet DEF Events, Log

LEMMA InitIInv == Init => IInv
<1>. SUFFICES ASSUME Init PROVE IInv
  OBVIOUS
<1>1. Events(events)
  BY NoEvents DEF Init
<1>2. LedgerFolds
  BY DEF Init, LedgerFolds, OfPosition
<1>3. Exclusive /\ Pending
  BY IdleAt DEF Init, Exclusive, Pending
<1>. QED  BY <1>1, <1>2, <1>3 DEF IInv

LEMMA NextIInv == IInv /\ [Next]_vars => IInv'
<1>. SUFFICES ASSUME IInv, [Next]_vars PROVE IInv'
  OBVIOUS
<1>1. CASE Next
  BY <1>1, AcquireStep, ValidateStep, InsertStep, DieStep DEF Next, append_validated
<1>2. CASE UNCHANGED vars
  BY <1>2 DEF IInv, Exclusive, Pending, LedgerFolds, vars
<1>. QED  BY <1>1, <1>2

LEMMA Invariance == Spec => []IInv
  BY InitIInv, NextIInv, PTL DEF Spec

\* Two writers never store the same identity, whether or not their locks meet.
THEOREM IdentitiesAreUnique == Spec => []OneEventPerId
<1>1. IInv => OneEventPerId
  BY DEF IInv, Events, Log, OneEventPerId
<1>. QED  BY <1>1, Invariance, PTL

\* The advisory lock, held from the read to the commit, makes the validation
\* of append_validated good for the insert: the ledger always folds.
THEOREM LedgerStaysCoherent == Spec => []LedgerFolds
<1>1. IInv => LedgerFolds
  BY DEF IInv
<1>. QED  BY <1>1, Invariance, PTL

\* What was coherent as a whole is coherent at every instant.
LEMMA ConsideredFolds ==
    ASSUME NEW S, Events(S), NEW p, Folds(OfPosition(S, p)), NEW t \in Nat,
           NEW T, T = OfPosition(Considered(S, t), p), T # {}
    PROVE  Events(T) /\ Reference(T, _fold_one_position(T))
<1>1. PICK P : P = OfPosition(S, p)
  OBVIOUS
<1>2. Events(P) /\ T \in SUBSET P
  <2>1. P \in SUBSET S /\ T \in SUBSET P
    BY <1>1 DEF OfPosition, Considered
  <2>. QED  BY <2>1, PartOfEvents
<1>3. \A e \in T, f \in P \ T : Before(e, f)
  BY <1>1, <1>2 DEF OfPosition, Considered, Before, _order_key, Events, Log
<1>4. Folds(T)
  BY <1>1, <1>2, <1>3, FoldsBefore
<1>5. Events(T)
  BY <1>2, PartOfEvents
<1>. QED  BY <1>4, <1>5, FoldsMeans

\* What is derived at an instant is what the events up to it say, the loop
\* aside.
THEOREM StatesAreDerivable == Spec => []DerivesReference
<1>1. IInv => DerivesReference
  <2>. SUFFICES ASSUME IInv, NEW p \in Position, NEW t \in Instant,
                       OfPosition(Considered(events, t), p) # {}
                PROVE  LET considered == OfPosition(Considered(events, t), p)
                           remaining == Remaining(considered)
                           closing == OfKind(considered, "CLOSED")
                           state == derive_position_state(events, p, t)
                       IN  /\ \E e \in considered :
                                 /\ e.kind = "OPENED"
                                 /\ \A f \in considered \ {e} :
                                       Before(e, f) /\ f.kind # "OPENED" /\ f.instrument = e.instrument
                           /\ \A e \in closing : \A f \in considered \ {e} : Before(f, e)
                           /\ state.status = IF closing # {} \/ remaining = 0 THEN "closed" ELSE "open"
                           /\ state.quantity = IF closing # {} THEN 0 ELSE remaining
    BY DEF DerivesReference, OfKind, Remaining
  <2>1. PICK S, T, v : /\ S = events /\ T = OfPosition(Considered(S, t), p)
                       /\ v = _fold_one_position(T)
    OBVIOUS
  <2>2. Events(S) /\ Folds(OfPosition(S, p)) /\ t \in Nat
    <3>1. OfPosition(events, p) # {}
      BY DEF OfPosition, Considered
    <3>. QED  BY <2>1, <3>1, EventsAssumption DEF IInv, LedgerFolds, Instant
  <2>3. Reference(T, v)
    BY <2>1, <2>2, ConsideredFolds
  <2>4. derive_position_state(events, p, t) = v
    BY <2>1 DEF derive_position_state
  <2>. QED  BY <2>1, <2>3, <2>4 DEF Reference
<1>. QED  BY <1>1, Invariance, PTL

\* Adding one event to a coherent position.
LEMMA InsertShrinks ==
    ASSUME NEW S, Events(S), NEW e, Asserted(e), \A f \in S : f.governance_id # e.governance_id,
           NEW p, NEW t \in Nat,
           OfPosition(S, p) # {} => Folds(OfPosition(S, p)),
           Folds(OfPosition(S, e.position) \cup {e}),
           NEW u, u = derive_position_state(S, p, t), u.status # "none",
           NEW v, v = derive_position_state(S \cup {e}, p, t)
    PROVE  /\ v.status = u.status \/ v.status = "closed"
           /\ v.quantity <= u.quantity
<1>1. PICK S2, T, T2 : /\ S2 = S \cup {e}
                       /\ T = OfPosition(Considered(S, t), p)
                       /\ T2 = OfPosition(Considered(S2, t), p)
  OBVIOUS
<1>2. u = _fold_one_position(T) /\ v = _fold_one_position(T2)
  BY <1>1 DEF derive_position_state
<1>3. Events(S2) /\ e \notin S
  BY <1>1, AddedEvent
<1>4. T # {}
  <2>1. Log({})
    BY NoEvents DEF Events
  <2>2. _fold_one_position({}) = NotOpened
    BY <2>1, FoldStep
  <2>. QED  BY <1>2, <2>2 DEF NotOpened
<1>5. Folds(OfPosition(S, p))
  BY <1>1, <1>4 DEF OfPosition, Considered
<1>6. Reference(T, u)
  BY <1>1, <1>2, <1>4, <1>5, ConsideredFolds
<1>7. CASE e.position = p /\ e.event_timestamp <= t
  <2>1. OfPosition(S2, p) = OfPosition(S, e.position) \cup {e}
    BY <1>1, <1>7 DEF OfPosition
  <2>2. T = T2 \ {e} /\ e \in T2
    BY <1>1, <1>3, <1>7 DEF OfPosition, Considered
  <2>3. Folds(OfPosition(S2, p))
    BY <2>1
  <2>4. T2 # {}
    BY <2>2
  <2>5. Events(T2) /\ Reference(T2, v)
    BY <1>1, <1>2, <1>3, <2>3, <2>4, ConsideredFolds
  <2>. QED  BY <1>6, <2>2, <2>5, OneMoreEvent
<1>8. CASE ~(e.position = p /\ e.event_timestamp <= t)
  <2>1. T2 = T
    BY <1>1, <1>8 DEF OfPosition, Considered
  <2>2. Events(T)
    BY <1>1, <1>4, <1>5, ConsideredFolds
  <2>3. u.quantity \in Nat
    BY <1>6, <2>2, ReferenceHas
  <2>. QED  BY <1>2, <2>1, <2>3
<1>. QED  BY <1>7, <1>8

\* A back-dated assertion can only take away from what a position was.
THEOREM LateAssertionsShrink == Spec => ExposureOnlyShrinks
<1>. DEFINE Shrinks(p, t) == LET then == derive_position_state(events, p, t)
                                 now == derive_position_state(events', p, t)
                             IN  then.status # "none" =>
                                   /\ now.status = then.status \/ now.status = "closed"
                                   /\ now.quantity <= then.quantity
<1>1. ASSUME IInv, NEW c \in Client, _insert(c), events' # events, NEW p \in Position, NEW t \in Instant
      PROVE  Shrinks(p, t)
  <2>1. SUFFICES ASSUME derive_position_state(events, p, t).status # "none" PROVE Shrinks(p, t)
    OBVIOUS
  <2>2. PICK S, e, q : S = events /\ e = session[c].event /\ q = session[c].position
    OBVIOUS
  <2>3. /\ e.position = q /\ Asserted(e)
        /\ Folds(OfPosition(S, q) \cup {e})
        /\ events' = S \cup {e} /\ \A f \in S : f.governance_id # e.governance_id
    <3>1. Inserts(c, e, q)
      BY <1>1, <2>2, InsertedEvent
    <3>. QED  BY <1>1, <2>2, <3>1 DEF Inserts
  <2>4. Events(S) /\ (OfPosition(S, p) # {} => Folds(OfPosition(S, p))) /\ t \in Nat
    BY <1>1, <2>2, EventsAssumption DEF IInv, LedgerFolds, Instant
  <2>5. PICK u, v : u = derive_position_state(S, p, t) /\ v = derive_position_state(S \cup {e}, p, t)
    OBVIOUS
  <2>6. (v.status = u.status \/ v.status = "closed") /\ v.quantity <= u.quantity
    BY <2>1, <2>2, <2>3, <2>4, <2>5, InsertShrinks
  <2>. QED  BY <2>2, <2>3, <2>5, <2>6
<1>2. ASSUME IInv, [Next]_vars, events' # events
      PROVE  \E c \in Client : _insert(c)
  BY <1>2 DEF Next, append_validated, Acquire, Validate, Die, vars
<1>3. IInv /\ [Next]_vars =>
        [\A p \in Position, t \in Instant : Shrinks(p, t)]_events
  <2>. HIDE DEF Shrinks
  <2>1. SUFFICES ASSUME IInv, [Next]_vars, events' # events, NEW p \in Position, NEW t \in Instant
                 PROVE  Shrinks(p, t)
    OBVIOUS
  <2>2. PICK c \in Client : _insert(c)
    BY <1>2, <2>1
  <2>. QED  BY <1>1, <2>1, <2>2, Zenon
<1>. QED  BY <1>3, Invariance, PTL DEF Spec, ExposureOnlyShrinks

------------------------------------------------------------------------------
(* The reports *)

\* What is stored is coherent, and only an opening cites a plan.
Kept ==
    /\ Events(ledger)
    /\ \A e \in ledger : /\ e.recorded_at \in Nat
                         /\ e.kind # "OPENED" => e.plan = None
                         /\ Folds(OfPosition(ledger, e.position))
    /\ approved_plans \in SessionPlans

\* What was written down in order was recorded in order, and a position was
\* closed with what was left of it.
Orderly(S) ==
    /\ \A e, f \in S : Before(e, f) => e.recorded_at <= f.recorded_at
    /\ \A e \in OfKind(S, "CLOSED") : e.quantity = Remaining(OfPosition(S, e.position))

ReportsInv == Kept /\ (in_order => Orderly(ledger))

\* An assertion as a candidate, and what is stored for it.
LEMMA StoredAssertion ==
    ASSUME NEW S, Events(S), NEW candidate \in Assertion,
           NEW e \in validate_appended_event(S, candidate),
           NEW prior, prior = {f \in OfPosition(S, candidate.position) : Before(f, candidate)}
    PROVE  /\ Asserted(e)
           /\ e.recorded_at \in Nat /\ (e.kind # "OPENED" => e.plan = None)
           /\ e.position = candidate.position /\ e.kind = candidate.kind
           /\ e.event_timestamp = candidate.event_timestamp /\ e.governance_id = candidate.governance_id
           /\ e.recorded_at = candidate.recorded_at
           /\ \A f \in S : f.governance_id # e.governance_id
           /\ Folds(OfPosition(S, e.position) \cup {e})
           /\ e.kind = "CLOSED" /\ prior # {} =>
                 Folds(prior) /\ e.quantity = _fold_one_position(prior).quantity
<1>. DEFINE dom == {"governance_id", "position", "instrument", "kind", "quantity",
                    "event_timestamp", "recorded_at", "price", "plan"}
<1>1. candidate = [x \in dom |-> candidate[x]] /\ "quantity" \in dom
  BY DEF Assertion
<1>2. Asserted(candidate) /\ candidate.recorded_at \in Nat /\ (candidate.kind # "OPENED" => candidate.plan = None)
  <2>1. /\ candidate.governance_id \in EventId /\ candidate.event_timestamp \in 0..MaxInstant
        /\ candidate.kind \in Kind /\ candidate.quantity \in 0..MaxQuantity
        /\ candidate.kind = "CLOSED" <=> candidate.quantity = 0
        /\ candidate.recorded_at \in 0..MaxInstant
        /\ candidate.kind # "OPENED" => candidate.plan = None
    BY DEF Assertion, Instant
  <2>2. candidate.governance_id \in Nat
    BY <2>1, EventsAssumption
  <2>3. candidate.event_timestamp \in Nat /\ candidate.quantity \in Nat /\ candidate.recorded_at \in Nat
    BY <2>1
  <2>. QED  BY <2>1, <2>2, <2>3 DEF Asserted
<1>. HIDE DEF dom
<1>3. Validated(S, candidate, dom, prior, e)
  BY <1>1, <1>2, ValidatedEvent
<1>4. /\ e.position = candidate.position /\ e.kind = candidate.kind
      /\ e.event_timestamp = candidate.event_timestamp /\ e.governance_id = candidate.governance_id
      /\ e.recorded_at = candidate.recorded_at /\ e.plan = candidate.plan
  BY <1>3 DEF dom, Validated
<1>5. Asserted(e)
  BY <1>2, <1>3, <1>4 DEF Asserted, Validated
<1>. QED  BY <1>2, <1>3, <1>4, <1>5 DEF Validated

\* An event written down after all the others keeps the ledger in order.
LEMMA StoredInOrder ==
    ASSUME NEW S, Events(S), Orderly(S), NEW e, Asserted(e),
           \A f \in S : f.governance_id # e.governance_id,
           Folds(OfPosition(S, e.position) \cup {e}),
           \A f \in S : Before(f, e) /\ f.recorded_at <= e.recorded_at,
           NEW prior, prior = OfPosition(S, e.position),
           e.kind = "CLOSED" /\ prior # {} => Folds(prior) /\ e.quantity = _fold_one_position(prior).quantity,
           e.recorded_at \in Nat, NEW S2, S2 = S \cup {e}
    PROVE  Orderly(S2)
<1>1. Events(S2) /\ e \notin S
  BY AddedEvent
<1>2. ASSUME NEW f \in S2, NEW g \in S2, Before(f, g)  PROVE f.recorded_at <= g.recorded_at
  <2>1. CASE f \in S /\ g \in S
    BY <1>2, <2>1 DEF Orderly
  <2>2. CASE f \in S /\ g = e
    BY <2>2
  <2>3. CASE f = e
    <3>1. f = g \/ Before(g, f)
      BY <2>3
    <3>2. f = g
      BY <1>1, <1>2, <3>1, BeforeIsStrict DEF Events
    <3>. QED  BY <2>3, <3>2
  <2>. QED  BY <2>1, <2>2, <2>3
<1>3. PICK T, v : T = OfPosition(S2, e.position) /\ v = _fold_one_position(T)
  OBVIOUS
<1>4. T = prior \cup {e} /\ prior = T \ {e} /\ e \in T /\ e \notin prior
  BY <1>1, <1>3 DEF OfPosition
<1>5. Events(T) /\ Events(prior) /\ Reference(T, v)
  <2>1. T \in SUBSET S2 /\ prior \in SUBSET S2
    BY <1>3 DEF OfPosition
  <2>2. Events(T) /\ Events(prior)
    BY <1>1, <2>1, PartOfEvents
  <2>3. Folds(T) /\ T # {}
    BY <1>4
  <2>. QED  BY <1>3, <2>2, <2>3, FoldsMeans
<1>6. \A f \in prior : Before(f, e)
  BY DEF OfPosition
<1>7. OfKind(prior, "CLOSED") = {}
  <2>1. SUFFICES ASSUME NEW f \in OfKind(prior, "CLOSED") PROVE FALSE
    OBVIOUS
  <2>2. f \in prior /\ f \in T /\ f # e /\ f \in OfKind(T, "CLOSED")
    BY <1>4, <2>1 DEF OfKind
  <2>3. Before(e, f)
    BY <1>4, <1>5, <2>2 DEF Reference
  <2>4. Before(f, e)
    BY <1>6, <2>2
  <2>. QED  BY <1>4, <1>5, <2>2, <2>3, <2>4, BeforeIsStrict DEF Events
<1>8. ASSUME e.kind = "CLOSED"  PROVE e.quantity = Remaining(T)
  <2>1. prior # {}
    <3>1. PICK o \in T : o.kind = "OPENED"
      BY <1>5 DEF Reference
    <3>. QED  BY <1>4, <1>8, <3>1
  <2>2. PICK u : u = _fold_one_position(prior)
    OBVIOUS
  <2>3. Reference(prior, u) /\ e.quantity = u.quantity
    BY <1>5, <1>8, <2>1, <2>2, FoldsMeans
  <2>4. u.quantity = Remaining(prior)
    BY <1>7, <2>3 DEF Reference
  <2>5. OfKind(T, "OPENED") = OfKind(prior, "OPENED") /\ OfKind(T, "REDUCED") = OfKind(prior, "REDUCED")
    BY <1>4, <1>8 DEF OfKind
  <2>6. Remaining(T) = Remaining(prior)
    BY <2>5 DEF Remaining
  <2>. QED  BY <2>3, <2>4, <2>6
<1>9. ASSUME NEW c \in OfKind(S2, "CLOSED")  PROVE c.quantity = Remaining(OfPosition(S2, c.position))
  <2>1. CASE c = e
    BY <1>3, <1>8, <1>9, <2>1 DEF OfKind
  <2>2. CASE c # e
    <3>1. c \in S /\ c \in OfKind(S, "CLOSED")
      BY <1>9, <2>2 DEF OfKind
    <3>2. c.position # e.position
      BY <1>7, <3>1 DEF OfKind, OfPosition
    <3>3. OfPosition(S2, c.position) = OfPosition(S, c.position)
      BY <3>2 DEF OfPosition
    <3>. QED  BY <3>1, <3>3 DEF Orderly
  <2>. QED  BY <2>1, <2>2
<1>. QED  BY <1>2, <1>9 DEF Orderly

LEMMA AppendStep ==
    ASSUME ReportsInv, NEW candidate \in Assertion, append(candidate)
    PROVE  ReportsInv'
<1>1. PICK S : S = ledger
  OBVIOUS
<1>2. PICK e \in validate_appended_event(S, candidate) : ledger' = S \cup {e}
  BY <1>1 DEF append
<1>3. PICK prior : prior = {f \in OfPosition(S, candidate.position) : Before(f, candidate)}
  OBVIOUS
<1>4. Events(S)
  BY <1>1 DEF ReportsInv, Kept
<1>5. /\ Asserted(e)
      /\ e.recorded_at \in Nat /\ (e.kind # "OPENED" => e.plan = None)
      /\ e.position = candidate.position /\ e.kind = candidate.kind
      /\ e.event_timestamp = candidate.event_timestamp /\ e.governance_id = candidate.governance_id
      /\ e.recorded_at = candidate.recorded_at
      /\ \A f \in S : f.governance_id # e.governance_id
      /\ Folds(OfPosition(S, e.position) \cup {e})
      /\ e.kind = "CLOSED" /\ prior # {} =>
            Folds(prior) /\ e.quantity = _fold_one_position(prior).quantity
  BY <1>2, <1>3, <1>4, StoredAssertion
<1>6. Events(S \cup {e})
  BY <1>4, <1>5, AddedEvent
<1>7. Kept'
  <2>1. \A f \in S \cup {e} : OfPosition(S \cup {e}, f.position) =
           IF f.position = e.position THEN OfPosition(S, e.position) \cup {e} ELSE OfPosition(S, f.position)
    BY DEF OfPosition
  <2>2. ASSUME NEW f \in S \cup {e}
        PROVE  /\ f.recorded_at \in Nat
               /\ f.kind # "OPENED" => f.plan = None
               /\ Folds(OfPosition(S \cup {e}, f.position))
    BY <1>1, <1>5, <2>1 DEF ReportsInv, Kept
  <2>3. approved_plans' \in SessionPlans
    BY DEF append, ReportsInv, Kept
  <2>. QED  BY <1>2, <1>6, <2>2, <2>3 DEF Kept
<1>8. ASSUME in_order'  PROVE Orderly(ledger')
  <2>1. in_order /\ \A f \in S : Before(f, candidate) /\ f.recorded_at <= candidate.recorded_at
    BY <1>1, <1>8, Zenon DEF append
  <2>2. Orderly(S)
    BY <1>1, <2>1 DEF ReportsInv
  <2>3. \A f \in S : Before(f, e) /\ f.recorded_at <= e.recorded_at
    BY <1>5, <2>1 DEF Before, _order_key
  <2>4. prior = OfPosition(S, e.position)
    BY <1>3, <1>5, <2>1 DEF OfPosition
  <2>. QED  BY <1>2, <1>4, <1>5, <2>2, <2>3, <2>4, StoredInOrder
<1>. QED  BY <1>7, <1>8 DEF ReportsInv

LEMMA ReportsInvariance == ReportsSpec => []ReportsInv
<1>1. ReportsInit => ReportsInv
  <2>. SUFFICES ASSUME ReportsInit PROVE ReportsInv
    OBVIOUS
  <2>1. Events(ledger) /\ ledger = {} /\ approved_plans \in SessionPlans
    BY NoEvents DEF ReportsInit
  <2>2. Orderly({})
    BY DEF Orderly, OfKind
  <2>. QED  BY <2>1, <2>2 DEF ReportsInv, Kept
<1>2. ReportsInv /\ [ReportsNext]_reportvars => ReportsInv'
  <2>. SUFFICES ASSUME ReportsInv, [ReportsNext]_reportvars PROVE ReportsInv'
    OBVIOUS
  <2>1. CASE ReportsNext
    BY <2>1, AppendStep DEF ReportsNext
  <2>2. CASE UNCHANGED reportvars
    BY <2>2 DEF ReportsInv, Kept, reportvars
  <2>. QED  BY <2>1, <2>2
<1>. QED  BY <1>1, <1>2, PTL DEF ReportsSpec

\* A report at a knowledge cutoff depends on what was recorded by it, and on
\* nothing else that is or will be in the ledger.
THEOREM FirewallHolds == ReportsSpec => KnowledgeFirewall
<1>. DEFINE Firewall(k, t) ==
              (\A e \in Appended : e.recorded_at > k) =>
                 /\ GetOperatorEvidenceSnapshotHandler(t, k)'
                      = GetOperatorEvidenceSnapshotHandler(t, k)
                 /\ GetAssertedRoundTripReportHandler(t, k)'
                      = GetAssertedRoundTripReportHandler(t, k)
<1>1. ASSUME ReportsInv, [ReportsNext]_reportvars, NEW k \in Instant, NEW t \in Instant,
             \A e \in Appended : e.recorded_at > k
      PROVE  events_known_by(ledger', k) = events_known_by(ledger, k)
  <2>1. ledger \subseteq ledger'
    BY <1>1 DEF ReportsNext, append, reportvars
  <2>2. \A e \in ledger' \ ledger : ~(e.recorded_at <= k)
    <3>1. \A e \in ledger' \ ledger : e.recorded_at \in Nat /\ e.recorded_at > k
      <4>1. ReportsInv'
        BY <1>1, AppendStep DEF ReportsNext, reportvars, ReportsInv, Kept
      <4>. QED  BY <1>1, <4>1 DEF ReportsInv, Kept, Appended
    <3>2. k \in Nat
      BY EventsAssumption DEF Instant
    <3>. QED  BY <3>1, <3>2
  <2>. QED  BY <2>1, <2>2 DEF events_known_by
<1>2. ASSUME ReportsInv, [ReportsNext]_reportvars, NEW k \in Instant, NEW t \in Instant
      PROVE  Firewall(k, t)
  <2>1. SUFFICES ASSUME \A e \in Appended : e.recorded_at > k PROVE Firewall(k, t)
    OBVIOUS
  <2>2. events_known_by(ledger', k) = events_known_by(ledger, k)
    BY <1>1, <1>2, <2>1
  <2>. QED  BY <2>2 DEF GetOperatorEvidenceSnapshotHandler, GetAssertedRoundTripReportHandler,
                        build_operator_evidence_snapshot, build_asserted_round_trip_report
<1>3. ReportsInv /\ [ReportsNext]_reportvars =>
        [\A k \in Instant, t \in Instant : Firewall(k, t)]_reportvars
  <2>. HIDE DEF Firewall
  <2>. QED  BY <1>2
<1>. QED  BY <1>3, ReportsInvariance, PTL DEF ReportsSpec, KnowledgeFirewall

\* What is visible of a position that was written down in order is its
\* beginning, so it folds; and when its closing is visible all of it is.
LEMMA VisibleInOrder ==
    ASSUME NEW S, Events(S), Orderly(S), \A e \in S : e.recorded_at \in Nat,
           NEW p, Folds(OfPosition(S, p)), NEW t \in Nat, NEW k \in Nat,
           NEW V, V = OfPosition(Considered(events_known_by(S, k), t), p), V # {},
           NEW v, v = _fold_one_position(V)
    PROVE  /\ Events(V) /\ Reference(V, v)
           /\ \A e \in OfKind(V, "CLOSED") : e.quantity = Remaining(V)
<1>1. PICK P, w : P = OfPosition(S, p) /\ w = _fold_one_position(P)
  OBVIOUS
<1>2. V \in SUBSET P /\ P \in SUBSET S /\ P # {}
  BY <1>1 DEF OfPosition, Considered, events_known_by
<1>3. Events(P) /\ Events(V)
  <2>1. Events(P)
    BY <1>2, PartOfEvents
  <2>. QED  BY <1>2, <2>1, PartOfEvents
<1>4. ASSUME NEW e \in V, NEW f \in P \ V  PROVE Before(e, f)
  <2>1. SUFFICES ASSUME Before(f, e) PROVE FALSE
    BY <1>2, <1>3, <1>4, BeforeIsStrict DEF Events
  <2>2. f.recorded_at <= e.recorded_at
    BY <1>2, <1>4, <2>1 DEF Orderly
  <2>3. f.event_timestamp <= e.event_timestamp /\ f.event_timestamp \in Nat /\ e.event_timestamp \in Nat
    BY <1>2, <1>3, <1>4, <2>1 DEF Before, _order_key, Events, Log
  <2>4. e.recorded_at <= k /\ e.event_timestamp <= t /\ e.recorded_at \in Nat /\ f.recorded_at \in Nat
    BY <1>2, <1>4 DEF OfPosition, Considered, events_known_by
  <2>5. f.recorded_at <= k /\ f.event_timestamp <= t
    BY <2>2, <2>3, <2>4
  <2>. QED  BY <1>1, <1>4, <2>5 DEF OfPosition, Considered, events_known_by
<1>5. Folds(V)
  BY <1>1, <1>2, <1>3, <1>4, FoldsBefore
<1>6. Reference(V, v)
  BY <1>3, <1>5, FoldsMeans
<1>7. Reference(P, w)
  BY <1>1, <1>2, <1>3, FoldsMeans
<1>8. ASSUME NEW e \in OfKind(V, "CLOSED")  PROVE e.quantity = Remaining(V)
  <2>1. e \in V /\ e \in P /\ e \in S /\ e \in OfKind(P, "CLOSED") /\ e \in OfKind(S, "CLOSED") /\ e.position = p
    BY <1>1, <1>2, <1>8 DEF OfKind, OfPosition
  <2>2. P = V
    <3>1. SUFFICES ASSUME NEW f \in P \ V PROVE FALSE
      BY <1>2
    <3>2. Before(e, f)
      BY <1>4, <2>1
    <3>3. f # e
      BY <2>1
    <3>4. Before(f, e)
      BY <1>7, <2>1, <3>3 DEF Reference
    <3>. QED  BY <1>3, <2>1, <3>2, <3>4, BeforeIsStrict DEF Events
  <2>3. e.quantity = Remaining(OfPosition(S, e.position))
    BY <2>1 DEF Orderly
  <2>. QED  BY <1>1, <2>1, <2>2, <2>3
<1>. QED  BY <1>3, <1>6, <1>8

\* Then what was opened is what the exits took and what is left.
LEMMA ExitsAddUp ==
    ASSUME NEW V, Events(V), NEW v, Reference(V, v),
           \A e \in OfKind(V, "CLOSED") : e.quantity = Remaining(V),
           NEW exits, exits = {e \in V : e.kind \in {"REDUCED", "CLOSED"}}
    PROVE  /\ Total(exits) \in Nat
           /\ _opening_of(V).quantity - Total(exits) - v.quantity = 0
<1>1. PICK o \in V : o.kind = "OPENED" /\ \A f \in V \ {o} : f.kind # "OPENED"
  BY DEF Reference
<1>2. _opening_of(V) = o /\ OfKind(V, "OPENED") = {o}
  BY <1>1 DEF _opening_of, OfKind
<1>3. IsFiniteSet(V) /\ \A e \in V : e.quantity \in Nat
  BY DEF Events, Log, Asserted
<1>4. Total({o}) = o.quantity /\ o.quantity \in Nat
  <2>1. IsFiniteSet({o}) /\ {o} \ {o} = {} /\ IsFiniteSet({})
    BY <1>3, FS_Subset, FS_EmptySet
  <2>2. Total({}) = 0
    BY <2>1, TotalOf
  <2>3. Total({o}) = o.quantity + Total({o} \ {o}) /\ o.quantity \in Nat
    BY <1>3, <2>1, TotalOf
  <2>. QED  BY <2>1, <2>2, <2>3
<1>5. /\ IsFiniteSet(exits) /\ \A e \in exits : e.quantity \in Nat
      /\ IsFiniteSet(OfKind(V, "REDUCED")) /\ \A e \in OfKind(V, "REDUCED") : e.quantity \in Nat
  <2>1. exits \subseteq V /\ OfKind(V, "REDUCED") \subseteq V
    BY DEF OfKind
  <2>. QED  BY <1>3, <2>1, FS_Subset
<1>6. Total(exits) \in Nat /\ Total(OfKind(V, "REDUCED")) \in Nat
  BY <1>5, TotalOf
<1>7. PICK r, q, x, n : /\ r = Total(OfKind(V, "REDUCED")) /\ q = o.quantity
                        /\ x = Total(exits) /\ n = v.quantity
  OBVIOUS
<1>8. Remaining(V) = q - r
  BY <1>2, <1>4, <1>7 DEF Remaining
<1>9. CASE OfKind(V, "CLOSED") = {}
  <2>1. exits = OfKind(V, "REDUCED")
    BY <1>9 DEF OfKind
  <2>2. n = q - r
    BY <1>7, <1>8, <1>9 DEF Reference
  <2>3. x = r
    BY <1>7, <2>1
  <2>4. q \in Nat /\ r \in Nat
    BY <1>4, <1>6, <1>7
  <2>5. q - x - n = 0
    BY <2>2, <2>3, <2>4
  <2>. QED  BY <1>2, <1>6, <1>7, <2>5
<1>10. ASSUME NEW c \in OfKind(V, "CLOSED")
       PROVE  _opening_of(V).quantity - Total(exits) - v.quantity = 0
  <2>1. c \in V /\ c.kind = "CLOSED" /\ \A f \in V : f.kind = "CLOSED" => f = c
    <3>1. \A e, f \in V : e.kind = "CLOSED" /\ f.kind = "CLOSED" => e = f
      BY ReferenceHas
    <3>. QED  BY <1>10, <3>1 DEF OfKind
  <2>2. c \in exits /\ exits \ {c} = OfKind(V, "REDUCED")
    BY <2>1 DEF OfKind
  <2>3. Total(exits) = c.quantity + Total(exits \ {c})
    BY <1>5, <2>2, TotalOf
  <2>4. c.quantity = q - r /\ x = c.quantity + r
    BY <1>7, <1>8, <1>10, <2>2, <2>3
  <2>5. n = 0
    BY <1>7, <1>10 DEF Reference
  <2>6. q - x - n = 0
    BY <1>4, <1>6, <1>7, <2>4, <2>5
  <2>. QED  BY <1>2, <1>7, <2>6
<1>. QED  BY <1>6, <1>9, <1>10

LEMMA EntryInOrder ==
    ASSUME NEW V, Events(V), NEW v, Reference(V, v), v = _fold_one_position(V),
           \A e \in OfKind(V, "CLOSED") : e.quantity = Remaining(V),
           NEW p, \A e \in V : e.position = p, NEW t, \A e \in V : e.event_timestamp <= t
    PROVE  _entry_for_key(V, t).status \notin {"UNRESOLVED_KNOWLEDGE_SEQUENCE",
                                               "EXIT_QUANTITY_UNRECONCILED"}
<1>1. V # {} /\ v.status \in {"open", "closed"}
  BY ReferenceHas
<1>2. derive_position_state(V, (CHOOSE e \in V : TRUE).position, t) = v
  <2>1. (CHOOSE e \in V : TRUE).position = p
    BY <1>1
  <2>2. OfPosition(Considered(V, t), p) = V
    BY DEF OfPosition, Considered
  <2>. QED  BY <2>1, <2>2 DEF derive_position_state
<1>3. PICK exits, x, o : /\ exits = {e \in V : e.kind \in {"REDUCED", "CLOSED"}}
                         /\ x = Total(exits) /\ o = _opening_of(V)
  OBVIOUS
<1>4. o.quantity - x - v.quantity = 0
  BY <1>3, ExitsAddUp
<1>5. _entry_for_key(V, t).status = RoundTripStatus(o.quantity - x - v.quantity, x, v.status = "open")
  <2>1. v.status # "rejected"
    BY <1>1
  <2>. QED  BY <1>2, <1>3, <2>1 DEF _entry_for_key
<1>6. RoundTripStatus(0, x, v.status = "open") \notin {"UNRESOLVED_KNOWLEDGE_SEQUENCE",
                                                       "EXIT_QUANTITY_UNRECONCILED"}
  BY DEF RoundTripStatus
<1>. QED  BY <1>4, <1>5, <1>6

\* An operator who writes everything down in order never meets the states of
\* incomplete knowledge, whatever the cutoffs.
THEOREM OrderReconciles == ReportsSpec => []InOrderReconciles
<1>1. ReportsInv => InOrderReconciles
  <2>. SUFFICES ASSUME ReportsInv, in_order, NEW t \in Instant, NEW k \in Instant,
                       NEW p \in DOMAIN GetAssertedRoundTripReportHandler(t, k)
                PROVE  GetAssertedRoundTripReportHandler(t, k)[p].status
                         \notin {"UNRESOLVED_KNOWLEDGE_SEQUENCE", "EXIT_QUANTITY_UNRECONCILED"}
    BY DEF InOrderReconciles
  <2>1. PICK S, visible, V, v : /\ S = ledger
                                /\ visible = Considered(events_known_by(S, k), t)
                                /\ V = OfPosition(visible, p) /\ v = _fold_one_position(V)
    OBVIOUS
  <2>2. GetAssertedRoundTripReportHandler(t, k) =
          [q \in Positions(visible) |-> _entry_for_key(OfPosition(visible, q), t)]
    BY <2>1 DEF GetAssertedRoundTripReportHandler, build_asserted_round_trip_report,
                _report_from_known_evidence
  <2>3. p \in Positions(visible) /\ GetAssertedRoundTripReportHandler(t, k)[p] = _entry_for_key(V, t)
    BY <2>1, <2>2
  <2>4. PICK e \in visible : e.position = p
    BY <2>3 DEF Positions
  <2>5. V # {} /\ e \in S
    BY <2>1, <2>4 DEF OfPosition, Considered, events_known_by
  <2>6. /\ Events(S) /\ Orderly(S) /\ \A f \in S : f.recorded_at \in Nat
        /\ Folds(OfPosition(S, p)) /\ t \in Nat /\ k \in Nat
    <3>1. t \in Nat /\ k \in Nat
      BY EventsAssumption DEF Instant
    <3>2. Orderly(S)
      BY <2>1 DEF ReportsInv
    <3>. QED  BY <2>1, <2>4, <2>5, <3>1, <3>2 DEF ReportsInv, Kept
  <2>7. Events(V) /\ Reference(V, v) /\ \A c \in OfKind(V, "CLOSED") : c.quantity = Remaining(V)
    BY <2>1, <2>5, <2>6, VisibleInOrder
  <2>8. \A f \in V : f.position = p /\ f.event_timestamp <= t
    BY <2>1 DEF OfPosition, Considered
  <2>. QED  BY <2>1, <2>3, <2>7, <2>8, EntryInOrder
<1>. QED  BY <1>1, ReportsInvariance, PTL

\* The plans of an audited session, each named once.
Unique(plans) == {[id |-> plan.id, instrument |-> plan.instrument] : plan \in plans}

HeldAt(S, t, status) == {p \in Positions(S) : derive_position_state(S, p, t).status = status}

LinkedAt(S, t, plan, status) ==
    {p \in HeldAt(S, t, status) : Cites(p, plan, cited_plan_by_position(S), S)}

LinkStatus(S, t, plan) ==
    CASE LinkedAt(S, t, plan, "open") # {} -> "ASSERTED_POSITION_OPEN"
      [] LinkedAt(S, t, plan, "open") = {} /\ LinkedAt(S, t, plan, "closed") # {} ->
            "ASSERTED_POSITION_CLOSED"
      [] OTHER -> "NO_ASSERTED_POSITION_RECORDED"

EntryOf(S, t, plan) ==
    [id |-> plan.id, status |-> LinkStatus(S, t, plan),
     open |-> LinkedAt(S, t, plan, "open"), closed |-> LinkedAt(S, t, plan, "closed")]

EntriesOf(S, t, plans) == {EntryOf(S, t, plan) : plan \in Unique(plans)}

UnlinkedOf(S, t, plans) ==
    {p \in HeldAt(S, t, "open") :
        \/ p \notin DOMAIN cited_plan_by_position(S)
        \/ \A plan \in Unique(plans) : plan.id # cited_plan_by_position(S)[p]}

\* An audit that is made lists these entries, under coherent references.
LEMMA Audited ==
    ASSUME NEW S, NEW plans, NEW t,
           NEW audit, audit = audit_research_decision_follow_through(S, plans, t),
           audit.outcome = "AUDITED"
    PROVE  /\ ~_plan_reference_incoherence(plans)
           /\ audit.entries = EntriesOf(S, t, plans)
           /\ audit.unlinked = UnlinkedOf(S, t, plans)
<1>1. PICK entries, unlinked : entries = EntriesOf(S, t, plans) /\ unlinked = UnlinkedOf(S, t, plans)
  OBVIOUS
<1>2. audit =
        CASE _plan_reference_incoherence(plans) ->
               [outcome |-> "NOT_ASSESSABLE", reason |-> "SESSION_PLAN_REFERENCES_INCOHERENT"]
          [] ~_plan_reference_incoherence(plans) /\ HeldAt(S, t, "rejected") # {} ->
               [outcome |-> "NOT_ASSESSABLE", reason |-> "LEDGER_INCOHERENT"]
          [] OTHER ->
               [outcome |-> IF Unique(plans) = {} THEN "NO_APPROVED_POSITION_PLANS" ELSE "AUDITED",
                entries |-> entries, unlinked |-> unlinked]
  BY <1>1, Zenon DEF audit_research_decision_follow_through, EntriesOf, EntryOf, LinkStatus, LinkedAt,
                     HeldAt, UnlinkedOf, Unique
<1>. QED  BY <1>1, <1>2

\* A position is linked to one plan of the session, or to none.
LEMMA OpenAccounted ==
    ASSUME NEW S, NEW plans, NEW t, ~_plan_reference_incoherence(plans),
           NEW p \in HeldAt(S, t, "open"),
           NEW E, E = {e \in EntriesOf(S, t, plans) : p \in e.open}
    PROVE  Cardinality(E) + (IF p \in UnlinkedOf(S, t, plans) THEN 1 ELSE 0) = 1
<1>1. PICK cited : cited = cited_plan_by_position(S)
  OBVIOUS
<1>2. \A plan : p \in LinkedAt(S, t, plan, "open") <=> p \in DOMAIN cited /\ cited[p] = plan.id
  BY <1>1 DEF LinkedAt, Cites
<1>3. \A plan : EntryOf(S, t, plan).open = LinkedAt(S, t, plan, "open")
  BY DEF EntryOf
<1>4. CASE p \in UnlinkedOf(S, t, plans)
  <2>1. E = {}
    <3>1. SUFFICES ASSUME NEW plan \in Unique(plans), p \in LinkedAt(S, t, plan, "open") PROVE FALSE
      BY <1>3 DEF EntriesOf
    <3>. QED  BY <1>1, <1>2, <1>4, <3>1 DEF UnlinkedOf
  <2>2. Cardinality(E) = 0
    BY <2>1, FS_EmptySet
  <2>. QED  BY <1>4, <2>2
<1>5. CASE p \notin UnlinkedOf(S, t, plans)
  <2>1. PICK plan \in Unique(plans) : p \in DOMAIN cited /\ cited[p] = plan.id
    BY <1>1, <1>5 DEF UnlinkedOf
  <2>2. PICK entry : entry = EntryOf(S, t, plan)
    OBVIOUS
  <2>3. entry \in E
    BY <1>2, <1>3, <2>1, <2>2 DEF EntriesOf
  <2>4. ASSUME NEW e \in E  PROVE e = entry
    <3>1. PICK other \in Unique(plans) : e = EntryOf(S, t, other)
      BY <2>4 DEF EntriesOf
    <3>2. other.id = plan.id
      BY <1>2, <1>3, <2>1, <2>4, <3>1
    <3>3. other = plan
      BY <2>1, <3>1, <3>2 DEF Unique, _plan_reference_incoherence
    <3>. QED  BY <2>2, <3>1, <3>3
  <2>5. E = {entry}
    BY <2>3, <2>4
  <2>6. Cardinality(E) = 1
    BY <2>5, FS_Singleton
  <2>. QED  BY <1>5, <2>6
<1>. QED  BY <1>4, <1>5

\* A plan that an event cites is the one its position is linked to.
LEMMA CitationFound ==
    ASSUME NEW S, Events(S), NEW e \in S, Folds(OfPosition(S, e.position)),
           e.kind # "OPENED" => e.plan = None, e.plan # None
    PROVE  /\ e.position \in DOMAIN cited_plan_by_position(S)
           /\ cited_plan_by_position(S)[e.position] = e.plan
<1>1. PICK citing : citing = {f \in S : f.kind = "OPENED" /\ f.plan # None}
  OBVIOUS
<1>2. cited_plan_by_position(S) =
        [p \in Positions(citing) |-> (CHOOSE f \in citing : f.position = p).plan]
  BY <1>1 DEF cited_plan_by_position
<1>3. e \in citing /\ e.position \in Positions(citing)
  BY <1>1 DEF Positions
<1>4. PICK P : P = OfPosition(S, e.position)
  OBVIOUS
<1>5. \A f, g \in P : f.kind = "OPENED" /\ g.kind = "OPENED" => f = g
  <2>1. Events(P) /\ P # {}
    <3>1. P \in SUBSET S /\ e \in P
      BY <1>4 DEF OfPosition
    <3>. QED  BY <3>1, PartOfEvents
  <2>2. PICK v : v = _fold_one_position(P)
    OBVIOUS
  <2>3. Reference(P, v)
    BY <1>4, <2>1, <2>2, FoldsMeans
  <2>. QED  BY <2>1, <2>3, ReferenceHas
<1>6. \A f \in citing : f.position = e.position => f = e
  BY <1>1, <1>3, <1>4, <1>5 DEF OfPosition
<1>7. (CHOOSE f \in citing : f.position = e.position) = e
  BY <1>3, <1>6
<1>. QED  BY <1>2, <1>3, <1>7

\* The audit of an approved session loses no position that the ledger holds.
THEOREM PositionsAreAccounted == ReportsSpec => []EveryPositionAccounted
<1>1. ReportsInv => EveryPositionAccounted
  <2>. SUFFICES ASSUME ReportsInv, NEW t \in Instant,
                       AuditResearchDecisionFollowThroughHandler(t).outcome = "AUDITED"
                PROVE  LET audit == AuditResearchDecisionFollowThroughHandler(t)
                           state == GetOperatorPositionStateHandler(t)
                           Held(status) == {p \in DOMAIN state : state[p].status = status}
                           ids == {plan.id : plan \in approved_plans}
                       IN  /\ \A p \in Held("open") :
                                 Cardinality({e \in audit.entries : p \in e.open})
                                    + (IF p \in audit.unlinked THEN 1 ELSE 0) = 1
                           /\ \A p \in Held("closed"), e \in ledger :
                                 e.position = p /\ e.plan \in ids =>
                                    \E entry \in audit.entries : entry.id = e.plan /\ p \in entry.closed
    BY DEF EveryPositionAccounted
  <2>1. PICK S, plans, audit, state :
             /\ S = ledger /\ plans = approved_plans
             /\ audit = audit_research_decision_follow_through(S, plans, t)
             /\ state = [p \in Positions(Considered(S, t)) |-> derive_position_state(S, p, t)]
    OBVIOUS
  <2>2. AuditResearchDecisionFollowThroughHandler(t) = audit /\ GetOperatorPositionStateHandler(t) = state
    BY <2>1 DEF AuditResearchDecisionFollowThroughHandler, GetOperatorPositionStateHandler
  <2>3. /\ ~_plan_reference_incoherence(plans)
        /\ audit.entries = EntriesOf(S, t, plans)
        /\ audit.unlinked = UnlinkedOf(S, t, plans)
    BY <2>1, <2>2, Audited
  <2>4. ASSUME NEW status, NEW p \in {q \in DOMAIN state : state[q].status = status}
        PROVE  p \in HeldAt(S, t, status)
    <3>1. p \in Positions(Considered(S, t)) /\ derive_position_state(S, p, t).status = status
      BY <2>1, <2>4
    <3>. QED  BY <3>1 DEF HeldAt, Positions, Considered
  <2>5. ASSUME NEW p \in {q \in DOMAIN state : state[q].status = "open"}
        PROVE  Cardinality({e \in audit.entries : p \in e.open})
                 + (IF p \in audit.unlinked THEN 1 ELSE 0) = 1
    <3>1. p \in HeldAt(S, t, "open")
      BY <2>4, <2>5
    <3>. QED  BY <2>3, <3>1, OpenAccounted
  <2>6. ASSUME NEW p \in {q \in DOMAIN state : state[q].status = "closed"}, NEW e \in S,
               e.position = p, e.plan \in {plan.id : plan \in plans}
        PROVE  \E entry \in audit.entries : entry.id = e.plan /\ p \in entry.closed
    <3>1. p \in HeldAt(S, t, "closed")
      BY <2>4, <2>6
    <3>2. PICK plan \in Unique(plans) : plan.id = e.plan
      <4>1. PICK x \in plans : x.id = e.plan
        BY <2>6
      <4>2. PICK y : y = [id |-> x.id, instrument |-> x.instrument]
        OBVIOUS
      <4>3. y \in Unique(plans) /\ y.id = e.plan
        BY <4>1, <4>2 DEF Unique
      <4>. QED  BY <4>3
    <3>3. e.plan # None
      BY <2>1, <2>6, ReportsAssumption DEF ReportsInv, Kept
    <3>4. /\ Events(S) /\ Folds(OfPosition(S, e.position)) /\ (e.kind # "OPENED" => e.plan = None)
      BY <2>1, <2>6 DEF ReportsInv, Kept
    <3>5. /\ e.position \in DOMAIN cited_plan_by_position(S)
          /\ cited_plan_by_position(S)[e.position] = e.plan
      BY <2>6, <3>3, <3>4, CitationFound
    <3>6. p \in LinkedAt(S, t, plan, "closed")
      BY <2>6, <3>1, <3>2, <3>5 DEF LinkedAt, Cites
    <3>7. PICK entry : entry = EntryOf(S, t, plan)
      OBVIOUS
    <3>8. entry.id = e.plan /\ p \in entry.closed
      BY <3>2, <3>6, <3>7 DEF EntryOf
    <3>9. entry \in audit.entries
      BY <2>3, <3>2, <3>7 DEF EntriesOf
    <3>. QED  BY <3>8, <3>9
  <2>. QED  BY <2>1, <2>2, <2>5, <2>6
<1>. QED  BY <1>1, ReportsInvariance, PTL
=============================================================================
