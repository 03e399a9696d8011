-------------------------- MODULE SharedMediaProofs --------------------------
(***************************************************************************)
(* SlicesApart for every chat, limit and order of delivery.  The binary    *)
(* searches of SparseIdsList are right only while the slices lie apart, so *)
(* the model, which picks slices by a predicate, depends on it too.        *)
(***************************************************************************)
EXTENDS SharedMedia, FiniteSetTheorems, TLAPS

Requests == [around : 0..(Top - 1), direction : Directions]
SliceSet == [messages : SUBSET Ids, from : 0..Top, till : 0..Top]

(* The messages of a slice lie in its range.                               *)
Within(s) == /\ s.from <= s.till
             /\ \A m \in s.messages : s.from <= m /\ m <= s.till

Apart(s, t) == s = t \/ s.till < t.from \/ t.till < s.from

SlicesOK(slices) ==
    /\ slices \subseteq SliceSet
    /\ \A s \in slices : Within(s)
    /\ \A s, t \in slices : Apart(s, t)

(* A list that is still a record.                                          *)
ListOK(l) == l = [slices |-> l.slices, count |-> l.count] /\ SlicesOK(l.slices)

IsBuilder(b) ==
    {"key", "ids", "full", "before", "after"} \subseteq DOMAIN b

BuilderOK(b) == IsBuilder(b) /\ b.key \in 0..(Top - 1) /\ b.ids \subseteq Ids

(* What a builder's operation returns.                                     *)
ResultOK(x) == BuilderOK(x.builder) /\ x.asks \subseteq Requests

UpdateSet == {u \in [kind : {"new", "delete", "clear"}, id : 0..(Top - 1)] :
                  u.kind = "new" => u.id \in Ids}

AnswerOK(a) == a.req \in Requests /\ a.ids \subseteq Ids

(* The inductive invariant: ids stay ids wherever they travel, so that     *)
(* every range added to the list is one.                                   *)
Inv ==
    /\ media \subseteq Ids
    /\ spent \in [Steps -> Nat]
    /\ updates \in Seq(UpdateSet)
    /\ \A a \in answers : AnswerOK(a)
    /\ requests \subseteq Requests
    /\ BuilderOK(builder)
    /\ ListOK(list)

-----------------------------------------------------------------------------
(* Least and greatest elements.                                            *)

(* A nonempty set of naturals has a least element.                         *)
LEMMA LeastFact ==
    ASSUME NEW S \in SUBSET Nat, S # {}
    PROVE  Least(S) \in S /\ \A y \in S : Least(S) <= y
<1> DEFINE R == OpToRel(<, Nat)
<1>1. \E x \in S : \A y \in S : ~(<<y, x>> \in R)
  <2>1. IsWellFoundedOn(R, Nat)
    BY NatLessThanWellFounded
  <2> HIDE DEF R
  <2> QED
    BY <2>1, WFMin
<1>2. \E x \in S : \A y \in S : x <= y
  <2>1. PICK x \in S : \A y \in S : ~(<<y, x>> \in R)
    BY <1>1
  <2>2. ASSUME NEW y \in S PROVE x <= y
    <3>1. ~(<<y, x>> \in R)
      BY <2>1
    <3>2. y \in Nat /\ x \in Nat
      OBVIOUS
    <3>3. ~(y < x)
      BY <3>1, <3>2 DEF OpToRel
    <3> QED
      BY <3>2, <3>3
  <2> QED
    BY <2>2
<1> QED
  BY <1>2 DEF Least

(* A nonempty set of message ids or ends of ranges has a greatest element. *)
LEMMA GreatestFact ==
    ASSUME NEW S \in SUBSET (0..Top), S # {}
    PROVE  Greatest(S) \in S /\ \A y \in S : Greatest(S) >= y
<1>0. Top \in Nat
  BY TopAssumption
<1> DEFINE T == {Top - x : x \in S}
<1>1. T \in SUBSET Nat /\ T # {}
  <2>1. \A x \in S : Top - x \in Nat
    <3> SUFFICES ASSUME NEW x \in 0..Top PROVE Top - x \in Nat
      OBVIOUS
    <3> QED
      BY <1>0
  <2> QED
    BY <2>1
<1>2. Least(T) \in T /\ \A y \in T : Least(T) <= y
  <2> HIDE DEF T
  <2> QED
    BY <1>1, LeastFact
<1>3. PICK x \in S : Least(T) = Top - x
  BY <1>2
<1>4. \A y \in S : x >= y
  <2> SUFFICES ASSUME NEW y \in S PROVE x >= y
    OBVIOUS
  <2>1. Top - y \in T
    OBVIOUS
  <2>2. Least(T) <= Top - y
    BY <1>2, <2>1
  <2>3. x \in Int /\ y \in Int
    BY <1>0
  <2> QED
    BY <1>0, <1>3, <2>2, <2>3
<1> QED
  BY <1>3, <1>4 DEF Greatest

-----------------------------------------------------------------------------
(* The list.                                                               *)

(* Uniting what a range touches leaves the slices apart.                   *)
LEMMA UnitedFact ==
    ASSUME NEW slices, SlicesOK(slices),
           NEW messages \in SUBSET Ids,
           NEW from \in 0..Top, NEW till \in 0..Top, from <= till,
           \A m \in messages : from <= m /\ m <= till
    PROVE  LET touched == Touched(slices, from, till)
               u == United(touched, messages, from, till)
           IN  /\ u \in SliceSet /\ Within(u)
               /\ \A t \in slices \ touched : Apart(u, t) /\ Apart(t, u)
<1>0. Top \in Nat
  BY TopAssumption
<1> DEFINE touched == Touched(slices, from, till)
           F == {from} \cup {s.from : s \in touched}
           T == {till} \cup {s.till : s \in touched}
           M == messages \cup UNION {s.messages : s \in touched}
           u == United(touched, messages, from, till)
<1>1. touched \subseteq slices /\ touched \subseteq SliceSet
  BY DEF Touched, SlicesOK
<1>2. F \in SUBSET (0..Top) /\ T \in SUBSET (0..Top) /\ F # {} /\ T # {}
  BY <1>1 DEF SliceSet
<1>3. Least(F) \in F /\ \A y \in F : Least(F) <= y
  <2>1. F \in SUBSET Nat
    BY <1>0, <1>2
  <2> HIDE DEF F
  <2> QED
    BY <1>2, <2>1, LeastFact
<1>4. Greatest(T) \in T /\ \A y \in T : Greatest(T) >= y
  <2> HIDE DEF T
  <2> QED
    BY <1>2, GreatestFact
<1>5. u.messages = M /\ u.from = Least(F) /\ u.till = Greatest(T)
  BY DEF United, Slice
<1>6. M \subseteq Ids
  BY <1>1 DEF SliceSet
<1>7. u \in SliceSet
  <2>1. u = [messages |-> M, from |-> Least(F), till |-> Greatest(T)]
    BY DEF United, Slice
  <2>2. Least(F) \in 0..Top /\ Greatest(T) \in 0..Top
    BY <1>2, <1>3, <1>4
  <2> HIDE DEF u, M, F, T
  <2> QED
    BY <2>1, <2>2, <1>6 DEF SliceSet
<1>8. Least(F) <= from /\ till <= Greatest(T)
  <2>1. from \in F /\ till \in T
    OBVIOUS
  <2>2. Least(F) <= from /\ Greatest(T) >= till
    BY <1>3, <1>4, <2>1
  <2> HIDE DEF F, T
  <2> QED
    BY <1>2, <1>3, <1>4, <2>2
<1>9. \A m \in M : Least(F) <= m /\ m <= Greatest(T)
  <2> SUFFICES ASSUME NEW m \in M PROVE Least(F) <= m /\ m <= Greatest(T)
    OBVIOUS
  <2>0. Least(F) \in Int /\ Greatest(T) \in Int /\ m \in Int
    BY <1>2, <1>3, <1>4, <1>6 DEF Ids
  <2>1. CASE m \in messages
    BY <2>0, <2>1, <1>8
  <2>2. CASE \E s \in touched : m \in s.messages
    <3>1. PICK s \in touched : m \in s.messages
      BY <2>2
    <3>2. s.from <= m /\ m <= s.till
      BY <3>1, <1>1 DEF SlicesOK, Within
    <3>3. s.from \in F /\ s.till \in T
      OBVIOUS
    <3>4. Least(F) <= s.from /\ Greatest(T) >= s.till
      BY <1>3, <1>4, <3>3
    <3>5. s.from \in Int /\ s.till \in Int
      BY <1>1 DEF SliceSet
    <3> QED
      BY <2>0, <3>2, <3>4, <3>5
  <2> QED
    BY <2>1, <2>2
<1>10. Within(u)
  <2>1. Least(F) <= Greatest(T)
    <3>1. Least(F) \in Int /\ Greatest(T) \in Int
      BY <1>2, <1>3, <1>4
    <3> QED
      BY <3>1, <1>8
  <2> HIDE DEF u, M, F, T
  <2> QED
    BY <1>5, <1>9, <2>1 DEF Within
<1>11. \A t \in slices \ touched : Apart(u, t) /\ Apart(t, u)
  <2> SUFFICES ASSUME NEW t \in slices, t \notin touched
               PROVE  t.till < Least(F) \/ Greatest(T) < t.from
    BY <1>5 DEF Apart
  <2>0. /\ t.from \in Int /\ t.till \in Int /\ t.from <= t.till
        /\ Least(F) \in Int /\ Greatest(T) \in Int
    BY <1>2, <1>3, <1>4 DEF SlicesOK, SliceSet, Within
  <2>1. t.till < from \/ t.from > till
    BY <2>0 DEF Touched
  <2>2. CASE t.till < from
    <3>1. \A y \in F : t.till < y
      <4> SUFFICES ASSUME NEW s \in touched PROVE t.till < s.from
        BY <2>2
      <4>1. s.till >= from /\ s # t
        BY DEF Touched
      <4>2. s.till < t.from \/ t.till < s.from
        BY <4>1, <1>1 DEF SlicesOK, Apart
      <4>3. s.till \in Int /\ s.from \in Int
        BY <1>1 DEF SliceSet
      <4> QED
        BY <2>0, <2>2, <4>1, <4>2, <4>3
    <3> QED
      BY <1>3, <3>1
  <2>3. CASE t.from > till
    <3>1. \A y \in T : y < t.from
      <4> SUFFICES ASSUME NEW s \in touched PROVE s.till < t.from
        BY <2>3, <2>0
      <4>1. s.from <= till /\ s # t
        BY DEF Touched
      <4>2. s.till < t.from \/ t.till < s.from
        BY <4>1, <1>1 DEF SlicesOK, Apart
      <4>3. s.till \in Int /\ s.from \in Int
        BY <1>1 DEF SliceSet
      <4> QED
        BY <2>0, <2>3, <4>1, <4>2, <4>3
    <3> QED
      BY <1>4, <3>1
  <2> QED
    BY <2>1, <2>2, <2>3
<1> QED
  BY <1>7, <1>10, <1>11

(* A range joins the list.                                                 *)
LEMMA AddSlicesFact ==
    ASSUME NEW slices, SlicesOK(slices),
           NEW messages \in SUBSET Ids,
           NEW from \in 0..Top, NEW till \in 0..Top, from <= till,
           \A m \in messages : from <= m /\ m <= till
    PROVE  SlicesOK(addSlices(slices, messages, from, till))
<1> DEFINE touched == Touched(slices, from, till)
           u == United(touched, messages, from, till)
<1>1. CASE from = till /\ messages = {}
  BY <1>1 DEF addSlices
<1>2. CASE ~(from = till /\ messages = {})
  <2>1. addSlices(slices, messages, from, till) = (slices \ touched) \cup {u}
    BY <1>2 DEF addSlices
  <2>2. /\ u \in SliceSet /\ Within(u)
        /\ \A t \in slices \ touched : Apart(u, t) /\ Apart(t, u)
    BY UnitedFact
  <2>3. Apart(u, u)
    BY DEF Apart
  <2> HIDE DEF u, touched
  <2> QED
    BY <2>1, <2>2, <2>3 DEF SlicesOK
<1> QED
  BY <1>1, <1>2

(* Slices that lie apart are finitely many: they start at different ids.   *)
LEMMA SlicesFinite ==
    ASSUME NEW slices, SlicesOK(slices)
    PROVE  IsFiniteSet(slices)
<1> DEFINE f == [s \in slices |-> s.from]
<1>0. Top \in Nat
  BY TopAssumption
<1>1. f \in [slices -> 0..Top]
  BY DEF SlicesOK, SliceSet
<1>2. \A s, t \in slices : s.from = t.from => s = t
  <2> SUFFICES ASSUME NEW s \in slices, NEW t \in slices, s.from = t.from
               PROVE  s = t
    OBVIOUS
  <2>1. /\ s.from \in Int /\ s.till \in Int /\ t.till \in Int
        /\ s.from <= s.till /\ t.from <= t.till
    BY DEF SlicesOK, SliceSet, Within
  <2>2. Apart(s, t)
    BY DEF SlicesOK
  <2> QED
    BY <2>1, <2>2 DEF Apart
<1>3. f \in Injection(slices, 0..Top)
  BY <1>1, <1>2 DEF Injection, IsInjective
<1>4. IsFiniteSet(0..Top)
  BY <1>0, FS_Interval
<1> HIDE DEF f
<1> QED
  BY <1>3, <1>4, FS_Injection

(* A single slice may be widened to everything.                            *)
LEMMA WidenFact ==
    ASSUME NEW slices, SlicesOK(slices), NEW count
    PROVE  SlicesOK(widen(slices, count))
<1>0. Top \in Nat
  BY TopAssumption
<1>1. CASE widen(slices, count) = slices
  BY <1>1
<1>2. CASE /\ Cardinality(slices) = 1
           /\ widen(slices, count) = {Slice(s.messages, 0, Top) : s \in slices}
  <2>1. PICK x : slices = {x}
    BY <1>2, SlicesFinite, FS_Singleton
  <2> DEFINE w == Slice(x.messages, 0, Top)
  <2>2. widen(slices, count) = {w}
    BY <1>2, <2>1
  <2>3. x.messages \subseteq Ids
    BY <2>1 DEF SlicesOK, SliceSet
  <2>4. w = [messages |-> x.messages, from |-> 0, till |-> Top]
    BY DEF Slice
  <2>5. w \in SliceSet
    BY <2>3, <2>4, <1>0 DEF SliceSet
  <2>6. Within(w)
    BY <2>3, <2>4, <1>0 DEF Within, Ids
  <2>7. Apart(w, w)
    BY DEF Apart
  <2> HIDE DEF w
  <2> QED
    BY <2>2, <2>5, <2>6, <2>7 DEF SlicesOK
<1> QED
  BY <1>1, <1>2 DEF widen

LEMMA AddRangeFact ==
    ASSUME NEW l, ListOK(l),
           NEW messages \in SUBSET Ids,
           NEW from \in 0..Top, NEW till \in 0..Top, from <= till,
           \A m \in messages : from <= m /\ m <= till,
           NEW count, NEW incrementCount
    PROVE  LET x == addRange(l, messages, from, till, count, incrementCount)
           IN  /\ ListOK(x.list)
               /\ x.update.slice.messages \subseteq Ids
<1> DEFINE x == addRange(l, messages, from, till, count, incrementCount)
           slices == addSlices(l.slices, messages, from, till)
           u == sliceUpdate(l.slices, messages, from, till)
<1>0. SlicesOK(l.slices)
  BY DEF ListOK
<1>1. SlicesOK(slices)
  BY <1>0, AddSlicesFact
<1>2. PICK given, final :
          /\ x.list = [slices |-> widen(slices, given), count |-> final]
          /\ x.update.slice = u.slice
  BY DEF addRange
<1>3. SlicesOK(widen(slices, given))
  <2> HIDE DEF slices
  <2> QED
    BY <1>1, WidenFact
<1>4. ListOK(x.list)
  <2> HIDE DEF x, slices
  <2> QED
    BY <1>2, <1>3 DEF ListOK
<1>5. u.slice.messages \subseteq Ids
  <2>1. CASE from = till /\ messages = {}
    BY <2>1 DEF sliceUpdate, Slice
  <2>2. CASE ~(from = till /\ messages = {})
    <3>1. u.slice = United(Touched(l.slices, from, till), messages, from, till)
      BY <2>2 DEF sliceUpdate
    <3>2. u.slice \in SliceSet
      BY <3>1, <1>0, UnitedFact
    <3> QED
      BY <3>2 DEF SliceSet
  <2> QED
    BY <2>1, <2>2
<1> QED
  BY <1>2, <1>4, <1>5

(* Slices replaced one by one by slices inside them stay apart.            *)
LEMMA ShrinkFact ==
    ASSUME NEW slices, SlicesOK(slices), NEW f \in [slices -> SliceSet],
           \A s \in slices : /\ Within(f[s])
                             /\ f[s].from = s.from /\ f[s].till <= s.till
    PROVE  SlicesOK({f[s] : s \in slices})
<1>1. ASSUME NEW s \in slices, NEW t \in slices
      PROVE  Apart(f[s], f[t])
  <2>1. Apart(s, t)
    BY DEF SlicesOK
  <2>2. /\ s.till \in Int /\ s.from \in Int /\ t.till \in Int /\ t.from \in Int
        /\ f[s].till \in Int /\ f[t].till \in Int
    BY DEF SlicesOK, SliceSet
  <2>3. f[s].till <= s.till /\ f[t].till <= t.till
        /\ f[s].from = s.from /\ f[t].from = t.from
    OBVIOUS
  <2> QED
    BY <2>1, <2>2, <2>3 DEF Apart
<1> QED
  BY <1>1 DEF SlicesOK

LEMMA RemoveOneFact ==
    ASSUME NEW l, ListOK(l), NEW id
    PROVE  ListOK(removeOne(l, id))
<1> DEFINE f == [s \in l.slices |->
                    IF s.from <= id /\ id <= s.till
                    THEN [s EXCEPT !.messages = @ \ {id}] ELSE s]
<1>0. SlicesOK(l.slices)
  BY DEF ListOK
<1>1. ASSUME NEW s \in l.slices
      PROVE  /\ f[s] \in SliceSet /\ Within(f[s])
             /\ f[s].from = s.from /\ f[s].till <= s.till
  <2>1. s \in SliceSet /\ Within(s)
    BY <1>0 DEF SlicesOK
  <2>2. s.till \in Int
    BY <2>1 DEF SliceSet
  <2>3. f[s] = s \/ f[s] = [s EXCEPT !.messages = @ \ {id}]
    OBVIOUS
  <2> HIDE DEF f
  <2> QED
    BY <2>1, <2>2, <2>3 DEF SliceSet, Within
<1>2. f \in [l.slices -> SliceSet]
  BY <1>1
<1>3. SlicesOK({f[s] : s \in l.slices})
  <2> HIDE DEF f
  <2> QED
    BY <1>0, <1>1, <1>2, ShrinkFact
<1>4. removeOne(l, id).slices = {f[s] : s \in l.slices}
  BY DEF removeOne
<1> QED
  BY <1>3, <1>4 DEF ListOK, removeOne

LEMMA InvalidateFact ==
    ASSUME NEW l, ListOK(l)
    PROVE  ListOK(invalidateBottom(l))
<1> DEFINE f == [s \in l.slices |->
                    IF s.till # Top THEN s
                    ELSE [s EXCEPT !.till = IF s.messages = {} THEN s.from
                                            ELSE Greatest(s.messages)]]
<1>0. SlicesOK(l.slices) /\ Top \in Nat
  BY TopAssumption DEF ListOK
<1>1. ASSUME NEW s \in l.slices
      PROVE  /\ f[s] \in SliceSet /\ Within(f[s])
             /\ f[s].from = s.from /\ f[s].till <= s.till
  <2>1. s \in SliceSet /\ Within(s)
    BY <1>0 DEF SlicesOK
  <2>2. s.till \in Int /\ s.from \in Int /\ s.messages \subseteq Int
    BY <2>1, <1>0 DEF SliceSet, Ids
  <2>3. CASE s.till # Top
    BY <2>1, <2>2, <2>3
  <2>4. CASE s.till = Top /\ s.messages = {}
    <3>1. f[s] = [s EXCEPT !.till = s.from]
      BY <2>4
    <3> HIDE DEF f
    <3> QED
      BY <3>1, <2>1, <2>2, <2>4 DEF SliceSet, Within
  <2>5. CASE s.till = Top /\ s.messages # {}
    <3>1. f[s] = [s EXCEPT !.till = Greatest(s.messages)]
      BY <2>5
    <3>2. s.messages \in SUBSET (0..Top)
      BY <2>1, <1>0 DEF SliceSet, Ids
    <3>3. /\ Greatest(s.messages) \in s.messages
          /\ \A y \in s.messages : Greatest(s.messages) >= y
      BY <3>2, <2>5, GreatestFact
    <3>4. Greatest(s.messages) \in 0..Top
      BY <3>2, <3>3
    <3> HIDE DEF f
    <3> QED
      BY <3>1, <3>3, <3>4, <2>1, <2>2, <2>5 DEF SliceSet, Within
  <2> QED
    BY <2>3, <2>4, <2>5
<1>2. f \in [l.slices -> SliceSet]
  BY <1>1
<1>3. SlicesOK({f[s] : s \in l.slices})
  <2> HIDE DEF f
  <2> QED
    BY <1>0, <1>1, <1>2, ShrinkFact
<1>4. invalidateBottom(l).slices = {f[s] : s \in l.slices}
  BY DEF invalidateBottom
<1> QED
  BY <1>3, <1>4 DEF ListOK, invalidateBottom

LEMMA RemoveAllFact == ListOK(removeAll)
<1>0. Top \in Nat
  BY TopAssumption
<1> DEFINE w == Slice({}, 0, Top)
<1>1. w = [messages |-> {}, from |-> 0, till |-> Top]
  BY DEF Slice
<1>2. w \in SliceSet /\ Within(w) /\ Apart(w, w)
  BY <1>0, <1>1 DEF SliceSet, Within, Apart
<1>3. removeAll = [slices |-> {w}, count |-> Some(0)]
  BY DEF removeAll
<1> HIDE DEF w
<1> QED
  BY <1>2, <1>3 DEF ListOK, SlicesOK

(* The range of an answer holds what came with it.                         *)
LEMMA RangeFact ==
    ASSUME NEW r \in Requests, NEW ids \in SUBSET Ids
    PROVE  LET range == noSkipRange(r, ids)
           IN  /\ range.from \in 0..Top /\ range.till \in 0..Top
               /\ range.from <= range.till
               /\ \A m \in ids : range.from <= m /\ m <= range.till
<1>0. Top \in Nat /\ r.around \in 0..Top
  BY TopAssumption DEF Requests
<1> DEFINE S == ids \cup {r.around}
           range == noSkipRange(r, ids)
<1>1. S \in SUBSET (0..Top) /\ S \in SUBSET Nat /\ S # {}
  <2>1. Ids \subseteq 0..Top /\ 0..Top \subseteq Nat
    BY <1>0 DEF Ids
  <2> QED
    BY <1>0, <2>1
<1>2. /\ Least(S) \in S /\ (\A y \in S : Least(S) <= y)
      /\ Greatest(S) \in S /\ (\A y \in S : Greatest(S) >= y)
  <2> HIDE DEF S
  <2> QED
    BY <1>1, LeastFact, GreatestFact
<1>3. Least(S) \in 0..Top /\ Greatest(S) \in 0..Top /\ Least(S) <= Greatest(S)
  BY <1>1, <1>2
<1>4. range.from = 0 \/ range.from = Least(S)
  BY DEF noSkipRange
<1>5. range.till = Top \/ range.till = Greatest(S)
  BY DEF noSkipRange
<1>6. \A m \in ids : m \in S /\ m \in 0..Top
  BY <1>1
<1> HIDE DEF S, range
<1>7. range.from \in 0..Top /\ range.till \in 0..Top
  BY <1>0, <1>3, <1>4, <1>5
<1>8. range.from <= range.till
  BY <1>0, <1>3, <1>4, <1>5
<1>9. \A m \in ids : range.from <= m /\ m <= range.till
  BY <1>0, <1>2, <1>3, <1>4, <1>5, <1>6
<1> QED
  BY <1>7, <1>8, <1>9 DEF range

-----------------------------------------------------------------------------
(* The builder.                                                            *)

(* The numbers of a builder may be anything.                               *)
LEMMA RenumberFact ==
    ASSUME NEW b, BuilderOK(b), NEW ids \in SUBSET Ids, NEW f, NEW g, NEW h
    PROVE  /\ BuilderOK([b EXCEPT !.full = f, !.after = h])
           /\ BuilderOK([b EXCEPT !.ids = ids, !.full = f, !.before = g,
                                  !.after = h])
BY DEF BuilderOK, IsBuilder

LEMMA AskForFact ==
    ASSUME NEW b, BuilderOK(b), NEW direction
    PROVE  askFor(b, direction) \in Requests
<1>0. Top \in Nat
  BY TopAssumption
<1>1. CASE b.ids = {}
  BY <1>1 DEF askFor, Request, Requests, Directions, BuilderOK
<1>2. CASE b.ids # {}
  <2>1. b.ids \in SUBSET Nat /\ b.ids \in SUBSET (0..Top)
    BY <1>0 DEF BuilderOK, Ids
  <2>2. Least(b.ids) \in b.ids /\ Greatest(b.ids) \in b.ids
    BY <1>2, <2>1, LeastFact, GreatestFact
  <2>3. Least(b.ids) \in 0..(Top - 1) /\ Greatest(b.ids) \in 0..(Top - 1)
    BY <2>2, <1>0 DEF BuilderOK, Ids
  <2> QED
    BY <1>2, <2>3 DEF askFor, Request, Requests, Directions
<1> QED
  BY <1>1, <1>2

LEMMA SliceToLimitsFact ==
    ASSUME NEW b, BuilderOK(b)
    PROVE  ResultOK(sliceToLimits(b))
<1>0. Top \in Nat \ {0}
  BY TopAssumption
<1> DEFINE x == sliceToLimits(b)
           below == {i \in b.ids : i < b.key}
           rest == b.ids \ below
           ids == LastOf(below, LimitBefore) \cup FirstOf(rest, LimitAfter + 1)
<1>1. Request(0, "Around") \in Requests
  BY <1>0 DEF Request, Requests, Directions
<1>2. /\ askFor(b, "Before") \in Requests
      /\ askFor(b, "After") \in Requests
  BY AskForFact
<1>3. x.asks \subseteq Requests
  <2> DEFINE before == {askFor(b, "Before")}
             after == {askFor(b, "After")}
  <2>1. x.asks \subseteq {askFor(b, "Before"), askFor(b, "After"),
                         Request(0, "Around")}
    BY DEF sliceToLimits
  <2> QED
    BY <1>1, <1>2, <2>1
<1>4. ids \subseteq b.ids
  BY DEF LastOf, FirstOf
<1>5. CASE b.key = 0
  <2>1. x.builder = b
    BY <1>5 DEF sliceToLimits
  <2> QED
    BY <2>1, <1>3 DEF ResultOK
<1>6. CASE b.key # 0
  <2>1. PICK before, after :
            x.builder = [b EXCEPT !.ids = ids, !.before = before,
                                  !.after = after]
    BY <1>6 DEF sliceToLimits
  <2> HIDE DEF x, ids
  <2>2. BuilderOK(x.builder)
    BY <2>1, <1>4 DEF BuilderOK, IsBuilder
  <2> QED
    BY <2>2, <1>3 DEF ResultOK, x
<1> QED
  BY <1>5, <1>6

LEMMA MergeFact ==
    ASSUME NEW b, BuilderOK(b), NEW count, NEW ids \in SUBSET Ids,
           NEW before, NEW after
    PROVE  ResultOK(mergeSliceData(b, count, ids, before, after))
<1> DEFINE f == IF count # None THEN count ELSE b.full
           c == [b EXCEPT !.full = IF count # None THEN count ELSE @]
           d == IF ids = {} THEN takeCount(b, count)
                ELSE mergeIds(c, ids, before, after)
           e == fillSkipped(d)
<1>1. BuilderOK(c)
  BY DEF BuilderOK, IsBuilder
<1>2. BuilderOK(takeCount(b, count))
  BY DEF takeCount, BuilderOK, IsBuilder
<1>3. BuilderOK(mergeIds(c, ids, before, after))
  <2>1. PICK bb, aa : mergeIds(c, ids, before, after)
            = [c EXCEPT !.ids = c.ids \cup ids, !.before = bb, !.after = aa]
    BY DEF mergeIds
  <2> HIDE DEF c
  <2> QED
    BY <1>1, <2>1 DEF BuilderOK, IsBuilder
<1>4. BuilderOK(d)
  BY <1>2, <1>3
<1> HIDE DEF c, d
<1>5. BuilderOK(e)
  BY <1>4 DEF fillSkipped, BuilderOK, IsBuilder
<1>6. mergeSliceData(b, count, ids, before, after) = sliceToLimits(e)
  BY DEF mergeSliceData, d, c
<1> HIDE DEF e
<1> QED
  BY <1>5, <1>6, SliceToLimitsFact

LEMMA ApplyUpdateFact ==
    ASSUME NEW b, BuilderOK(b), NEW u, u.slice.messages \subseteq Ids
    PROVE  ResultOK(applyUpdate(b, u))
<1>1. CASE applyUpdate(b, u) = [builder |-> b, asks |-> {}]
  BY <1>1 DEF ResultOK
<1>2. CASE \E ids \in SUBSET Ids : \E before, after :
          applyUpdate(b, u) = mergeSliceData(b, u.count, ids, before, after)
  BY <1>2, MergeFact
<1> QED
  BY <1>1, <1>2 DEF applyUpdate

LEMMA RemoveFromBuilderFact ==
    ASSUME NEW b, BuilderOK(b), NEW id
    PROVE  ResultOK(removeFromBuilder(b, id))
<1>1. PICK c : /\ BuilderOK(c)
               /\ removeFromBuilder(b, id) =
                      IF c = b THEN [builder |-> b, asks |-> {}]
                      ELSE sliceToLimits(c)
  <2> DEFINE C == CASE id \in b.ids ->
                         [b EXCEPT !.full = Less(@), !.ids = @ \ {id}]
                    [] b.ids # {} /\ id < Least(b.ids) /\ Missing(b.before)
                           /\ b.before # None ->
                         [b EXCEPT !.full = Less(@), !.before = Less(@)]
                    [] b.ids # {} /\ id > Greatest(b.ids) ->
                         [b EXCEPT !.full = Less(@), !.after = Less(@)]
                    [] OTHER -> [b EXCEPT !.full = Less(@)]
  <2>1. BuilderOK(C)
    BY DEF BuilderOK, IsBuilder
  <2> QED
    BY <2>1 DEF removeFromBuilder
<1>2. ResultOK([builder |-> b, asks |-> {}])
  BY DEF ResultOK
<1> QED
  BY <1>1, <1>2, SliceToLimitsFact

LEMMA RemoveAllFromBuilderFact ==
    ASSUME NEW b, BuilderOK(b)
    PROVE  BuilderOK(removeAllFromBuilder(b))
BY RenumberFact DEF removeAllFromBuilder

LEMMA InvalidateBuilderFact ==
    ASSUME NEW b, BuilderOK(b)
    PROVE  ResultOK(invalidateBuilder(b))
<1> DEFINE c == [b EXCEPT !.full = None, !.after = None]
<1>1. BuilderOK(c)
  BY RenumberFact
<1>2. invalidateBuilder(b) = sliceToLimits(c)
  BY DEF invalidateBuilder
<1> HIDE DEF c
<1> QED
  BY <1>1, <1>2, SliceToLimitsFact

LEMMA OpenBuilderFact ==
    ASSUME SlicesOK(list.slices), NEW key \in 0..(Top - 1)
    PROVE  ResultOK(openBuilder(key))
<1> DEFINE q == query(list, key, LimitBefore, LimitAfter)
           first == IF Around(list, key) # {} \/ list.count # None
                    THEN applyInitial(Builder(key), q)
                    ELSE [builder |-> Builder(key), asks |-> {}]
           last == sliceToLimits(first.builder)
<1>1. BuilderOK(Builder(key))
  BY DEF BuilderOK, IsBuilder, Builder
<1>2. q.ids \in SUBSET Ids
  <2>1. CASE Around(list, key) # {}
    <3> DEFINE s == CHOOSE x \in Around(list, key) : TRUE
    <3>1. s \in list.slices
      BY <2>1 DEF Around
    <3>2. s.messages \subseteq Ids
      BY <3>1 DEF SlicesOK, SliceSet
    <3>3. q = queryFromSlice(s, list.count, key, LimitBefore, LimitAfter)
      BY <2>1 DEF query
    <3> HIDE DEF s, q
    <3>4. q.ids \subseteq s.messages
      BY <3>3 DEF queryFromSlice, LastOf, FirstOf
    <3> QED
      BY <3>2, <3>4
  <2>2. CASE Around(list, key) = {}
    BY <2>2 DEF query, Nothing
  <2> QED
    BY <2>1, <2>2
<1>3. ResultOK(first)
  <2>1. ResultOK(applyInitial(Builder(key), q))
    <3> HIDE DEF q
    <3> QED
      BY <1>1, <1>2, MergeFact DEF applyInitial
  <2>2. ResultOK([builder |-> Builder(key), asks |-> {}])
    BY <1>1 DEF ResultOK
  <2> HIDE DEF q
  <2> QED
    BY <2>1, <2>2
<1>4. ResultOK(last)
  <2> HIDE DEF first
  <2> QED
    BY <1>3, SliceToLimitsFact DEF ResultOK
<1>5. openBuilder(key) = [builder |-> last.builder,
                          asks |-> first.asks \cup last.asks]
  BY DEF openBuilder
<1> HIDE DEF first, last
<1> QED
  BY <1>3, <1>4, <1>5 DEF ResultOK

-----------------------------------------------------------------------------
(* The steps.                                                              *)

(* What the viewer does keeps its builder and asks for message ids.        *)
LEMMA ViewerFact ==
    ASSUME BuilderOK(builder), NEW result, ResultOK(result),
           NEW asked \in SUBSET Requests, ViewerDoes(result, asked)
    PROVE  BuilderOK(builder)' /\ (requests \subseteq Requests)'
<1>1. CASE opened
  <2>1. builder' = result.builder /\ requests' = asked \cup result.asks
    BY <1>1 DEF ViewerDoes, requestSharedMedia
  <2> QED
    BY <2>1 DEF ResultOK
<1>2. CASE ~opened
  BY <1>2 DEF ViewerDoes
<1> QED
  BY <1>1, <1>2

(* A range is added to the list and the viewer hears of it.                *)
LEMMA AddFact ==
    ASSUME ListOK(list), BuilderOK(builder),
           NEW messages \in SUBSET Ids,
           NEW from \in 0..Top, NEW till \in 0..Top, from <= till,
           \A m \in messages : from <= m /\ m <= till,
           NEW count, NEW increment, NEW asked \in SUBSET Requests,
           add(addRange(list, messages, from, till, count, increment), asked)
    PROVE  /\ ListOK(list)' /\ BuilderOK(builder)'
           /\ (requests \subseteq Requests)'
<1> DEFINE x == addRange(list, messages, from, till, count, increment)
<1>1. ListOK(x.list) /\ x.update.slice.messages \subseteq Ids
  BY AddRangeFact
<1>2. list' = x.list /\ ViewerDoes(applyUpdate(builder, x.update), asked)
  BY DEF add
<1> HIDE DEF x
<1>3. ResultOK(applyUpdate(builder, x.update))
  BY <1>1, ApplyUpdateFact
<1>4. BuilderOK(builder)' /\ (requests \subseteq Requests)'
  BY <1>2, <1>3, ViewerFact
<1> QED
  BY <1>1, <1>2, <1>4

LEMMA InitInv == Init => Inv
<1> SUFFICES ASSUME Init PROVE Inv
  OBVIOUS
<1>0. Top \in Nat \ {0} /\ Seed \in Nat /\ MaxNews \in Nat /\ Seed + MaxNews < Top
  BY TopAssumption, MediaAssumption
<1>1. media \subseteq Ids
  BY <1>0 DEF Init, Ids
<1>2. spent \in [Steps -> Nat] /\ updates \in Seq(UpdateSet)
  BY DEF Init
<1>3. BuilderOK(builder)
  BY <1>0 DEF Init, Builder, BuilderOK, IsBuilder
<1>4. ListOK(list)
  BY DEF Init, EmptyList, ListOK, SlicesOK
<1> QED
  BY <1>1, <1>2, <1>3, <1>4 DEF Inv, Init

(* What the server finds are messages.                                     *)
LEMMA FoundFact ==
    ASSUME media \subseteq Ids, NEW r
    PROVE  found(r) \subseteq Ids
BY DEF found, LastOf, FirstOf

LEMMA SendFact ==
    ASSUME Inv, NEW u \in UpdateSet, Send(u), UNCHANGED client,
           media' \subseteq Ids, spent' \in [Steps -> Nat]
    PROVE  Inv'
<1>1. updates' \in Seq(UpdateSet)
  BY DEF Inv, Send
<1>2. answers' = answers
  BY DEF Send
<1>3. UNCHANGED <<list, requests, builder>>
  BY DEF client
<1> QED
  BY <1>1, <1>2, <1>3 DEF Inv, ListOK, BuilderOK, IsBuilder

LEMMA SpendFact ==
    ASSUME spent \in [Steps -> Nat], NEW step \in Steps, Spend(step)
    PROVE  spent' \in [Steps -> Nat] /\ spent[step] < Bound[step]
BY DEF Spend

LEMMA NextInv == Inv /\ [Next]_vars => Inv'
<1> SUFFICES ASSUME Inv, [Next]_vars PROVE Inv'
  OBVIOUS
<1>0. /\ Top \in Nat \ {0} /\ Seed \in Nat /\ MaxNews \in Nat
      /\ Seed + MaxNews < Top /\ Keys \subseteq 0..(Top - 1)
  BY TopAssumption, MediaAssumption
<1>1. CASE ServerNew
  <2> DEFINE id == Seed + spent["new"] + 1
  <2>1. spent' \in [Steps -> Nat] /\ spent["new"] < MaxNews
    <3>1. spent' \in [Steps -> Nat] /\ spent["new"] < Bound["new"]
      BY <1>1, SpendFact DEF ServerNew, Steps, Inv
    <3> QED
      BY <3>1 DEF Bound
  <2>2. spent["new"] \in Nat
    BY DEF Inv, Steps
  <2>3. id \in Ids
    BY <1>0, <2>1, <2>2 DEF Ids
  <2>4. Update("new", id) \in UpdateSet
    BY <1>0, <2>3 DEF Update, UpdateSet, Ids
  <2>5. Send(Update("new", id)) /\ media' = media \cup {id} /\ UNCHANGED client
    BY <1>1 DEF ServerNew
  <2> HIDE DEF id
  <2>6. media' \subseteq Ids
    BY <2>3, <2>5 DEF Inv
  <2> QED
    BY <2>1, <2>4, <2>5, <2>6, SendFact
<1>2. CASE \E id \in media : ServerDelete(id)
  <2>1. PICK id \in media : ServerDelete(id)
    BY <1>2
  <2>2. spent' \in [Steps -> Nat]
    BY <2>1, SpendFact DEF ServerDelete, Steps, Inv
  <2>3. Update("delete", id) \in UpdateSet
    BY <1>0, <2>1 DEF Update, UpdateSet, Ids, Inv
  <2>4. /\ Send(Update("delete", id)) /\ media' \subseteq Ids
        /\ UNCHANGED client
    BY <2>1 DEF ServerDelete, Inv
  <2> QED
    BY <2>2, <2>3, <2>4, SendFact
<1>3. CASE ServerClear
  <2>1. spent' \in [Steps -> Nat]
    BY <1>3, SpendFact DEF ServerClear, Steps, Inv
  <2>2. Update("clear", 0) \in UpdateSet
    BY <1>0 DEF Update, UpdateSet
  <2>3. Send(Update("clear", 0)) /\ media' \subseteq Ids /\ UNCHANGED client
    BY <1>3 DEF ServerClear
  <2> QED
    BY <2>1, <2>2, <2>3, SendFact
<1>4. CASE \E r \in requests : Serve(r)
  <2>1. PICK r \in requests : Serve(r)
    BY <1>4
  <2>2. /\ answers' = answers \cup {Reply(r)}
        /\ UNCHANGED <<media, spent, updates, list, requests, builder>>
    BY <2>1 DEF Serve, client
  <2>3. r \in Requests /\ found(r) \subseteq Ids
    BY FoundFact DEF Inv
  <2>4. AnswerOK(Reply(r))
    BY <2>3 DEF AnswerOK, Reply
  <2> QED
    BY <2>2, <2>4 DEF Inv, ListOK, BuilderOK, IsBuilder
<1>5. CASE \E r \in requests : Fail(r)
  <2>1. PICK r \in requests : Fail(r)
    BY <1>5
  <2>2. spent' \in [Steps -> Nat]
    BY <2>1, SpendFact DEF Fail, Steps, Inv
  <2>3. /\ requests' = requests \ {r}
        /\ UNCHANGED <<media, updates, answers, list, builder>>
    BY <2>1 DEF Fail
  <2> QED
    BY <2>2, <2>3 DEF Inv, ListOK, BuilderOK, IsBuilder
<1>6. CASE ReceiveUpdate
  <2> DEFINE u == Head(updates)
  <2>1. u \in UpdateSet /\ updates' \in Seq(UpdateSet)
    BY <1>6 DEF ReceiveUpdate, Inv
  <2>2. UNCHANGED <<media, spent, answers, opened>>
    BY <1>6 DEF ReceiveUpdate
  <2> SUFFICES ListOK(list)' /\ BuilderOK(builder)' /\ (requests \subseteq Requests)'
    BY <2>1, <2>2 DEF Inv
  <2>0. ListOK(list) /\ BuilderOK(builder) /\ requests \in SUBSET Requests
    BY DEF Inv
  <2>3. CASE u.kind = "new" /\ ApplyNew(u)
    <3>1. u.id \in Ids
      BY <2>1, <2>3 DEF UpdateSet
    <3>2. u.id \in 0..Top /\ Top \in 0..Top /\ u.id <= Top
      BY <3>1, <1>0 DEF Ids
    <3>3. {u.id} \in SUBSET Ids /\ \A m \in {u.id} : u.id <= m /\ m <= Top
      BY <3>1, <3>2
    <3>4. add(addRange(list, {u.id}, u.id, Top, None, TRUE), requests)
      BY <2>3 DEF ApplyNew, addNew
    <3> HIDE DEF u
    <3> QED
      BY <2>0, <3>2, <3>3, <3>4, AddFact
  <2>4. CASE u.kind = "delete" /\ ApplyDelete(u)
    <3>1. CASE u.id \in loaded /\ enforced
      <4>1. /\ list' = removeOne(list, u.id)
            /\ ViewerDoes(removeFromBuilder(builder, u.id), requests)
        BY <2>4, <3>1 DEF ApplyDelete
      <4>2. ResultOK(removeFromBuilder(builder, u.id))
        BY <2>0, RemoveFromBuilderFact
      <4>3. ListOK(removeOne(list, u.id))
        BY <2>0, RemoveOneFact
      <4>4. BuilderOK(builder)' /\ (requests \subseteq Requests)'
        BY <2>0, <4>1, <4>2, ViewerFact
      <4> QED
        BY <4>1, <4>3, <4>4
    <3>2. CASE ~(u.id \in loaded /\ enforced)
      <4>1. UNCHANGED <<list, builder, requests>>
        BY <2>4, <3>2 DEF ApplyDelete
      <4> QED
        BY <2>0, <4>1 DEF ListOK, BuilderOK, IsBuilder
    <3> QED
      BY <3>1, <3>2
  <2>5. CASE u.kind = "clear" /\ ApplyClear
    <3>1. CASE enforced
      <4> DEFINE x == [builder |-> removeAllFromBuilder(builder), asks |-> {}]
      <4>1. list' = removeAll /\ ViewerDoes(x, requests)
        BY <2>5, <3>1 DEF ApplyClear
      <4>2. ResultOK(x)
        BY <2>0, RemoveAllFromBuilderFact DEF ResultOK
      <4> HIDE DEF x
      <4>3. BuilderOK(builder)' /\ (requests \subseteq Requests)'
        BY <2>0, <4>1, <4>2, ViewerFact
      <4> QED
        BY <4>1, <4>3, RemoveAllFact
    <3>2. CASE ~enforced
      <4>1. UNCHANGED <<list, builder, requests>>
        BY <2>5, <3>2 DEF ApplyClear
      <4> QED
        BY <2>0, <4>1 DEF ListOK, BuilderOK, IsBuilder
    <3> QED
      BY <3>1, <3>2
  <2> QED
    BY <1>6, <2>3, <2>4, <2>5 DEF ReceiveUpdate
<1>7. CASE \E a \in answers : ReceiveAnswer(a)
  <2>1. PICK a \in answers : ReceiveAnswer(a)
    BY <1>7
  <2> DEFINE range == noSkipRange(a.req, a.ids)
  <2>2. a.req \in Requests /\ a.ids \in SUBSET Ids
    BY DEF Inv, AnswerOK
  <2>3. /\ range.from \in 0..Top /\ range.till \in 0..Top
        /\ range.from <= range.till
        /\ \A m \in a.ids : range.from <= m /\ m <= range.till
    BY <2>2, RangeFact
  <2>4. add(addRange(list, a.ids, range.from, range.till, a.count, FALSE),
            requests \ {a.req})
    BY <2>1 DEF ReceiveAnswer, addSlice
  <2>5. answers' = answers \ {a} /\ UNCHANGED <<media, spent, updates>>
    BY <2>1 DEF ReceiveAnswer
  <2>6. requests \ {a.req} \in SUBSET Requests
    BY DEF Inv
  <2>7. ListOK(list) /\ BuilderOK(builder)
    BY DEF Inv
  <2> HIDE DEF range
  <2>8. ListOK(list)' /\ BuilderOK(builder)' /\ (requests \subseteq Requests)'
    BY <2>2, <2>3, <2>4, <2>6, <2>7, AddFact
  <2> QED
    BY <2>5, <2>8 DEF Inv
<1>8. CASE SkipUpdates
  <2>1. spent' \in [Steps -> Nat]
    BY <1>8, SpendFact DEF SkipUpdates, Steps, Inv
  <2>2. updates' = <<>> /\ UNCHANGED <<media, answers, opened>>
    BY <1>8 DEF SkipUpdates
  <2>3. ListOK(list) /\ BuilderOK(builder) /\ requests \in SUBSET Requests
    BY DEF Inv
  <2>4. ListOK(list)' /\ BuilderOK(builder)' /\ (requests \subseteq Requests)'
    <3>1. CASE enforced
      <4>1. /\ list' = invalidateBottom(list)
            /\ ViewerDoes(invalidateBuilder(builder), requests)
        BY <1>8, <3>1 DEF SkipUpdates
      <4>2. ResultOK(invalidateBuilder(builder))
        BY <2>3, InvalidateBuilderFact
      <4>3. ListOK(invalidateBottom(list))
        BY <2>3, InvalidateFact
      <4>4. BuilderOK(builder)' /\ (requests \subseteq Requests)'
        BY <2>3, <4>1, <4>2, ViewerFact
      <4> QED
        BY <4>1, <4>3, <4>4
    <3>2. CASE ~enforced
      <4>1. UNCHANGED <<list, builder, requests>>
        BY <1>8, <3>2 DEF SkipUpdates
      <4> QED
        BY <2>3, <4>1 DEF ListOK, BuilderOK, IsBuilder
    <3> QED
      BY <3>1, <3>2
  <2>5. updates' \in Seq(UpdateSet)
    BY <2>2
  <2> QED
    BY <2>1, <2>2, <2>4, <2>5 DEF Inv
<1>9. CASE \E key \in Keys : OpenViewer(key)
  <2>1. PICK key \in Keys : OpenViewer(key)
    BY <1>9
  <2>2. spent' \in [Steps -> Nat]
    BY <2>1, SpendFact DEF OpenViewer, Steps, Inv
  <2>3. /\ builder' = openBuilder(key).builder
        /\ requests' = requests \cup openBuilder(key).asks
        /\ UNCHANGED <<media, updates, answers, list>>
    BY <2>1 DEF OpenViewer, requestSharedMedia
  <2>4. ResultOK(openBuilder(key))
    BY <1>0, OpenBuilderFact DEF Inv, ListOK
  <2>5. BuilderOK(builder)' /\ (requests \subseteq Requests)'
    BY <2>3, <2>4 DEF ResultOK, Inv
  <2> QED
    BY <2>2, <2>3, <2>5 DEF Inv, ListOK
<1>10. CASE UNCHANGED vars
  BY <1>10 DEF Inv, vars, ListOK, BuilderOK, IsBuilder
<1> QED
  BY <1>1, <1>2, <1>3, <1>4, <1>5, <1>6, <1>7, <1>8, <1>9, <1>10 DEF Next

-----------------------------------------------------------------------------
(* Every list, request and window holds message ids, and the slices lie    *)
(* apart, in every reachable state.                                        *)
THEOREM AlwaysInv == Spec => []Inv
<1> QED
  BY InitInv, NextInv, PTL DEF Spec

(* Two slices of the list never meet and each holds its messages, for      *)
(* every size of chat and answer, and in whatever order answers and        *)
(* updates arrive: SparseIdsList may search its slices by their ends.      *)
THEOREM AlwaysSlicesApart == Spec => []SlicesApart
<1>1. Inv => SlicesApart
  <2> SUFFICES ASSUME Inv, NEW s \in list.slices
               PROVE  /\ 0 <= s.from /\ s.from <= s.till /\ s.till <= Top
                      /\ \A m \in s.messages : s.from <= m /\ m <= s.till
                      /\ \A t \in list.slices :
                             s = t \/ s.till < t.from \/ t.till < s.from
    BY DEF SlicesApart
  <2>0. SlicesOK(list.slices)
    BY DEF Inv, ListOK
  <2>1. Within(s) /\ s \in SliceSet
    BY <2>0 DEF SlicesOK
  <2>2. 0 <= s.from /\ s.till <= Top
    BY <2>1, TopAssumption DEF SliceSet
  <2>3. \A t \in list.slices : Apart(s, t)
    BY <2>0 DEF SlicesOK
  <2> QED
    BY <2>1, <2>2, <2>3 DEF Within, Apart
<1> QED
  BY <1>1, AlwaysInv, PTL
=============================================================================
