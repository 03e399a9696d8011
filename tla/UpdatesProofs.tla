---------------------------- MODULE UpdatesProofs ----------------------------
(***************************************************************************)
(* Proofs about module Updates: the invariant Inv is inductive, and what   *)
(* follows from it.  The argument is about one box at a time.  A step      *)
(* either only asks for a difference in some boxes (the relation Asks) or  *)
(* counts one update that arrives (Arrives, Outcome), starts a box over    *)
(* after a difference, or lets the server move on.                         *)
(***************************************************************************)
EXTENDS Updates, FiniteSetTheorems, TLAPS

(* v is w, perhaps with a difference requested: the position is the same,  *)
(* and a deadline is given up only for a request.                          *)
Asks(w, v) ==
  /\ v.good = w.good /\ v.last = w.last /\ v.count = w.count
  /\ v.reply = w.reply
  /\ \/ /\ v.requesting = w.requesting
        /\ v.queue = w.queue /\ v.seen = w.seen
        /\ v.waitingForSkipped = w.waitingForSkipped
        /\ v.request = w.request
        /\ (w.byPts => v.byPts) \/ w.requesting \/ w.good = 0
     \/ v.requesting /\ v.queue = {} /\ v.seen = {} /\ v.request = "asked"

(* Updates::getDifference only asks. *)
LEMMA GetDifferenceAsks ==
  ASSUME NEW w \in BoxType
  PROVE  getDifference(w) \in BoxType /\ Asks(w, getDifference(w))
BY DEF BoxType, getDifference, ask, setRequesting, clearSkippedUpdates, Asks, inited

(* Updates::getChannelDifference only asks. *)
LEMMA GetChannelDifferenceAsks ==
  ASSUME NEW w \in BoxType, NEW from
  PROVE  LET v == getChannelDifference(w, from)
         IN  v \in BoxType /\ Asks(w, v) /\ (v.byPts = w.byPts \/ from # "PtsGapOrShortPoll")
<1> DEFINE v == IF from # "PtsGapOrShortPoll" THEN [w EXCEPT !.byPts = FALSE] ELSE w
           u == IF from # "AfterFail" THEN [v EXCEPT !.afterFail = FALSE] ELSE v
<1>1. /\ v \in BoxType /\ v.good = w.good /\ v.last = w.last /\ v.count = w.count
      /\ v.reply = w.reply /\ v.requesting = w.requesting
      /\ v.queue = w.queue /\ v.seen = w.seen /\ v.request = w.request
      /\ v.waitingForSkipped = w.waitingForSkipped
      /\ v.byPts = w.byPts \/ from # "PtsGapOrShortPoll"
  BY DEF BoxType
<1>2. CASE ~inited(v) \/ v.requesting
  <2>1. getChannelDifference(w, from) = v
    BY <1>2 DEF getChannelDifference
  <2> HIDE DEF v
  <2> QED BY <1>1, <1>2, <2>1 DEF Asks, inited, BoxType
<1>3. CASE ~(~inited(v) \/ v.requesting)
  <2>1. getChannelDifference(w, from) = ask(u)
    BY <1>3 DEF getChannelDifference
  <2> HIDE DEF v
  <2>2. u \in BoxType /\ u.good = v.good /\ u.last = v.last /\ u.count = v.count /\ u.reply = v.reply /\ u.byPts = v.byPts
    BY <1>1 DEF BoxType
  <2> HIDE DEF u
  <2>3. /\ ask(u) \in BoxType /\ ask(u).byPts = u.byPts /\ Asks(u, ask(u))
        /\ ask(u).requesting /\ ask(u).queue = {} /\ ask(u).seen = {} /\ ask(u).request = "asked"
    BY <2>2 DEF BoxType, ask, setRequesting, clearSkippedUpdates, Asks
  <2> QED BY <1>1, <2>1, <2>2, <2>3 DEF Asks
<1> QED BY <1>2, <1>3
-----------------------------------------------------------------------------
(* Asking for a difference keeps the waiter's invariant. *)
LEMMA AsksKeepsInv ==
  ASSUME NEW w \in BoxType, NEW v \in BoxType, NEW A, NEW B \in Nat,
         NEW L, NEW E,
         WaiterInv(w, A, B, L, E), Asks(w, v)
  PROVE  WaiterInv(v, A, B, L, E)
<1>1. CASE v.requesting /\ v.queue = {} /\ v.seen = {} /\ v.request = "asked"
  BY <1>1 DEF WaiterInv, Asks, BoxType
<1>2. CASE /\ v.requesting = w.requesting
           /\ v.queue = w.queue /\ v.seen = w.seen
           /\ v.waitingForSkipped = w.waitingForSkipped
           /\ v.request = w.request
           /\ (w.byPts => v.byPts) \/ w.requesting \/ w.good = 0
  BY <1>2 DEF WaiterInv, Asks, BoxType
<1> QED BY <1>1, <1>2 DEF Asks

(* Two disjoint sets of points in the gap from g to l. *)
InGap(g, l, S, T) ==
  /\ g \in Nat /\ l \in Nat /\ g <= l
  /\ S \in SUBSET ((g + 1) .. l) /\ T \in SUBSET ((g + 1) .. l)
  /\ \A x \in S : x \notin T

(* What counting the points of S and T tells about the gap. *)
CountsGap(g, l, S, T) ==
  /\ IsFiniteSet(S)
  /\ Cardinality(S) \in Nat
  /\ Cardinality(S \cup T) = Cardinality(S) + Cardinality(T)
  /\ g + Cardinality(S \cup T) <= l
  /\ g + Cardinality(S \cup T) = l => S \cup T = (g + 1) .. l

(* They never count more than the gap, and they fill it when they count as *)
(* much.                                                                   *)
LEMMA GapClosed ==
  ASSUME NEW g, NEW l, NEW S, NEW T, InGap(g, l, S, T)
  PROVE  CountsGap(g, l, S, T)
<1> USE DEF InGap
<1>1. /\ IsFiniteSet((g + 1) .. l)
      /\ Cardinality((g + 1) .. l) = IF g + 1 > l THEN 0 ELSE l - (g + 1) + 1
  BY FS_Interval
<1>2. IsFiniteSet(S) /\ IsFiniteSet(T)
  BY <1>1, FS_Subset
<1>3. Cardinality(S) \in Nat /\ Cardinality(T) \in Nat
  BY <1>2, FS_CardinalityType
<1>4. Cardinality(S \cup T) = Cardinality(S) + Cardinality(T)
  <2>1. S \cap T = {}
    OBVIOUS
  <2>2. Cardinality(S \cap T) = 0
    BY <2>1, FS_EmptySet
  <2>3. Cardinality(S \cup T) = Cardinality(S) + Cardinality(T) - Cardinality(S \cap T)
    BY <1>2, FS_Union, Zenon
  <2> QED BY <1>3, <2>2, <2>3
<1>5. S \cup T \in SUBSET ((g + 1) .. l)
  OBVIOUS
<1>6. /\ Cardinality(S \cup T) <= Cardinality((g + 1) .. l)
      /\ Cardinality((g + 1) .. l) = Cardinality(S \cup T) => S \cup T = (g + 1) .. l
  BY <1>1, <1>5, FS_Subset
<1>7. Cardinality((g + 1) .. l) = l - g
  BY <1>1
<1>8. g + Cardinality(S \cup T) <= l
  BY <1>3, <1>4, <1>6, <1>7
<1>9. g + Cardinality(S \cup T) = l => Cardinality((g + 1) .. l) = Cardinality(S \cup T)
  BY <1>3, <1>4, <1>7
<1> QED BY <1>2, <1>3, <1>4, <1>6, <1>8, <1>9 DEF CountsGap

(* An update stands for as many points as its pts_count says. *)
LEMMA PointsCardinality ==
  ASSUME NEW e \in Update, e.count <= e.pts
  PROVE  IsFiniteSet(Points(e)) /\ Cardinality(Points(e)) = e.count
<1> DEFINE a == e.pts - e.count + 1
           b == e.pts
<1>1. a \in Int /\ b \in Int /\ e.count \in Nat
  BY DEF Update
<1>2. a > b => e.count = 0
  BY <1>1 DEF Update
<1>3. b - a + 1 = e.count
  BY <1>1 DEF Update
<1>4. Points(e) = a .. b
  BY DEF Points
<1> HIDE DEF a, b
<1>5. IsFiniteSet(a .. b) /\ Cardinality(a .. b) = IF a > b THEN 0 ELSE b - a + 1
  BY <1>1, FS_Interval
<1> QED BY <1>2, <1>3, <1>4, <1>5
-----------------------------------------------------------------------------
(* What the operators of PtsWaiter do to a waiter, field by field. *)

(* PtsWaiter::init: the position is p, nothing is queued. *)
LEMMA InitFields ==
  ASSUME NEW w \in BoxType, NEW p \in Nat
  PROVE  /\ init(w, p) \in BoxType
         /\ init(w, p).good = p /\ init(w, p).last = p /\ init(w, p).count = p
         /\ init(w, p).seen = {} /\ init(w, p).queue = {}
         /\ init(w, p).requesting = w.requesting
         /\ init(w, p).request = w.request /\ init(w, p).reply = w.reply
BY DEF BoxType, init, clearSkippedUpdates

(* An update arrives, or a pts is received, in its turn: the gap is closed. *)
LEMMA CheckClosed ==
  ASSUME NEW w \in BoxType, NEW e \in Update, inited(w),
         lastWith(w, e) = w.count + e.count
  PROVE  LET v == check(w, e) IN
         /\ v \in BoxType
         /\ v.good = lastWith(w, e) /\ v.last = lastWith(w, e)
         /\ v.count = lastWith(w, e) /\ v.seen = {}
         /\ v.queue = w.queue /\ v.requesting = w.requesting
         /\ v.waitingForSkipped = w.waitingForSkipped /\ v.byPts = w.byPts
         /\ v.request = w.request /\ v.reply = w.reply
BY DEF BoxType, check, lastWith, Update

(* An update arrives ahead of its turn. *)
LEMMA CheckGap ==
  ASSUME NEW w \in BoxType, NEW e \in Update, e.count <= e.pts, inited(w),
         lastWith(w, e) # w.count + e.count
  PROVE  LET v == check(w, e) IN
         /\ v \in BoxType
         /\ v.good = w.good /\ v.last = lastWith(w, e)
         /\ v.count = w.count + e.count /\ v.seen = w.seen \cup Points(e)
         /\ v.queue = w.queue /\ v.requesting = w.requesting
         /\ v.waitingForSkipped = TRUE /\ v.byPts = TRUE
         /\ v.request = w.request /\ v.reply = w.reply
<1>1. Points(e) \in SUBSET Nat
  BY DEF Points, Update
<1>2. lastWith(w, e) \in Nat /\ w.count + e.count \in Nat /\ w.count + e.count = w.count + e.count
  BY DEF BoxType, lastWith, Update
<1> QED BY <1>1, <1>2 DEF BoxType, check, setWaitingForSkipped

(* PtsWaiter::applySkippedUpdates leaves the position and the sums alone. *)
LEMMA ApplySkippedFields ==
  ASSUME NEW w \in BoxType
  PROVE  LET v == applySkippedUpdates(w) IN
         /\ v \in BoxType
         /\ v.good = w.good /\ v.last = w.last /\ v.count = w.count
         /\ v.seen = w.seen /\ v.requesting = w.requesting
         /\ v.request = w.request /\ v.reply = w.reply
         /\ v.queue = IF w.waitingForSkipped THEN {} ELSE w.queue
BY DEF BoxType, applySkippedUpdates, setWaitingForSkipped, checkForWaiting,
       clearSkippedUpdates
-----------------------------------------------------------------------------
(* The heart of the argument: _count - _good is the number of points above *)
(* _good that were seen, each once, so _last = _count means that all of    *)
(* them were.                                                              *)
LEMMA CountedPoints ==
  ASSUME NEW w \in BoxType, NEW e \in Update, NEW A, NEW B \in Nat,
         NEW L \in SUBSET Nat, NEW E,
         WaiterInv(w, A, B, L, E), Fits(e, L),
         \A p \in w.seen : p \notin Points(e),
         ~w.requesting, inited(w), ~alreadyApplied(w, e)
  PROVE  LET l == lastWith(w, e)
             S == w.seen \cup Points(e)
         IN  /\ l \in L /\ l >= w.good
             /\ S \subseteq (w.good + 1) .. l
             /\ w.count + e.count = w.good + Cardinality(S)
             /\ w.count + e.count <= l
             /\ l = w.count + e.count => S = (w.good + 1) .. l
<1> DEFINE l == lastWith(w, e)
<1>1. /\ w.good \in Nat /\ w.last \in Nat /\ w.count \in Nat
      /\ e.pts \in Nat /\ e.count \in Nat /\ e.count <= e.pts
  BY DEF BoxType, Update, Fits
<1>2. l \in L /\ l \in Nat /\ l >= w.good /\ l >= w.last /\ l >= e.pts
  BY <1>1 DEF WaiterInv, Fits, inited, lastWith
<1>3. w.seen \subseteq (w.good + 1) .. l
  BY <1>1, <1>2 DEF WaiterInv
<1>4. Points(e) \subseteq (w.good + 1) .. l
  <2>1. e.count > 0 => w.good <= e.pts - e.count
    BY <1>1 DEF WaiterInv, Fits, inited, alreadyApplied
  <2> QED BY <1>1, <1>2, <2>1 DEF Points
<1>6. Cardinality(Points(e)) = e.count
  BY <1>1, PointsCardinality
<1>7. w.count = w.good + Cardinality(w.seen)
  BY DEF WaiterInv
<1> HIDE DEF l
<1>5. w.seen \in SUBSET ((w.good + 1) .. l) /\ Points(e) \in SUBSET ((w.good + 1) .. l)
  BY <1>3, <1>4
<1>8. /\ IsFiniteSet(w.seen)
      /\ Cardinality(w.seen) \in Nat
      /\ Cardinality(w.seen \cup Points(e)) = Cardinality(w.seen) + Cardinality(Points(e))
      /\ w.good + Cardinality(w.seen \cup Points(e)) <= l
      /\ w.good + Cardinality(w.seen \cup Points(e)) = l
           => w.seen \cup Points(e) = (w.good + 1) .. l
  <2>1. w.good \in Nat /\ l \in Nat /\ w.good <= l
    BY <1>1, <1>2
  <2>2. InGap(w.good, l, w.seen, Points(e))
    BY <2>1, <1>5 DEF InGap
  <2>3. CountsGap(w.good, l, w.seen, Points(e))
    BY <2>2, GapClosed
  <2> QED BY <2>3 DEF CountsGap
<1>10. w.seen \cup Points(e) \subseteq (w.good + 1) .. l
  BY <1>3, <1>4
<1>11. w.count + e.count = w.good + Cardinality(w.seen \cup Points(e))
  BY <1>1, <1>6, <1>7, <1>8
<1>12. w.count + e.count <= l
  BY <1>1, <1>2, <1>8, <1>11
<1>13. l = w.count + e.count => w.seen \cup Points(e) = (w.good + 1) .. l
  BY <1>8, <1>11
<1> QED BY <1>2, <1>10, <1>11, <1>12, <1>13 DEF l

(* check, when the gap closes and all that was put aside is applied. *)
LEMMA ClosedInv ==
  ASSUME NEW w \in BoxType, NEW v \in BoxType, NEW e \in Update,
         NEW A, NEW D, NEW B \in Nat, NEW L \in SUBSET Nat, NEW E, NEW F,
         WaiterInv(w, A, B, L, E), Fits(e, L),
         \A p \in w.seen : p \notin Points(e),
         ~w.requesting, inited(w), ~alreadyApplied(w, e),
         lastWith(w, e) = w.count + e.count,
         v.good = lastWith(w, e), v.last = lastWith(w, e),
         v.count = lastWith(w, e), v.seen = {}, v.queue = {},
         v.requesting = w.requesting, v.request = w.request,
         A \subseteq D, Points(e) \subseteq D,
         \A f \in w.queue : Points(f) \subseteq D
  PROVE  WaiterInv(v, D, B, L, F) /\ v.good >= w.good
<1> DEFINE l == lastWith(w, e)
<1>1. l \in L /\ l >= w.good /\ w.seen \cup Points(e) = (w.good + 1) .. l
  BY CountedPoints
<1>2. l \in Nat /\ w.good \in Nat
  BY <1>1 DEF BoxType
<1>3. \A p \in (B + 1) .. l : p \in D
  <2> SUFFICES ASSUME NEW p \in (B + 1) .. l PROVE p \in D
    OBVIOUS
  <2>1. CASE p <= w.good
    BY <2>1, <1>2 DEF WaiterInv
  <2>2. CASE p > w.good
    <3>1. p \in w.seen \/ p \in Points(e)
      BY <1>1, <1>2, <2>2
    <3> QED BY <3>1 DEF WaiterInv
  <2> QED BY <1>2, <2>1, <2>2
<1>4. Cardinality(v.seen) = 0
  BY FS_EmptySet
<1>5. v.request = "none"
  BY DEF WaiterInv
<1> HIDE DEF l
<1>6. v.good = l /\ v.last = l /\ v.count = l
  BY DEF l
<1> QED BY <1>1, <1>2, <1>3, <1>4, <1>5, <1>6 DEF WaiterInv
(* check, when a gap remains.  What was put aside is applied (as after an  *)
(* update that only tells the pts), the update is put aside, or it was     *)
(* applied already.                                                        *)
LEMMA GapInv ==
  ASSUME NEW w \in BoxType, NEW v \in BoxType, NEW e \in Update,
         NEW A, NEW D, NEW B \in Nat, NEW L \in SUBSET Nat, NEW E, NEW F,
         WaiterInv(w, A, B, L, E), Fits(e, L),
         \A p \in w.seen : p \notin Points(e),
         ~w.requesting, inited(w), ~alreadyApplied(w, e),
         v.good = w.good, v.last = lastWith(w, e),
         v.count = w.count + e.count, v.seen = w.seen \cup Points(e),
         v.requesting = w.requesting, v.request = w.request,
         A \subseteq D,
         \/ /\ v.queue = {}
            /\ Points(e) \subseteq D
            /\ \A f \in w.queue : Points(f) \subseteq D
         \/ /\ v.queue = w.queue \cup {e}
            /\ v.waitingForSkipped /\ v.byPts
         \/ /\ v.queue = w.queue
            /\ Points(e) \subseteq D
            /\ v.waitingForSkipped /\ v.byPts,
         F \subseteq E, \A f \in F : \A p \in Points(f) : p \notin Points(e)
  PROVE  WaiterInv(v, D, B, L, F)
<1> DEFINE l == lastWith(w, e)
<1>1. /\ l \in L /\ l >= w.good
      /\ w.seen \cup Points(e) \subseteq (w.good + 1) .. l
      /\ w.count + e.count = w.good + Cardinality(w.seen \cup Points(e))
      /\ w.count + e.count <= l
  BY CountedPoints
<1> HIDE DEF l
<1>2. v.last = l
  BY DEF l
<1>3. /\ v.good = 0 => v.last = 0 /\ v.count = 0 /\ v.queue = {}
      /\ v.good > 0 => v.good \in L /\ v.last \in L
      /\ v.good <= v.last
      /\ v.count <= v.last
  BY <1>1, <1>2 DEF WaiterInv, inited, BoxType
<1>4. /\ v.count = v.good + Cardinality(v.seen)
      /\ v.seen \subseteq (v.good + 1) .. v.last
  BY <1>1, <1>2
<1>5. v.queue # {} => v.waitingForSkipped /\ v.byPts /\ ~v.requesting
  OBVIOUS
<1>6. \A p \in v.seen : p \in D \/ \E f \in v.queue : p \in Points(f)
  <2> SUFFICES ASSUME NEW p \in v.seen, p \notin D
               PROVE  \E f \in v.queue : p \in Points(f)
    OBVIOUS
  <2>1. CASE p \in w.seen
    <3>1. \E f \in w.queue : p \in Points(f)
      BY <2>1 DEF WaiterInv
    <3> QED BY <3>1
  <2>2. CASE p \in Points(e)
    BY <2>2
  <2> QED BY <2>1, <2>2
<1>7. \A p \in (B + 1) .. v.good : p \in D
  BY DEF WaiterInv
<1>8. v.request = "none"
  BY DEF WaiterInv
<1>9. \A f \in F : \A p \in v.seen : p \notin Points(f)
  BY DEF WaiterInv
<1> QED BY <1>3, <1>4, <1>5, <1>6, <1>7, <1>8, <1>9 DEF WaiterInv

(* A waiter that starts at p. *)
LEMMA StartInv ==
  ASSUME NEW v \in BoxType, NEW D, NEW B \in Nat,
         NEW L \in SUBSET Nat, NEW F,
         v.good \in L, v.good > 0, v.last = v.good, v.count = v.good,
         v.seen = {}, v.queue = {}, v.request = "none",
         \A p \in (B + 1) .. v.good : p \in D
  PROVE  WaiterInv(v, D, B, L, F)
BY FS_EmptySet DEF WaiterInv, BoxType

(* The update e arrives at the waiter w, F being still on the way. *)
Arrives(w, e, A, B, L, E, F) ==
  /\ w \in BoxType /\ e \in Update /\ B \in Nat
  /\ L \in SUBSET Nat /\ (\A q \in L : q > 0)
  /\ WaiterInv(w, A, B, L, E) /\ Fits(e, L)
  /\ \A p \in w.seen : p \notin Points(e)
  /\ F \subseteq E
  /\ \A f \in F : \A p \in Points(f) : p \notin Points(e)

(* After that update the box has the waiter v, and has applied D. *)
Outcome(w, v, D, B, L, F) ==
  /\ v \in BoxType
  /\ WaiterInv(v, D, IF inited(w) THEN B ELSE v.good, L, F)
  /\ v.good >= w.good
(* Nothing changes but that more is applied. *)
LEMMA SameInv ==
  ASSUME NEW w, NEW e, NEW A, NEW B, NEW L, NEW E, NEW F, NEW D,
         Arrives(w, e, A, B, L, E, F), A \subseteq D
  PROVE  Outcome(w, w, D, B, L, F)
<1>1. w \in BoxType /\ B \in Nat /\ F \subseteq E /\ WaiterInv(w, A, B, L, E)
  BY DEF Arrives
<1>2. WaiterInv(w, D, IF inited(w) THEN B ELSE w.good, L, F)
  BY <1>1 DEF WaiterInv, inited, BoxType
<1> QED BY <1>1, <1>2 DEF Outcome, BoxType

(* PtsWaiter::updateAndApply with an update. *)
LEMMA UpdateAndApplyInv ==
  ASSUME NEW w, NEW e, NEW A, NEW B, NEW L, NEW E, NEW F,
         Arrives(w, e, A, B, L, E, F), e.count > 0
  PROVE  Outcome(w, updateAndApply(w, e),
                 A \cup PointsOf(AppliedWith(w, e)), B, L, F)
<1> DEFINE D == A \cup PointsOf(AppliedWith(w, e))
           u == updated(w, e)
           v == updateAndApply(w, e)
<1>1. /\ w \in BoxType /\ e \in Update /\ B \in Nat /\ L \in SUBSET Nat
      /\ \A q \in L : q > 0
      /\ WaiterInv(w, A, B, L, E) /\ Fits(e, L)
      /\ \A p \in w.seen : p \notin Points(e)
      /\ F \subseteq E /\ \A f \in F : \A p \in Points(f) : p \notin Points(e)
  BY DEF Arrives
<1>2. A \subseteq D
  OBVIOUS
<1>3. CASE w.requesting
  <2>1. updatedResult(w, e) /\ u = w
    BY <1>3 DEF updatedResult, updated, updatedCount
  <2>2. ~throughQueue(w)
    BY <1>1, <1>3 DEF throughQueue, WaiterInv
  <2>3. v = w
    BY <2>1, <2>2 DEF updateAndApply
  <2> QED BY <1>2, <2>3, SameInv
<1>4. CASE ~w.requesting /\ alreadyApplied(w, e)
  <2>1. ~updatedResult(w, e) /\ u = w
    BY <1>4 DEF updatedResult, updated, updatedCount
  <2>2. v = w
    BY <2>1 DEF updateAndApply
  <2> QED BY <1>2, <2>2, SameInv
<1>5. CASE ~w.requesting /\ ~alreadyApplied(w, e) /\ ~inited(w)
  <2>1. updatedResult(w, e) /\ u = init(w, e.pts)
    BY <1>5 DEF updatedResult, checkResult, updated, updatedCount, check
  <2>2. e.pts \in Nat /\ e.pts \in L /\ e.pts > 0
    BY <1>1 DEF Fits, Update
  <2>3. /\ u \in BoxType
        /\ u.good = e.pts /\ u.last = e.pts /\ u.count = e.pts
        /\ u.seen = {} /\ u.queue = {} /\ u.request = w.request
    BY <1>1, <2>1, <2>2, InitFields
  <2>4. v = u
    BY <2>1, <2>3 DEF updateAndApply, throughQueue
  <2>5. w.request = "none" /\ w.good = 0 /\ w.good \in Nat
    BY <1>1, <1>5 DEF WaiterInv, inited, BoxType
  <2> HIDE DEF D, u, v
  <2>6. \A p \in (v.good + 1) .. v.good : p \in D
    BY <2>2, <2>3, <2>4
  <2>7. WaiterInv(v, D, v.good, L, F)
    BY <1>1, <2>2, <2>3, <2>4, <2>5, <2>6, StartInv
  <2> QED BY <1>5, <2>2, <2>3, <2>4, <2>5, <2>7 DEF Outcome, D, v
<1>6. CASE /\ ~w.requesting /\ ~alreadyApplied(w, e) /\ inited(w)
           /\ lastWith(w, e) = w.count + e.count
  <2>1. updatedResult(w, e) /\ u = check(w, e)
    BY <1>6 DEF updatedResult, checkResult, updated, updatedCount
  <2>2. /\ u \in BoxType
        /\ u.good = lastWith(w, e) /\ u.last = lastWith(w, e)
        /\ u.count = lastWith(w, e) /\ u.seen = {}
        /\ u.queue = w.queue /\ u.requesting = w.requesting
        /\ u.waitingForSkipped = w.waitingForSkipped
        /\ u.request = w.request
    BY <1>1, <1>6, <2>1, CheckClosed
  <2>3. /\ v \in BoxType
        /\ v.good = lastWith(w, e) /\ v.last = lastWith(w, e)
        /\ v.count = lastWith(w, e) /\ v.seen = {} /\ v.queue = {}
        /\ v.requesting = w.requesting /\ v.request = w.request
    <3>1. CASE throughQueue(u)
      <4> DEFINE x == [u EXCEPT !.queue = @ \cup {e}]
      <4>1. v = applySkippedUpdates(x)
        BY <2>1, <3>1 DEF updateAndApply
      <4>2. /\ x \in BoxType
            /\ x.good = u.good /\ x.last = u.last /\ x.count = u.count
            /\ x.seen = u.seen /\ x.requesting = u.requesting
            /\ x.request = u.request /\ x.waitingForSkipped
        BY <1>1, <2>2, <3>1 DEF BoxType, throughQueue
      <4> HIDE DEF x, u, v
      <4> QED BY <2>2, <4>1, <4>2, ApplySkippedFields
    <3>2. CASE ~throughQueue(u)
      <4>1. v = u
        BY <2>1, <3>2 DEF updateAndApply
      <4>2. u.queue = {}
        BY <1>1, <2>2, <3>2 DEF throughQueue, WaiterInv
      <4> HIDE DEF u, v
      <4> QED BY <2>2, <4>1, <4>2
    <3> QED BY <3>1, <3>2
  <2>4. Points(e) \subseteq D /\ \A f \in w.queue : Points(f) \subseteq D
    <3>1. CASE throughQueue(u)
      <4>1. AppliedWith(w, e) = w.queue \cup {e}
        BY <2>1, <2>2, <3>1 DEF AppliedWith
      <4> QED BY <4>1 DEF PointsOf
    <3>2. CASE ~throughQueue(u)
      <4>1. AppliedWith(w, e) = {e}
        BY <2>1, <3>2 DEF AppliedWith
      <4>2. w.queue = {}
        BY <1>1, <2>2, <3>2 DEF throughQueue, WaiterInv
      <4> QED BY <4>1, <4>2 DEF PointsOf
    <3> QED BY <3>1, <3>2
  <2> HIDE DEF D, u, v
  <2>5. WaiterInv(v, D, B, L, F) /\ v.good >= w.good
    BY <1>1, <1>2, <1>6, <2>3, <2>4, ClosedInv
  <2> QED BY <1>6, <2>3, <2>5 DEF Outcome, D, v
<1>7. CASE /\ ~w.requesting /\ ~alreadyApplied(w, e) /\ inited(w)
           /\ lastWith(w, e) # w.count + e.count
  <2>1. e.count # 0 /\ e.count <= e.pts
    BY <1>1 DEF Update, Fits
  <2>2. /\ ~updatedResult(w, e)
        /\ u = [check(w, e) EXCEPT !.queue = @ \cup {e}]
    BY <1>7, <2>1 DEF updatedResult, checkResult, updated, updatedCount
  <2>3. v = u
    BY <2>2 DEF updateAndApply
  <2> DEFINE c == check(w, e)
  <2>4. /\ c \in BoxType
        /\ c.good = w.good /\ c.last = lastWith(w, e)
        /\ c.count = w.count + e.count /\ c.seen = w.seen \cup Points(e)
        /\ c.queue = w.queue /\ c.requesting = w.requesting
        /\ c.waitingForSkipped /\ c.byPts /\ c.request = w.request
    BY <1>1, <1>7, <2>1, CheckGap
  <2> HIDE DEF c
  <2>5. u = [c EXCEPT !.queue = @ \cup {e}]
    BY <2>2 DEF c
  <2> HIDE DEF D, u, v
  <2>6. /\ v \in BoxType
        /\ v.good = w.good /\ v.last = lastWith(w, e)
        /\ v.count = w.count + e.count /\ v.seen = w.seen \cup Points(e)
        /\ v.requesting = w.requesting
        /\ v.queue = w.queue \cup {e}
        /\ v.waitingForSkipped /\ v.byPts /\ v.request = w.request
    BY <1>1, <2>3, <2>4, <2>5 DEF BoxType
  <2>7. WaiterInv(v, D, B, L, F)
    BY <1>1, <1>2, <1>7, <2>6, GapInv
  <2> QED BY <1>1, <1>7, <2>6, <2>7 DEF Outcome, D, v, BoxType
<1> QED BY <1>3, <1>4, <1>5, <1>6, <1>7
(* PtsWaiter::updateAndApply without an update: what it stands for, the    *)
(* points of e, was applied by the caller.                                 *)
LEMMA UpdateAndApplyCountInv ==
  ASSUME NEW w, NEW e, NEW A, NEW B, NEW L, NEW E, NEW F,
         Arrives(w, e, A, B, L, E, F)
  PROVE  Outcome(w, updateAndApplyCount(w, e),
                 A \cup (Points(e) \cup PointsOf(AppliedWithCount(w, e))),
                 B, L, F)
<1> DEFINE D == A \cup (Points(e) \cup PointsOf(AppliedWithCount(w, e)))
           u == updatedCount(w, e)
           v == updateAndApplyCount(w, e)
<1>1. /\ w \in BoxType /\ e \in Update /\ B \in Nat /\ L \in SUBSET Nat
      /\ \A q \in L : q > 0
      /\ WaiterInv(w, A, B, L, E) /\ Fits(e, L)
      /\ \A p \in w.seen : p \notin Points(e)
      /\ F \subseteq E /\ \A f \in F : \A p \in Points(f) : p \notin Points(e)
  BY DEF Arrives
<1>2. A \subseteq D /\ Points(e) \subseteq D
  OBVIOUS
<1>3. CASE w.requesting
  <2>1. v = applySkippedUpdates(w)
    BY <1>3 DEF updateAndApplyCount, updatedResult, updatedCount
  <2>2. w.queue = {}
    BY <1>1, <1>3 DEF WaiterInv
  <2>3. /\ v \in BoxType
        /\ v.good = w.good /\ v.last = w.last /\ v.count = w.count
        /\ v.seen = w.seen /\ v.requesting = w.requesting
        /\ v.request = w.request /\ v.reply = w.reply /\ v.queue = w.queue
    BY <1>1, <2>1, <2>2, ApplySkippedFields
  <2>4. Outcome(w, w, D, B, L, F)
    BY <1>2, SameInv
  <2> HIDE DEF D, v
  <2>5. WaiterInv(w, D, IF inited(w) THEN B ELSE v.good, L, F)
    BY <2>3, <2>4 DEF Outcome
  <2>6. WaiterInv(v, D, IF inited(w) THEN B ELSE v.good, L, F)
    BY <1>1, <2>2, <2>3, <2>5 DEF WaiterInv
  <2> QED BY <2>3, <2>4, <2>6 DEF Outcome, D, v
<1>4. CASE ~w.requesting /\ alreadyApplied(w, e)
  <2>1. v = w
    BY <1>4 DEF updateAndApplyCount, updatedResult, updatedCount
  <2> QED BY <1>2, <2>1, SameInv
<1>5. CASE ~w.requesting /\ ~alreadyApplied(w, e) /\ ~inited(w)
  <2>1. u = init(w, e.pts) /\ v = applySkippedUpdates(u)
    BY <1>5 DEF updateAndApplyCount, updatedResult, checkResult, updatedCount, check
  <2>2. e.pts \in Nat /\ e.pts \in L /\ e.pts > 0
    BY <1>1 DEF Fits, Update
  <2>3. /\ u \in BoxType
        /\ u.good = e.pts /\ u.last = e.pts /\ u.count = e.pts
        /\ u.seen = {} /\ u.queue = {} /\ u.request = w.request
    BY <1>1, <2>1, <2>2, InitFields
  <2> HIDE DEF D, u, v
  <2>4. /\ v \in BoxType
        /\ v.good = e.pts /\ v.last = e.pts /\ v.count = e.pts
        /\ v.seen = {} /\ v.queue = {} /\ v.request = w.request
    BY <2>1, <2>3, ApplySkippedFields
  <2>5. w.request = "none" /\ w.good = 0 /\ w.good \in Nat
    BY <1>1, <1>5 DEF WaiterInv, inited, BoxType
  <2>6. \A p \in (v.good + 1) .. v.good : p \in D
    BY <2>2, <2>4
  <2>7. WaiterInv(v, D, v.good, L, F)
    BY <1>1, <2>2, <2>4, <2>5, <2>6, StartInv
  <2> QED BY <1>5, <2>2, <2>4, <2>5, <2>7 DEF Outcome, D, v
<1>6. CASE /\ ~w.requesting /\ ~alreadyApplied(w, e) /\ inited(w)
           /\ lastWith(w, e) = w.count + e.count
  <2>1. updatedResult(w, e) /\ u = check(w, e) /\ v = applySkippedUpdates(u)
    BY <1>6 DEF updateAndApplyCount, updatedResult, checkResult, updatedCount
  <2>2. /\ u \in BoxType
        /\ u.good = lastWith(w, e) /\ u.last = lastWith(w, e)
        /\ u.count = lastWith(w, e) /\ u.seen = {}
        /\ u.queue = w.queue /\ u.requesting = w.requesting
        /\ u.waitingForSkipped = w.waitingForSkipped
        /\ u.request = w.request
    BY <1>1, <1>6, <2>1, CheckClosed
  <2>3. w.queue # {} => w.waitingForSkipped
    BY <1>1 DEF WaiterInv
  <2>4. \A f \in w.queue : Points(f) \subseteq D
    BY <2>1, <2>2, <2>3 DEF AppliedWithCount, SkippedApplied, PointsOf
  <2> HIDE DEF D, u, v
  <2>5. /\ v \in BoxType
        /\ v.good = lastWith(w, e) /\ v.last = lastWith(w, e)
        /\ v.count = lastWith(w, e) /\ v.seen = {} /\ v.queue = {}
        /\ v.requesting = w.requesting /\ v.request = w.request
    BY <2>1, <2>2, <2>3, ApplySkippedFields
  <2>6. WaiterInv(v, D, B, L, F) /\ v.good >= w.good
    BY <1>1, <1>2, <1>6, <2>4, <2>5, ClosedInv
  <2> QED BY <1>6, <2>5, <2>6 DEF Outcome, D, v
<1>7. CASE /\ ~w.requesting /\ ~alreadyApplied(w, e) /\ inited(w)
           /\ lastWith(w, e) # w.count + e.count
  <2>1. e.count <= e.pts
    BY <1>1 DEF Fits
  <2>2. u = check(w, e)
    BY <1>7 DEF updatedCount
  <2>3. /\ u \in BoxType
        /\ u.good = w.good /\ u.last = lastWith(w, e)
        /\ u.count = w.count + e.count /\ u.seen = w.seen \cup Points(e)
        /\ u.queue = w.queue /\ u.requesting = w.requesting
        /\ u.waitingForSkipped /\ u.byPts /\ u.request = w.request
    <3> DEFINE c == check(w, e)
    <3>1. /\ c \in BoxType
          /\ c.good = w.good /\ c.last = lastWith(w, e)
          /\ c.count = w.count + e.count /\ c.seen = w.seen \cup Points(e)
          /\ c.queue = w.queue /\ c.requesting = w.requesting
          /\ c.waitingForSkipped /\ c.byPts /\ c.request = w.request
      BY <1>1, <1>7, <2>1, CheckGap
    <3> HIDE DEF c
    <3>2. u = c
      BY <2>2 DEF c
    <3> HIDE DEF u
    <3> QED BY <3>1, <3>2
  <2>4. CASE updatedResult(w, e)
    <3>1. v = applySkippedUpdates(u)
      BY <2>4 DEF updateAndApplyCount
    <3>2. \A f \in w.queue : Points(f) \subseteq D
      BY <2>3, <2>4 DEF AppliedWithCount, SkippedApplied, PointsOf
    <3> HIDE DEF D, u, v
    <3>3. /\ v \in BoxType
          /\ v.good = w.good /\ v.last = lastWith(w, e)
          /\ v.count = w.count + e.count /\ v.seen = w.seen \cup Points(e)
          /\ v.queue = {}
          /\ v.requesting = w.requesting /\ v.request = w.request
      BY <2>3, <3>1, ApplySkippedFields
    <3>4. WaiterInv(v, D, B, L, F)
      BY <1>1, <1>2, <1>7, <3>2, <3>3, GapInv
    <3> QED BY <1>1, <1>7, <3>3, <3>4 DEF Outcome, D, v, BoxType
  <2>5. CASE ~updatedResult(w, e)
    <3>1. v = u
      BY <2>5 DEF updateAndApplyCount
    <3> HIDE DEF D, u, v
    <3>2. WaiterInv(v, D, B, L, F)
      BY <1>1, <1>2, <1>7, <2>3, <3>1, GapInv
    <3> QED BY <1>1, <1>7, <2>3, <3>1, <3>2 DEF Outcome, D, v, BoxType
  <2> QED BY <2>4, <2>5
<1> QED BY <1>3, <1>4, <1>5, <1>6, <1>7
-----------------------------------------------------------------------------
(* Steps of the whole client. *)

(* v has just asked for a difference. *)
Asked(v) == v.requesting /\ v.queue = {} /\ v.seen = {} /\ v.request = "asked"

(* A box that a step leaves alone. *)
LEMMA AsksItself == ASSUME NEW w PROVE Asks(w, w)
BY DEF Asks

(* getDifference asks unless a request is under way. *)
LEMMA GetDifferenceAsked ==
  ASSUME NEW w \in BoxType
  PROVE  Asked(getDifference(w)) \/ w.requesting
BY DEF BoxType, getDifference, ask, setRequesting, clearSkippedUpdates, Asked

(* getChannelDifference asks unless a request is under way or the channel  *)
(* has no position.                                                        *)
LEMMA GetChannelDifferenceAsked ==
  ASSUME NEW w \in BoxType, NEW from
  PROVE  Asked(getChannelDifference(w, from)) \/ w.requesting \/ w.good = 0
<1> DEFINE v == IF from # "PtsGapOrShortPoll" THEN [w EXCEPT !.byPts = FALSE] ELSE w
           u == IF from # "AfterFail" THEN [v EXCEPT !.afterFail = FALSE] ELSE v
<1>1. v \in BoxType /\ v.good = w.good /\ v.requesting = w.requesting
  BY DEF BoxType
<1>2. CASE ~inited(v) \/ v.requesting
  BY <1>1, <1>2 DEF inited, BoxType
<1>3. CASE ~(~inited(v) \/ v.requesting)
  <2>1. getChannelDifference(w, from) = ask(u)
    BY <1>3 DEF getChannelDifference
  <2> HIDE DEF v
  <2>2. u \in BoxType
    BY <1>1 DEF BoxType
  <2> HIDE DEF u
  <2>3. Asked(ask(u))
    BY <2>2 DEF BoxType, ask, setRequesting, clearSkippedUpdates, Asked
  <2> QED BY <2>1, <2>3
<1> QED BY <1>2, <1>3

(* The deadlines that are due. *)
LEMMA ByPtsAsks ==
  ASSUME NEW bx \in [Boxes -> BoxType], NEW due
  PROVE  LET r == getDifferenceByPts(bx, due) IN
         /\ r \in [Boxes -> BoxType]
         /\ \A c \in Boxes : Asks(bx[c], r[c])
         /\ \A c \in Boxes : c \notin due => r[c] = bx[c]
<1> DEFINE r == getDifferenceByPts(bx, due)
<1> SUFFICES ASSUME NEW c \in Boxes
             PROVE  /\ r[c] \in BoxType /\ Asks(bx[c], r[c])
                    /\ c \notin due => r[c] = bx[c]
  BY DEF getDifferenceByPts
<1>1. CASE c \in due /\ c = Common
  <2>1. r[c] = getDifference(bx[c])
    BY <1>1 DEF getDifferenceByPts
  <2> QED BY <1>1, <2>1, GetDifferenceAsks
<1>2. CASE c \in due /\ c # Common
  <2> DEFINE v == getChannelDifference(bx[c], "PtsGapOrShortPoll")
  <2>1. r[c] = [v EXCEPT !.byPts = FALSE]
    BY <1>2 DEF getDifferenceByPts
  <2>2. v \in BoxType /\ Asks(bx[c], v)
    BY GetChannelDifferenceAsks
  <2>3. Asked(v) \/ bx[c].requesting \/ bx[c].good = 0
    BY GetChannelDifferenceAsked
  <2> HIDE DEF v, r
  <2>4. r[c] \in BoxType
    BY <2>1, <2>2 DEF BoxType
  <2>5. Asks(bx[c], r[c])
    BY <2>1, <2>2, <2>3 DEF Asks, Asked, BoxType
  <2> QED BY <1>2, <2>4, <2>5
<1>3. CASE c \notin due
  <2>1. r[c] = bx[c]
    BY <1>3 DEF getDifferenceByPts
  <2> QED BY <2>1, AsksItself
<1> QED BY <1>1, <1>2, <1>3

(* getDifferenceAfterFail only asks, in every box. *)
LEMMA AfterFailAsks ==
  ASSUME NEW bx \in [Boxes -> BoxType], NEW due
  PROVE  LET r == getDifferenceAfterFail(bx, due) IN
         /\ r \in [Boxes -> BoxType]
         /\ \A c \in Boxes : Asks(bx[c], r[c])
<1> DEFINE r == getDifferenceAfterFail(bx, due)
<1> SUFFICES ASSUME NEW c \in Boxes
             PROVE  r[c] \in BoxType /\ Asks(bx[c], r[c])
  BY DEF getDifferenceAfterFail
<1>1. CASE c \in due /\ c = Common
  <2> DEFINE u == setRequesting(bx[c], FALSE)
  <2>1. r[c] = getDifference(u)
    BY <1>1 DEF getDifferenceAfterFail
  <2>2. /\ u \in BoxType /\ ~u.requesting /\ u.good = bx[c].good
        /\ u.last = bx[c].last /\ u.count = bx[c].count
        /\ u.reply = bx[c].reply
    BY DEF BoxType, setRequesting
  <2> HIDE DEF u, r
  <2>3. getDifference(u) \in BoxType /\ Asks(u, getDifference(u))
    BY <2>2, GetDifferenceAsks
  <2>4. Asked(getDifference(u))
    BY <2>2, GetDifferenceAsked
  <2> QED BY <2>1, <2>2, <2>3, <2>4 DEF Asks, Asked
<1>2. CASE c \in due /\ c # Common
  <2> DEFINE v == getChannelDifference(bx[c], "AfterFail")
  <2>1. r[c] = [v EXCEPT !.afterFail = FALSE]
    BY <1>2 DEF getDifferenceAfterFail
  <2>2. v \in BoxType /\ Asks(bx[c], v)
    BY GetChannelDifferenceAsks
  <2> HIDE DEF v, r
  <2> QED BY <2>1, <2>2 DEF Asks, BoxType
<1>3. CASE c \notin due
  <2>1. r[c] = bx[c]
    BY <1>3 DEF getDifferenceAfterFail
  <2> QED BY <2>1, AsksItself
<1> QED BY <1>1, <1>2, <1>3

(* ptsWaiterStartTimerFor: the other boxes only ask. *)
LEMMA SetBoxAsks ==
  ASSUME box \in [Boxes -> BoxType], NEW b \in Boxes, NEW w \in BoxType,
         SetBox(b, w)
  PROVE  /\ box' \in [Boxes -> BoxType]
         /\ box'[b] = w
         /\ \A c \in Boxes \ {b} : Asks(box[c], box'[c])
<1> DEFINE bx == [box EXCEPT ![b] = w]
<1>1. PICK due \in SUBSET {c \in Boxes \ {b} : box[c].byPts} :
        box' = getDifferenceByPts(bx, due)
  BY DEF SetBox
<1>2. bx \in [Boxes -> BoxType] /\ bx[b] = w /\ b \notin due
      /\ \A c \in Boxes \ {b} : bx[c] = box[c]
  OBVIOUS
<1> HIDE DEF bx
<1> QED BY <1>1, <1>2, ByPtsAsks
-----------------------------------------------------------------------------
(* The invariant after a step, and no box moved back. *)
Forward == \A b \in Boxes : box'[b].good >= box[b].good

(* The invariant needs nothing of messages that are gone. *)
LEMMA FewerInFlight ==
  ASSUME NEW w, NEW A, NEW B, NEW L, NEW E, NEW F,
         WaiterInv(w, A, B, L, E), F \subseteq E
  PROVE  WaiterInv(w, A, B, L, F)
BY DEF WaiterInv

(* A step that only consumes messages keeps the stream as it is. *)
LEMMA StreamKept ==
  ASSUME StreamInv, net' \subseteq net, UNCHANGED server
  PROVE  StreamInv' /\ \A b : InFlight(b)' \subseteq InFlight(b)
<1>1. StreamInv'
  BY DEF StreamInv, server
<1>2. \A b : InFlight(b)' \subseteq InFlight(b)
  BY DEF InFlight
<1> QED BY <1>1, <1>2

(* A step of the client that deals with box b and only asks for the        *)
(* differences of others.                                                  *)
LEMMA OneBoxStep ==
  ASSUME Inv, NEW b \in Boxes,
         net' \subseteq net, UNCHANGED server,
         loaded' \in SUBSET Channels, active' \in SUBSET Channels,
         minChannel' \in BOOLEAN,
         box' \in [Boxes -> BoxType],
         applied' \in [Boxes -> SUBSET Int], base' \in [Boxes -> Nat],
         \A c \in Boxes \ {b} : /\ Asks(box[c], box'[c])
                               /\ applied'[c] = applied[c]
                               /\ base'[c] = base[c],
         BoxInv(b)', box'[b].good >= box[b].good
  PROVE  Inv' /\ Forward
<1>1. /\ box \in [Boxes -> BoxType] /\ base \in [Boxes -> Nat]
      /\ net \subseteq Message /\ log' = log /\ TypeOK /\ StreamInv
      /\ \A c \in Boxes : BoxInv(c)
  BY DEF Inv, TypeOK, server
<1>2. StreamInv' /\ \A c : InFlight(c)' \subseteq InFlight(c)
  BY <1>1, StreamKept
<1>3. TypeOK'
  BY <1>1 DEF TypeOK, server
<1>4. ASSUME NEW c \in Boxes \ {b}
      PROVE  BoxInv(c)' /\ box'[c].good >= box[c].good
  <2>1. /\ box[c] \in BoxType /\ box'[c] \in BoxType /\ base[c] \in Nat
        /\ Asks(box[c], box'[c])
    BY <1>1
  <2>2. WaiterInv(box[c], applied[c], base[c], log[c], InFlight(c))
    BY <1>1 DEF BoxInv
  <2>3. WaiterInv(box'[c], applied[c], base[c], log[c], InFlight(c))
    BY <2>1, <2>2, AsksKeepsInv
  <2>4. WaiterInv(box'[c], applied[c], base[c], log[c], InFlight(c)')
    BY <1>2, <2>3, FewerInFlight
  <2>5. applied'[c] = applied[c] /\ base'[c] = base[c] /\ log'[c] = log[c]
    BY <1>1
  <2>6. BoxInv(c)'
    BY <2>4, <2>5 DEF BoxInv
  <2>7. box'[c].good >= box[c].good
    BY <2>1 DEF Asks, BoxType
  <2> QED BY <2>6, <2>7
<1>5. Inv'
  BY <1>2, <1>3, <1>4 DEF Inv
<1>6. Forward
  BY <1>4 DEF Forward
<1> QED BY <1>5, <1>6

(* A step of the client that only asks for differences. *)
LEMMA AskStep ==
  ASSUME Inv, net' \subseteq net, UNCHANGED <<server, applied, base>>,
         loaded' \in SUBSET Channels, active' \in SUBSET Channels,
         minChannel' \in BOOLEAN,
         box' \in [Boxes -> BoxType],
         \A c \in Boxes : Asks(box[c], box'[c])
  PROVE  Inv' /\ Forward
<1> DEFINE b == Common
<1>1. /\ b \in Boxes /\ box[b] \in BoxType /\ box'[b] \in BoxType
      /\ base[b] \in Nat /\ Asks(box[b], box'[b]) /\ StreamInv
      /\ WaiterInv(box[b], applied[b], base[b], log[b], InFlight(b))
  BY DEF Inv, TypeOK, Boxes, BoxInv
<1>2. InFlight(b)' \subseteq InFlight(b)
  BY <1>1, StreamKept
<1>3. applied' \in [Boxes -> SUBSET Int] /\ base' \in [Boxes -> Nat]
  BY DEF Inv, TypeOK
<1>4. \A c \in Boxes \ {b} : /\ Asks(box[c], box'[c])
                            /\ applied'[c] = applied[c]
                            /\ base'[c] = base[c]
  OBVIOUS
<1> HIDE DEF b
<1>5. WaiterInv(box'[b], applied[b], base[b], log[b], InFlight(b))
  BY <1>1, AsksKeepsInv
<1>6. WaiterInv(box'[b], applied[b], base[b], log[b], InFlight(b)')
  BY <1>2, <1>5, FewerInFlight
<1>7. BoxInv(b)'
  BY <1>6 DEF BoxInv, server
<1>8. box'[b].good >= box[b].good
  BY <1>1 DEF Asks, BoxType
<1> QED BY <1>1, <1>3, <1>4, <1>7, <1>8, OneBoxStep
-----------------------------------------------------------------------------
(* Updates that arrive. *)

(* Points are integers. *)
LEMMA PointsAreIntegers == ASSUME NEW S PROVE PointsOf(S) \in SUBSET Int
<1> SUFFICES ASSUME NEW e PROVE Points(e) \in SUBSET Int
  BY DEF PointsOf
<1> QED BY DEF Points

(* The points of two updates on the way to the same box are disjoint. *)
LEMMA MessageArrives ==
  ASSUME Inv, NEW m \in net, net' = net \ {m}
  PROVE  /\ m.box \in Boxes /\ m.update.count > 0
         /\ Arrives(box[m.box], m.update, applied[m.box], base[m.box],
                    log[m.box], InFlight(m.box), InFlight(m.box)')
<1> DEFINE b == m.box  e == m.update
<1>1. /\ b \in Boxes /\ e \in Update /\ box[b] \in BoxType /\ base[b] \in Nat
      /\ log[b] \in SUBSET Nat
  BY DEF Inv, TypeOK, Message
<1>2. /\ \A q \in log[b] : q > 0
      /\ e.count > 0 /\ Fits(e, log[b])
  BY <1>1 DEF Inv, StreamInv
<1>3. WaiterInv(box[b], applied[b], base[b], log[b], InFlight(b))
  BY <1>1 DEF Inv, BoxInv
<1>4. e \in InFlight(b)
  BY DEF InFlight
<1>5. \A p \in box[b].seen : p \notin Points(e)
  BY <1>3, <1>4 DEF WaiterInv
<1>6. InFlight(b)' \subseteq InFlight(b)
  BY DEF InFlight
<1>7. ASSUME NEW f \in InFlight(b)' PROVE \A p \in Points(f) : p \notin Points(e)
  <2>1. PICK n \in net : n # m /\ n.box = b /\ f = n.update
    BY <1>7 DEF InFlight
  <2>2. n.update.pts # e.pts
    BY <2>1 DEF Inv, StreamInv
  <2>3. f \in Update /\ Fits(f, log[b])
    BY <2>1 DEF Inv, TypeOK, Message, StreamInv
  <2> QED BY <1>1, <1>2, <2>1, <2>2, <2>3 DEF Fits, Points, Update
<1> QED BY <1>1, <1>2, <1>3, <1>5, <1>6, <1>7 DEF Arrives

(* A bare pts is an update of no points. *)
LEMMA PtsArrives ==
  ASSUME Inv, NEW b \in Boxes, NEW p \in log[b], UNCHANGED net
  PROVE  Arrives(box[b], [pts |-> p, count |-> 0], applied[b], base[b],
                 log[b], InFlight(b), InFlight(b)')
<1> DEFINE e == [pts |-> p, count |-> 0]
<1>1. /\ box[b] \in BoxType /\ base[b] \in Nat
      /\ log[b] \in SUBSET Nat /\ p \in Nat
  BY DEF Inv, TypeOK
<1>2. \A q \in log[b] : q > 0
  BY <1>1 DEF Inv, StreamInv
<1>3. WaiterInv(box[b], applied[b], base[b], log[b], InFlight(b))
  BY <1>1 DEF Inv, BoxInv
<1>4. e \in Update /\ e.pts = p /\ e.count = 0
  BY <1>1 DEF Update
<1>5. Points(e) = {}
  BY <1>1, <1>4 DEF Points
<1>6. InFlight(b)' = InFlight(b)
  BY DEF InFlight
<1> HIDE DEF e
<1>7. Fits(e, log[b])
  BY <1>1, <1>4 DEF Fits
<1>8. Arrives(box[b], e, applied[b], base[b], log[b], InFlight(b), InFlight(b)')
  BY <1>1, <1>2, <1>3, <1>4, <1>5, <1>6, <1>7 DEF Arrives
<1> QED BY <1>8 DEF e

(* A waiter took an update or a pts. *)
LEMMA TakenStep ==
  ASSUME Inv, NEW b \in Boxes, NEW v, NEW D \in SUBSET Int,
         net' \subseteq net, UNCHANGED server,
         loaded' \in SUBSET Channels, active' \in SUBSET Channels,
         minChannel' \in BOOLEAN,
         Outcome(box[b], v, applied[b] \cup D, base[b], log[b], InFlight(b)'),
         SetBox(b, v), Apply(b, D), Rebase(b, v)
  PROVE  Inv' /\ Forward
<1>1. /\ box \in [Boxes -> BoxType] /\ base \in [Boxes -> Nat]
      /\ applied \in [Boxes -> SUBSET Int]
  BY DEF Inv, TypeOK
<1>2. /\ v \in BoxType /\ v.good >= box[b].good /\ v.good \in Nat
      /\ WaiterInv(v, applied[b] \cup D, IF inited(box[b]) THEN base[b] ELSE v.good,
                   log[b], InFlight(b)')
  BY DEF Outcome, BoxType
<1>3. /\ box' \in [Boxes -> BoxType] /\ box'[b] = v
      /\ \A c \in Boxes \ {b} : Asks(box[c], box'[c])
  BY <1>1, <1>2, SetBoxAsks
<1>4. /\ applied' \in [Boxes -> SUBSET Int] /\ applied'[b] = applied[b] \cup D
      /\ \A c \in Boxes \ {b} : applied'[c] = applied[c]
  BY <1>1 DEF Apply
<1>5. /\ base' \in [Boxes -> Nat]
      /\ base'[b] = IF inited(box[b]) THEN base[b] ELSE v.good
      /\ \A c \in Boxes \ {b} : base'[c] = base[c]
  BY <1>1, <1>2 DEF Rebase
<1>6. BoxInv(b)'
  BY <1>2, <1>3, <1>4, <1>5 DEF BoxInv, server
<1> QED BY <1>2, <1>3, <1>4, <1>5, <1>6, OneBoxStep
(* feedUpdate, whatever it does with the update. *)
LEMMA FeedStep ==
  ASSUME Inv, NEW m \in net, net' = net \ {m}, UNCHANGED server,
         loaded' \in SUBSET Channels, active' \in SUBSET Channels,
         \/ FeedNotLoaded(m.box)
         \/ Feed(m.box, m.update)
         \/ SkipWhileRequesting(m.box)
         \/ FeedUnknown(m.box, m.update)
  PROVE  Inv' /\ Forward
<1> DEFINE b == m.box  e == m.update
<1>1. /\ b \in Boxes /\ e.count > 0
      /\ Arrives(box[b], e, applied[b], base[b], log[b], InFlight(b), InFlight(b)')
  BY MessageArrives
<1>2. /\ net' \subseteq net /\ minChannel \in BOOLEAN
      /\ box \in [Boxes -> BoxType] /\ Common \in Boxes
  BY DEF Inv, TypeOK, Boxes
<1>3. CASE FeedNotLoaded(b)
  <2>1. UNCHANGED <<server, applied, base>>
    BY <1>3 DEF FeedNotLoaded
  <2>2. minChannel' \in BOOLEAN
    BY <1>2, <1>3 DEF FeedNotLoaded
  <2>3. CASE b = Common
    <3>1. box' = [box EXCEPT ![Common] = getDifference(@)]
      BY <1>3, <2>3 DEF FeedNotLoaded
    <3>2. /\ getDifference(box[Common]) \in BoxType
          /\ Asks(box[Common], getDifference(box[Common]))
      BY <1>2, GetDifferenceAsks
    <3>3. box' \in [Boxes -> BoxType] /\ \A c \in Boxes : Asks(box[c], box'[c])
      BY <1>2, <3>1, <3>2, AsksItself
    <3> QED BY <1>2, <2>1, <2>2, <3>3, AskStep
  <2>4. CASE b # Common
    <3>1. box' = box
      BY <1>3, <2>4 DEF FeedNotLoaded
    <3>2. box' \in [Boxes -> BoxType] /\ \A c \in Boxes : Asks(box[c], box'[c])
      BY <1>2, <3>1, AsksItself
    <3> QED BY <1>2, <2>1, <2>2, <3>2, AskStep
  <2> QED BY <2>3, <2>4
<1>4. CASE Feed(b, e)
  <2> DEFINE v == updateAndApply(box[b], e)
             D == PointsOf(AppliedWith(box[b], e))
  <2>1. SetBox(b, v) /\ Apply(b, D) /\ Rebase(b, v) /\ minChannel' \in BOOLEAN
    BY <1>2, <1>4 DEF Feed
  <2>2. Outcome(box[b], v, applied[b] \cup D, base[b], log[b], InFlight(b)')
    BY <1>1, UpdateAndApplyInv
  <2>3. D \in SUBSET Int
    BY PointsAreIntegers
  <2> HIDE DEF v, D, b, e
  <2> QED BY <1>1, <1>2, <2>1, <2>2, <2>3, TakenStep
<1>5. CASE SkipWhileRequesting(b)
  <2>1. UNCHANGED <<server, applied, base>> /\ minChannel' \in BOOLEAN /\ box' = box
    BY <1>2, <1>5 DEF SkipWhileRequesting
  <2>2. box' \in [Boxes -> BoxType] /\ \A c \in Boxes : Asks(box[c], box'[c])
    BY <1>2, <2>1, AsksItself
  <2> QED BY <1>2, <2>1, <2>2, AskStep
<1>6. CASE FeedUnknown(b, e)
  <2>1. /\ Apply(b, Points(e)) /\ base' = base /\ minChannel' \in BOOLEAN
        /\ box' = box
    BY <1>2, <1>6 DEF FeedUnknown
  <2> DEFINE D == applied[b] \cup Points(e)
  <2>2. Outcome(box[b], box[b], D, base[b], log[b], InFlight(b)')
    BY <1>1, SameInv
  <2>3. /\ base \in [Boxes -> Nat] /\ applied \in [Boxes -> SUBSET Int]
        /\ Points(e) \in SUBSET Int
    BY DEF Inv, TypeOK, Points
  <2> HIDE DEF b, e
  <2>4. /\ applied' \in [Boxes -> SUBSET Int] /\ applied'[b] = D
        /\ \A c \in Boxes \ {b} : applied'[c] = applied[c]
    BY <1>1, <2>1, <2>3 DEF Apply
  <2> HIDE DEF D
  <2>5. WaiterInv(box[b], D, base[b], log[b], InFlight(b)')
    <3>1. \A p \in (base[b] + 1) .. box[b].good : p \in D
      BY <1>1 DEF Arrives, WaiterInv, D
    <3> QED BY <2>2, <3>1 DEF Outcome, WaiterInv
  <2>6. BoxInv(b)' /\ box'[b].good >= box[b].good
    BY <1>1, <1>2, <2>1, <2>4, <2>5 DEF BoxInv, server, BoxType
  <2> QED BY <1>1, <1>2, <2>1, <2>3, <2>4, <2>6, OneBoxStep, AsksItself
<1> QED BY <1>3, <1>4, <1>5, <1>6

(* mtpUpdateReceived keeps the invariant. *)
LEMMA UpdateReceivedStep ==
  ASSUME Inv, NEW m \in net, mtpUpdateReceived(m)
  PROVE  Inv' /\ Forward
<1>1. /\ net' = net \ {m} /\ UNCHANGED <<server, loaded, active>>
      /\ loaded' \in SUBSET Channels /\ active' \in SUBSET Channels
      /\ minChannel \in BOOLEAN /\ box \in [Boxes -> BoxType]
  BY DEF mtpUpdateReceived, Inv, TypeOK
<1>2. CASE UNCHANGED <<box, minChannel, applied, base>>
  <2>1. box' \in [Boxes -> BoxType] /\ \A c \in Boxes : Asks(box[c], box'[c])
    BY <1>1, <1>2, AsksItself
  <2> QED BY <1>1, <1>2, <2>1, AskStep
<1>3. CASE \/ FeedNotLoaded(m.box)
           \/ Feed(m.box, m.update)
           \/ SkipWhileRequesting(m.box)
           \/ FeedUnknown(m.box, m.update)
  BY <1>1, <1>3, FeedStep
<1> QED BY <1>2, <1>3 DEF mtpUpdateReceived, feedUpdate

(* applyUpdates keeps the invariant. *)
LEMMA ApplyUpdatesStep ==
  ASSUME Inv, NEW m \in net, applyUpdates(m)
  PROVE  Inv' /\ Forward
<1>1. m.box \in Boxes /\ loaded \in SUBSET Channels /\ active \in SUBSET Channels
  BY DEF Inv, TypeOK, Message
<1>2. loaded' \in SUBSET Channels /\ active' \in SUBSET Channels
  BY <1>1 DEF applyUpdates, Boxes
<1> QED BY <1>2, FeedStep DEF applyUpdates

(* applyAffectedMessages keeps the invariant. *)
LEMMA AffectedStep ==
  ASSUME Inv, NEW m \in net, applyAffectedMessages(m)
  PROVE  Inv' /\ Forward
<1> DEFINE b == m.box  e == m.update
           v == updateAndApplyCount(box[b], e)
           D == Points(e) \cup PointsOf(AppliedWithCount(box[b], e))
<1>1. /\ net' = net \ {m} /\ net' \subseteq net /\ UNCHANGED server
      /\ loaded' \in SUBSET Channels /\ active' \in SUBSET Channels
      /\ minChannel' \in BOOLEAN
      /\ SetBox(b, v) /\ Apply(b, D) /\ Rebase(b, v)
  BY DEF applyAffectedMessages, Inv, TypeOK
<1>2. /\ b \in Boxes
      /\ Arrives(box[b], e, applied[b], base[b], log[b], InFlight(b), InFlight(b)')
  BY <1>1, MessageArrives
<1>3. Outcome(box[b], v, applied[b] \cup D, base[b], log[b], InFlight(b)')
  BY <1>2, UpdateAndApplyCountInv
<1>4. D \in SUBSET Int
  <2>1. Points(e) \in SUBSET Int
    BY DEF Points
  <2>2. PointsOf(AppliedWithCount(box[b], e)) \in SUBSET Int
    BY PointsAreIntegers
  <2> QED BY <2>1, <2>2
<1> HIDE DEF v, D, b, e
<1> QED BY <1>1, <1>2, <1>3, <1>4, TakenStep

(* ptsReceived keeps the invariant. *)
LEMMA PtsReceivedStep ==
  ASSUME Inv, NEW b \in Boxes, NEW p \in log[b], ptsReceived(b, p)
  PROVE  Inv' /\ Forward
<1> DEFINE e == [pts |-> p, count |-> 0]
           v == updateAndApplyCount(box[b], e)
           D == PointsOf(AppliedWithCount(box[b], e))
<1>1. /\ net' \subseteq net /\ UNCHANGED net /\ UNCHANGED server
      /\ loaded' \in SUBSET Channels /\ active' \in SUBSET Channels
      /\ minChannel' \in BOOLEAN
      /\ SetBox(b, v) /\ Apply(b, D) /\ Rebase(b, v)
  BY DEF ptsReceived, Inv, TypeOK
<1>2. Arrives(box[b], e, applied[b], base[b], log[b], InFlight(b), InFlight(b)')
  BY <1>1, PtsArrives
<1>3. p \in Nat
  BY DEF Inv, TypeOK
<1>4. Points(e) = {}
  BY <1>3 DEF Points
<1>5. D \in SUBSET Int
  BY PointsAreIntegers
<1> HIDE DEF v, D, e
<1>6. Outcome(box[b], v, applied[b] \cup (Points(e) \cup D), base[b], log[b],
              InFlight(b)')
  BY <1>2, UpdateAndApplyCountInv DEF v, D
<1>7. applied[b] \cup (Points(e) \cup D) = applied[b] \cup D
  BY <1>4
<1>8. Outcome(box[b], v, applied[b] \cup D, base[b], log[b], InFlight(b)')
  BY <1>6, <1>7
<1> QED BY <1>1, <1>5, <1>8, TakenStep
-----------------------------------------------------------------------------
(* Differences that arrive. *)

(* Waiting for the short poll changes nothing the invariant speaks of. *)
LEMMA ShortPollAsks ==
  ASSUME NEW w \in BoxType
  PROVE  setWaitingForShortPoll(w) \in BoxType
         /\ Asks(w, setWaitingForShortPoll(w))
BY DEF setWaitingForShortPoll, BoxType, Asks

(* A box that starts over has the new position and nothing queued. *)
LEMMA RestartFields ==
  ASSUME NEW w \in BoxType, NEW p \in Nat
  PROVE  LET v == Restart(w, p) IN
         /\ v \in BoxType
         /\ v.good = p /\ v.last = p /\ v.count = p
         /\ v.seen = {} /\ v.queue = {} /\ v.request = "none"
<1>1. init(w, p) \in BoxType
      /\ init(w, p).good = p /\ init(w, p).last = p /\ init(w, p).count = p
      /\ init(w, p).seen = {} /\ init(w, p).queue = {}
  BY InitFields
<1>2. NoReply \in Reply
  BY DEF NoReply, Reply
<1> QED BY <1>1, <1>2 DEF Restart, setRequesting, BoxType

(* The reply to a request is a later pts of the box's stream. *)
LEMMA ReplyFacts ==
  ASSUME Inv, NEW b \in Boxes, box[b].request \in {"done", "tooLong"}
  PROVE  /\ box[b] \in BoxType /\ box[b].requesting
         /\ box[b].reply.upto \in log[b] /\ box[b].reply.upto \in Nat
         /\ box[b].reply.upto > 0 /\ box[b].reply.upto >= box[b].good
         /\ log[b] \in SUBSET Nat /\ base[b] \in Nat
         /\ \A p \in (base[b] + 1) .. box[b].good : p \in applied[b]
BY DEF Inv, TypeOK, StreamInv, BoxInv, WaiterInv

(* A difference was applied up to its pts. *)
LEMMA RestartInv ==
  ASSUME Inv, NEW b \in Boxes, box[b].request = "done",
         NEW D, D = (box[b].good + 1) .. box[b].reply.upto,
         NEW v, v = Restart(box[b], box[b].reply.upto), NEW F
  PROVE  /\ v \in BoxType /\ v.good >= box[b].good
         /\ v.good = box[b].reply.upto
         /\ WaiterInv(v, applied[b] \cup D, base[b], log[b], F)
<1> DEFINE w == box[b]  p == w.reply.upto
<1>1. /\ w \in BoxType /\ p \in log[b] /\ p \in Nat /\ p > 0 /\ p >= w.good
      /\ w.good \in Nat /\ log[b] \in SUBSET Nat /\ base[b] \in Nat
      /\ \A q \in (base[b] + 1) .. w.good : q \in applied[b]
  BY ReplyFacts DEF BoxType
<1>2. /\ v \in BoxType /\ v.good = p /\ v.last = p /\ v.count = p
      /\ v.seen = {} /\ v.queue = {} /\ v.request = "none"
  BY <1>1, RestartFields
<1>3. \A q \in (base[b] + 1) .. v.good : q \in applied[b] \cup D
  BY <1>1, <1>2
<1> HIDE DEF w, p
<1>4. WaiterInv(v, applied[b] \cup D, base[b], log[b], F)
  BY <1>1, <1>2, <1>3, StartInv
<1> QED BY <1>1, <1>2, <1>4 DEF w, p

(* stateDone keeps the invariant. *)
LEMMA StateDoneStep ==
  ASSUME Inv, stateDone
  PROVE  Inv' /\ Forward
<1> DEFINE b == Common  v == Restart(box[b], box[b].reply.upto)
<1>1. /\ b \in Boxes /\ box \in [Boxes -> BoxType] /\ base \in [Boxes -> Nat]
      /\ applied \in [Boxes -> SUBSET Int]
  BY DEF Inv, TypeOK, Boxes
<1>2. /\ box' = [box EXCEPT ![b] = v] /\ applied' = applied
      /\ base' = [base EXCEPT ![b] = box[b].reply.upto]
      /\ box[b].request = "done"
      /\ net' \subseteq net /\ UNCHANGED server
      /\ loaded' \in SUBSET Channels /\ active' \in SUBSET Channels
      /\ minChannel' \in BOOLEAN
  BY DEF stateDone, Inv, TypeOK
<1>3. /\ box[b] \in BoxType /\ box[b].reply.upto \in Nat
      /\ box[b].reply.upto \in log[b] /\ box[b].reply.upto > 0
      /\ box[b].reply.upto >= box[b].good /\ log[b] \in SUBSET Nat
  BY <1>1, <1>2, ReplyFacts
<1>4. /\ v \in BoxType /\ v.good = box[b].reply.upto
      /\ v.last = v.good /\ v.count = v.good
      /\ v.seen = {} /\ v.queue = {} /\ v.request = "none"
  BY <1>3, RestartFields
<1> HIDE DEF b, v
<1>5. WaiterInv(v, applied[b], box[b].reply.upto, log[b], InFlight(b)')
  <2>1. \A q \in (box[b].reply.upto + 1) .. v.good : q \in applied[b]
    BY <1>3, <1>4
  <2> QED BY <1>3, <1>4, <2>1, StartInv
<1>6. /\ box' \in [Boxes -> BoxType] /\ box'[b] = v
      /\ base' \in [Boxes -> Nat] /\ base'[b] = box[b].reply.upto
      /\ applied' \in [Boxes -> SUBSET Int]
      /\ \A c \in Boxes \ {b} : box'[c] = box[c] /\ base'[c] = base[c]
  BY <1>1, <1>2, <1>3, <1>4
<1>7. BoxInv(b)' /\ box'[b].good >= box[b].good
  BY <1>2, <1>3, <1>4, <1>5, <1>6 DEF BoxInv, server
<1> QED BY <1>1, <1>2, <1>6, <1>7, OneBoxStep, AsksItself

(* differenceDone keeps the invariant. *)
LEMMA DifferenceDoneStep ==
  ASSUME Inv, differenceDone
  PROVE  Inv' /\ Forward
<1> DEFINE b == Common  w == box[b]  v == Restart(w, w.reply.upto)
           u == IF w.reply.final THEN v ELSE getDifference(v)
           D == (w.good + 1) .. w.reply.upto
<1>1. /\ b \in Boxes /\ box \in [Boxes -> BoxType] /\ base \in [Boxes -> Nat]
      /\ applied \in [Boxes -> SUBSET Int] /\ log[b] \in SUBSET Nat
  BY DEF Inv, TypeOK, Boxes
<1>2. PICK tooLong \in SUBSET Channels :
        /\ loaded' = loaded \cup tooLong
        /\ box' = [c \in Boxes |->
              CASE c = Common -> u
                [] c \in tooLong -> getChannelDifference(box[c], "Unknown")
                [] OTHER -> box[c]]
  BY DEF differenceDone
<1>3. /\ w.request = "done" /\ Apply(b, D) /\ base' = base
      /\ net' \subseteq net /\ UNCHANGED server
      /\ active' \in SUBSET Channels /\ minChannel' \in BOOLEAN
      /\ loaded \in SUBSET Channels
  BY DEF differenceDone, Inv, TypeOK
<1>4. loaded' \in SUBSET Channels
  BY <1>2, <1>3
<1>5. /\ v \in BoxType /\ v.good >= w.good
      /\ WaiterInv(v, applied[b] \cup D, base[b], log[b], InFlight(b)')
  BY <1>1, <1>3, RestartInv
<1>6. box'[b] = u
  <2> HIDE DEF u
  <2> QED BY <1>1, <1>2, UpdatesAssumption
<1>7. \A c \in Boxes \ {b} : box'[c] \in BoxType /\ Asks(box[c], box'[c])
  <2> SUFFICES ASSUME NEW c \in Boxes \ {b}
               PROVE  box'[c] \in BoxType /\ Asks(box[c], box'[c])
    OBVIOUS
  <2>1. c # Common /\ box[c] \in BoxType
    BY <1>1
  <2>2. CASE c \in tooLong
    <3>1. box'[c] = getChannelDifference(box[c], "Unknown")
      BY <1>2, <2>1, <2>2
    <3> QED BY <2>1, <3>1, GetChannelDifferenceAsks
  <2>3. CASE c \notin tooLong
    <3>1. box'[c] = box[c]
      BY <1>2, <2>1, <2>3
    <3> QED BY <2>1, <3>1, AsksItself
  <2> QED BY <2>2, <2>3
<1> HIDE DEF v, D
<1>8. u \in BoxType /\ Asks(v, u)
  BY <1>5, GetDifferenceAsks, AsksItself
<1> HIDE DEF b, w, u
<1>9. WaiterInv(u, applied[b] \cup D, base[b], log[b], InFlight(b)')
  BY <1>1, <1>5, <1>8, AsksKeepsInv
<1>10. box' \in [Boxes -> BoxType]
  <2>1. \A c \in Boxes : box'[c] \in BoxType
    BY <1>6, <1>7, <1>8
  <2> QED BY <1>2, <2>1
<1>11. /\ applied' \in [Boxes -> SUBSET Int] /\ applied'[b] = applied[b] \cup D
       /\ \A c \in Boxes \ {b} : applied'[c] = applied[c]
  BY <1>1, <1>3 DEF Apply, D
<1>12. BoxInv(b)'
  BY <1>3, <1>6, <1>9, <1>11 DEF BoxInv, server
<1>13. box'[b].good >= box[b].good
  BY <1>5, <1>6, <1>8 DEF Asks, w
<1> QED BY <1>1, <1>3, <1>4, <1>7, <1>10, <1>11, <1>12, <1>13, OneBoxStep
(* ContinueChannel leaves the waiter it is given, or asks once more. *)
LEMMA ContinueAsks ==
  ASSUME box \in [Boxes -> BoxType], NEW c \in Boxes, NEW v \in BoxType,
         NEW final \in BOOLEAN, ContinueChannel(c, v, final)
  PROVE  /\ box' \in [Boxes -> BoxType]
         /\ Asks(v, box'[c])
         /\ \A d \in Boxes \ {c} : Asks(box[d], box'[d])
<1> DEFINE u == CASE ~final -> getChannelDifference(v, "Unknown")
                  [] final /\ c \in active -> setWaitingForShortPoll(v)
                  [] OTHER -> v
<1>1. u \in BoxType /\ Asks(v, u)
  <2>1. CASE ~final
    <3>1. u = getChannelDifference(v, "Unknown")
      BY <2>1
    <3> QED BY <3>1, GetChannelDifferenceAsks
  <2>2. CASE final /\ c \in active
    <3>1. u = setWaitingForShortPoll(v)
      BY <2>2
    <3> QED BY <3>1, ShortPollAsks
  <2>3. CASE final /\ c \notin active
    <3>1. u = v
      BY <2>3
    <3> QED BY <3>1, AsksItself
  <2> QED BY <2>1, <2>2, <2>3
<1>2. SetBox(c, u)
  BY DEF ContinueChannel
<1> HIDE DEF u
<1> QED BY <1>1, <1>2, SetBoxAsks

(* channelDifferenceDone keeps the invariant. *)
LEMMA ChannelDifferenceDoneStep ==
  ASSUME Inv, NEW b \in Channels, channelDifferenceDone(b)
  PROVE  Inv' /\ Forward
<1> DEFINE w == box[b]  v == Restart(w, w.reply.upto)
           D == (w.good + 1) .. w.reply.upto
<1>1. /\ b \in Boxes /\ box \in [Boxes -> BoxType] /\ base \in [Boxes -> Nat]
      /\ applied \in [Boxes -> SUBSET Int] /\ w.reply.final \in BOOLEAN
  BY DEF Inv, TypeOK, Boxes, BoxType, Reply
<1>2. /\ w.request = "done" /\ Apply(b, D) /\ base' = base
      /\ ContinueChannel(b, v, w.reply.final)
      /\ net' \subseteq net /\ UNCHANGED server
      /\ loaded' \in SUBSET Channels /\ active' \in SUBSET Channels
      /\ minChannel' \in BOOLEAN
  BY DEF channelDifferenceDone, Inv, TypeOK
<1>3. /\ v \in BoxType /\ v.good >= w.good
      /\ WaiterInv(v, applied[b] \cup D, base[b], log[b], InFlight(b)')
  BY <1>1, <1>2, RestartInv
<1> HIDE DEF v
<1>4. /\ box' \in [Boxes -> BoxType] /\ Asks(v, box'[b])
      /\ \A c \in Boxes \ {b} : Asks(box[c], box'[c])
  BY <1>1, <1>2, <1>3, ContinueAsks
<1>5. /\ applied' \in [Boxes -> SUBSET Int] /\ applied'[b] = applied[b] \cup D
      /\ \A c \in Boxes \ {b} : applied'[c] = applied[c]
  BY <1>1, <1>2 DEF Apply
<1> HIDE DEF D, w
<1>6. WaiterInv(box'[b], applied[b] \cup D, base[b], log[b], InFlight(b)')
  BY <1>1, <1>3, <1>4, AsksKeepsInv
<1>7. BoxInv(b)'
  BY <1>2, <1>5, <1>6 DEF BoxInv, server
<1>8. box'[b].good >= box[b].good
  BY <1>3, <1>4 DEF Asks, w
<1> QED BY <1>1, <1>2, <1>4, <1>5, <1>7, <1>8, OneBoxStep

(* The too long channel difference keeps the invariant. *)
LEMMA ChannelDifferenceTooLongStep ==
  ASSUME Inv, NEW b \in Channels, channelDifferenceTooLong(b)
  PROVE  Inv' /\ Forward
<1> DEFINE w == box[b]  p == w.reply.upto  i == init(w, p)
           e == [pts |-> p, count |-> 0]
           v == updateAndApplyCount(i, e)
           u == [setRequesting(v, FALSE)
                   EXCEPT !.request = "none", !.reply = NoReply]
<1>1. /\ b \in Boxes /\ box \in [Boxes -> BoxType] /\ base \in [Boxes -> Nat]
      /\ applied \in [Boxes -> SUBSET Int] /\ w.reply.final \in BOOLEAN
  BY DEF Inv, TypeOK, Boxes, BoxType, Reply
<1>2. /\ w.request = "tooLong" /\ base' = [base EXCEPT ![b] = p]
      /\ ContinueChannel(b, u, w.reply.final)
      /\ net' \subseteq net /\ UNCHANGED server /\ applied' = applied
      /\ loaded' \in SUBSET Channels /\ active' \in SUBSET Channels
      /\ minChannel' \in BOOLEAN
  BY DEF channelDifferenceTooLong, Inv, TypeOK
<1>3. /\ w \in BoxType /\ w.requesting /\ p \in log[b] /\ p \in Nat /\ p > 0
      /\ p >= w.good /\ log[b] \in SUBSET Nat
  BY <1>1, <1>2, ReplyFacts
<1>4. /\ i \in BoxType /\ i.good = p /\ i.last = p /\ i.count = p
      /\ i.seen = {} /\ i.queue = {} /\ i.requesting
  BY <1>3, InitFields
<1>5. v = applySkippedUpdates(i)
  BY <1>4 DEF updateAndApplyCount, updatedResult, updatedCount
<1> HIDE DEF i, v
<1>6. /\ v \in BoxType /\ v.good = p /\ v.last = p /\ v.count = p
      /\ v.seen = {} /\ v.queue = {}
  BY <1>4, <1>5, ApplySkippedFields
<1>7. /\ u \in BoxType /\ u.good = p /\ u.last = u.good /\ u.count = u.good
      /\ u.seen = {} /\ u.queue = {} /\ u.request = "none"
  <2>1. NoReply \in Reply
    BY DEF NoReply, Reply
  <2> QED BY <1>6, <2>1 DEF setRequesting, BoxType
<1> HIDE DEF u
<1>8. WaiterInv(u, applied[b], p, log[b], InFlight(b)')
  <2>1. \A q \in (p + 1) .. u.good : q \in applied[b]
    BY <1>3, <1>7
  <2> QED BY <1>3, <1>7, <2>1, StartInv
<1>9. /\ box' \in [Boxes -> BoxType] /\ Asks(u, box'[b])
      /\ \A c \in Boxes \ {b} : Asks(box[c], box'[c])
  BY <1>1, <1>2, <1>7, ContinueAsks
<1>10. WaiterInv(box'[b], applied[b], p, log[b], InFlight(b)')
  BY <1>1, <1>3, <1>7, <1>8, <1>9, AsksKeepsInv
<1>11. /\ base' \in [Boxes -> Nat] /\ base'[b] = p
       /\ \A c \in Boxes \ {b} : base'[c] = base[c]
  BY <1>1, <1>2, <1>3
<1>12. BoxInv(b)'
  BY <1>2, <1>10, <1>11 DEF BoxInv, server
<1>13. box'[b].good >= box[b].good
  BY <1>3, <1>7, <1>9 DEF Asks
<1> QED BY <1>1, <1>2, <1>9, <1>11, <1>12, <1>13, OneBoxStep

(* A failed request keeps the invariant. *)
LEMMA FailDifferenceStep ==
  ASSUME Inv, NEW b \in Boxes, failDifference(b)
  PROVE  Inv' /\ Forward
<1> DEFINE bx == [box EXCEPT ![b].request = "none", ![b].afterFail = TRUE]
<1>1. /\ box \in [Boxes -> BoxType] /\ base \in [Boxes -> Nat]
      /\ applied \in [Boxes -> SUBSET Int]
      /\ WaiterInv(box[b], applied[b], base[b], log[b], InFlight(b))
  BY DEF Inv, TypeOK, BoxInv
<1>2. /\ \E due : box' = getDifferenceAfterFail(bx, due)
      /\ UNCHANGED <<server, net, client>>
  BY DEF failDifference
<1>3. /\ bx \in [Boxes -> BoxType]
      /\ \A c \in Boxes \ {b} : bx[c] = box[c]
      /\ bx[b] = [box[b] EXCEPT !.request = "none", !.afterFail = TRUE]
  <2> DEFINE x == [box[b] EXCEPT !.request = "none", !.afterFail = TRUE]
  <2>1. bx = [box EXCEPT ![b] = x]
    BY <1>1
  <2>2. x \in BoxType
    BY <1>1 DEF BoxType
  <2> HIDE DEF bx, x
  <2>3. bx \in [Boxes -> BoxType] /\ bx[b] = x
        /\ \A c \in Boxes \ {b} : bx[c] = box[c]
    BY <1>1, <2>1, <2>2
  <2> QED BY <2>3 DEF x
<1> HIDE DEF bx
<1>4. /\ box' \in [Boxes -> BoxType] /\ \A c \in Boxes : Asks(bx[c], box'[c])
  BY <1>2, <1>3, AfterFailAsks
<1>5. /\ WaiterInv(bx[b], applied[b], base[b], log[b], InFlight(b))
      /\ bx[b].good = box[b].good
  <2>1. /\ bx[b].good = box[b].good /\ bx[b].last = box[b].last
        /\ bx[b].count = box[b].count /\ bx[b].seen = box[b].seen
        /\ bx[b].queue = box[b].queue /\ bx[b].requesting = box[b].requesting
        /\ bx[b].waitingForSkipped = box[b].waitingForSkipped
        /\ bx[b].byPts = box[b].byPts /\ bx[b].request = "none"
    BY <1>1, <1>3 DEF BoxType
  <2> QED BY <1>1, <2>1 DEF WaiterInv
<1>6. WaiterInv(box'[b], applied[b], base[b], log[b], InFlight(b))
  BY <1>1, <1>3, <1>4, <1>5, AsksKeepsInv
<1>7. BoxInv(b)'
  BY <1>2, <1>6 DEF BoxInv, InFlight, server, client
<1>8. box'[b].good >= box[b].good
  BY <1>1, <1>4, <1>5 DEF Asks, BoxType
<1>9. \A c \in Boxes \ {b} : Asks(box[c], box'[c])
  BY <1>3, <1>4
<1>10. /\ net' \subseteq net /\ UNCHANGED server /\ applied' = applied
       /\ base' = base /\ loaded' \in SUBSET Channels
       /\ active' \in SUBSET Channels /\ minChannel' \in BOOLEAN
  BY <1>2 DEF client, Inv, TypeOK
<1> QED BY <1>1, <1>4, <1>7, <1>8, <1>9, <1>10, OneBoxStep
-----------------------------------------------------------------------------
(* Timers, windows, and what else only asks for differences. *)
LEMMA TimerStep ==
  ASSUME Inv,
         \/ \E c \in Channels : ChannelTooLong(c)
         \/ UpdatesTooLong
         \/ \E due \in SUBSET Boxes : byPtsTimer(due) \/ failDifferenceTimer(due)
         \/ byMinChannelTimer
         \/ \E c \in Channels : addActiveChat(c) \/ removeActiveChat(c)
         \/ \E m \in net : LoseUpdate(m)
  PROVE  Inv' /\ Forward
<1>1. /\ box \in [Boxes -> BoxType] /\ Common \in Boxes /\ Channels \subseteq Boxes
      /\ loaded \in SUBSET Channels /\ active \in SUBSET Channels
      /\ minChannel \in BOOLEAN
  BY DEF Inv, TypeOK, Boxes
<1>2. /\ net' \subseteq net /\ UNCHANGED <<server, applied, base>>
      /\ loaded' \in SUBSET Channels /\ active' \in SUBSET Channels
      /\ minChannel' \in BOOLEAN
  BY <1>1 DEF ChannelTooLong, UpdatesTooLong, byPtsTimer, failDifferenceTimer,
              byMinChannelTimer, addActiveChat, removeActiveChat, LoseUpdate,
              client
<1> SUFFICES /\ box' \in [Boxes -> BoxType]
             /\ \A c \in Boxes : Asks(box[c], box'[c])
  BY <1>2, AskStep
<1>3. CASE \E c \in Channels : ChannelTooLong(c)
  <2>1. PICK c \in Channels : ChannelTooLong(c)
    BY <1>3
  <2>2. box' = [box EXCEPT ![c] = getChannelDifference(@, "Unknown")]
    BY <2>1 DEF ChannelTooLong
  <2>3. LET v == getChannelDifference(box[c], "Unknown")
        IN  v \in BoxType /\ Asks(box[c], v)
    BY <1>1, GetChannelDifferenceAsks
  <2> QED BY <1>1, <2>2, <2>3, AsksItself
<1>4. CASE UpdatesTooLong \/ byMinChannelTimer
  <2>1. box' = [box EXCEPT ![Common] = getDifference(@)]
    BY <1>4 DEF UpdatesTooLong, byMinChannelTimer
  <2>2. getDifference(box[Common]) \in BoxType
        /\ Asks(box[Common], getDifference(box[Common]))
    BY <1>1, GetDifferenceAsks
  <2> QED BY <1>1, <2>1, <2>2, AsksItself
<1>5. CASE \E due \in SUBSET Boxes : byPtsTimer(due)
  BY <1>1, <1>5, ByPtsAsks DEF byPtsTimer
<1>6. CASE \E due \in SUBSET Boxes : failDifferenceTimer(due)
  BY <1>1, <1>6, AfterFailAsks DEF failDifferenceTimer
<1>7. CASE \E c \in Channels : addActiveChat(c)
  <2>1. PICK c \in Channels : addActiveChat(c)
    BY <1>7
  <2> DEFINE v == setWaitingForShortPoll(box[c])
  <2>2. SetBox(c, v)
    BY <2>1 DEF addActiveChat
  <2>3. c \in Boxes /\ v \in BoxType /\ Asks(box[c], v)
    BY <1>1, ShortPollAsks
  <2> HIDE DEF v
  <2>4. /\ box' \in [Boxes -> BoxType] /\ box'[c] = v
        /\ \A d \in Boxes \ {c} : Asks(box[d], box'[d])
    BY <1>1, <2>2, <2>3, SetBoxAsks
  <2> QED BY <2>3, <2>4
<1>8. CASE \/ \E c \in Channels : removeActiveChat(c)
           \/ \E m \in net : LoseUpdate(m)
  <2>1. box' = box
    BY <1>8 DEF removeActiveChat, LoseUpdate
  <2> QED BY <1>1, <2>1, AsksItself
<1> QED BY <1>3, <1>4, <1>5, <1>6, <1>7, <1>8

(* Answers leave the waiter as it is. *)
LEMMA AnswerStep ==
  ASSUME Inv, NEW b \in Boxes,
         \/ Answer(b) \/ AnswerFail(b)
         \/ b \in Channels /\ AnswerTooLong(b)
         \/ b = Common /\ AnswerState
  PROVE  Inv' /\ Forward
<1>1. /\ box \in [Boxes -> BoxType] /\ base \in [Boxes -> Nat]
      /\ applied \in [Boxes -> SUBSET Int] /\ serverPts \in [Boxes -> Nat]
      /\ log \in [Boxes -> SUBSET Nat]
      /\ WaiterInv(box[b], applied[b], base[b], log[b], InFlight(b))
  BY DEF Inv, TypeOK, BoxInv
<1>2. /\ serverPts[b] \in log[b] /\ box[b].good <= serverPts[b]
  BY <1>1 DEF Inv, StreamInv, WaiterInv, BoxType
<1>3. UNCHANGED <<server, net, client>> /\ box[b].request # "none"
  BY DEF Answer, AnswerFail, AnswerTooLong, AnswerState
<1>4. \E req \in {"done", "tooLong", "failed"}, r \in Reply :
        /\ box' = [box EXCEPT ![b] = [box[b] EXCEPT !.request = req, !.reply = r]]
        /\ req # "failed" => r.upto \in log[b] /\ r.upto >= box[b].good
  <2>1. CASE Answer(b)
    <3>1. PICK upto \in log[b] :
            /\ upto > box[b].good \/ upto = serverPts[b]
            /\ box' = [box EXCEPT
                 ![b].request = "done",
                 ![b].reply = [upto |-> upto, final |-> upto = serverPts[b]]]
      BY <2>1 DEF Answer
    <3> DEFINE r == [upto |-> upto, final |-> upto = serverPts[b]]
    <3>2. r \in Reply /\ r.upto \in log[b] /\ r.upto >= box[b].good
      BY <1>1, <1>2, <3>1 DEF Reply, BoxType
    <3> HIDE DEF r
    <3>3. box' = [box EXCEPT ![b] = [box[b] EXCEPT !.request = "done", !.reply = r]]
      BY <1>1, <3>1 DEF r
    <3> QED BY <3>2, <3>3
  <2>2. CASE AnswerFail(b)
    <3> DEFINE r == box[b].reply
    <3>1. box' = [box EXCEPT ![b] = [box[b] EXCEPT !.request = "failed", !.reply = r]]
      BY <1>1, <2>2 DEF AnswerFail, BoxType
    <3>2. r \in Reply
      BY <1>1 DEF BoxType
    <3> QED BY <3>1, <3>2
  <2>3. CASE AnswerTooLong(b) \/ (b = Common /\ AnswerState)
    <3> DEFINE r == [upto |-> serverPts[b], final |-> TRUE]
    <3>1. r \in Reply /\ r.upto \in log[b] /\ r.upto >= box[b].good
      BY <1>1, <1>2 DEF Reply, BoxType
    <3>2. \E req \in {"done", "tooLong"} :
            box' = [box EXCEPT ![b] = [box[b] EXCEPT !.request = req, !.reply = r]]
      BY <1>1, <2>3 DEF AnswerTooLong, AnswerState
    <3> HIDE DEF r
    <3> QED BY <3>1, <3>2
  <2> QED BY <2>1, <2>2, <2>3
<1>5. PICK req \in {"done", "tooLong", "failed"}, r \in Reply :
        /\ box' = [box EXCEPT ![b] = [box[b] EXCEPT !.request = req, !.reply = r]]
        /\ req # "failed" => r.upto \in log[b] /\ r.upto >= box[b].good
  BY <1>4
<1> DEFINE v == [box[b] EXCEPT !.request = req, !.reply = r]
<1>6. /\ v \in BoxType /\ v.good = box[b].good /\ v.last = box[b].last
      /\ v.count = box[b].count /\ v.seen = box[b].seen
      /\ v.queue = box[b].queue /\ v.requesting = box[b].requesting
      /\ v.waitingForSkipped = box[b].waitingForSkipped
      /\ v.byPts = box[b].byPts /\ v.request = req /\ v.reply = r
  <2>1. box[b] \in BoxType
    BY <1>1
  <2>2. v \in BoxType
    BY <2>1, <1>5 DEF BoxType
  <2>3. /\ v.good = box[b].good /\ v.last = box[b].last
        /\ v.count = box[b].count /\ v.seen = box[b].seen
        /\ v.queue = box[b].queue /\ v.requesting = box[b].requesting
    BY <2>1 DEF BoxType
  <2>4. /\ v.waitingForSkipped = box[b].waitingForSkipped
        /\ v.byPts = box[b].byPts /\ v.request = req /\ v.reply = r
    BY <2>1 DEF BoxType
  <2> QED BY <2>2, <2>3, <2>4
<1> HIDE DEF v
<1>7. WaiterInv(v, applied[b], base[b], log[b], InFlight(b))
  BY <1>1, <1>3, <1>5, <1>6 DEF WaiterInv
<1>8. /\ box' \in [Boxes -> BoxType] /\ box'[b] = v
      /\ \A c \in Boxes \ {b} : box'[c] = box[c]
  BY <1>1, <1>5, <1>6 DEF v
<1>9. BoxInv(b)' /\ box'[b].good >= box[b].good
  BY <1>1, <1>3, <1>6, <1>7, <1>8 DEF BoxInv, InFlight, server, client, BoxType
<1>10. /\ net' \subseteq net /\ UNCHANGED server /\ applied' = applied
       /\ base' = base /\ loaded' \in SUBSET Channels
       /\ active' \in SUBSET Channels /\ minChannel' \in BOOLEAN
  BY <1>3 DEF client, Inv, TypeOK
<1> QED BY <1>1, <1>8, <1>9, <1>10, OneBoxStep, AsksItself
(* A new update is above everything the client has seen. *)
LEMMA NewUpdateStep ==
  ASSUME Inv, NEW b \in Boxes, NEW n \in Counts, NEW k \in Kinds,
         NewUpdate(b, n, k)
  PROVE  Inv' /\ Forward
<1> DEFINE pts == serverPts[b] + n
           e == [pts |-> pts, count |-> n]
           m == [box |-> b, kind |-> k, update |-> e]
<1>1. /\ n \in Nat /\ n > 0 /\ serverPts[b] \in Nat /\ pts \in Nat
      /\ serverPts[b] \in log[b]
      /\ \A q \in log[b] : 0 < q /\ q <= serverPts[b]
      /\ log[b] \in SUBSET Nat
  BY UpdatesAssumption DEF NewUpdate, Inv, TypeOK, StreamInv
<1>2. /\ serverPts' = [serverPts EXCEPT ![b] = pts]
      /\ log' = [log EXCEPT ![b] = @ \cup {pts}]
      /\ net' = net \cup {m}
      /\ UNCHANGED <<box, client>>
  BY DEF NewUpdate
<1>3. e \in Update /\ e.pts = pts /\ e.count = n /\ m \in Message
      /\ m.box = b /\ m.update = e
  BY <1>1 DEF Update, Message
<1>4. \A p \in Points(e) : p > serverPts[b]
  BY <1>1, <1>3 DEF Points
<1>5. /\ serverPts \in [Boxes -> Nat] /\ log \in [Boxes -> SUBSET Nat]
      /\ net \subseteq Message /\ TypeOK /\ StreamInv
  BY DEF Inv, TypeOK
<1>6. /\ serverPts' \in [Boxes -> Nat] /\ log' \in [Boxes -> SUBSET Nat]
      /\ serverPts'[b] = pts /\ log'[b] = log[b] \cup {pts}
      /\ \A c \in Boxes \ {b} : serverPts'[c] = serverPts[c] /\ log'[c] = log[c]
  BY <1>1, <1>2, <1>5
<1> HIDE DEF m, e, pts
<1>7. TypeOK'
  BY <1>2, <1>3, <1>5, <1>6 DEF TypeOK, client
<1>8. \A c \in Boxes : /\ serverPts'[c] \in log'[c]
                       /\ \A q \in log'[c] : 0 < q /\ q <= serverPts'[c]
  <2>1. pts > 0 /\ pts >= serverPts[b] /\ pts \in Nat
    BY <1>1 DEF pts
  <2>2. \A q \in log'[b] : 0 < q /\ q <= pts
    BY <1>1, <1>6, <2>1
  <2> QED BY <1>5, <1>6, <2>2 DEF StreamInv
<1>9. \A x \in net' : x.update.count > 0 /\ Fits(x.update, log'[x.box])
  <2>1. Fits(e, log'[b])
    BY <1>1, <1>3, <1>6 DEF Fits, pts
  <2>2. ASSUME NEW x \in net PROVE x.update.count > 0 /\ Fits(x.update, log'[x.box])
    <3>1. x.box \in Boxes /\ x.update \in Update /\ x.update.count > 0
          /\ Fits(x.update, log[x.box])
      BY <1>5 DEF Message, StreamInv
    <3>2. CASE x.box = b
      <4>1. x.update.pts <= pts /\ x.update.pts \in Nat
        BY <1>1, <3>1, <3>2 DEF Fits, pts
      <4> QED BY <1>1, <1>6, <3>1, <3>2, <4>1 DEF Fits
    <3>3. CASE x.box # b
      BY <1>6, <3>1, <3>3
    <3> QED BY <3>2, <3>3
  <2> QED BY <1>1, <1>2, <1>3, <2>1, <2>2
<1>10. \A x, y \in net' :
         x.box = y.box /\ x.update.pts = y.update.pts => x = y
  <2>1. ASSUME NEW x \in net, x.box = b PROVE x.update.pts # pts
    <3>1. x.update.pts \in log[b]
      BY <1>5, <2>1 DEF StreamInv, Fits
    <3> QED BY <1>1, <3>1 DEF pts
  <2> QED BY <1>2, <1>3, <1>5, <2>1 DEF StreamInv
<1>11. StreamInv'
  BY <1>8, <1>9, <1>10 DEF StreamInv
<1>12. ASSUME NEW c \in Boxes PROVE BoxInv(c)'
  <2>1. /\ WaiterInv(box[c], applied[c], base[c], log[c], InFlight(c))
        /\ box[c] \in BoxType
    BY <1>5 DEF Inv, BoxInv, TypeOK
  <2>2. log[c] \subseteq log'[c]
    BY <1>6
  <2>3. \A f \in InFlight(c)' : \A p \in box[c].seen : p \notin Points(f)
    <3> SUFFICES ASSUME NEW f \in InFlight(c)', NEW p \in box[c].seen
                 PROVE  p \notin Points(f)
      OBVIOUS
    <3>1. PICK x \in net' : x.box = c /\ f = x.update
      BY DEF InFlight
    <3>2. CASE x \in net
      <4>1. f \in InFlight(c)
        BY <3>1, <3>2 DEF InFlight
      <4> QED BY <2>1, <4>1 DEF WaiterInv
    <3>3. CASE x = m
      <4>1. f = e /\ c = b
        BY <1>3, <3>1, <3>3
      <4>2. box[b].last <= serverPts[b] /\ p <= box[b].last
        BY <1>1, <2>1, <4>1 DEF WaiterInv, BoxType
      <4> QED BY <1>1, <1>4, <2>1, <4>1, <4>2 DEF BoxType
    <3> QED BY <1>2, <3>2, <3>3
  <2>4. WaiterInv(box[c], applied[c], base[c], log'[c], InFlight(c)')
    BY <2>1, <2>2, <2>3 DEF WaiterInv
  <2> QED BY <1>2, <2>4 DEF BoxInv, client
<1>13. Inv'
  BY <1>7, <1>11, <1>12 DEF Inv
<1>14. Forward
  BY <1>2 DEF Forward, Inv, TypeOK, BoxType
<1> QED BY <1>13, <1>14

-----------------------------------------------------------------------------
(* The constructor establishes the invariant. *)
LEMMA InvInit == Init => Inv
<1> SUFFICES ASSUME Init PROVE Inv
  OBVIOUS
<1>1. NewBox \in BoxType /\ NoReply \in Reply
  BY DEF NewBox, NoReply, BoxType, Reply
<1> DEFINE first == [setRequesting(NewBox, TRUE) EXCEPT !.request = "state"]
<1>2. first \in BoxType
  BY <1>1 DEF setRequesting, clearSkippedUpdates, BoxType
<1>4. /\ NewBox.good = 0 /\ NewBox.last = 0 /\ NewBox.count = 0
      /\ NewBox.seen = {} /\ NewBox.queue = {} /\ NewBox.request = "none"
  BY DEF NewBox
<1>3. /\ first.good = 0 /\ first.last = 0 /\ first.count = 0
      /\ first.seen = {} /\ first.queue = {} /\ first.requesting
      /\ first.request = "state"
  BY <1>1, <1>4 DEF setRequesting, clearSkippedUpdates, BoxType
<1>5. \A b \in Boxes : box[b] = first \/ box[b] = NewBox
  BY DEF Init
<1>6. box \in [Boxes -> BoxType]
  BY <1>1, <1>2 DEF Init
<1> HIDE DEF first
<1>7. TypeOK
  <2>1. serverPts \in [Boxes -> Nat] /\ base \in [Boxes -> Nat]
    BY DEF Init
  <2>2. log \in [Boxes -> SUBSET Nat]
    BY DEF Init
  <2>3. applied \in [Boxes -> SUBSET Int]
    BY DEF Init
  <2>4. /\ loaded \in SUBSET Channels /\ active \in SUBSET Channels
        /\ minChannel \in BOOLEAN /\ net \in SUBSET Message
    BY DEF Init
  <2> QED BY <1>6, <2>1, <2>2, <2>3, <2>4 DEF TypeOK
<1>8. StreamInv
  BY DEF Init, StreamInv
<1>9. ASSUME NEW b \in Boxes PROVE BoxInv(b)
  <2>1. /\ box[b].good = 0 /\ box[b].last = 0 /\ box[b].count = 0
        /\ box[b].seen = {} /\ box[b].queue = {}
        /\ box[b].request \in {"none", "state"}
        /\ box[b].request # "none" => box[b].requesting
    BY <1>3, <1>4, <1>5
  <2>2. Cardinality(box[b].seen) = 0
    BY <2>1, FS_EmptySet
  <2>3. base[b] = 0
    BY DEF Init
  <2>4. WaiterInv(box[b], applied[b], base[b], log[b], InFlight(b))
    BY <2>1, <2>2, <2>3 DEF WaiterInv
  <2> QED BY <2>4 DEF BoxInv
<1> QED BY <1>7, <1>8, <1>9 DEF Inv

(* Every step keeps it, and moves no box back. *)
LEMMA InvNext ==
  ASSUME Inv, [Next]_vars
  PROVE  Inv' /\ Forward
<1>1. CASE Environment
  <2>1. CASE \E b \in Boxes, n \in Counts, k \in Kinds : NewUpdate(b, n, k)
    BY <2>1, NewUpdateStep
  <2>2. CASE \E m \in net : LoseUpdate(m)
    BY <2>2, TimerStep
  <2>3. CASE \E b \in Boxes : Answer(b) \/ AnswerFail(b)
    BY <2>3, AnswerStep
  <2>4. CASE \E c \in Channels : AnswerTooLong(c)
    BY <2>4, AnswerStep DEF Boxes
  <2>5. CASE AnswerState
    BY <2>5, AnswerStep DEF Boxes
  <2> QED BY <1>1, <2>1, <2>2, <2>3, <2>4, <2>5 DEF Environment
<1>2. CASE Client
  <2>1. CASE \E m \in net : \/ mtpUpdateReceived(m)
                            \/ applyUpdates(m)
                            \/ applyAffectedMessages(m)
    BY <2>1, UpdateReceivedStep, ApplyUpdatesStep, AffectedStep
  <2>2. CASE \E b \in Boxes : \E p \in log[b] : ptsReceived(b, p)
    BY <2>2, PtsReceivedStep
  <2>3. CASE stateDone
    BY <2>3, StateDoneStep
  <2>4. CASE differenceDone
    BY <2>4, DifferenceDoneStep
  <2>5. CASE \E c \in Channels : channelDifferenceDone(c) \/ channelDifferenceTooLong(c)
    BY <2>5, ChannelDifferenceDoneStep, ChannelDifferenceTooLongStep
  <2>6. CASE \E b \in Boxes : failDifference(b)
    BY <2>6, FailDifferenceStep
  <2> QED BY <1>2, <2>1, <2>2, <2>3, <2>4, <2>5, <2>6, TimerStep DEF Client
<1>3. CASE UNCHANGED vars
  <2>1. /\ box' \in [Boxes -> BoxType] /\ \A c \in Boxes : Asks(box[c], box'[c])
        /\ net' \subseteq net /\ UNCHANGED <<server, applied, base>>
        /\ loaded' \in SUBSET Channels /\ active' \in SUBSET Channels
        /\ minChannel' \in BOOLEAN
    BY <1>3, AsksItself DEF vars, server, Inv, TypeOK
  <2> QED BY <2>1, AskStep
<1> QED BY <1>1, <1>2, <1>3 DEF Next

(* The inductive invariant holds in every state the client can reach. *)
THEOREM Invariance == Spec => []Inv
BY InvInit, InvNext, PTL DEF Spec

(* Types. *)
THEOREM TypeCorrect == Spec => []TypeOK
<1>1. Inv => TypeOK
  BY DEF Inv
<1> QED BY <1>1, Invariance, PTL

(* Whatever messages are lost, late or dropped, and whatever requests      *)
(* fail: the pts PtsWaiter holds as good never passes an update that was   *)
(* not applied.                                                            *)
THEOREM NothingSkipped == Spec => []NoUpdateSkipped
<1>1. Inv => NoUpdateSkipped
  BY DEF Inv, NoUpdateSkipped, BoxInv, WaiterInv
<1> QED BY <1>1, Invariance, PTL

(* The branch _last < _count of PtsWaiter::check is dead code. *)
THEOREM GapIsNeverNegative == Spec => []GapNeverNegative
<1>1. Inv => GapNeverNegative
  BY DEF Inv, GapNeverNegative, BoxInv, WaiterInv
<1> QED BY <1>1, Invariance, PTL

(* Updates put aside always have a deadline. *)
THEOREM QueuedAreAwaited == Spec => []QueuedUpdatesAwaited
<1>1. Inv => QueuedUpdatesAwaited
  BY DEF Inv, QueuedUpdatesAwaited, BoxInv, WaiterInv
<1> QED BY <1>1, Invariance, PTL

(* No box ever moves back in its stream. *)
THEOREM OnlyForward == Spec => PtsNeverGoesBack
<1>1. Inv /\ [Next]_vars => [\A b \in Boxes : box'[b].good >= box[b].good]_vars
  BY InvNext DEF Forward
<1> QED BY <1>1, Invariance, PTL DEF Spec, PtsNeverGoesBack
=============================================================================
