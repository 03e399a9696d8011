---------------------------- MODULE SparseIdsList ----------------------------
(***************************************************************************)
(* Storage::SparseIdsList: which message ids of one kind of shared media   *)
(* are known, as slices.  A slice says that inside [from, till] it has all *)
(* of them.  The flat_set of slices, ordered by `from', is a set here; its *)
(* binary searches pick the same slices as long as no two slices overlap   *)
(* (SlicesApart in SharedMedia).                                           *)
(*                                                                         *)
(* An optional<int> is a sequence of at most one element.                  *)
(***************************************************************************)
EXTENDS Integers, FiniteSets

CONSTANT Top  \* ServerMaxMsgId

ASSUME TopAssumption == Top \in Nat \ {0}

Least(S) == CHOOSE x \in S : \A y \in S : x <= y
Greatest(S) == CHOOSE x \in S : \A y \in S : x >= y

Some(n) == <<n>>
None == <<>>
Greater(m, n) == IF m >= n THEN m ELSE n

Slice(messages, from, till) ==
    [messages |-> messages, from |-> from, till |-> till]

EmptyList == [slices |-> {}, count |-> None]

-----------------------------------------------------------------------------
(* The slices [uniteFrom, uniteTill).                                      *)
Touched(slices, from, till) ==
    {s \in slices : s.till >= from /\ s.from <= till}

(* Slice::merge for all of them.                                           *)
United(touched, messages, from, till) ==
    Slice(messages \cup UNION {s.messages : s \in touched},
          Least({from} \cup {s.from : s \in touched}),
          Greatest({till} \cup {s.till : s \in touched}))

(* Mutant of addSlices: slices that only meet the range are not united.    *)
AddSlicesOverlapping(slices, messages, from, till) ==
    LET touched == {s \in slices : s.till > from /\ s.from < till}
    IN  IF from = till /\ messages = {} THEN slices
        ELSE (slices \ touched) \cup {United(touched, messages, from, till)}

(* addRangeItemsAndCountNew: the slices.                                   *)
addSlices(slices, messages, from, till) ==
    LET touched == Touched(slices, from, till)
    IN  IF from = till /\ messages = {} THEN slices
        ELSE (slices \ touched) \cup {United(touched, messages, from, till)}

(* addRangeItemsAndCountNew: AddResult::added, against the first slice.    *)
added(slices, messages, from, till) ==
    LET touched == Touched(slices, from, till)
        size == Cardinality(United(touched, messages, from, till).messages)
        first == CHOOSE s \in touched : \A t \in touched : s.from <= t.from
    IN  CASE from = till /\ messages = {} -> 0
          [] ~(from = till /\ messages = {}) /\ touched = {} -> size
          [] OTHER -> size - Cardinality(first.messages)

(* The SparseIdsSliceUpdate: the united slice before it is widened.        *)
sliceUpdate(slices, messages, from, till) ==
    IF from = till /\ messages = {}
    THEN [has |-> FALSE, slice |-> Slice({}, 0, 0)]
    ELSE [has |-> TRUE,
          slice |-> United(Touched(slices, from, till), messages, from, till)]

(* A slice that has all `count' messages covers everything; size() is      *)
(* unsigned, so a count below zero is never reached.                       *)
widen(slices, count) ==
    IF /\ Cardinality(slices) = 1 /\ count # None
       /\ count[1] >= 0
       /\ \A s \in slices : Cardinality(s.messages) >= count[1]
    THEN {Slice(s.messages, 0, Top) : s \in slices}
    ELSE slices

(* The single slice that covers everything knows the count.                *)
recount(slices, count) ==
    IF Cardinality(slices) = 1 /\ \A s \in slices : s.from = 0 /\ s.till = Top
    THEN Some(Cardinality(UNION {s.messages : s \in slices}))
    ELSE count

(* addRange: the list and the update that is fired.                        *)
addRange(l, messages, from, till, count, incrementCount) ==
    LET slices == addSlices(l.slices, messages, from, till)
        news == added(l.slices, messages, from, till)
        u == sliceUpdate(l.slices, messages, from, till)
        given == CASE count # None -> count
                   [] /\ count = None /\ incrementCount
                      /\ l.count # None /\ news > 0 -> Some(l.count[1] + news)
                   [] OTHER -> l.count
        wide == widen(slices, given)
        counted == recount(wide, given)
        final == IF counted # None /\ u.has
                 THEN Some(Greater(counted[1], Cardinality(u.slice.messages)))
                 ELSE counted
    IN  [list |-> [slices |-> wide, count |-> final],
         update |-> [has |-> u.has, slice |-> u.slice, count |-> final]]

addNew(l, id) == addRange(l, {id}, id, Top, None, TRUE)

addSlice(l, messages, from, till, count) ==
    addRange(l, messages, from, till, count, FALSE)

removeOne(l, id) ==
    [slices |-> {IF s.from <= id /\ id <= s.till
                 THEN [s EXCEPT !.messages = @ \ {id}] ELSE s : s \in l.slices},
     count |-> IF l.count = None THEN None ELSE Some(l.count[1] - 1)]

removeAll == [slices |-> {Slice({}, 0, Top)}, count |-> Some(0)]

(* Mutant of invalidateBottom: the last slice still reaches the bottom.    *)
InvalidateCount(l) == [l EXCEPT !.count = None]

invalidateBottom(l) ==
    [slices |-> {IF s.till # Top THEN s
                 ELSE [s EXCEPT !.till = IF s.messages = {} THEN s.from
                                         ELSE Greatest(s.messages)]
                 : s \in l.slices},
     count |-> None]

-----------------------------------------------------------------------------
(* query, snapshot and queryFromSlice.                                     *)

Around(l, id) == {s \in l.slices : id # 0 /\ s.from <= id /\ id <= s.till}

(* The n greatest and the n least of a finite set.                         *)
LastOf(S, n) == {x \in S : Cardinality({y \in S : y > x}) < n}
FirstOf(S, n) == {x \in S : Cardinality({y \in S : y < x}) < n}

Nothing == [count |-> None, before |-> None, after |-> None, ids |-> {}]

queryFromSlice(s, count, id, limitBefore, limitAfter) ==
    LET haveBefore == {m \in s.messages : m < id}
        haveAfter == {m \in s.messages : m >= id}
        ids == LastOf(haveBefore, limitBefore)
                   \cup FirstOf(haveAfter, limitAfter + 1)
        size == Cardinality(ids)
        before == IF s.from # 0 THEN None
                  ELSE Some(Cardinality(haveBefore \ ids))
        after == IF s.till # Top THEN None
                 ELSE Some(Cardinality(haveAfter \ ids))
    IN  [count |-> count, ids |-> ids,
         before |-> IF count # None /\ before = None /\ after # None
                    THEN Some(count[1] - after[1] - size) ELSE before,
         after |-> IF count # None /\ after = None /\ before # None
                   THEN Some(count[1] - before[1] - size) ELSE after]

query(l, id, limitBefore, limitAfter) ==
    IF Around(l, id) # {}
    THEN queryFromSlice(CHOOSE s \in Around(l, id) : TRUE, l.count, id,
                        limitBefore, limitAfter)
    ELSE [Nothing EXCEPT !.count = l.count]
=============================================================================
