---------------------------- MODULE SliceBuilder ----------------------------
(***************************************************************************)
(* SparseIdsSliceBuilder: the window around a key that a media list shows, *)
(* built from what SparseIdsList knows.  Every operation ends with         *)
(* sliceToLimits, which also says what has to be asked from the server.    *)
(***************************************************************************)
EXTENDS SparseIdsList

CONSTANTS LimitBefore, LimitAfter  \* how many ids the window wants

ASSUME LimitsAssumption == LimitBefore \in Nat /\ LimitAfter \in Nat

Builder(key) ==
    [key |-> key, ids |-> {}, full |-> None, before |-> None, after |-> None]

Request(around, direction) == [around |-> around, direction |-> direction]

(* requestMessages: AroundData.                                            *)
askFor(b, direction) ==
    CASE b.ids = {} -> Request(b.key, "Around")
      [] b.ids # {} /\ direction = "Before" ->
             Request(Least(b.ids), "Before")
      [] OTHER -> Request(Greatest(b.ids), "After")

Missing(skipped) == skipped = None \/ skipped[1] > 0

(* sliceToLimits.                                                          *)
sliceToLimits(b) ==
    LET below == {i \in b.ids : i < b.key}
        rest == b.ids \ below
        moreBelow == Cardinality(below) - LimitBefore
        moreRest == Cardinality(rest) - LimitAfter - 1
        asks == (IF moreBelow < 0 /\ Missing(b.before)
                 THEN {askFor(b, "Before")} ELSE {})
                \cup
                (IF moreRest < 0 /\ Missing(b.after)
                 THEN {askFor(b, "After")} ELSE {})
        Cut(skipped, more) == IF more > 0 /\ skipped # None
                              THEN Some(skipped[1] + more) ELSE skipped
    IN  IF b.key = 0
        THEN [builder |-> b,
              asks |-> IF b.full = None THEN {Request(0, "Around")} ELSE {}]
        ELSE [builder |->
                 [b EXCEPT !.ids = LastOf(below, LimitBefore)
                                       \cup FirstOf(rest, LimitAfter + 1),
                           !.before = Cut(@, moreBelow),
                           !.after = Cut(@, moreRest)],
              asks |-> IF asks = {} /\ b.full = None
                       THEN {Request(0, "Around")} ELSE asks]

(* fillSkippedAndSliceToLimits.                                            *)
fillSkipped(b) ==
    LET size == Cardinality(b.ids)
    IN  CASE b.full # None /\ b.before # None /\ b.after = None ->
                 [b EXCEPT !.after = Some(b.full[1] - b.before[1] - size)]
          [] b.full # None /\ b.after # None /\ b.before = None ->
                 [b EXCEPT !.before = Some(b.full[1] - b.after[1] - size)]
          [] OTHER -> b

(* adjustSkippedBefore and adjustSkippedAfter.                             *)
adjusted(skipped, beyond) == Some(Greater(skipped[1] - Cardinality(beyond), 0))

(* mergeSliceData: the ids that are there, and what is skipped around them *)
(* by the update or by what was known before it.                           *)
mergeIds(b, ids, before, after) ==
    LET all == b.ids \cup ids
        Below(i) == {j \in all : j < i}
        Above(i) == {j \in all : j > i}
    IN  [b EXCEPT
            !.ids = all,
            !.before = CASE before # None -> adjusted(before, Below(Least(ids)))
                         [] before = None /\ b.ids # {} /\ b.before # None ->
                                adjusted(b.before, Below(Least(b.ids)))
                         [] OTHER -> None,
            !.after = CASE after # None -> adjusted(after, Above(Greatest(ids)))
                        [] after = None /\ b.ids # {} /\ b.after # None ->
                               adjusted(b.after, Above(Greatest(b.ids)))
                        [] OTHER -> None]

(* A new count alone; when it is no more than what is there, that is all.  *)
takeCount(b, count) ==
    CASE count = None \/ b.full = count -> b
      [] count # None /\ b.full # count
         /\ count[1] >= 0 /\ count[1] <= Cardinality(b.ids) ->
             [b EXCEPT !.full = Some(Cardinality(b.ids)),
                       !.before = Some(0), !.after = Some(0)]
      [] OTHER -> [b EXCEPT !.full = count]

mergeSliceData(b, count, ids, before, after) ==
    sliceToLimits(fillSkipped(
        IF ids = {} THEN takeCount(b, count)
        ELSE mergeIds([b EXCEPT !.full = IF count # None THEN count ELSE @],
                      ids, before, after)))

applyInitial(b, result) ==
    mergeSliceData(b, result.count, result.ids, result.before, result.after)

(* applyUpdate; b and no requests when the update is not about the window. *)
applyUpdate(b, u) ==
    LET front == IF b.ids = {} THEN b.key ELSE Least(b.ids)
        back == IF b.ids = {} THEN b.key ELSE Greatest(b.ids)
        merge == u.has /\ u.slice.from <= back /\ front <= u.slice.till
    IN  IF ~merge /\ u.count = None THEN [builder |-> b, asks |-> {}]
        ELSE mergeSliceData(b, u.count,
                            IF merge THEN u.slice.messages ELSE {},
                            IF u.slice.from = 0 THEN Some(0) ELSE None,
                            IF u.slice.till = Top THEN Some(0) ELSE None)

Less(n) == IF n # None /\ n[1] > 0 THEN Some(n[1] - 1) ELSE n

(* SparseIdsSliceBuilder::removeOne.                                       *)
removeFromBuilder(b, id) ==
    LET c == CASE id \in b.ids -> [b EXCEPT !.full = Less(@), !.ids = @ \ {id}]
               [] b.ids # {} /\ id < Least(b.ids) /\ Missing(b.before)
                      /\ b.before # None ->
                      [b EXCEPT !.full = Less(@), !.before = Less(@)]
               [] b.ids # {} /\ id > Greatest(b.ids) ->
                      [b EXCEPT !.full = Less(@), !.after = Less(@)]
               [] OTHER -> [b EXCEPT !.full = Less(@)]
    IN  IF c = b THEN [builder |-> b, asks |-> {}] ELSE sliceToLimits(c)

removeAllFromBuilder(b) ==
    [b EXCEPT !.ids = {}, !.full = Some(0), !.before = Some(0),
              !.after = Some(0)]

invalidateBuilder(b) == sliceToLimits([b EXCEPT !.full = None, !.after = None])
=============================================================================
