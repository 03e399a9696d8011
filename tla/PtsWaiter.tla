------------------------------ MODULE PtsWaiter ------------------------------
(***************************************************************************)
(* The waiter of one update box (class PtsWaiter): the client's position   *)
(* in the box's numbered stream of updates and the updates that arrived    *)
(* ahead of their turn.                                                    *)
(*                                                                         *)
(* A waiter is a record w with the fields of the class                     *)
(*   good, last, count       _good, _last, _count                          *)
(*   requesting              _requesting: a difference is being fetched    *)
(*   waitingForSkipped       _waitingForSkipped                            *)
(*   waitingForShortPoll     _waitingForShortPoll                          *)
(*   queue                   _queue with _updateQueue and _updatesQueue    *)
(* and two more:                                                           *)
(*   byPts   the box has a deadline in Updates::_whenGetDiffByPts (for the *)
(*           common box, _getDifferenceTimeByPts is not 0); how far away   *)
(*           the deadline is, is abstracted                                *)
(*   seen    history: the points above good counted into _count.           *)
(*                                                                         *)
(* An update is a record [pts, count].  It stands for the points           *)
(* pts-count+1 .. pts of the stream; one with count 0 only tells the       *)
(* position.  _queue is ordered by pts; the updates it holds are applied   *)
(* in one uninterrupted loop, so the model keeps them as a set.            *)
(***************************************************************************)
EXTENDS Integers

Points(e) == (e.pts - e.count + 1) .. e.pts

PointsOf(S) == UNION {Points(e) : e \in S}

inited(w) == w.good > 0

clearSkippedUpdates(w) == [w EXCEPT !.queue = {}]

init(w, pts) ==
  clearSkippedUpdates(
    [w EXCEPT !.good = pts, !.last = pts, !.count = pts, !.seen = {}])

(* Mutant of setRequesting: the updates put aside are kept. *)
setRequestingKeepingQueue(w, isRequesting) ==
  [w EXCEPT !.requesting = isRequesting]

setRequesting(w, isRequesting) ==
  LET v == [w EXCEPT !.requesting = isRequesting]
  IN  IF isRequesting THEN clearSkippedUpdates(v) ELSE v

(* ptsWaiterStartTimerFor(channel, -1) removes the deadline. *)
checkForWaiting(w) ==
  IF ~w.waitingForSkipped /\ ~w.waitingForShortPoll
    THEN [w EXCEPT !.byPts = FALSE]
    ELSE w

setWaitingForSkipped(w, waiting) ==
  IF waiting
    THEN [w EXCEPT !.waitingForSkipped = TRUE, !.byPts = TRUE]
    ELSE checkForWaiting([w EXCEPT !.waitingForSkipped = FALSE])

(* No caller ever stops waiting for the short poll. *)
setWaitingForShortPoll(w) ==
  [w EXCEPT !.waitingForShortPoll = TRUE, !.byPts = TRUE]

(* The waiter after applySkippedUpdates, and the queued updates it applies. *)
applySkippedUpdates(w) ==
  IF w.waitingForSkipped
    THEN clearSkippedUpdates(setWaitingForSkipped(w, FALSE))
    ELSE w

SkippedApplied(w) == IF w.waitingForSkipped THEN w.queue ELSE {}

-----------------------------------------------------------------------------
(* Mutant of lastWith: the last pts is taken over without qMax. *)
lastWithoutMax(w, e) == e.pts

lastWith(w, e) == IF e.pts > w.last THEN e.pts ELSE w.last

(* check: the waiter after it, and its result.  FALSE means that the update *)
(* has to be saved and applied later.                                       *)
check(w, e) ==
  IF ~inited(w)
    THEN init(w, e.pts)
    ELSE LET v == [w EXCEPT !.last = lastWith(w, e), !.count = @ + e.count]
         IN  IF v.last = v.count
               THEN [v EXCEPT !.good = v.last, !.seen = {}]
               ELSE setWaitingForSkipped(
                      [v EXCEPT !.seen = @ \cup Points(e)], TRUE)

checkResult(w, e) ==
  \/ ~inited(w)
  \/ lastWith(w, e) = w.count + e.count
  \/ e.count = 0

(* Mutant of alreadyApplied: an old update is counted again. *)
neverAlreadyApplied(w, e) == FALSE

alreadyApplied(w, e) == e.pts <= w.good /\ e.count > 0

(* updated: TRUE when the update may be applied now. *)
updatedResult(w, e) ==
  \/ w.requesting
  \/ ~alreadyApplied(w, e) /\ checkResult(w, e)

(* Mutant of updatedCount: counts on while a difference is fetched. *)
updatedCountAlways(w, e) ==
  IF alreadyApplied(w, e) THEN w ELSE check(w, e)

(* updated without an update to save: the caller has applied its effect. *)
updatedCount(w, e) ==
  IF w.requesting \/ alreadyApplied(w, e) THEN w ELSE check(w, e)

(* updated with an update that is saved when it cannot be applied yet. *)
updated(w, e) ==
  LET v == updatedCount(w, e)
  IN  IF updatedResult(w, e) \/ alreadyApplied(w, e)
        THEN v
        ELSE [v EXCEPT !.queue = @ \cup {e}]

-----------------------------------------------------------------------------
(* updateAndApply(channel, pts, count): the waiter after it, and the queued *)
(* updates it applies.                                                      *)
updateAndApplyCount(w, e) ==
  IF updatedResult(w, e)
    THEN applySkippedUpdates(updatedCount(w, e))
    ELSE updatedCount(w, e)

AppliedWithCount(w, e) ==
  IF updatedResult(w, e) THEN SkippedApplied(updatedCount(w, e)) ELSE {}

(* updateAndApply(channel, pts, count, update): the waiter after it, and   *)
(* the updates it applies.  An update that closes a gap goes through the   *)
(* queue, so that it is applied in its place.                              *)
throughQueue(v) == v.waitingForSkipped /\ v.queue # {}

updateAndApply(w, e) ==
  LET v == updated(w, e)
  IN  IF updatedResult(w, e) /\ throughQueue(v)
        THEN applySkippedUpdates([v EXCEPT !.queue = @ \cup {e}])
        ELSE v

AppliedWith(w, e) ==
  LET v == updated(w, e)
  IN  CASE ~updatedResult(w, e) -> {}
        [] updatedResult(w, e) /\ throughQueue(v) -> v.queue \cup {e}
        [] OTHER -> {e}
=============================================================================
