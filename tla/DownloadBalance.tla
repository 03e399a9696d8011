--------------------------- MODULE DownloadBalance ---------------------------
(***************************************************************************)
(* How DownloadManagerMtproto spreads the parts of the files it downloads  *)
(* over the sessions of a data center.                                     *)
(*                                                                         *)
(* A balance is the record of a DcBalanceData: its sessions, each with the *)
(* amount requested, the successes since the last timeout and the amount   *)
(* the session may wait for, and the fields that decide when a session is  *)
(* added or removed.  Amounts are counted in parts of kDownloadPartSize.   *)
(* Sessions are numbered from 1, in the code from 0.  Of lastSessionRemove *)
(* the balance keeps whether it is set (removed); a request remembers      *)
(* whether it was sent before it (old).                                    *)
(*                                                                         *)
(* A kill is the record of _killSessionsWhen (the data centers that are    *)
(* to be stopped) and _killSessionsTimer (whether it runs).                *)
(***************************************************************************)
EXTENDS Integers, Sequences

CONSTANTS
  StartWaited,          \* kStartWaitedInSession, in parts
  MaxWaited,            \* kMaxWaitedInSession, in parts
  MaxSessions,          \* kMaxSessionsCount
  RetrySuccesses,       \* kRetryAddSessionSuccesses
  MaxTrackedRemoves,    \* kMaxTrackedSessionRemoves
  RemoveAfterTimeouts   \* kRemoveSessionAfterTimeouts

ASSUME BalanceAssumption ==
  /\ StartWaited \in Nat \ {0}
  /\ MaxWaited \in Nat /\ StartWaited <= MaxWaited
  /\ MaxSessions \in Nat \ {0}
  /\ RetrySuccesses \in Nat \ {0}
  /\ MaxTrackedRemoves \in Nat \ {0}
  /\ RemoveAfterTimeouts \in Nat \ {0}

StartSessions == 1   \* kStartSessionsCount

MaxTrackedSuccesses == RetrySuccesses * MaxTrackedRemoves

(* Added to a session that is removed, so that nothing is sent to it. *)
Closed == MaxWaited * MaxSessions

Smaller(a, b) == IF a < b THEN a ELSE b

NewSession == [requested |-> 0, successes |-> 0, maxWaited |-> StartWaited]

NewBalance ==
  [sessions |-> <<NewSession>>, total |-> 0, timeouts |-> 0,
   removeIndex |-> 0, removeTimes |-> 0, removed |-> FALSE]

-----------------------------------------------------------------------------
(* The first of the sessions with the least value of a measure. *)
IsLeast(i, measure) ==
  \A j \in DOMAIN measure :
    measure[i] < measure[j] \/ (measure[i] = measure[j] /\ i <= j)

FirstLeast(measure) == CHOOSE i \in DOMAIN measure : IsLeast(i, measure)

Requested(b) == [i \in DOMAIN b.sessions |-> b.sessions[i].requested]

(* The session trySendNextPart sends the next part to, 0 if all are full. *)
bestIndex(b) ==
  LET proj == [i \in DOMAIN b.sessions |->
                 IF b.sessions[i].requested < b.sessions[i].maxWaited
                   THEN b.sessions[i].requested
                   ELSE MaxWaited]
      i == FirstLeast(proj)
  IN  IF b.sessions[i].requested + 1 <= b.sessions[i].maxWaited THEN i ELSE 0

chooseSessionIndex(b) == FirstLeast(Requested(b))

(* changeRequestedAmount, the part of it that counts. *)
addRequested(b, i, delta) ==
  [b EXCEPT !.sessions[i].requested = @ + delta, !.total = @ + delta]

NothingRequested(b) == \A i \in DOMAIN b.sessions : b.sessions[i].requested <= 0

-----------------------------------------------------------------------------
overloaded(b, i, amount, old) == old \/ amount > b.sessions[i].maxWaited

resetSuccesses(b) ==
  [b EXCEPT !.sessions =
     [i \in DOMAIN b.sessions |-> [b.sessions[i] EXCEPT !.successes = 0]]]

growWaited(b, i, amount) ==
  IF amount = b.sessions[i].maxWaited
    THEN [b EXCEPT !.sessions[i].maxWaited = Smaller(@ + 1, MaxWaited)]
    ELSE b

countSuccess(b, i) ==
  [b EXCEPT !.sessions[i].successes = Smaller(@ + 1, MaxTrackedSuccesses)]

notEnough(b) ==
  \E i \in DOMAIN b.sessions :
    b.sessions[i].successes < (b.removeTimes + 1) * RetrySuccesses

(* early: the delay after the last removal has not passed yet. *)
mayAddSession(b, early) ==
  Len(b.sessions) # MaxSessions /\ ~(b.removed /\ early)

(* requestSucceeded for a request that was neither overloaded nor slow. *)
requestSucceeded(b, i, amount, early) ==
  LET c == countSuccess(growWaited(b, i, amount), i)
      e == resetSuccesses(c)
  IN  CASE notEnough(c) -> c
        [] ~notEnough(c) /\ e.timeouts > 0 -> [e EXCEPT !.timeouts = @ - 1]
        [] ~notEnough(c) /\ e.timeouts = 0 /\ mayAddSession(e, early) ->
             [e EXCEPT !.sessions = Append(@, NewSession)]
        [] OTHER -> e

-----------------------------------------------------------------------------
(* sessionTimedOut: whether the last session has to be removed, and the    *)
(* balance otherwise.                                                      *)
removesSession(b) ==
  Len(b.sessions) # StartSessions /\ b.timeouts + 1 >= RemoveAfterTimeouts

countTimeout(b) ==
  LET c == resetSuccesses(b)
  IN  IF Len(b.sessions) = StartSessions THEN c
        ELSE [c EXCEPT !.timeouts = @ + 1]

(* removeSession before the requests are moved to the other sessions ... *)
closeSession(b) ==
  LET n == Len(b.sessions)
      c == [resetSuccesses(b) EXCEPT !.timeouts = 0,
                                     !.sessions[n].requested = @ + Closed]
  IN  IF b.removeIndex = n
        THEN [c EXCEPT !.removeTimes = Smaller(@ + 1, MaxTrackedRemoves)]
        ELSE [c EXCEPT !.removeIndex = n, !.removeTimes = 1]

(* ... and after it. *)
popSession(b) ==
  [b EXCEPT !.sessions = SubSeq(@, 1, Len(b.sessions) - 1), !.removed = TRUE]

(* killSessions(dcId) *)
stopSessions(b) ==
  [NewBalance EXCEPT !.sessions = [i \in DOMAIN b.sessions |-> NewSession]]

-----------------------------------------------------------------------------
killSessionsSchedule(k, d) == [when |-> k.when \cup {d}, timer |-> TRUE]

(* Mutant of killSessionsCancel: stops the timer for every data center. *)
killSessionsCancelAll(k, d) == [when |-> k.when \ {d}, timer |-> FALSE]

killSessionsCancel(k, d) ==
  [when |-> k.when \ {d}, timer |-> k.timer /\ k.when \ {d} # {}]
=============================================================================
