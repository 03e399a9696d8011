------------------------------ MODULE Download ------------------------------
(***************************************************************************)
(* DownloadManagerMtproto and its tasks (DownloadMtprotoTask): the loaders *)
(* of files (mtpFileLoader) and of streamed media (LoaderMtproto).         *)
(*                                                                         *)
(* A task keeps one request in flight for a part and accounts for it in a  *)
(* session of its data center.  The server may redirect a file to a CDN;   *)
(* then all the requests are sent again, the parts come without a proof of *)
(* what they hold, and a part whose hash is not known is put aside until a *)
(* request for hashes is answered.  A session that times out is removed    *)
(* and its requests move to the others.                                    *)
(*                                                                         *)
(* A request in flight is [offset, kind, session, amount, old]; _sent-     *)
(* Requests is ordered by request id, so it is the sequence in which they  *)
(* were sent.  kind "part" is getFile or getWebFile, "cdn" getCdnFile,     *)
(* "hash" getCdnFileHashes (the one _cdnHashesRequestId names), "reupload" *)
(* reuploadCdnFile, "refresh" a request that failed for its file           *)
(* reference and waits for a new one, and "dead" (for hashes "deadHash")   *)
(* one that failed and stays until its loader is stopped.  Offsets are     *)
(* counted in parts.                                                       *)
(*                                                                         *)
(* The loops of checkSendNext and removeSession are run to their end, one  *)
(* part or one request at a time, before anything else happens: pc.        *)
(*                                                                         *)
(* history:  fed, how often a part of a file was given to feedPart; done,  *)
(*           the file was completed and not cancelled.                     *)
(***************************************************************************)
EXTENDS DownloadBalance, FiniteSets, SequencesExt

CONSTANTS
  DcIds,        \* data centers
  Tasks,        \* the download tasks
  Together,     \* the sets of tasks that may be there at the same time
  DcOf,         \* _dcId of a task
  MaxParts,     \* bound: parts of a file
  Parts,        \* parts of the file of a task
  Streams,      \* the tasks that are a LoaderMtproto
  UnknownSize,  \* the files with _fullSize = 0
  Web,          \* the files at a WebFileLocation
  OnCdn,        \* the files the server redirects to a CDN
  TokenErrors,  \* those for which it may answer FILE_TOKEN_INVALID
  MaxEvents     \* bound: redirects, reuploads, refreshes, timeouts, restarts

ASSUME DownloadAssumption ==
  /\ DcOf \in [Tasks -> DcIds]
  /\ Together \subseteq SUBSET Tasks
  /\ MaxParts \in Nat /\ Parts \in [Tasks -> 1 .. MaxParts]
  /\ Streams \subseteq Tasks /\ UnknownSize \subseteq Tasks \ Streams
  /\ Web \subseteq Tasks \ Streams /\ OnCdn \subseteq Tasks \ Web
  /\ TokenErrors \subseteq OnCdn
  /\ MaxEvents \in Nat

VARIABLES
  mgr,      \* _balanceData, _killSessionsWhen and its timer
  queues,   \* _queues: the tasks with their priorities
  resets,   \* _resetGenerationTimer is active
  task,     \* the tasks
  pc,       \* the loop that is being run, and its data center
  posted,   \* calls of sessionTimedOut posted to the event loop
  events    \* how many of MaxEvents are left

downloadVars == <<mgr, queues, resets, task, pc, posted, events>>

(* The part after the last one is asked for when the size is not known. *)
Offsets == 1 .. MaxParts + 1

NewTask(t, alive) ==
  [alive |-> alive, finished |-> ~alive, done |-> FALSE, failed |-> FALSE,
   known |-> t \notin UnknownSize, next |-> 1, last |-> FALSE,
   wanted |-> {}, priority |-> 0, sent |-> <<>>, cdn |-> FALSE,
   hashes |-> {}, unchecked |-> {}, hashPosted |-> FALSE, orphans |-> 0,
   fed |-> [o \in Offsets |-> 0]]

Idle == [at |-> "idle", dc |-> CHOOSE d \in DcIds : TRUE]
Sending(d) == [at |-> "send", dc |-> d]
Removing(d) == [at |-> "remove", dc |-> d]

DownloadInit ==
  /\ mgr = [balance |-> [d \in DcIds |-> NewBalance],
            kill |-> [when |-> {}, timer |-> FALSE]]
  /\ queues = [d \in DcIds |-> <<>>]
  /\ resets = FALSE
  /\ \E there \in Together : task = [t \in Tasks |-> NewTask(t, t \in there)]
  /\ pc = Idle
  /\ posted = <<>>
  /\ events = MaxEvents

-----------------------------------------------------------------------------
(* Queue *)

(* Queue::remove erases every entry of a task, of which enqueue, the only *)
(* one to add any, leaves one.                                            *)
RemoveTask(q, t) ==
  LET at == {i \in DOMAIN q : q[i].task = t}
  IN  IF at = {} THEN q ELSE RemoveAt(q, CHOOSE i \in at : TRUE)

(* Before the tasks of the same priority: they are of older generations. *)
Enqueue(q, t, priority) ==
  LET rest == RemoveTask(q, t)
      before == Cardinality({i \in DOMAIN rest : rest[i].priority > priority})
  IN  InsertAt(rest, before + 1, [task |-> t, priority |-> priority])

resetGeneration(q) ==
  [i \in DOMAIN q |-> IF q[i].priority = 0 THEN [q[i] EXCEPT !.priority = -1]
                        ELSE q[i]]

haveSentRequests(x) == x.sent # <<>> \/ x.unchecked # {}

haveSentRequestForOffset(x, o) ==
  \/ \E i \in DOMAIN x.sent : x.sent[i].offset = o
  \/ \E u \in x.unchecked : u.offset = o

readyToRequest(t) ==
  LET x == task[t]
  IN  IF t \in Streams
        THEN x.wanted # {}
        ELSE /\ ~x.finished /\ ~x.last
             /\ x.known \/ ~haveSentRequests(x)
             /\ x.known => x.next <= Parts[t]

(* The places in the queue nextTask may choose from. *)
Candidates(d) ==
  {i \in DOMAIN queues[d] :
     /\ readyToRequest(queues[d][i].task)
     /\ (mgr.balance[d].total > 0 /\ queues[d][1].priority > 0)
          => queues[d][i].priority = queues[d][1].priority}

-----------------------------------------------------------------------------
(* The requests of a task.  A context c has the manager, the task and its  *)
(* data center; the operators give the context after the call.             *)
Context(t) == [mgr |-> mgr, x |-> task[t], d |-> DcOf[t]]

changeRequestedAmount(c, session, delta) ==
  LET b == addRequested(c.mgr.balance[c.d], session, delta)
      k == IF delta > 0 THEN killSessionsCancel(c.mgr.kill, c.d)
           ELSE IF NothingRequested(b)
             THEN killSessionsSchedule(c.mgr.kill, c.d)
             ELSE c.mgr.kill
  IN  [c EXCEPT !.mgr = [balance |-> [c.mgr.balance EXCEPT ![c.d] = b],
                         kill |-> k]]

placeSentRequest(c, o, session, kind) ==
  LET e == changeRequestedAmount(c, session, 1)
      r == [offset |-> o, kind |-> kind, session |-> session, old |-> FALSE,
            amount |-> e.mgr.balance[c.d].sessions[session].requested]
  IN  [e EXCEPT !.x.sent = Append(@, r)]

makeRequest(c, o, session) ==
  placeSentRequest(c, o, session, IF c.x.cdn THEN "cdn" ELSE "part")

(* Mutant of finishSentRequest: the amount is not given back. *)
finishWithoutAmount(c, i) == [c EXCEPT !.x.sent = RemoveAt(@, i)]

finishSentRequest(c, i) ==
  [changeRequestedAmount(c, c.x.sent[i].session, -1)
     EXCEPT !.x.sent = RemoveAt(@, i)]

FirstUnchecked(x) ==
  CHOOSE u \in x.unchecked : \A v \in x.unchecked : u.offset <= v.offset

isHashes(r) == r.kind \in {"hash", "deadHash"}

hashesRequested(x) == \E i \in DOMAIN x.sent : isHashes(x.sent[i])

(* Mutant of requestMoreCdnFileHashes: does not look for one in flight. *)
requestHashesAgain(c) ==
  IF c.x.unchecked = {} THEN c
    ELSE placeSentRequest(c, FirstUnchecked(c.x).offset,
                          FirstUnchecked(c.x).session, "hash")

requestMoreCdnFileHashes(c) ==
  IF hashesRequested(c.x) \/ c.x.unchecked = {} THEN c
    ELSE placeSentRequest(c, FirstUnchecked(c.x).offset,
                          FirstUnchecked(c.x).session, "hash")

(* Mutant of cancelRequest: the hashes are never asked for again. *)
cancelAndForget(c, i) == finishSentRequest(c, i)

cancelRequest(c, i) ==
  LET e == finishSentRequest(c, i)
  IN  [e EXCEPT
         !.x.hashPosted = @ \/ (isHashes(c.x.sent[i]) /\ c.x.unchecked # {}),
         !.x.orphans = IF c.x.sent[i].kind = "refresh" THEN @ + 1 ELSE @]

SentIn(x, session) == {i \in DOMAIN x.sent : x.sent[i].session = session}

refreshing(x) == {i \in DOMAIN x.sent : x.sent[i].kind = "refresh"}

cancelAllRequests(c) ==
  IF c.x.sent = <<>> THEN [c EXCEPT !.x.unchecked = {}]
    ELSE
  LET b == c.mgr.balance[c.d]
      e == [b EXCEPT
              !.total = @ - Len(c.x.sent),
              !.sessions = [i \in DOMAIN b.sessions |->
                 [b.sessions[i] EXCEPT
                    !.requested = @ - Cardinality(SentIn(c.x, i))]]]
      k == IF NothingRequested(e) THEN killSessionsSchedule(c.mgr.kill, c.d)
             ELSE c.mgr.kill
  IN  [c EXCEPT
         !.mgr = [balance |-> [c.mgr.balance EXCEPT ![c.d] = e], kill |-> k],
         !.x = [c.x EXCEPT
                  !.sent = <<>>, !.unchecked = {},
                  !.orphans = @ + Cardinality(refreshing(c.x)),
                  !.hashPosted = @ \/ (hashesRequested(c.x)
                                         /\ c.x.unchecked # {})]]

(* FileLoader::cancel with cancelHook, or the failure a stream reports. *)
cancelOnFail(t, c) ==
  IF t \in Streams THEN [c EXCEPT !.x.failed = TRUE]
    ELSE LET e == cancelAllRequests(c)
         IN  [e EXCEPT !.x.finished = TRUE, !.x.done = FALSE]

-----------------------------------------------------------------------------
(* What a part does to its task.  A file has all its parts when nothing is *)
(* asked for, nothing is put aside and no part is left to ask for.         *)
Finishes(t, x) ==
  /\ ~haveSentRequests(x)
  /\ x.last \/ (x.known /\ x.next > Parts[t])

(* Mutant of feedPart: the parts put aside are forgotten. *)
feedPartUnlessSent(t, c, o, short) ==
  LET x == [c.x EXCEPT !.fed[o] = @ + 1, !.last = @ \/ short]
      all == x.sent = <<>> /\ (x.last \/ (x.known /\ x.next > Parts[t]))
  IN  IF t \in Streams THEN c
        ELSE [c EXCEPT !.x = [x EXCEPT !.finished = all, !.done = all]]

feedPart(t, c, o, short) ==
  IF t \in Streams THEN c
    ELSE LET x == [c.x EXCEPT !.fed[o] = @ + 1, !.last = @ \/ short]
         IN  [c EXCEPT !.x = [x EXCEPT !.finished = Finishes(t, x),
                                       !.done = Finishes(t, x)]]

(* The sizes a part may have: the last one need not end a kilobyte, and    *)
(* past the last one there is nothing.                                     *)
MayBeShort(t, o) ==
  CASE o < Parts[t] -> {FALSE} [] o = Parts[t] -> BOOLEAN [] OTHER -> {TRUE}

(* changeCDNParams: the requests in flight are sent again, in their order, *)
(* and then the one whose answer brought the parameters.                   *)
resendAll(c) ==
  LET s == c.x.sent
      before(i) == {j \in DOMAIN s : j >= i /\ s[j].session = s[i].session}
      again(i) ==
        [s[i] EXCEPT
           !.kind = IF c.x.cdn THEN "cdn" ELSE "part", !.old = FALSE,
           !.amount = c.mgr.balance[c.d].sessions[s[i].session].requested
                        - Cardinality(before(i)) + 1]
  IN  [c EXCEPT !.x.sent = [i \in DOMAIN s |-> again(i)],
                !.x.orphans = @ + Cardinality(refreshing(c.x))]

changeCDNParams(c, r, cdn, hashes) ==
  LET e == [c EXCEPT !.x.cdn = cdn, !.x.hashes = @ \cup hashes]
  IN  makeRequest(IF cdn # c.x.cdn THEN resendAll(e) ELSE e,
                  r.offset, r.session)

(* What the server may tell of the hashes. *)
SomeHashes(o) == {{}, {o}, Offsets}

-----------------------------------------------------------------------------
(* Answers.  They are handled one at a time, between the loops. *)
Apply(t, c) == mgr' = c.mgr /\ task' = [task EXCEPT ![t] = c.x]

Surprise == events > 0 /\ events' = events - 1

(* Mutant of AfterAnswer: no next part is sent. *)
AfterAnswerIdle(d) == Idle

(* checkSendNextAfterSuccess *)
AfterAnswer(d) == Sending(d)

(* A task that has its file leaves the queue, and the next parts are sent. *)
LeaveIfDone(t, c) ==
  queues' = IF c.x.done THEN [queues EXCEPT ![c.d] = RemoveTask(@, t)]
              ELSE queues

(* The file could be completed, but not written to its place. *)
MayFailToFinalize(t, c) ==
  {c} \cup (IF c.x.done THEN {[c EXCEPT !.x.done = FALSE]} ELSE {})

(* finishSentRequest with Success; slow: above kBadRequestDurationThreshold *)
Success(t, i, slow, early) ==
  LET r == task[t].sent[i]
      c == finishSentRequest(Context(t), i)
      b == c.mgr.balance[c.d]
  IN  IF slow \/ overloaded(b, r.session, r.amount, r.old) THEN c
        ELSE [c EXCEPT !.mgr.balance[c.d] =
                requestSucceeded(b, r.session, r.amount, early)]

PostTimeout(t, i, slow) ==
  LET r == task[t].sent[i]
      d == DcOf[t]
  IN  IF slow
        THEN /\ ~overloaded(mgr.balance[d], r.session, r.amount, r.old)
             /\ posted' = Append(posted, [dc |-> d, index |-> r.session])
             /\ Surprise
        ELSE UNCHANGED <<posted, events>>

InFlight(t, i, kind) ==
  pc = Idle /\ i \in DOMAIN task[t].sent /\ task[t].sent[i].kind = kind

(* normalPartLoaded and webPartLoaded with a part.  A web file learns its  *)
(* size from it.                                                           *)
NormalPartLoaded(t, i, slow, early) ==
  /\ InFlight(t, i, "part")
  /\ LET o == task[t].sent[i].offset
         c == [Success(t, i, slow, early) EXCEPT !.x.known = @ \/ t \in Web]
     IN  /\ \/ \E short \in MayBeShort(t, o) :
                 LET f == feedPart(t, c, o, short)
                 IN  /\ \E e \in MayFailToFinalize(t, f) : Apply(t, e)
                     /\ LeaveIfDone(t, f)
            \/ /\ t \notin Streams   \* not written, or the size is wrong
               /\ Apply(t, cancelOnFail(t, c))
               /\ UNCHANGED queues
         /\ pc' = AfterAnswer(DcOf[t])
         /\ PostTimeout(t, i, slow)
  /\ UNCHANGED resets

(* normalPartLoaded with upload.fileCdnRedirect; bad: the key or the       *)
(* vector that come with it have a wrong size.                             *)
CdnRedirect(t, i, early, bad) ==
  /\ InFlight(t, i, "part") /\ t \in OnCdn
  /\ \E hashes \in SomeHashes(task[t].sent[i].offset) :
       LET c == Success(t, i, FALSE, early)
       IN  IF bad
             THEN hashes = {} /\ Apply(t, cancelOnFail(t, c))
             ELSE Apply(t, changeCDNParams(c, task[t].sent[i], TRUE, hashes))
  /\ pc' = AfterAnswer(DcOf[t])
  /\ Surprise
  /\ UNCHANGED <<queues, resets, posted>>

putAside(c, r) ==
  requestMoreCdnFileHashes(
    [c EXCEPT !.x.unchecked =
       IF \E u \in @ : u.offset = r.offset THEN @
         ELSE @ \cup {[offset |-> r.offset, session |-> r.session]}])

(* cdnPartLoaded with a part whose hash is not known, right, or wrong. *)
CdnPartLoaded(t, i, slow, early) ==
  /\ InFlight(t, i, "cdn")
  /\ LET r == task[t].sent[i]
         c == Success(t, i, slow, early)
     IN  IF r.offset \notin c.x.hashes
           THEN Apply(t, putAside(c, r)) /\ UNCHANGED queues
           ELSE \/ \E short \in MayBeShort(t, r.offset) :
                     LET f == feedPart(t, c, r.offset, short)
                     IN  /\ \E e \in MayFailToFinalize(t, f) : Apply(t, e)
                         /\ LeaveIfDone(t, f)
                \/ Apply(t, cancelOnFail(t, c)) /\ UNCHANGED queues
  /\ pc' = AfterAnswer(DcOf[t])
  /\ PostTimeout(t, i, slow)
  /\ UNCHANGED resets

CdnReuploadNeeded(t, i) ==
  /\ InFlight(t, i, "cdn")
  /\ LET r == task[t].sent[i]
         c == finishSentRequest(Context(t), i)
     IN  Apply(t, placeSentRequest(c, r.offset, r.session, "reupload"))
  /\ Surprise
  /\ UNCHANGED <<queues, resets, pc, posted>>

reuploadDone(t, i) ==
  /\ InFlight(t, i, "reupload")
  /\ \E hashes \in SomeHashes(task[t].sent[i].offset) :
       LET r == task[t].sent[i]
           c == finishSentRequest(Context(t), i)
       IN  Apply(t, makeRequest([c EXCEPT !.x.hashes = @ \cup hashes],
                                r.offset, r.session))
  /\ UNCHANGED <<queues, resets, pc, posted, events>>

(* The parts put aside that are before o and have a hash are fed to the    *)
(* task, in their order; only the last of them can complete the file.      *)
feedChecked(t, c, o) ==
  LET good == {u \in c.x.unchecked : u.offset < o /\ u.offset \in c.x.hashes}
      last == \E u \in good : u.offset >= Parts[t]
      x == [c.x EXCEPT
              !.unchecked = @ \ good,
              !.fed = [p \in Offsets |->
                 IF t \notin Streams /\ \E u \in good : u.offset = p
                   THEN c.x.fed[p] + 1 ELSE c.x.fed[p]]]
  IN  {[c EXCEPT !.x =
          IF t \in Streams \/ good = {} THEN x
            ELSE LET y == [x EXCEPT !.last = @ \/ short]
                 IN  [y EXCEPT !.finished = Finishes(t, y),
                              !.done = Finishes(t, y)]] :
         short \in IF ~last THEN {FALSE}
                     ELSE IF \E u \in good : u.offset > Parts[t] THEN {TRUE}
                     ELSE BOOLEAN}

getCdnFileHashesDone(t, i) ==
  /\ InFlight(t, i, "hash")
  /\ \E hashes \in SomeHashes(task[t].sent[i].offset) :
       LET c == [finishSentRequest(Context(t), i) EXCEPT
                   !.x.hashes = @ \cup hashes]
           checked == {u \in c.x.unchecked : u.offset \in c.x.hashes}
       IN  \/ /\ checked = {}
              /\ Apply(t, cancelOnFail(t, c))
              /\ UNCHANGED <<queues, pc>>
           \/ \E u \in checked :   \* wrong, or could not be written
                /\ \E e \in feedChecked(t, c, u.offset) :
                     ~e.x.done /\ Apply(t, cancelOnFail(t, e))
                /\ UNCHANGED <<queues, pc>>
           \/ /\ checked # {}
              /\ \E f \in feedChecked(t, c, Parts[t] + 2) :
                   /\ \E e \in MayFailToFinalize(t, f) :
                        Apply(t, requestMoreCdnFileHashes(e))
                   /\ LeaveIfDone(t, f)
                   /\ pc' = IF f.x.done THEN Sending(DcOf[t]) ELSE pc
  /\ UNCHANGED <<resets, posted, events>>

(* cdnPartFailed with FILE_TOKEN_INVALID or REQUEST_TOKEN_INVALID *)
CdnTokenInvalid(t, i) ==
  /\ t \in TokenErrors
  /\ \E kind \in {"cdn", "hash", "reupload"} : InFlight(t, i, kind)
  /\ LET c == finishSentRequest(Context(t), i)
     IN  Apply(t, changeCDNParams(c, task[t].sent[i], FALSE, {}))
  /\ Surprise
  /\ UNCHANGED <<queues, resets, pc, posted>>

dead(r) == [r EXCEPT !.kind = IF isHashes(r) THEN "deadHash" ELSE "dead"]

(* partFailed.  A stream keeps the request until it is stopped. *)
partFailed(t, c, i) ==
  LET e == cancelOnFail(t, c)
  IN  IF t \in Streams THEN [e EXCEPT !.x.sent[i] = dead(@)] ELSE e

RequestFailed(t, i) ==
  /\ \E kind \in {"part", "cdn", "hash", "reupload"} : InFlight(t, i, kind)
  /\ Apply(t, partFailed(t, Context(t), i))
  /\ UNCHANGED <<queues, resets, pc, posted, events>>

(* normalPartFailed with FILE_REFERENCE_... *)
FileReferenceFailed(t, i) ==
  /\ InFlight(t, i, "part") /\ t \notin Web
  /\ task' = [task EXCEPT ![t].sent[i].kind = "refresh"]
  /\ Surprise
  /\ UNCHANGED <<mgr, queues, resets, pc, posted>>

(* refreshFileReferenceFrom, for a request that still waits for it ... *)
refreshFileReferenceFrom(t, i) ==
  /\ InFlight(t, i, "refresh")
  /\ LET r == task[t].sent[i]
         c == finishSentRequest(Context(t), i)
     IN  \/ Apply(t, makeRequest(c, r.offset, r.session))
         \/ Apply(t, [partFailed(t, Context(t), i) EXCEPT
                        !.x.orphans = IF t \in Streams THEN @ ELSE @ - 1])
  /\ UNCHANGED <<queues, resets, pc, posted, events>>

(* ... and for one that was cancelled or sent again in the meantime. *)
RefreshTooLate(t) ==
  /\ pc = Idle /\ task[t].alive /\ task[t].orphans > 0
  /\ LET c == [Context(t) EXCEPT !.x.orphans = @ - 1]
     IN  Apply(t, c) \/ Apply(t, cancelOnFail(t, c))
  /\ UNCHANGED <<queues, resets, pc, posted, events>>

(* The posted call of requestMoreCdnFileHashes. *)
MoreHashesPosted(t) ==
  /\ pc = Idle /\ task[t].alive /\ task[t].hashPosted
  /\ Apply(t, requestMoreCdnFileHashes(
                [Context(t) EXCEPT !.x.hashPosted = FALSE]))
  /\ UNCHANGED <<queues, resets, pc, posted, events>>

-----------------------------------------------------------------------------
(* checkSendNext: while a session has room and a task has a part to ask    *)
(* for.  trySendNextPart with loadPart and takeNextRequestOffset.          *)
TrySendNextPart(d) ==
  /\ pc = Sending(d)
  /\ LET best == bestIndex(mgr.balance[d])
         may == Candidates(d)
     IN  IF best = 0 \/ may = {}
           THEN pc' = Idle /\ UNCHANGED <<mgr, task>>
           ELSE LET i == CHOOSE i \in may : \A j \in may : i <= j
                    t == queues[d][i].task
                    x == task[t]
                IN  /\ IF t \in Streams
                         THEN \E o \in x.wanted :
                                Apply(t, makeRequest(
                                  [Context(t) EXCEPT !.x.wanted = @ \ {o}],
                                  o, best))
                         ELSE Apply(t, makeRequest(
                                [Context(t) EXCEPT !.x.next = @ + 1],
                                x.next, best))
                    /\ UNCHANGED pc
  /\ UNCHANGED <<queues, resets, posted, events>>

(* sessionTimedOut *)
TimedOut(d, index) ==
  LET b == mgr.balance[d]
      to(e) == mgr' = [mgr EXCEPT !.balance[d] = e]
  IN  CASE index > Len(b.sessions) -> UNCHANGED <<mgr, pc>>
        [] index <= Len(b.sessions) /\ removesSession(b) ->
             to(closeSession(b)) /\ pc' = Removing(d)
        [] OTHER -> to(countTimeout(b)) /\ UNCHANGED pc

(* The session was restarted after a timeout: restartsByTimeout. *)
SessionRestarted(d, index) ==
  /\ pc = Idle /\ index \in DOMAIN mgr.balance[d].sessions
  /\ TimedOut(d, index)
  /\ Surprise
  /\ UNCHANGED <<queues, resets, task, posted>>

TimeoutPosted ==
  /\ pc = Idle /\ posted # <<>>
  /\ TimedOut(Head(posted).dc, Head(posted).index)
  /\ posted' = Tail(posted)
  /\ UNCHANGED <<queues, resets, task, events>>

(* removeSession: the requests of the queued tasks, and the parts they put *)
(* aside, go to the other sessions.                                        *)
Queued(d) == {queues[d][i].task : i \in DOMAIN queues[d]}

InSession(t, n) ==
  \/ SentIn(task[t], n) # {}
  \/ \E u \in task[t].unchecked : u.session = n

(* One of the requests: the unchecked parts of the task come first, and a  *)
(* request for hashes is not repeated here but posted by cancelRequest.    *)
MoveRequest(t) ==
  LET d == DcOf[t]
      n == Len(mgr.balance[d].sessions)
      x == task[t]
      aside == {u \in x.unchecked : u.session = n}
      i == CHOOSE i \in SentIn(x, n) : \A j \in SentIn(x, n) : i <= j
      c == cancelRequest(Context(t), i)
  IN  /\ pc = Removing(d) /\ t \in Queued(d)
      /\ IF aside # {}
           THEN /\ task' = [task EXCEPT ![t].unchecked =
                    (@ \ aside) \cup
                      {[u EXCEPT !.session = chooseSessionIndex(mgr.balance[d])]
                         : u \in aside}]
                /\ UNCHANGED mgr
           ELSE /\ SentIn(x, n) # {}
                /\ Apply(t, IF isHashes(x.sent[i]) THEN c
                              ELSE makeRequest(c, x.sent[i].offset,
                                     chooseSessionIndex(c.mgr.balance[d])))
      /\ UNCHANGED <<queues, resets, pc, posted, events>>

(* ... and then the session is gone, and what was sent till now is old. *)
SessionRemoved(d) ==
  /\ pc = Removing(d)
  /\ \A t \in Queued(d) : ~InSession(t, Len(mgr.balance[d].sessions))
  /\ mgr' = [mgr EXCEPT !.balance[d] = popSession(@)]
  /\ task' = [t \in Tasks |->
       IF DcOf[t] = d
         THEN [task[t] EXCEPT !.sent =
                [i \in DOMAIN @ |-> [@[i] EXCEPT !.old = TRUE]]]
         ELSE task[t]]
  /\ pc' = Idle
  /\ UNCHANGED <<queues, resets, posted, events>>

(* killSessions: the data centers in due have reached their time. *)
KillSessions(due) ==
  /\ pc = Idle /\ mgr.kill.timer /\ due \subseteq mgr.kill.when
  /\ mgr' = [balance |-> [d \in DcIds |->
               IF d \in due THEN stopSessions(mgr.balance[d])
                 ELSE mgr.balance[d]],
             kill |-> [when |-> mgr.kill.when \ due,
                       timer |-> mgr.kill.when \ due # {}]]
  /\ UNCHANGED <<queues, resets, task, pc, posted, events>>

ResetGeneration ==
  /\ pc = Idle /\ resets
  /\ resets' = FALSE
  /\ queues' = [d \in DcIds |-> resetGeneration(queues[d])]
  /\ UNCHANGED <<mgr, task, pc, posted, events>>

-----------------------------------------------------------------------------
(* What the owners of the tasks do.  addToQueue ends with checkSendNext. *)
AddToQueue(t, priority) ==
  /\ queues' = [queues EXCEPT ![DcOf[t]] = Enqueue(@, t, priority)]
  /\ resets' = TRUE
  /\ pc' = Sending(DcOf[t])

(* mtpFileLoader::startLoading; the owner may start a loader again. *)
StartLoading(t) ==
  /\ pc = Idle /\ t \notin Streams /\ task[t].alive /\ ~task[t].finished
  /\ IF t \in Queued(DcOf[t]) THEN Surprise ELSE UNCHANGED events
  /\ AddToQueue(t, 0)
  /\ UNCHANGED <<mgr, task, posted>>

(* startLoadingWithPartial: the first parts were found in the cache. *)
StartLoadingWithPartial(t, partial) ==
  /\ pc = Idle /\ t \notin Streams \cup UnknownSize
  /\ task[t].alive /\ ~task[t].finished /\ task[t].next = 1
  /\ task' = [task EXCEPT
       ![t].next = partial + 1,
       ![t].fed = [o \in Offsets |-> IF o <= partial THEN 1 ELSE 0]]
  /\ AddToQueue(t, 0)
  /\ UNCHANGED <<mgr, posted, events>>

(* cancel of a file that is being loaded *)
CancelLoading(t) ==
  /\ pc = Idle /\ t \notin Streams /\ task[t].alive /\ ~task[t].finished
  /\ Apply(t, cancelOnFail(t, Context(t)))
  /\ UNCHANGED <<queues, resets, pc, posted, events>>

(* LoaderMtproto::load *)
Load(t, o) ==
  /\ pc = Idle /\ t \in Streams /\ task[t].alive
  /\ ~haveSentRequestForOffset(task[t], o)
  /\ task' = [task EXCEPT ![t].wanted = @ \cup {o}]
  /\ AddToQueue(t, task[t].priority)
  /\ UNCHANGED <<mgr, posted, events>>

(* cancelRequestForOffset *)
CancelOffset(c, o) ==
  LET i == CHOOSE i \in DOMAIN c.x.sent : c.x.sent[i].offset = o
      e == IF \E j \in DOMAIN c.x.sent : c.x.sent[j].offset = o
             THEN cancelRequest(c, i) ELSE c
  IN  [e EXCEPT !.x.unchecked = {u \in @ : u.offset # o}]

(* cancelForOffset, called by cancel and by load for a part it has. *)
CancelForOffset(t, o) ==
  /\ pc = Idle /\ t \in Streams /\ task[t].alive
  /\ IF haveSentRequestForOffset(task[t], o)
       THEN /\ Apply(t, CancelOffset(Context(t), o))
            /\ IF task[t].wanted # {} THEN AddToQueue(t, task[t].priority)
                 ELSE UNCHANGED <<queues, resets, pc>>
       ELSE /\ o \in task[t].wanted
            /\ task' = [task EXCEPT ![t].wanted = @ \ {o}]
            /\ UNCHANGED <<mgr, queues, resets, pc>>
  /\ UNCHANGED <<posted, events>>

removeFromQueue(t) ==
  /\ queues' = [queues EXCEPT ![DcOf[t]] = RemoveTask(@, t)]
  /\ pc' = Sending(DcOf[t])

Stop(t) ==
  /\ pc = Idle /\ t \in Streams /\ task[t].alive
  /\ Apply(t, [cancelAllRequests(Context(t)) EXCEPT !.x.wanted = {}])
  /\ removeFromQueue(t)
  /\ UNCHANGED <<resets, posted, events>>

TryRemoveFromQueue(t) ==
  /\ pc = Idle /\ t \in Streams /\ task[t].alive
  /\ task[t].wanted = {} /\ ~haveSentRequests(task[t])
  /\ t \in Queued(DcOf[t])
  /\ removeFromQueue(t)
  /\ UNCHANGED <<mgr, resets, task, posted, events>>

setPriority(t, priority) ==
  /\ pc = Idle /\ t \in Streams /\ task[t].alive
  /\ task[t].priority # priority
  /\ task' = [task EXCEPT ![t].priority = priority]
  /\ IF haveSentRequests(task[t]) THEN AddToQueue(t, priority)
       ELSE UNCHANGED <<queues, resets, pc>>
  /\ UNCHANGED <<mgr, posted, events>>

(* ~DownloadMtprotoTask, after ~mtpFileLoader has cancelled the loading. *)
Destroy(t) ==
  /\ pc = Idle /\ task[t].alive
  /\ LET c == cancelAllRequests(Context(t))
     IN  Apply(t, [c EXCEPT !.x.alive = FALSE, !.x.finished = TRUE,
                            !.x.wanted = {}])
  /\ removeFromQueue(t)
  /\ UNCHANGED <<resets, posted, events>>

-----------------------------------------------------------------------------
Answered(t, i) ==
  \/ \E slow, early \in BOOLEAN :
       NormalPartLoaded(t, i, slow, early) \/ CdnPartLoaded(t, i, slow, early)
  \/ \E early, bad \in BOOLEAN : CdnRedirect(t, i, early, bad)
  \/ CdnReuploadNeeded(t, i)
  \/ reuploadDone(t, i)
  \/ getCdnFileHashesDone(t, i)
  \/ CdnTokenInvalid(t, i)
  \/ RequestFailed(t, i)
  \/ FileReferenceFailed(t, i)
  \/ refreshFileReferenceFrom(t, i)

Loops ==
  \/ \E d \in DcIds : TrySendNextPart(d) \/ SessionRemoved(d)
  \/ \E t \in Tasks : MoveRequest(t)

Posted ==
  \/ TimeoutPosted
  \/ \E t \in Tasks : MoreHashesPosted(t) \/ RefreshTooLate(t)

Owner(t) ==
  \/ StartLoading(t)
  \/ \E partial \in 1 .. Parts[t] - 1 : StartLoadingWithPartial(t, partial)
  \/ CancelLoading(t)
  \/ \E o \in 1 .. Parts[t] : Load(t, o) \/ CancelForOffset(t, o)
  \/ Stop(t)
  \/ TryRemoveFromQueue(t)
  \/ \E priority \in {0, 1} : setPriority(t, priority)
  \/ Destroy(t)

DownloadNext ==
  \/ \E t \in Tasks : \E i \in DOMAIN task[t].sent : Answered(t, i)
  \/ Loops
  \/ Posted
  \/ \E d \in DcIds :
       \E i \in DOMAIN mgr.balance[d].sessions : SessionRestarted(d, i)
  \/ \E due \in SUBSET DcIds : KillSessions(due)
  \/ ResetGeneration
  \/ \E t \in Tasks : Owner(t)

DownloadSpec == DownloadInit /\ [][DownloadNext]_downloadVars

-----------------------------------------------------------------------------
AllIn(d, session) ==
  UNION {{<<t, i>> : i \in SentIn(task[t], session)} :
           t \in {u \in Tasks : DcOf[u] = d}}

(* What the balance says of a session is what the tasks have in flight in  *)
(* it, whatever was redirected, moved, cancelled or removed: the amount a  *)
(* session waits for cannot drift, which would slow the data center down   *)
(* or flood it.  No request and no part put aside names a session that was *)
(* removed, since its index is used again.                                 *)
BalanceIsExact ==
  /\ \A t \in Tasks : \A r \in Range(task[t].sent) \cup task[t].unchecked :
       r.session \in DOMAIN mgr.balance[DcOf[t]].sessions
  /\ \A d \in DcIds :
       LET b == mgr.balance[d]
           n == Len(b.sessions)
           extra(i) == IF pc = Removing(d) /\ i = n THEN Closed ELSE 0
           count(i) == Cardinality(AllIn(d, i))
       IN  /\ \A i \in 1 .. n : b.sessions[i].requested = count(i) + extra(i)
           /\ b.total = Cardinality(UNION {AllIn(d, i) : i \in 1 .. n})

(* The sessions of a data center are stopped only when it has nothing in   *)
(* flight, and what is to be stopped has a timer that runs.                *)
StopsOnlyIdle ==
  /\ \A d \in mgr.kill.when : mgr.balance[d].total = 0
  /\ mgr.kill.when # {} => mgr.kill.timer

(* A part is asked for by one request at a time, in spite of redirects,    *)
(* hashes and sessions that are removed: what placeSentRequest ensures for *)
(* _requestByOffset.  Only while the token of the CDN stays valid: after   *)
(* FILE_TOKEN_INVALID the parts put aside are kept and asked for again.    *)
OneRequestPerOffset ==
  \A t \in Tasks \ TokenErrors : \A i, j \in DOMAIN task[t].sent :
    task[t].sent[i].offset = task[t].sent[j].offset => i = j

(* A file is finished only when each part of it was loaded and checked,    *)
(* and a part is written to it once: it is not asked for again after it    *)
(* was loaded, in spite of redirects, moves and hashes that come late, as  *)
(* long as the token of the CDN stays valid.                               *)
FinishedIsWhole ==
  \A t \in Tasks :
    /\ task[t].done => \A o \in 1 .. Parts[t] : task[t].fed[o] >= 1
    /\ t \notin Streams \cup TokenErrors =>
         \A o \in Offsets : task[t].fed[o] <= 1

(* A loader that was cancelled and not dropped yet, or a stream that has   *)
(* nothing to ask for, may linger in the queue; what its owner does next   *)
(* (drop it, load, stop or tryRemoveFromQueue) runs the loop.              *)
Lingering(d) ==
  {t \in Queued(d) : IF t \in Streams
                       THEN task[t].wanted = {} /\ ~haveSentRequests(task[t])
                       ELSE task[t].finished}

(* When nothing is in flight in a data center and no loop is run, no       *)
(* queued task has a part to ask for: nobody would ever send it.  Not with *)
(* files on a CDN: getCdnFileHashesDone frees room without a loop.         *)
IdleQueueIsServed ==
  \A d \in DcIds :
    /\ pc = Idle /\ mgr.balance[d].total = 0
    /\ Lingering(d) = {} /\ Queued(d) \cap OnCdn = {}
    => Candidates(d) = {}

(* A part that waits for its hash has a request for hashes in flight or a  *)
(* posted call that makes one, until the task fails; also only while the   *)
(* token of the CDN stays valid.                                           *)
UncheckedIsAwaited ==
  \A t \in Tasks \ TokenErrors :
    task[t].unchecked # {} /\ ~task[t].failed
      => hashesRequested(task[t]) \/ task[t].hashPosted
=============================================================================
