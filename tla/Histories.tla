------------------------------ MODULE Histories ------------------------------
(***************************************************************************)
(* Data::Histories: the requests the client has in flight for each         *)
(* history and what they keep waiting.                                     *)
(*                                                                         *)
(*  - While messages are deleted no page of the history is loaded:         *)
(*    History requests are put off and sent again after the last Delete.   *)
(*  - Reading is sent to the server at once or three seconds later, always *)
(*    up to a message past the one sent before.                            *)
(*  - The chat list entry of a history is asked for in batches, and while  *)
(*    a Delete, Send or ReadInbox request is in flight, which would make   *)
(*    the answer stale, it is put off.                                     *)
(*                                                                         *)
(* The State of a history and its places in _dialogRequestsPending and     *)
(* _dialogRequests are one record here.  A history has a State in _states  *)
(* when a field of it is not empty, so an absent State and an empty one    *)
(* are the same.  Requests of one type are told apart only where the code  *)
(* does it: reading by its message, the others not.  Unread counts appear  *)
(* as the choices that depend on them.                                     *)
(*                                                                         *)
(* history:  wanted, the newest message a call of readInboxTill had to     *)
(*           mark as read on the server; asked, the newest one a read      *)
(*           request was sent for.                                         *)
(***************************************************************************)
EXTENDS Integers

CONSTANTS
  History,      \* histories
  Types,        \* the requests of this instance, a part of AllTypes
  BatchIds,     \* bound: requests for dialog entries at the same time
  MaxRequests,  \* bound: requests of one type for a history
  MaxId         \* bound: message ids are 1 .. MaxId

(* "DeleteChannel" is the Delete request of deleteAllMessages that never   *)
(* calls finish.                                                           *)
AllTypes == {"History", "Send", "Delete", "DeleteChannel"}

ASSUME HistoriesAssumption ==
  /\ Types \subseteq AllTypes
  /\ MaxRequests \in Nat
  /\ MaxId \in Nat

VARIABLES
  hist,       \* of each history, see State
  readTimer,  \* _readRequestsTimer is active
  posted,     \* a call of sendDialogRequests is posted to the event loop
  batches,    \* requests for entries in flight; {} is none
  todo        \* entries of the answer that is being processed

vars == <<hist, readTimer, posted, batches, todo>>

State == [
  sent : [AllTypes -> Nat],        \* sent, by type
  reading : SUBSET Nat,            \* sent, the ReadInbox ones by message
  postponed : Nat,                 \* postponed
  willReadTill : Nat,
  sentReadTill : Nat,
  sentReadDone : BOOLEAN,
  postponedRequestEntry : BOOLEAN,
  pending : BOOLEAN,               \* in _dialogRequestsPending
  requested : BOOLEAN,             \* in _dialogRequests
  callback : BOOLEAN,              \* readInbox waits for the entry
  readBefore : Nat,                \* History::_inboxReadBefore, 0 if unset
  wanted : Nat,
  asked : Nat]

NewState == [
  sent |-> [t \in AllTypes |-> 0], reading |-> {}, postponed |-> 0,
  willReadTill |-> 0, sentReadTill |-> 0, sentReadDone |-> FALSE,
  postponedRequestEntry |-> FALSE, pending |-> FALSE, requested |-> FALSE,
  callback |-> FALSE, readBefore |-> 0, wanted |-> 0, asked |-> 0]

Init ==
  /\ hist = [h \in History |-> NewState]
  /\ readTimer = FALSE
  /\ posted = FALSE
  /\ batches = [b \in BatchIds |-> {}]
  /\ todo = {}

Ids == 0 .. MaxId

Larger(m, n) == IF m < n THEN n ELSE m
-----------------------------------------------------------------------------
(* Requests. *)

postponeHistoryRequest(s) ==
  s.sent["Delete"] > 0 \/ s.sent["DeleteChannel"] > 0

postponeEntryRequest(s) ==
  postponeHistoryRequest(s) \/ s.sent["Send"] > 0 \/ s.reading # {}

(* Mutant of sent: the History requests in flight are left alone. *)
sentLeavingHistory(s) ==
  [s EXCEPT !.postponedRequestEntry =
     @ \/ (postponeEntryRequest(s) /\ s.requested)]

(* The end of sendRequest, when the request is already in sent. *)
sent(s) ==
  LET e == [s EXCEPT !.postponedRequestEntry =
              @ \/ (postponeEntryRequest(s) /\ s.requested)]
  IN  IF postponeHistoryRequest(e)
        THEN [e EXCEPT !.postponed = @ + e.sent["History"],
                       !.sent["History"] = 0]
        ELSE e

(* sendRequest, but for ReadInbox. *)
sendRequest(s, type) ==
  IF type = "History" /\ postponeHistoryRequest(s)
    THEN [s EXCEPT !.postponed = @ + 1]
    ELSE sent([s EXCEPT !.sent[type] = @ + 1])

(* Mutant of finishSentRequest: what was put off is forgotten. *)
finishSentRequestOnly(s) == s

(* finishSentRequest, when the request is already out of sent: History     *)
(* requests that were put off are sent, and the entry is asked for again.  *)
finishSentRequest(s) ==
  LET r == IF s.postponed > 0 /\ ~postponeHistoryRequest(s)
             THEN [s EXCEPT !.sent["History"] = @ + s.postponed,
                            !.postponed = 0]
             ELSE s
  IN  IF r.postponedRequestEntry /\ ~postponeEntryRequest(r)
        THEN [r EXCEPT !.pending = TRUE, !.requested = FALSE,
                       !.postponedRequestEntry = FALSE]
        ELSE r

(* The finish callback of a request, through checkPostponed. *)
finish(s, type) == finishSentRequest([s EXCEPT !.sent[type] = @ - 1])

finishRead(s, till) == finishSentRequest([s EXCEPT !.reading = @ \ {till}])

(* cancelRequest of a History request that was put off. *)
cancelPostponed(s) == finishSentRequest([s EXCEPT !.postponed = @ - 1])
-----------------------------------------------------------------------------
(* Dialog entries. *)

(* Mutant of requestDialogEntry: _dialogRequests is not looked at. *)
requestDialogEntryAlways(s, withCallback) ==
  [s EXCEPT !.pending = TRUE, !.callback = @ \/ withCallback]

requestDialogEntry(s, withCallback) ==
  [s EXCEPT !.pending = @ \/ ~s.requested, !.callback = @ \/ withCallback]

Pending(hs) == {h \in History : hs[h].pending}

(* postponeRequestDialogEntries, on the way from hist to hs: a call is     *)
(* posted when the first entry comes to _dialogRequestsPending.            *)
PostedAfter(hs) == posted \/ (Pending(hist) = {} /\ Pending(hs) # {})

setInboxReadTill(s, till) == [s EXCEPT !.readBefore = Larger(@, till + 1)]

(* value_or(1) of _inboxReadBefore. *)
ReadBeforeOr1(s) == Larger(s.readBefore, 1)
-----------------------------------------------------------------------------
(* Reading. *)

sendReadRequest(s) ==
  sent([s EXCEPT !.reading = @ \cup {s.willReadTill},
                 !.sentReadTill = s.willReadTill,
                 !.willReadTill = 0,
                 !.sentReadDone = FALSE,
                 !.asked = Larger(@, s.willReadTill)])

Waiting(hs) == {h \in History : hs[h].willReadTill # 0}

(* sendReadRequests, when the time has come for due. *)
sendReadRequests(hs, due) ==
  [h \in History |->
     IF h \in due \cap Waiting(hs) THEN sendReadRequest(hs[h]) ELSE hs[h]]

(* Mutant of ReadTimerAfter: the timer is not started for the others. *)
ReadTimerAfterNone(hs, due) == FALSE

(* And the timer after it. *)
ReadTimerAfter(hs, due) == Waiting(hs) \ due # {}

readInboxTillNeedsRequest(s, till) == till > 0 /\ ReadBeforeOr1(s) <= till

(* What countStillUnreadLocal says: nothing, as many as before, none, some *)
(* other number.                                                           *)
StillUnread == {"unknown", "same", "zero", "some"}

(* Mutant of ReadsOn: sentReadTill is not looked at. *)
ReadsOnPastSent(s, till, force) ==
  /\ readInboxTillNeedsRequest(s, till) \/ (force /\ s.willReadTill # 0)
  /\ s.willReadTill < till

(* Mutant of ReadsOn: willReadTill is not looked at. *)
ReadsOnPastWaiting(s, till, force) ==
  /\ readInboxTillNeedsRequest(s, till) \/ (force /\ s.willReadTill # 0)
  /\ s.sentReadTill < till

(* readInboxTill goes on past its early returns. *)
ReadsOn(s, till, force) ==
  /\ readInboxTillNeedsRequest(s, till) \/ (force /\ s.willReadTill # 0)
  /\ s.sentReadTill < till
  /\ s.willReadTill < till

(* It only notes locally that till was read. *)
ReadsSilently(s, till, force, still) ==
  ReadsOn(s, till, force) /\ ~force /\ still = "same"

(* It sends what is waiting at once: what it found waiting, or till. *)
ReadsAtOnce(s, till, force, still) ==
  \/ /\ force
     /\ s.sentReadTill < till
     /\ till <= s.willReadTill
  \/ /\ ReadsOn(s, till, force)
     /\ ~ReadsSilently(s, till, force, still)
     /\ force \/ still \in {"unknown", "zero"}

(* The state after readInboxTill but for sendReadRequests. *)
readTill(s, till, force, still) ==
  LET w == IF /\ readInboxTillNeedsRequest(s, till)
              /\ ~ReadsSilently(s, till, force, still)
             THEN [s EXCEPT !.wanted = Larger(@, till)]
             ELSE s
  IN  CASE ~ReadsOn(s, till, force) -> w
        [] ReadsSilently(s, till, force, still) -> setInboxReadTill(w, till)
        [] OTHER ->
             LET r == [w EXCEPT !.willReadTill = till]
             IN  IF still = "unknown" THEN r ELSE setInboxReadTill(r, till)

(* readInboxTill for h in hs; it leaves the histories and the timer so. *)
readInboxTill(hs, h, till, force, still, due) ==
  LET r == [hs EXCEPT ![h] = readTill(@, till, force, still)]
  IN  IF ReadsAtOnce(hs[h], till, force, still)
        THEN sendReadRequests(r, due \cup {h})
        ELSE r

readInboxTillTimer(hs, h, till, force, still, due) ==
  LET r == [hs EXCEPT ![h] = readTill(@, till, force, still)]
  IN  IF ReadsAtOnce(hs[h], till, force, still)
        THEN ReadTimerAfter(r, due \cup {h})
        ELSE readTimer \/ (hs[h].willReadTill = 0 /\ r[h].willReadTill # 0)
-----------------------------------------------------------------------------
(* Actions of the user, the interface and the server's updates. *)

CanSend(s, type) ==
  /\ type \in Types
  /\ s.sent[type] < MaxRequests
  /\ type = "History" => s.sent[type] + s.postponed < MaxRequests

(* Pages of history, messages that are sent, and the deletions. *)
Request(h, type) ==
  /\ CanSend(hist[h], type)
  /\ hist' = [hist EXCEPT ![h] = sendRequest(@, type)]
  /\ UNCHANGED <<readTimer, posted, batches, todo>>

(* readInbox with a known last message, readInboxTill, and with force      *)
(* readInboxOnNewMessage.                                                  *)
Read(h, till, force, still, due) ==
  /\ hist' = readInboxTill(hist, h, till, force, still, due)
  /\ readTimer' = readInboxTillTimer(hist, h, till, force, still, due)
  /\ UNCHANGED <<posted, batches, todo>>

(* readInbox with an unknown last message, and all others who want the     *)
(* entry.                                                                  *)
WantEntry(h, withCallback) ==
  LET hs == [hist EXCEPT ![h] = requestDialogEntry(@, withCallback)]
  IN  /\ hist' = hs
      /\ posted' = PostedAfter(hs)
      /\ UNCHANGED <<readTimer, batches, todo>>

(* sendPendingReadInbox, when a chat is closed. *)
sendPendingReadInbox(h, due) ==
  /\ hist[h].willReadTill # 0
  /\ hist' = sendReadRequests(hist, due \cup {h})
  /\ readTimer' = ReadTimerAfter(hist, due \cup {h})
  /\ UNCHANGED <<posted, batches, todo>>

(* cancelRequest, of a History request. *)
cancelRequest(h) ==
  /\ \/ /\ hist[h].sent["History"] > 0
        /\ hist' = [hist EXCEPT ![h] = finish(@, "History")]
     \/ /\ hist[h].postponed > 0
        /\ hist' = [hist EXCEPT ![h] = cancelPostponed(@)]
  /\ posted' = PostedAfter(hist')
  /\ UNCHANGED <<readTimer, batches, todo>>

(* updateReadHistoryInbox: another client has read, and the entry may be   *)
(* needed to know the folder or the count.                                 *)
applyInboxReadUpdate(h, upTo, entry) ==
  LET s == hist[h]
      r == IF ReadBeforeOr1(s) <= upTo THEN setInboxReadTill(s, upTo) ELSE s
      hs == [hist EXCEPT ![h] = IF entry THEN requestDialogEntry(r, FALSE)
                                         ELSE r]
  IN  /\ hist' = hs
      /\ posted' = PostedAfter(hs)
      /\ UNCHANGED <<readTimer, batches, todo>>
-----------------------------------------------------------------------------
(* Answers. *)

(* The answer to a page of history or to a sent message; what it brings    *)
(* may need the entry of the history.                                      *)
RequestDone(h, type, entry) ==
  LET s == hist[h]
      hs == [hist EXCEPT ![h] =
               finish(IF entry THEN requestDialogEntry(s, FALSE) ELSE s, type)]
  IN  /\ type \in {"History", "Send"}
      /\ s.sent[type] > 0
      /\ hist' = hs
      /\ posted' = PostedAfter(hs)
      /\ UNCHANGED <<readTimer, batches, todo>>

(* requestChatListMessage: the last message is looked for through the      *)
(* entry, or a page of the history is asked for, or neither is needed.     *)
requestChatListMessage(s, by) ==
  CASE by = "entry" -> requestDialogEntry(s, FALSE)
    [] by = "page" -> sendRequest(s, "History")
    [] by = "none" -> s

(* The answer to a Delete: with more the server has deleted a part, and    *)
(* the rest is asked for before finish.                                    *)
DeleteDone(h, more, by) ==
  LET s == hist[h]
      d == finish(IF more THEN sendRequest(s, "Delete") ELSE s, "Delete")
      hs == [hist EXCEPT ![h] = requestChatListMessage(d, by)]
  IN  /\ s.sent["Delete"] > 0
      /\ by = "page" => CanSend(s, "History")
      /\ hist' = hs
      /\ posted' = PostedAfter(hs)
      /\ UNCHANGED <<readTimer, batches, todo>>

(* The first part of finished; refresh is unreadCountRefreshNeeded. *)
readDone(s, till, refresh) ==
  CASE s.sentReadTill # till -> s
    [] s.sentReadTill = till /\ refresh ->
         requestDialogEntry([s EXCEPT !.sentReadDone = TRUE], FALSE)
    [] s.sentReadTill = till /\ ~refresh ->
         [s EXCEPT !.sentReadDone = TRUE, !.sentReadTill = 0]

(* finished of sendReadRequest, for an answer or an error. *)
ReadDone(h, till, refresh, due) ==
  LET r == [hist EXCEPT ![h] = readDone(@, till, refresh)]
      hs == [sendReadRequests(r, due) EXCEPT ![h] = finishRead(@, till)]
  IN  /\ till \in hist[h].reading
      /\ till + 1 > hist[h].readBefore => refresh
      /\ hist' = hs
      /\ readTimer' = ReadTimerAfter(r, due)
      /\ posted' = PostedAfter(hs)
      /\ UNCHANGED <<batches, todo>>

(* _readRequestsTimer calls sendReadRequests. *)
ReadRequestsTimer(due) ==
  /\ readTimer
  /\ hist' = sendReadRequests(hist, due)
  /\ readTimer' = ReadTimerAfter(hist, due)
  /\ UNCHANGED <<posted, batches, todo>>

(* sendDialogRequests for one history. *)
entryRequested(s) ==
  [s EXCEPT !.pending = FALSE, !.requested = TRUE,
            !.postponedRequestEntry = @ \/ postponeEntryRequest(s)]

(* With no peers the request is for nothing, and so is its answer. *)
sendDialogRequests ==
  LET peers == {h \in Pending(hist) : ~postponeEntryRequest(hist[h])}
  IN  /\ posted
      /\ posted' = FALSE
      /\ hist' = [h \in History |-> IF hist[h].pending
                                      THEN entryRequested(hist[h])
                                      ELSE hist[h]]
      /\ \/ peers = {} /\ UNCHANGED batches
         \/ /\ peers # {}
            /\ \E b \in BatchIds :
                 batches[b] = {} /\ batches' = [batches EXCEPT ![b] = peers]
      /\ UNCHANGED <<readTimer, todo>>

(* The answer to messages.getPeerDialogs, or an error: its entries are     *)
(* processed one after the other, and nothing else runs meanwhile.         *)
PeerDialogsDone(b) ==
  /\ batches[b] # {}
  /\ todo' = batches[b]
  /\ batches' = [batches EXCEPT ![b] = {}]
  /\ UNCHANGED <<hist, readTimer, posted>>

(* applyDialogFields, when there is an entry that says read. *)
applyDialogFields(s, read) ==
  IF read + 1 >= ReadBeforeOr1(s) THEN setInboxReadTill(s, read) ELSE s

(* The end of dialogEntryApplied. *)
settleRead(s) ==
  IF s.sentReadTill # 0 /\ s.sentReadDone
    THEN [setInboxReadTill(s, s.sentReadTill) EXCEPT !.sentReadTill = 0]
    ELSE s

(* dialogEntryApplied for h in hs: load says that a page is asked for to   *)
(* find the chat list message, and the callback of readInbox reads till    *)
(* the last message.  Callbacks that go on to delete the history send      *)
(* their request right after it, as Request.                               *)
dialogEntryApplied(hs, h, load) ==
  LET l == IF load THEN sendRequest(hs[h], "History") ELSE hs[h]
      e == [hs EXCEPT ![h] = [l EXCEPT !.pending = FALSE, !.requested = FALSE,
                                       !.callback = FALSE]]
  IN  \/ /\ hs[h].postponedRequestEntry
         /\ hist' = hs
         /\ UNCHANGED readTimer
      \/ /\ ~hs[h].postponedRequestEntry
         /\ ~hs[h].callback
         /\ hist' = [e EXCEPT ![h] = settleRead(@)]
         /\ UNCHANGED readTimer
      \/ /\ ~hs[h].postponedRequestEntry
         /\ hs[h].callback
         /\ \E till \in Ids, still \in StillUnread, due \in SUBSET Waiting(hs) :
              /\ hist' = [readInboxTill(e, h, till, FALSE, still, due)
                            EXCEPT ![h] = settleRead(@)]
              /\ readTimer' =
                   readInboxTillTimer(e, h, till, FALSE, still, due)

(* applyDialog, with an entry that says read, or finalize of a request     *)
(* that brought no entry for h.  (After an entry finalize applies it once  *)
(* more, with nothing left to take.)                                       *)
ApplyEntry(h, entry, load) ==
  /\ load => CanSend(hist[h], "History")
  /\ \/ ~entry /\ dialogEntryApplied(hist, h, load)
     \/ /\ entry
        /\ \E read \in Ids :
             dialogEntryApplied([hist EXCEPT ![h] = applyDialogFields(@, read)],
                                h, load)
  /\ UNCHANGED <<posted, batches>>
-----------------------------------------------------------------------------
UserStep ==
  \E h \in History :
    \/ \E t \in AllTypes : Request(h, t)
    \/ \E till \in Ids, force \in BOOLEAN, still \in StillUnread,
          due \in SUBSET Waiting(hist) :
         (force => till # 0) /\ Read(h, till, force, still, due)
    \/ \E withCallback \in BOOLEAN : WantEntry(h, withCallback)
    \/ \E due \in SUBSET Waiting(hist) : sendPendingReadInbox(h, due)
    \/ cancelRequest(h)
    \/ \E upTo \in Ids, entry \in BOOLEAN : applyInboxReadUpdate(h, upTo, entry)

(* Entries also come with the pages of the chat list. *)
PageEntry(h) ==
  /\ \E load \in BOOLEAN : ApplyEntry(h, TRUE, load)
  /\ UNCHANGED todo

BatchEntry(h) ==
  /\ \E entry, load \in BOOLEAN : ApplyEntry(h, entry, load)
  /\ todo' = todo \ {h}

AnyReadDone(h) ==
  \E till \in Ids, refresh \in BOOLEAN, due \in SUBSET Waiting(hist) :
    ReadDone(h, till, refresh, due)

Step ==
  \/ UserStep
  \/ \E h \in History :
       \/ \E t \in AllTypes, entry \in BOOLEAN : RequestDone(h, t, entry)
       \/ \E more \in BOOLEAN, by \in {"none", "entry", "page"} :
            DeleteDone(h, more, by)
       \/ AnyReadDone(h)
       \/ PageEntry(h)
  \/ \E due \in SUBSET Waiting(hist) : ReadRequestsTimer(due)
  \/ sendDialogRequests
  \/ \E b \in BatchIds : PeerDialogsDone(b)

Next ==
  \/ todo = {} /\ Step
  \/ \E h \in todo : BatchEntry(h)

Spec == Init /\ [][Next]_vars

(* The event loop: the entries of an answer are processed to the end, and  *)
(* between handlers (todo is empty again and again, so strong fairness)    *)
(* timers and posted calls have their turn and answers come; a deletion in *)
(* parts comes to its last part.  The timer finds all reads due: the       *)
(* deadline of a read that waits is not moved, so it passes.               *)
Fairness ==
  /\ SF_vars(todo = {} /\ ReadRequestsTimer(Waiting(hist)))
  /\ SF_vars(todo = {} /\ sendDialogRequests)
  /\ \A h \in History :
       /\ WF_vars(h \in todo /\ BatchEntry(h))
       /\ SF_vars(todo = {} /\ AnyReadDone(h))
       /\ SF_vars(todo = {} /\ RequestDone(h, "Send", FALSE))
       /\ SF_vars(todo = {} /\ DeleteDone(h, FALSE, "none"))
  /\ \A b \in BatchIds : SF_vars(todo = {} /\ PeerDialogsDone(b))

FairSpec == Spec /\ Fairness
-----------------------------------------------------------------------------
(* Every variable has its type. *)
TypeOK ==
  /\ hist \in [History -> State]
  /\ readTimer \in BOOLEAN
  /\ posted \in BOOLEAN
  /\ batches \in [BatchIds -> SUBSET History]
  /\ todo \in SUBSET History

(* No page of history is loaded while messages of it are deleted, and a    *)
(* page that was put off is not forgotten when the last Delete is over:    *)
(* sendRequest, finishSentRequest and cancelRequest keep sent and          *)
(* postponed apart.                                                        *)
PagesWaitForDeletes ==
  \A h \in History :
    LET s == hist[h]
    IN  /\ postponeHistoryRequest(s) => s.sent["History"] = 0
        /\ s.postponed > 0 => postponeHistoryRequest(s)

(* The Expects of sendReadRequest and the Assert of its answer: what will  *)
(* be read is past what was sent, and an answer is for the last message    *)
(* that was sent or for one before it.                                     *)
ReadsInOrder ==
  \A h \in History :
    LET s == hist[h]
    IN  /\ s.willReadTill # 0 => s.willReadTill > s.sentReadTill
        /\ s.sentReadTill # 0 => \A t \in s.reading : t <= s.sentReadTill

(* A message a call of readInboxTill had to mark as read is never lost: a  *)
(* read request that covers it was sent or is waiting, and while one is    *)
(* waiting the timer runs.                                                 *)
ReadNotLost ==
  \A h \in History :
    /\ hist[h].wanted <= Larger(hist[h].willReadTill, hist[h].asked)
    /\ hist[h].willReadTill # 0 => readTimer

(* sentReadTill is held only while its answer, or the entry that settles   *)
(* it, is to come: nothing else clears it.                                 *)
SentReadSettles ==
  \A h \in History :
    LET s == hist[h]
    IN  s.sentReadTill # 0 =>
          \/ s.sentReadTill \in s.reading
          \/ s.sentReadDone /\ (s.pending \/ s.requested)

(* The two Asserts of finishSentRequest: an entry that was put off is in   *)
(* _dialogRequests, and no entry is in both maps.                          *)
EntryInOneMap ==
  \A h \in History :
    LET s == hist[h]
    IN  /\ ~(s.pending /\ s.requested)
        /\ s.postponedRequestEntry => s.requested

(* Whoever wants an entry gets it: it is posted, put off by a request that *)
(* is in flight, in a batch, or in the answer that is processed.  It is    *)
(* put off exactly when a request in flight makes it stale.                *)
EntryAwaited ==
  \A h \in History :
    LET s == hist[h]
    IN  /\ s.callback => s.pending \/ s.requested
        /\ s.pending => posted
        /\ s.requested =>
              \/ s.postponedRequestEntry
              \/ h \in todo
              \/ \E b \in BatchIds : h \in batches[b]
        /\ s.postponedRequestEntry <=> s.requested /\ postponeEntryRequest(s)

(* No Expects and no Assert of the read and entry requests ever fails,     *)
(* whatever sequence of requests, reads and answers led to it.             *)
AssertsHold == ReadsInOrder /\ EntryInOneMap

(* Read requests for a history go to the server in the order of their      *)
(* messages: none is sent for a message that an earlier one covered.       *)
ReadsOnlyForward ==
  [][\A h \in History :
       \A t \in hist'[h].reading \ hist[h].reading : t > hist[h].asked]_vars

(* What must be read is sent to the server in the end, at the latest when  *)
(* the timer fires.                                                        *)
ReadEventuallySent ==
  \A h \in History, n \in 1 .. MaxId :
    hist[h].wanted >= n ~> hist[h].asked >= n

(* Once the user leaves a history alone, what waits for its entry is       *)
(* called, and pages that were put off by deletions are loaded.  Only the  *)
(* deletion of a whole channel, which nobody finishes, holds them up.      *)
NoneForgotten ==
  <>[][~UserStep]_vars =>
    \A h \in History :
      LET held == hist[h].sent["DeleteChannel"] > 0
      IN  /\ hist[h].callback ~> ~hist[h].callback \/ held
          /\ hist[h].postponed > 0 ~> hist[h].postponed = 0 \/ held
-----------------------------------------------------------------------------
(* The inductive invariant the safety properties rest on: of the requests, *)
(* of the reads, of the entry of one history.                              *)
PagesInv(s) ==
  /\ postponeHistoryRequest(s) => s.sent["History"] = 0
  /\ s.postponed > 0 => postponeHistoryRequest(s)

(* What was asked for is noted as sent or as read, so what will be read is *)
(* past it.                                                                *)
ReadsInv(s) ==
  /\ s.sentReadTill \in {0, s.asked}
  /\ s.asked = s.sentReadTill \/ s.asked < s.readBefore
  /\ s.willReadTill # 0 => s.willReadTill > s.asked
  /\ \A t \in s.reading : t <= s.asked
  /\ s.wanted <= Larger(s.willReadTill, s.asked)

EntryInv(s) ==
  /\ ~(s.pending /\ s.requested)
  /\ s.callback => s.pending \/ s.requested
  /\ s.postponedRequestEntry <=> s.requested /\ postponeEntryRequest(s)

SettleInv(s) ==
  s.sentReadTill # 0 =>
    \/ s.sentReadTill \in s.reading
    \/ s.sentReadDone /\ (s.pending \/ s.requested)

StateInv(s) == PagesInv(s) /\ ReadsInv(s) /\ EntryInv(s)

Inv ==
  /\ TypeOK
  /\ \A h \in History :
       /\ StateInv(hist[h])
       /\ SettleInv(hist[h])
       /\ hist[h].willReadTill # 0 => readTimer
       /\ hist[h].pending => posted
       /\ hist[h].requested =>
             \/ hist[h].postponedRequestEntry
             \/ h \in todo
             \/ \E b \in BatchIds : h \in batches[b]
=============================================================================
