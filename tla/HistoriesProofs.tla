--------------------------- MODULE HistoriesProofs ---------------------------
(***************************************************************************)
(* The safety properties of Histories, for any histories, requests and     *)
(* message ids.                                                            *)
(*                                                                         *)
(* Each operation of the model maps the State of a history to another one; *)
(* a lemma for each says what it keeps of StateInv and SettleInv.  The     *)
(* theorem puts them together action by action.                            *)
(***************************************************************************)
EXTENDS Histories, TLAPS

(* What an operation does to the place of a history in the entry maps: an  *)
(* entry in _dialogRequests was there before, and is still put off if it   *)
(* was.                                                                    *)
Kept(s, x) ==
  x.requested => /\ s.requested
                 /\ s.postponedRequestEntry => x.postponedRequestEntry

(* What sendRequest may find in its state when the new request is in sent. *)
Adding(s) ==
  /\ s.postponed > 0 => postponeHistoryRequest(s)
  /\ ReadsInv(s)
  /\ ~(s.pending /\ s.requested)
  /\ s.callback => s.pending \/ s.requested
  /\ s.postponedRequestEntry => s.requested /\ postponeEntryRequest(s)

(* Fields an operation leaves alone. *)
SameReads(s, x) ==
  /\ x.willReadTill = s.willReadTill
  /\ x.sentReadTill = s.sentReadTill
  /\ x.sentReadDone = s.sentReadDone
  /\ x.reading = s.reading
  /\ x.readBefore = s.readBefore
  /\ x.wanted = s.wanted
  /\ x.asked = s.asked

SameEntry(s, x) ==
  /\ x.pending = s.pending
  /\ x.requested = s.requested
  /\ x.callback = s.callback
  /\ x.postponedRequestEntry = s.postponedRequestEntry

(* sent completes the invariant after a request was added. *)
LEMMA SentKeeps ==
  ASSUME NEW s \in State, Adding(s)
  PROVE  /\ sent(s) \in State
         /\ StateInv(sent(s))
         /\ Kept(s, sent(s))
         /\ SameReads(s, sent(s))
         /\ sent(s).pending = s.pending
         /\ sent(s).requested = s.requested
         /\ sent(s).sent["Delete"] = s.sent["Delete"]
         /\ sent(s).postponedRequestEntry =>
              s.postponedRequestEntry \/ (postponeEntryRequest(s) /\ s.requested)
<1> DEFINE e == [s EXCEPT !.postponedRequestEntry =
              @ \/ (postponeEntryRequest(s) /\ s.requested)]
           v == [e.sent EXCEPT !["History"] = 0]
           p == e.postponed + e.sent["History"]
           f == [e EXCEPT !.postponed = @ + e.sent["History"],
                          !.sent["History"] = 0]
<1>1. /\ e \in State
      /\ e.postponedRequestEntry =
           (s.postponedRequestEntry \/ (postponeEntryRequest(s) /\ s.requested))
      /\ e.sent = s.sent /\ e.postponed = s.postponed
      /\ SameReads(s, e)
      /\ e.pending = s.pending /\ e.requested = s.requested
      /\ e.callback = s.callback
  BY DEF State, SameReads, postponeEntryRequest, postponeHistoryRequest
<1>2. sent(s) = IF postponeHistoryRequest(e) THEN f ELSE e
  BY DEF sent
<1> HIDE DEF e
<1>3. v \in [AllTypes -> Nat] /\ p \in Nat
  BY <1>1 DEF State, AllTypes
<1>4. f \in State /\ f.sent = v /\ f.postponed = p /\ SameReads(e, f)
        /\ SameEntry(e, f)
  <2>1. f = [e EXCEPT !.postponed = p, !.sent = v]
    OBVIOUS
  <2> HIDE DEF f, v, p
  <2>2. QED  BY <1>1, <1>3, <2>1 DEF State, SameReads, SameEntry
<1> HIDE DEF f
<1>5. CASE postponeHistoryRequest(e)
  BY <1>1, <1>2, <1>4, <1>5 DEF Adding, StateInv, PagesInv, ReadsInv, EntryInv,
       Kept, SameReads, SameEntry, postponeHistoryRequest,
       postponeEntryRequest, State, AllTypes
<1>6. CASE ~postponeHistoryRequest(e)
  BY <1>1, <1>2, <1>6 DEF Adding, StateInv, PagesInv, ReadsInv, EntryInv,
       Kept, SameReads, postponeHistoryRequest, postponeEntryRequest, State,
       AllTypes
<1>7. QED  BY <1>5, <1>6

(* sendRequest keeps the invariant. *)
LEMMA SendRequestKeeps ==
  ASSUME NEW s \in State, StateInv(s), NEW type \in AllTypes
  PROVE  /\ sendRequest(s, type) \in State
         /\ StateInv(sendRequest(s, type))
         /\ Kept(s, sendRequest(s, type))
         /\ SameReads(s, sendRequest(s, type))
         /\ sendRequest(s, type).pending = s.pending
         /\ sendRequest(s, type).requested = s.requested
         /\ sendRequest(s, type).sent["Delete"] >= s.sent["Delete"]
<1> DEFINE c == [s EXCEPT !.sent[type] = @ + 1]
           v == [s.sent EXCEPT ![type] = @ + 1]
<1>1. CASE type = "History" /\ postponeHistoryRequest(s)
  <2> DEFINE q == [s EXCEPT !.postponed = @ + 1]
  <2>2. q \in State /\ q.sent = s.sent /\ q.postponed = s.postponed + 1
          /\ SameReads(s, q) /\ SameEntry(s, q)
    BY DEF State, SameReads, SameEntry
  <2>3. sendRequest(s, type) = q
    BY <1>1 DEF sendRequest
  <2> HIDE DEF q
  <2>4. QED
    BY <1>1, <2>2, <2>3 DEF StateInv, PagesInv, ReadsInv, EntryInv, Kept,
         SameReads, SameEntry, postponeHistoryRequest, postponeEntryRequest,
         State, AllTypes
<1>2. CASE ~(type = "History" /\ postponeHistoryRequest(s))
  <2>1. v \in [AllTypes -> Nat] /\ s.postponed \in Nat
    BY DEF State
  <2>2. c = [s EXCEPT !.sent = v]
    OBVIOUS
  <2> HIDE DEF v
  <2>3. c \in State /\ c.sent = v /\ c.postponed = s.postponed
          /\ SameReads(s, c) /\ SameEntry(s, c)
    <3> HIDE DEF c
    <3>1. QED  BY <2>1, <2>2 DEF State, SameReads, SameEntry
  <2>4. sendRequest(s, type) = sent(c)
    BY <1>2 DEF sendRequest
  <2> HIDE DEF c
  <2>5. Adding(c)
    BY <2>3 DEF v, StateInv, PagesInv, ReadsInv, EntryInv, Adding, SameReads,
         SameEntry, postponeHistoryRequest, postponeEntryRequest, State,
         AllTypes
  <2>6. c.sent["Delete"] >= s.sent["Delete"]
    BY <2>3 DEF v, State, AllTypes
  <2>7. QED
    BY <2>3, <2>4, <2>5, <2>6, SentKeeps DEF Kept, SameReads, SameEntry
<1>3. QED  BY <1>1, <1>2

(* A page of history does not put off an entry. *)
LEMMA PageLeavesEntry ==
  ASSUME NEW s \in State, StateInv(s)
  PROVE  sendRequest(s, "History").postponedRequestEntry =>
           s.postponedRequestEntry
<1> DEFINE v == [s.sent EXCEPT !["History"] = @ + 1]
           c == [s EXCEPT !.sent["History"] = @ + 1]
<1>1. CASE postponeHistoryRequest(s)
  BY <1>1 DEF sendRequest, State
<1>2. CASE ~postponeHistoryRequest(s)
  <2>1. v \in [AllTypes -> Nat]
    BY DEF State, AllTypes
  <2>2. c = [s EXCEPT !.sent = v]
    OBVIOUS
  <2>3. sendRequest(s, "History") = sent(c)
    BY <1>2 DEF sendRequest
  <2> HIDE DEF c, v
  <2>4. c \in State /\ c.sent = v /\ c.postponed = s.postponed
          /\ SameReads(s, c) /\ SameEntry(s, c)
    BY <2>1, <2>2 DEF State, SameReads, SameEntry
  <2>5. postponeEntryRequest(c) <=> postponeEntryRequest(s)
    BY <2>4 DEF v, postponeEntryRequest, postponeHistoryRequest, SameReads,
         State, AllTypes
  <2>6. Adding(c)
    BY <2>4, <2>5 DEF v, StateInv, PagesInv, ReadsInv, EntryInv, Adding,
         SameReads, SameEntry, postponeHistoryRequest, State, AllTypes
  <2>7. QED
    BY <2>3, <2>4, <2>5, <2>6, SentKeeps DEF StateInv, EntryInv, SameEntry
<1>3. QED  BY <1>1, <1>2

(* finishSentRequest completes the invariant after a request was taken     *)
(* away: pages are sent when no Delete is left, and the entry is asked for *)
(* again when no request is left that makes it stale.                      *)
Removing(s) ==
  /\ postponeHistoryRequest(s) => s.sent["History"] = 0
  /\ ReadsInv(s)
  /\ ~(s.pending /\ s.requested)
  /\ s.callback => s.pending \/ s.requested
  /\ s.requested /\ postponeEntryRequest(s) => s.postponedRequestEntry
  /\ s.postponedRequestEntry => s.requested

LEMMA FinishKeeps ==
  ASSUME NEW s \in State, Removing(s)
  PROVE  /\ finishSentRequest(s) \in State
         /\ StateInv(finishSentRequest(s))
         /\ Kept(s, finishSentRequest(s))
         /\ SameReads(s, finishSentRequest(s))
         /\ s.pending \/ s.requested =>
              \/ finishSentRequest(s).pending
              \/ finishSentRequest(s).requested
<1> DEFINE v == [s.sent EXCEPT !["History"] = @ + s.postponed]
           g == [s EXCEPT !.sent["History"] = @ + s.postponed, !.postponed = 0]
           r == IF s.postponed > 0 /\ ~postponeHistoryRequest(s) THEN g ELSE s
           k == [r EXCEPT !.pending = TRUE, !.requested = FALSE,
                          !.postponedRequestEntry = FALSE]
<1>1. v \in [AllTypes -> Nat]
  BY DEF State, AllTypes
<1>2. g \in State /\ g.sent = v /\ g.postponed = 0 /\ SameReads(s, g)
        /\ SameEntry(s, g)
  <2>1. g = [s EXCEPT !.sent = v, !.postponed = 0]
    OBVIOUS
  <2> HIDE DEF g, v
  <2>2. QED  BY <1>1, <2>1 DEF State, SameReads, SameEntry
<1>3. finishSentRequest(s) =
        IF r.postponedRequestEntry /\ ~postponeEntryRequest(r) THEN k ELSE r
  BY DEF finishSentRequest
<1> HIDE DEF g
<1>4. /\ r \in State /\ PagesInv(r) /\ SameReads(s, r) /\ SameEntry(s, r)
      /\ postponeEntryRequest(r) <=> postponeEntryRequest(s)
  BY <1>2 DEF Removing, PagesInv, SameReads, SameEntry, postponeHistoryRequest,
       postponeEntryRequest, State, AllTypes
<1> HIDE DEF r
<1>5. /\ k \in State /\ SameReads(r, k) /\ k.sent = r.sent
      /\ k.postponed = r.postponed /\ k.pending /\ ~k.requested
      /\ ~k.postponedRequestEntry
  BY <1>4 DEF State, SameReads
<1> HIDE DEF k
<1>6. CASE r.postponedRequestEntry /\ ~postponeEntryRequest(r)
  BY <1>3, <1>4, <1>5, <1>6 DEF Removing, StateInv, PagesInv, ReadsInv,
       EntryInv, Kept, SameReads, SameEntry, postponeHistoryRequest,
       postponeEntryRequest, State
<1>7. CASE ~(r.postponedRequestEntry /\ ~postponeEntryRequest(r))
  BY <1>3, <1>4, <1>7 DEF Removing, StateInv, PagesInv, ReadsInv,
       EntryInv, Kept, SameReads, SameEntry, State
<1>8. QED  BY <1>6, <1>7

(* The finish callback of a request keeps the invariant. *)
LEMMA FinishRequestKeeps ==
  ASSUME NEW s \in State, StateInv(s), NEW type \in AllTypes, s.sent[type] > 0
  PROVE  /\ finish(s, type) \in State
         /\ StateInv(finish(s, type))
         /\ Kept(s, finish(s, type))
         /\ SameReads(s, finish(s, type))
         /\ s.pending \/ s.requested =>
              finish(s, type).pending \/ finish(s, type).requested
<1> DEFINE c == [s EXCEPT !.sent[type] = @ - 1]
           v == [s.sent EXCEPT ![type] = @ - 1]
<1>1. v \in [AllTypes -> Nat]
  BY DEF State
<1>2. c = [s EXCEPT !.sent = v]
  OBVIOUS
<1>3. finish(s, type) = finishSentRequest(c)
  BY DEF finish
<1> HIDE DEF c, v
<1>4. c \in State /\ c.sent = v /\ c.postponed = s.postponed
        /\ SameReads(s, c) /\ SameEntry(s, c)
  BY <1>1, <1>2 DEF State, SameReads, SameEntry
<1>5. Removing(c)
  BY <1>4 DEF v, StateInv, PagesInv, ReadsInv, EntryInv, Removing, SameReads,
       SameEntry, postponeHistoryRequest, postponeEntryRequest, State, AllTypes
<1>6. QED
  BY <1>3, <1>4, <1>5, FinishKeeps DEF Kept, SameReads, SameEntry

(* The same for a History request that is taken out of postponed. *)
LEMMA CancelPostponedKeeps ==
  ASSUME NEW s \in State, StateInv(s), s.postponed > 0,
         NEW x, x = cancelPostponed(s)
  PROVE  /\ x \in State
         /\ StateInv(x)
         /\ Kept(s, x)
         /\ SameReads(s, x)
         /\ s.pending \/ s.requested => x.pending \/ x.requested
<1> DEFINE c == [s EXCEPT !.postponed = @ - 1]
<1>1. c \in State /\ c.sent = s.sent /\ SameReads(s, c) /\ SameEntry(s, c)
  BY DEF State, SameReads, SameEntry
<1>2. x = finishSentRequest(c)
  BY DEF cancelPostponed
<1> HIDE DEF c
<1>3. Removing(c)
  BY <1>1 DEF StateInv, PagesInv, ReadsInv, EntryInv, Removing, SameReads,
       SameEntry, postponeHistoryRequest, postponeEntryRequest
<1>4. QED
  BY <1>1, <1>2, <1>3, FinishKeeps DEF Kept, SameReads, SameEntry

(* requestDialogEntry keeps the invariant, and the entry is wanted then. *)
LEMMA RequestEntryKeeps ==
  ASSUME NEW s \in State, StateInv(s), NEW c \in BOOLEAN
  PROVE  /\ requestDialogEntry(s, c) \in State
         /\ StateInv(requestDialogEntry(s, c))
         /\ Kept(s, requestDialogEntry(s, c))
         /\ SameReads(s, requestDialogEntry(s, c))
         /\ requestDialogEntry(s, c).sent = s.sent
         /\ \/ requestDialogEntry(s, c).pending
            \/ requestDialogEntry(s, c).requested
<1> DEFINE x == requestDialogEntry(s, c)
<1>1. /\ x \in State /\ SameReads(s, x)
      /\ x.sent = s.sent /\ x.postponed = s.postponed
      /\ x.pending = (s.pending \/ ~s.requested)
      /\ x.callback = (s.callback \/ c)
      /\ x.requested = s.requested
      /\ x.postponedRequestEntry = s.postponedRequestEntry
  BY DEF requestDialogEntry, State, SameReads
<1> HIDE DEF x
<1>2. QED
  BY <1>1 DEF x, StateInv, PagesInv, ReadsInv, EntryInv, Kept, SameReads,
       postponeHistoryRequest, postponeEntryRequest, State

(* All but the local position: what setInboxReadTill leaves alone. *)
SameButRead(s, x) ==
  /\ x.sent = s.sent /\ x.postponed = s.postponed
  /\ x.reading = s.reading /\ x.asked = s.asked
  /\ x.sentReadTill = s.sentReadTill /\ x.sentReadDone = s.sentReadDone
  /\ SameEntry(s, x)

(* setInboxReadTill keeps the invariant. *)
LEMMA SetReadKeeps ==
  ASSUME NEW s \in State, StateInv(s), NEW till \in Nat
  PROVE  /\ setInboxReadTill(s, till) \in State
         /\ StateInv(setInboxReadTill(s, till))
         /\ SameButRead(s, setInboxReadTill(s, till))
         /\ setInboxReadTill(s, till).willReadTill = s.willReadTill
         /\ setInboxReadTill(s, till).readBefore > till
<1> DEFINE x == setInboxReadTill(s, till)
<1>1. /\ x \in State /\ SameButRead(s, x)
      /\ x.willReadTill = s.willReadTill /\ x.wanted = s.wanted
      /\ x.readBefore = Larger(s.readBefore, till + 1)
  BY DEF setInboxReadTill, State, SameButRead, SameEntry, Larger
<1> HIDE DEF x
<1>2. QED
  BY <1>1 DEF x, StateInv, PagesInv, ReadsInv, EntryInv, SameButRead,
       SameEntry, Larger, postponeHistoryRequest, postponeEntryRequest, State

(* sendReadRequest keeps the invariant: what it sends is past what was     *)
(* asked for before, and becomes what was sent.                            *)
LEMMA SendReadKeeps ==
  ASSUME NEW s \in State, StateInv(s), s.willReadTill # 0
  PROVE  /\ sendReadRequest(s) \in State
         /\ StateInv(sendReadRequest(s))
         /\ Kept(s, sendReadRequest(s))
         /\ sendReadRequest(s).pending = s.pending
         /\ sendReadRequest(s).requested = s.requested
         /\ sendReadRequest(s).willReadTill = 0
         /\ sendReadRequest(s).sentReadTill = s.willReadTill
         /\ sendReadRequest(s).sentReadDone = FALSE
         /\ sendReadRequest(s).reading = s.reading \cup {s.willReadTill}
         /\ s.willReadTill > s.asked
<1> DEFINE c == [s EXCEPT !.reading = @ \cup {s.willReadTill},
                          !.sentReadTill = s.willReadTill,
                          !.willReadTill = 0,
                          !.sentReadDone = FALSE,
                          !.asked = Larger(@, s.willReadTill)]
<1>1. /\ c \in State /\ SameEntry(s, c)
      /\ c.sent = s.sent /\ c.postponed = s.postponed
      /\ c.reading = s.reading \cup {s.willReadTill}
      /\ c.sentReadTill = s.willReadTill /\ c.willReadTill = 0
      /\ c.sentReadDone = FALSE /\ c.wanted = s.wanted
      /\ c.asked = Larger(s.asked, s.willReadTill)
      /\ c.readBefore = s.readBefore
  BY DEF State, SameEntry, Larger
<1>2. sendReadRequest(s) = sent(c)
  BY DEF sendReadRequest
<1> HIDE DEF c
<1>3. s.willReadTill > s.asked /\ c.asked = s.willReadTill
  BY <1>1 DEF StateInv, ReadsInv, Larger, State
<1>4. ReadsInv(c)
  BY <1>1, <1>3 DEF StateInv, ReadsInv, Larger, State
<1>5. Adding(c)
  BY <1>1, <1>4 DEF StateInv, PagesInv, EntryInv, Adding, SameEntry,
       postponeHistoryRequest, postponeEntryRequest, State
<1>6. QED
  BY <1>1, <1>2, <1>3, <1>5, SentKeeps DEF Kept, SameReads, SameEntry

(* readInboxTill keeps the invariant up to its call of sendReadRequests,   *)
(* which finds something to send.                                          *)
LEMMA ReadTillKeeps ==
  ASSUME NEW s \in State, StateInv(s), NEW till \in Nat, NEW force \in BOOLEAN,
         NEW still
  PROVE  /\ readTill(s, till, force, still) \in State
         /\ StateInv(readTill(s, till, force, still))
         /\ SameButRead(s, readTill(s, till, force, still))
         /\ ReadsAtOnce(s, till, force, still) =>
              readTill(s, till, force, still).willReadTill # 0
<1> DEFINE x == readTill(s, till, force, still)
           w == IF /\ readInboxTillNeedsRequest(s, till)
                   /\ ~ReadsSilently(s, till, force, still)
                  THEN [s EXCEPT !.wanted = Larger(@, till)]
                  ELSE s
           r == [w EXCEPT !.willReadTill = till]
<1>1. /\ w \in State /\ SameButRead(s, w)
      /\ w.willReadTill = s.willReadTill /\ w.readBefore = s.readBefore
      /\ w.wanted = s.wanted \/ w.wanted = Larger(s.wanted, till)
      /\ ~(/\ readInboxTillNeedsRequest(s, till)
           /\ ~ReadsSilently(s, till, force, still)) => w = s
  BY DEF State, SameButRead, SameEntry, Larger
<1>2. x = CASE ~ReadsOn(s, till, force) -> w
            [] ReadsSilently(s, till, force, still) -> setInboxReadTill(w, till)
            [] OTHER -> IF still = "unknown" THEN r ELSE setInboxReadTill(r, till)
  BY DEF readTill
<1> HIDE DEF w, x
<1>3. /\ r \in State /\ SameButRead(s, r)
      /\ r.willReadTill = till /\ r.readBefore = s.readBefore
      /\ r.wanted = w.wanted
  BY <1>1 DEF State, SameButRead, SameEntry
<1> HIDE DEF r
<1>4. CASE ~ReadsOn(s, till, force)
  <2>1. x = w
    BY <1>2, <1>4 DEF ReadsSilently
  <2>2. ReadsInv(w)
    BY <1>1, <1>4 DEF ReadsOn, ReadsSilently, StateInv, ReadsInv, SameButRead,
         Larger, State
  <2>3. StateInv(w)
    BY <1>1, <2>2 DEF StateInv, PagesInv, EntryInv, SameButRead, SameEntry,
         postponeHistoryRequest, postponeEntryRequest
  <2>4. QED
    BY <1>1, <1>4, <2>1, <2>3 DEF x, ReadsAtOnce, State
<1>5. CASE ReadsOn(s, till, force) /\ ReadsSilently(s, till, force, still)
  <2>1. x = setInboxReadTill(s, till)
    BY <1>1, <1>2, <1>5
  <2>2. ~ReadsAtOnce(s, till, force, still)
    BY <1>5 DEF ReadsAtOnce, ReadsSilently
  <2>3. QED  BY <2>1, <2>2, SetReadKeeps DEF x
<1>6. CASE ReadsOn(s, till, force) /\ ~ReadsSilently(s, till, force, still)
  <2>1. x = IF still = "unknown" THEN r ELSE setInboxReadTill(r, till)
    BY <1>2, <1>6
  <2>2. till > s.asked /\ till > s.willReadTill /\ till # 0
    BY <1>6 DEF ReadsOn, readInboxTillNeedsRequest, ReadBeforeOr1, StateInv,
         ReadsInv, Larger, State
  <2>3. ReadsInv(r)
    BY <1>1, <1>3, <2>2 DEF StateInv, ReadsInv, SameButRead, Larger, State
  <2>4. StateInv(r)
    BY <1>3, <2>3 DEF StateInv, PagesInv, EntryInv, SameButRead, SameEntry,
         postponeHistoryRequest, postponeEntryRequest
  <2>5. QED
    BY <1>3, <2>1, <2>2, <2>4, SetReadKeeps DEF x, SameButRead, SameEntry
<1>7. QED  BY <1>4, <1>5, <1>6

(* The answer of a read, before its request is finished. *)
LEMMA ReadDoneKeeps ==
  ASSUME NEW s \in State, StateInv(s), NEW till \in s.reading,
         NEW refresh \in BOOLEAN, till + 1 > s.readBefore => refresh
  PROVE  /\ readDone(s, till, refresh) \in State
         /\ StateInv(readDone(s, till, refresh))
         /\ Kept(s, readDone(s, till, refresh))
         /\ readDone(s, till, refresh).willReadTill = s.willReadTill
         /\ readDone(s, till, refresh).asked = s.asked
         /\ readDone(s, till, refresh).reading = s.reading
         /\ readDone(s, till, refresh).sentReadTill \in {0, s.sentReadTill}
         /\ SettleInv(s) => SettleInv(readDone(s, till, refresh))
         /\ readDone(s, till, refresh).sentReadTill = till =>
              \/ till = 0
              \/ /\ readDone(s, till, refresh).sentReadDone
                 /\ \/ readDone(s, till, refresh).pending
                    \/ readDone(s, till, refresh).requested
<1> DEFINE x == readDone(s, till, refresh)
           d == [s EXCEPT !.sentReadDone = TRUE]
           z == [s EXCEPT !.sentReadDone = TRUE, !.sentReadTill = 0]
<1>1. CASE s.sentReadTill # till
  <2>1. x = s
    BY <1>1 DEF readDone
  <2>2. QED  BY <1>1, <2>1 DEF Kept
<1>2. CASE s.sentReadTill = till /\ refresh
  <2>1. /\ d \in State /\ SameEntry(s, d) /\ d.sent = s.sent
        /\ d.postponed = s.postponed /\ d.reading = s.reading
        /\ d.willReadTill = s.willReadTill /\ d.sentReadTill = till
        /\ d.readBefore = s.readBefore /\ d.wanted = s.wanted
        /\ d.asked = s.asked /\ d.sentReadDone
    BY <1>2 DEF State, SameEntry
  <2>2. x = requestDialogEntry(d, FALSE)
    BY <1>2 DEF readDone
  <2> HIDE DEF d
  <2>3. StateInv(d)
    BY <1>2, <2>1 DEF StateInv, PagesInv, ReadsInv, EntryInv, SameEntry,
         postponeHistoryRequest, postponeEntryRequest
  <2>4. /\ x \in State /\ StateInv(x) /\ Kept(d, x) /\ SameReads(d, x)
        /\ x.pending \/ x.requested
    BY <2>1, <2>2, <2>3, RequestEntryKeeps
  <2> HIDE DEF x
  <2>5. QED
    BY <1>2, <2>1, <2>4 DEF x, Kept, SameReads, SameEntry, SettleInv
<1>3. CASE s.sentReadTill = till /\ ~refresh
  <2>1. /\ z \in State /\ SameEntry(s, z) /\ z.sent = s.sent
        /\ z.postponed = s.postponed /\ z.reading = s.reading
        /\ z.willReadTill = s.willReadTill /\ z.sentReadTill = 0
        /\ z.readBefore = s.readBefore /\ z.wanted = s.wanted
        /\ z.asked = s.asked
    BY DEF State, SameEntry
  <2>2. x = z
    BY <1>3 DEF readDone
  <2> HIDE DEF x, z
  <2>3. s.asked < s.readBefore \/ s.asked = 0
    BY <1>3 DEF StateInv, ReadsInv, State
  <2>4. ReadsInv(z)
    BY <1>3, <2>1, <2>3 DEF StateInv, ReadsInv, State
  <2>5. StateInv(z)
    BY <2>1, <2>4 DEF StateInv, PagesInv, EntryInv, SameEntry,
         postponeHistoryRequest, postponeEntryRequest
  <2>6. QED
    BY <1>3, <2>1, <2>2, <2>5 DEF x, Kept, SameEntry, SettleInv
<1>4. QED  BY <1>1, <1>2, <1>3

(* applyDialogFields keeps the invariant. *)
LEMMA FieldsKeep ==
  ASSUME NEW s \in State, StateInv(s), NEW read \in Nat
  PROVE  /\ applyDialogFields(s, read) \in State
         /\ StateInv(applyDialogFields(s, read))
         /\ SameButRead(s, applyDialogFields(s, read))
         /\ applyDialogFields(s, read).willReadTill = s.willReadTill
BY SetReadKeeps DEF applyDialogFields, SameButRead, SameEntry

(* settleRead keeps the invariant and leaves no read to settle. *)
LEMMA SettleKeeps ==
  ASSUME NEW s \in State, StateInv(s),
         s.sentReadTill # 0 => s.sentReadTill \in s.reading \/ s.sentReadDone
  PROVE  /\ settleRead(s) \in State
         /\ StateInv(settleRead(s))
         /\ SettleInv(settleRead(s))
         /\ SameEntry(s, settleRead(s))
         /\ settleRead(s).willReadTill = s.willReadTill
         /\ settleRead(s).reading = s.reading
<1>1. CASE s.sentReadTill # 0 /\ s.sentReadDone
  <2> DEFINE r == setInboxReadTill(s, s.sentReadTill)
             z == [r EXCEPT !.sentReadTill = 0]
  <2>1. settleRead(s) = z
    BY <1>1 DEF settleRead
  <2>2. /\ r \in State /\ StateInv(r) /\ SameButRead(s, r)
        /\ r.willReadTill = s.willReadTill /\ r.readBefore > s.sentReadTill
    BY SetReadKeeps DEF State
  <2> HIDE DEF r
  <2>3. /\ z \in State /\ SameEntry(r, z) /\ z.sent = r.sent
        /\ z.postponed = r.postponed /\ z.reading = r.reading
        /\ z.willReadTill = r.willReadTill /\ z.sentReadTill = 0
        /\ z.readBefore = r.readBefore /\ z.wanted = r.wanted
        /\ z.asked = r.asked
    BY <2>2 DEF State, SameEntry
  <2> HIDE DEF z
  <2>4. ReadsInv(z)
    BY <1>1, <2>2, <2>3 DEF StateInv, ReadsInv, SameButRead, State
  <2>5. StateInv(z)
    BY <2>2, <2>3, <2>4 DEF StateInv, PagesInv, EntryInv, SameEntry,
         postponeHistoryRequest, postponeEntryRequest
  <2>6. QED
    BY <2>1, <2>2, <2>3, <2>5 DEF SettleInv, SameButRead, SameEntry
<1>2. CASE ~(s.sentReadTill # 0 /\ s.sentReadDone)
  <2>1. settleRead(s) = s
    BY <1>2 DEF settleRead
  <2>2. QED  BY <1>2, <2>1 DEF SettleInv, SameEntry
<1>3. QED  BY <1>1, <1>2
-----------------------------------------------------------------------------
(* All histories at once. *)

(* The read that was sent has its answer to come, or has had it. *)
Answered(s) ==
  s.sentReadTill # 0 => s.sentReadTill \in s.reading \/ s.sentReadDone

(* Reads that are new in x are past what was asked for in s. *)
Forward(s, x) == \A t \in x.reading \ s.reading : t > s.asked

Sound(hs) == hs \in [History -> State] /\ \A g \in History : StateInv(hs[g])

(* What a step that sends reads keeps of each history. *)
Carried(s, x) ==
  /\ Kept(s, x)
  /\ Forward(s, x)
  /\ x.pending = s.pending
  /\ x.requested = s.requested
  /\ SettleInv(s) => SettleInv(x)
  /\ Answered(s) => Answered(x)

(* sendReadRequests keeps the invariant, and the timer runs for what is    *)
(* left to send.                                                           *)
LEMMA SendReadsKeep ==
  ASSUME NEW hs, Sound(hs), NEW due
  PROVE  /\ Sound(sendReadRequests(hs, due))
         /\ \A g \in History :
              /\ Carried(hs[g], sendReadRequests(hs, due)[g])
              /\ sendReadRequests(hs, due)[g].willReadTill # 0 =>
                   ReadTimerAfter(hs, due)
              /\ \/ sendReadRequests(hs, due)[g] = hs[g]
                 \/ /\ hs[g].willReadTill # 0
                    /\ sendReadRequests(hs, due)[g] = sendReadRequest(hs[g])
<1> DEFINE S == sendReadRequests(hs, due)
<1>1. SUFFICES ASSUME NEW g \in History
               PROVE  /\ S[g] \in State /\ StateInv(S[g])
                      /\ Carried(hs[g], S[g])
                      /\ S[g].willReadTill # 0 => ReadTimerAfter(hs, due)
                      /\ \/ S[g] = hs[g]
                         \/ /\ hs[g].willReadTill # 0
                            /\ S[g] = sendReadRequest(hs[g])
  BY DEF Sound, sendReadRequests
<1>2. hs[g] \in State /\ StateInv(hs[g])
  BY <1>1 DEF Sound
<1>3. CASE g \in due \cap Waiting(hs)
  <2>1. S[g] = sendReadRequest(hs[g]) /\ hs[g].willReadTill # 0
    BY <1>1, <1>3 DEF sendReadRequests, Waiting
  <2>2. QED
    BY <1>2, <2>1, SendReadKeeps DEF Carried, Forward, SettleInv, Answered
<1>4. CASE g \notin due \cap Waiting(hs)
  <2>1. S[g] = hs[g]
    BY <1>1, <1>4 DEF sendReadRequests
  <2>2. S[g].willReadTill # 0 => ReadTimerAfter(hs, due)
    BY <1>1, <1>4, <2>1 DEF Waiting, ReadTimerAfter
  <2>3. QED
    BY <1>2, <2>1, <2>2 DEF Carried, Kept, Forward
<1>5. QED  BY <1>3, <1>4

(* readInboxTill keeps the invariant, and the timer runs for what waits. *)
LEMMA ReadInboxTillKeeps ==
  ASSUME NEW hs, Sound(hs), NEW h \in History, NEW till \in Nat,
         NEW force \in BOOLEAN, NEW still, NEW due,
         readTimer \in BOOLEAN,
         \A g \in History : hs[g].willReadTill # 0 => readTimer,
         NEW x, x = readInboxTill(hs, h, till, force, still, due),
         NEW t, t = readInboxTillTimer(hs, h, till, force, still, due)
  PROVE  /\ Sound(x)
         /\ t \in BOOLEAN
         /\ \A g \in History : Carried(hs[g], x[g])
         /\ \A g \in History : x[g].willReadTill # 0 => t
<1> DEFINE q == readTill(hs[h], till, force, still)
           r == [hs EXCEPT ![h] = q]
           now == ReadsAtOnce(hs[h], till, force, still)
<1>1. hs \in [History -> State] /\ hs[h] \in State /\ StateInv(hs[h])
  BY DEF Sound
<1>2. q \in State /\ StateInv(q) /\ SameButRead(hs[h], q)
  BY <1>1, ReadTillKeeps
<1>3. /\ x = IF now THEN sendReadRequests(r, due \cup {h}) ELSE r
      /\ t = IF now THEN ReadTimerAfter(r, due \cup {h})
               ELSE readTimer \/ (hs[h].willReadTill = 0 /\ r[h].willReadTill # 0)
  BY DEF readInboxTill, readInboxTillTimer
<1> HIDE DEF q, now
<1>4. /\ r[h] = q
      /\ \A g \in History : g # h => r[g] = hs[g]
  BY <1>1
<1>5. Sound(r)
  BY <1>1, <1>2, <1>4 DEF Sound
<1>6. \A g \in History : Carried(hs[g], r[g]) /\ r[g].asked = hs[g].asked
                           /\ r[g].reading = hs[g].reading
  BY <1>1, <1>2, <1>4 DEF SameButRead, SameEntry, Carried, Kept, Forward,
       SettleInv, Answered
<1> HIDE DEF r
<1>7. CASE now
  <2>1. x = sendReadRequests(r, due \cup {h}) /\ t = ReadTimerAfter(r, due \cup {h})
    BY <1>3, <1>7
  <2>2. /\ Sound(x)
        /\ \A g \in History : Carried(r[g], x[g]) /\ (x[g].willReadTill # 0 => t)
    BY <1>5, <2>1, SendReadsKeep
  <2>3. t \in BOOLEAN
    BY <2>1 DEF ReadTimerAfter
  <2>4. \A g \in History : Carried(hs[g], x[g])
    BY <1>6, <2>2 DEF Carried, Kept, Forward
  <2>5. QED  BY <2>2, <2>3, <2>4
<1>8. CASE ~now
  <2>1. x = r /\ t = (readTimer \/ (hs[h].willReadTill = 0 /\ r[h].willReadTill # 0))
    BY <1>3, <1>8
  <2>2. t \in BOOLEAN
    BY <2>1
  <2>3. \A g \in History : x[g].willReadTill # 0 => t
    BY <1>4, <2>1
  <2>4. QED  BY <1>5, <1>6, <2>1, <2>2, <2>3
<1>9. QED  BY <1>7, <1>8

(* A call of sendDialogRequests is posted for whatever is pending. *)
LEMMA PostedForPending ==
  ASSUME NEW hs, \A g \in History : hist[g].pending => posted,
         posted \in BOOLEAN
  PROVE  /\ PostedAfter(hs) \in BOOLEAN
         /\ \A g \in History : hs[g].pending => PostedAfter(hs)
BY DEF PostedAfter, Pending

(* A step that keeps the invariant of each history, the timer and the      *)
(* posted call, and leaves the batches alone, keeps Inv.                   *)
StepKept ==
  \A g \in History : Kept(hist[g], hist'[g]) /\ Forward(hist[g], hist'[g])

LEMMA KeptTogether ==
  ASSUME Inv, Sound(hist'), StepKept,
         \A g \in History : SettleInv(hist'[g]),
         readTimer' \in BOOLEAN,
         \A g \in History : hist'[g].willReadTill # 0 => readTimer',
         posted' \in BOOLEAN,
         \A g \in History : hist'[g].pending => posted',
         UNCHANGED <<batches, todo>>
  PROVE  Inv'
<1>1. TypeOK'
  BY DEF Inv, TypeOK, Sound
<1>2. ASSUME NEW g \in History, hist'[g].requested
      PROVE  \/ hist'[g].postponedRequestEntry
             \/ g \in todo'
             \/ \E b \in BatchIds : g \in batches'[b]
  BY <1>2 DEF Inv, StepKept, Kept
<1>3. QED  BY <1>1, <1>2 DEF Inv, Sound

(* The same for a step that only changes h, and no read of it. *)
LEMMA KeptInOne ==
  ASSUME Inv, NEW h \in History, NEW x \in State, StateInv(x), SettleInv(x),
         Kept(hist[h], x), x.reading = hist[h].reading,
         x.willReadTill = hist[h].willReadTill,
         hist' = [hist EXCEPT ![h] = x],
         \/ posted' = PostedAfter(hist')
         \/ posted' = posted /\ x.pending = hist[h].pending,
         UNCHANGED <<readTimer, batches, todo>>
  PROVE  Inv' /\ StepKept
<1>1. hist \in [History -> State] /\ posted \in BOOLEAN /\ readTimer \in BOOLEAN
  BY DEF Inv, TypeOK
<1>2. hist'[h] = x /\ \A g \in History : g # h => hist'[g] = hist[g]
  BY <1>1
<1>3. Sound(hist')
  BY <1>1, <1>2 DEF Inv, Sound
<1>4. StepKept
  BY <1>2 DEF StepKept, Kept, Forward
<1>5. /\ posted' \in BOOLEAN
      /\ \A g \in History : hist'[g].pending => posted'
  BY <1>1, <1>2, PostedForPending DEF Inv
<1>6. \A g \in History : SettleInv(hist'[g])
  BY <1>2 DEF Inv
<1>7. \A g \in History : hist'[g].willReadTill # 0 => readTimer'
  BY <1>2 DEF Inv
<1>8. QED  BY <1>1, <1>3, <1>4, <1>5, <1>6, <1>7, KeptTogether

(* SettleInv depends on the reads and on whether the entry is wanted. *)
LEMMA SettleCarries ==
  ASSUME NEW s, NEW x, SameReads(s, x), SettleInv(s),
         s.pending \/ s.requested => x.pending \/ x.requested
  PROVE  SettleInv(x)
BY DEF SameReads, SettleInv

LEMMA HistFacts ==
  ASSUME Inv, NEW h \in History
  PROVE  hist[h] \in State /\ StateInv(hist[h]) /\ SettleInv(hist[h])
BY DEF Inv, TypeOK

LEMMA RequestStep ==
  ASSUME Inv, NEW h \in History, NEW t \in AllTypes, Request(h, t)
  PROVE  Inv' /\ StepKept
<1> DEFINE x == sendRequest(hist[h], t)
<1>1. /\ hist[h] \in State /\ StateInv(hist[h]) /\ SettleInv(hist[h])
  BY HistFacts
<1>2. /\ x \in State /\ StateInv(x) /\ Kept(hist[h], x) /\ SameReads(hist[h], x)
      /\ x.pending = hist[h].pending /\ x.requested = hist[h].requested
  BY <1>1, SendRequestKeeps
<1>3. hist' = [hist EXCEPT ![h] = x] /\ UNCHANGED <<readTimer, posted, batches, todo>>
  BY DEF Request
<1> HIDE DEF x
<1>4. SettleInv(x)
  BY <1>1, <1>2, SettleCarries
<1>5. QED  BY <1>2, <1>3, <1>4, KeptInOne DEF SameReads

LEMMA WantEntryStep ==
  ASSUME Inv, NEW h \in History, NEW c \in BOOLEAN, WantEntry(h, c)
  PROVE  Inv' /\ StepKept
<1> DEFINE x == requestDialogEntry(hist[h], c)
<1>1. hist[h] \in State /\ StateInv(hist[h]) /\ SettleInv(hist[h])
  BY HistFacts
<1>2. /\ x \in State /\ StateInv(x) /\ Kept(hist[h], x) /\ SameReads(hist[h], x)
      /\ x.pending \/ x.requested
  BY <1>1, RequestEntryKeeps
<1>3. /\ hist' = [hist EXCEPT ![h] = x]
      /\ posted' = PostedAfter(hist')
      /\ UNCHANGED <<readTimer, batches, todo>>
  BY DEF WantEntry
<1> HIDE DEF x
<1>4. SettleInv(x)
  BY <1>1, <1>2, SettleCarries
<1>5. QED  BY <1>2, <1>3, <1>4, KeptInOne DEF SameReads

LEMMA CancelStep ==
  ASSUME Inv, NEW h \in History, cancelRequest(h)
  PROVE  Inv' /\ StepKept
<1>1. hist[h] \in State /\ StateInv(hist[h]) /\ SettleInv(hist[h])
  BY HistFacts
<1>2. PICK x : /\ \/ /\ hist[h].sent["History"] > 0
                     /\ x = finish(hist[h], "History")
                  \/ /\ hist[h].postponed > 0
                     /\ x = cancelPostponed(hist[h])
               /\ hist' = [hist EXCEPT ![h] = x]
               /\ posted' = PostedAfter(hist')
               /\ UNCHANGED <<readTimer, batches, todo>>
  BY DEF cancelRequest
<1>3. /\ x \in State /\ StateInv(x) /\ Kept(hist[h], x) /\ SameReads(hist[h], x)
      /\ hist[h].pending \/ hist[h].requested => x.pending \/ x.requested
  <2>1. CASE hist[h].sent["History"] > 0 /\ x = finish(hist[h], "History")
    BY <1>1, <2>1, FinishRequestKeeps DEF AllTypes
  <2>2. CASE /\ hist[h].postponed > 0
             /\ x = cancelPostponed(hist[h])
    BY <1>1, <2>2, CancelPostponedKeeps
  <2>3. QED  BY <1>2, <2>1, <2>2
<1>4. SettleInv(x)
  BY <1>1, <1>3, SettleCarries
<1>5. QED  BY <1>2, <1>3, <1>4, KeptInOne DEF SameReads

LEMMA ReadUpdateStep ==
  ASSUME Inv, NEW h \in History, NEW upTo \in Nat, NEW entry \in BOOLEAN,
         applyInboxReadUpdate(h, upTo, entry)
  PROVE  Inv' /\ StepKept
<1> DEFINE s == hist[h]
           r == IF ReadBeforeOr1(s) <= upTo THEN setInboxReadTill(s, upTo) ELSE s
           x == IF entry THEN requestDialogEntry(r, FALSE) ELSE r
<1>1. s \in State /\ StateInv(s) /\ SettleInv(s)
  BY HistFacts
<1>2. /\ r \in State /\ StateInv(r) /\ SameButRead(s, r)
      /\ r.willReadTill = s.willReadTill
  BY <1>1, SetReadKeeps DEF SameButRead, SameEntry
<1>3. /\ hist' = [hist EXCEPT ![h] = x]
      /\ posted' = PostedAfter(hist')
      /\ UNCHANGED <<readTimer, batches, todo>>
  BY DEF applyInboxReadUpdate
<1> HIDE DEF r
<1>4. /\ x \in State /\ StateInv(x) /\ Kept(r, x) /\ SameReads(r, x)
      /\ r.pending \/ r.requested => x.pending \/ x.requested
  BY <1>2, RequestEntryKeeps DEF Kept, SameReads
<1> HIDE DEF x
<1>5. SettleInv(r)
  BY <1>1, <1>2 DEF SettleInv, SameButRead, SameEntry
<1>6. SettleInv(x)
  BY <1>4, <1>5, SettleCarries
<1>7. Kept(s, x) /\ x.reading = s.reading /\ x.willReadTill = s.willReadTill
  BY <1>2, <1>4 DEF Kept, SameReads, SameButRead, SameEntry
<1>8. QED  BY <1>3, <1>4, <1>6, <1>7, KeptInOne

LEMMA RequestDoneStep ==
  ASSUME Inv, NEW h \in History, NEW t \in AllTypes, NEW entry \in BOOLEAN,
         RequestDone(h, t, entry)
  PROVE  Inv' /\ StepKept
<1> DEFINE s == hist[h]
           r == IF entry THEN requestDialogEntry(s, FALSE) ELSE s
           x == finish(r, t)
<1>1. s \in State /\ StateInv(s) /\ SettleInv(s)
  BY HistFacts
<1>2. /\ r \in State /\ StateInv(r) /\ SameReads(s, r) /\ Kept(s, r)
      /\ r.sent = s.sent
      /\ s.pending \/ s.requested => r.pending \/ r.requested
  BY <1>1, RequestEntryKeeps DEF SameReads, Kept
<1>3. /\ hist' = [hist EXCEPT ![h] = x]
      /\ posted' = PostedAfter(hist')
      /\ UNCHANGED <<readTimer, batches, todo>>
      /\ s.sent[t] > 0
  BY DEF RequestDone
<1> HIDE DEF r
<1>4. /\ x \in State /\ StateInv(x) /\ Kept(r, x) /\ SameReads(r, x)
      /\ r.pending \/ r.requested => x.pending \/ x.requested
  BY <1>2, <1>3, FinishRequestKeeps
<1> HIDE DEF x
<1>5. SameReads(s, x) /\ Kept(s, x)
  BY <1>2, <1>4 DEF SameReads, Kept
<1>6. SettleInv(x)
  BY <1>1, <1>2, <1>4, <1>5, SettleCarries
<1>7. QED  BY <1>3, <1>4, <1>5, <1>6, KeptInOne DEF SameReads

LEMMA DeleteDoneStep ==
  ASSUME Inv, NEW h \in History, NEW more \in BOOLEAN,
         NEW by \in {"none", "entry", "page"}, DeleteDone(h, more, by)
  PROVE  Inv' /\ StepKept
<1> DEFINE s == hist[h]
           q == IF more THEN sendRequest(s, "Delete") ELSE s
           d == finish(q, "Delete")
           x == requestChatListMessage(d, by)
<1>1. s \in State /\ StateInv(s) /\ SettleInv(s)
  BY HistFacts
<1>2. /\ hist' = [hist EXCEPT ![h] = x]
      /\ posted' = PostedAfter(hist')
      /\ UNCHANGED <<readTimer, batches, todo>>
      /\ s.sent["Delete"] > 0
  BY DEF DeleteDone
<1>3. /\ q \in State /\ StateInv(q) /\ SameReads(s, q) /\ Kept(s, q)
      /\ q.pending = s.pending /\ q.requested = s.requested
  BY <1>1, SendRequestKeeps DEF SameReads, Kept, AllTypes
<1>4. q.sent["Delete"] > 0
  BY <1>1, <1>2, <1>3, SendRequestKeeps DEF State, AllTypes
<1> HIDE DEF q
<1>5. /\ d \in State /\ StateInv(d) /\ Kept(q, d) /\ SameReads(q, d)
      /\ q.pending \/ q.requested => d.pending \/ d.requested
  BY <1>3, <1>4, FinishRequestKeeps DEF AllTypes
<1> HIDE DEF d
<1>6. /\ x \in State /\ StateInv(x) /\ Kept(d, x) /\ SameReads(d, x)
      /\ d.pending \/ d.requested => x.pending \/ x.requested
  <2>1. CASE by = "entry"
    BY <1>5, <2>1, RequestEntryKeeps DEF requestChatListMessage
  <2>2. CASE by = "page"
    BY <1>5, <2>2, SendRequestKeeps DEF requestChatListMessage, AllTypes
  <2>3. CASE by = "none"
    BY <1>5, <2>3 DEF requestChatListMessage, Kept, SameReads
  <2>4. QED  BY <2>1, <2>2, <2>3
<1> HIDE DEF x
<1>7. SameReads(s, x) /\ Kept(s, x)
  BY <1>3, <1>5, <1>6 DEF SameReads, Kept
<1>8. SettleInv(x)
  BY <1>1, <1>3, <1>5, <1>6, <1>7, SettleCarries
<1>9. QED  BY <1>2, <1>6, <1>7, <1>8, KeptInOne DEF SameReads

(* Steps that send reads. *)

LEMMA SoundHist ==
  ASSUME Inv
  PROVE  Sound(hist) /\ readTimer \in BOOLEAN /\ posted \in BOOLEAN
BY DEF Inv, TypeOK, Sound

LEMMA CarriedTogether ==
  ASSUME Inv, Sound(hist'), \A g \in History : Carried(hist[g], hist'[g]),
         readTimer' \in BOOLEAN,
         \A g \in History : hist'[g].willReadTill # 0 => readTimer',
         UNCHANGED <<posted, batches, todo>>
  PROVE  Inv' /\ StepKept
<1>1. StepKept
  BY DEF StepKept, Carried
<1>2. \A g \in History : SettleInv(hist'[g])
  <2>1. \A g \in History : SettleInv(hist[g])
    BY DEF Inv
  <2>2. QED  BY <2>1 DEF Carried
<1>3. posted' \in BOOLEAN
  BY SoundHist
<1>4. \A g \in History : hist'[g].pending => posted'
  <2>1. \A g \in History : hist[g].pending => posted
    BY DEF Inv
  <2>2. QED  BY <2>1 DEF Carried
<1>5. QED  BY <1>1, <1>2, <1>3, <1>4, KeptTogether

LEMMA ReadStep ==
  ASSUME Inv, NEW h \in History, NEW till \in Nat, NEW force \in BOOLEAN,
         NEW still, NEW due, Read(h, till, force, still, due)
  PROVE  Inv' /\ StepKept
<1>1. /\ Sound(hist')
      /\ readTimer' \in BOOLEAN
      /\ \A g \in History : Carried(hist[g], hist'[g])
      /\ \A g \in History : hist'[g].willReadTill # 0 => readTimer'
  <2>1. /\ hist' = readInboxTill(hist, h, till, force, still, due)
        /\ readTimer' = readInboxTillTimer(hist, h, till, force, still, due)
    BY DEF Read
  <2>2. /\ Sound(hist) /\ readTimer \in BOOLEAN
        /\ \A g \in History : hist[g].willReadTill # 0 => readTimer
    BY SoundHist DEF Inv
  <2>3. QED  BY <2>1, <2>2, ReadInboxTillKeeps
<1>2. UNCHANGED <<posted, batches, todo>>
  BY DEF Read
<1>3. QED  BY <1>1, <1>2, CarriedTogether

LEMMA SendReadsStep ==
  ASSUME Inv, NEW due, hist' = sendReadRequests(hist, due),
         readTimer' = ReadTimerAfter(hist, due),
         UNCHANGED <<posted, batches, todo>>
  PROVE  Inv' /\ StepKept
<1>1. /\ Sound(hist')
      /\ \A g \in History : Carried(hist[g], hist'[g])
      /\ \A g \in History : hist'[g].willReadTill # 0 => readTimer'
  BY SoundHist, SendReadsKeep
<1>2. readTimer' \in BOOLEAN
  BY DEF ReadTimerAfter
<1>3. QED  BY <1>1, <1>2, CarriedTogether

(* The finish callback of a read. *)
LEMMA FinishReadKeeps ==
  ASSUME NEW s \in State, StateInv(s), NEW till
  PROVE  /\ finishRead(s, till) \in State
         /\ StateInv(finishRead(s, till))
         /\ Kept(s, finishRead(s, till))
         /\ finishRead(s, till).reading = s.reading \ {till}
         /\ finishRead(s, till).willReadTill = s.willReadTill
         /\ finishRead(s, till).sentReadTill = s.sentReadTill
         /\ finishRead(s, till).sentReadDone = s.sentReadDone
         /\ s.pending \/ s.requested =>
              finishRead(s, till).pending \/ finishRead(s, till).requested
<1> DEFINE c == [s EXCEPT !.reading = @ \ {till}]
<1>1. /\ c \in State /\ SameEntry(s, c) /\ c.sent = s.sent
      /\ c.postponed = s.postponed /\ c.reading = s.reading \ {till}
      /\ c.willReadTill = s.willReadTill /\ c.sentReadTill = s.sentReadTill
      /\ c.sentReadDone = s.sentReadDone /\ c.readBefore = s.readBefore
      /\ c.wanted = s.wanted /\ c.asked = s.asked
  BY DEF State, SameEntry
<1>2. finishRead(s, till) = finishSentRequest(c)
  BY DEF finishRead
<1> HIDE DEF c
<1>3. Removing(c)
  BY <1>1 DEF StateInv, PagesInv, ReadsInv, EntryInv, Removing, SameEntry,
       postponeHistoryRequest, postponeEntryRequest
<1>4. QED
  BY <1>1, <1>2, <1>3, FinishKeeps DEF Kept, SameReads, SameEntry

LEMMA ReadDoneStep ==
  ASSUME Inv, NEW h \in History, NEW till \in Nat, NEW refresh \in BOOLEAN,
         NEW due, ReadDone(h, till, refresh, due)
  PROVE  Inv' /\ StepKept
<1> DEFINE s == hist[h]
           q == readDone(s, till, refresh)
           r == [hist EXCEPT ![h] = q]
           S == sendReadRequests(r, due)
           x == finishRead(S[h], till)
<1>1. /\ Sound(hist) /\ hist \in [History -> State]
      /\ s \in State /\ StateInv(s) /\ SettleInv(s)
  BY SoundHist, HistFacts DEF Sound
<1>2. /\ till \in s.reading
      /\ till + 1 > s.readBefore => refresh
      /\ hist' = [S EXCEPT ![h] = x]
      /\ readTimer' = ReadTimerAfter(r, due)
      /\ posted' = PostedAfter(hist')
      /\ UNCHANGED <<batches, todo>>
  BY DEF ReadDone
<1>3. /\ q \in State /\ StateInv(q) /\ Kept(s, q) /\ q.asked = s.asked
      /\ q.reading = s.reading /\ SettleInv(q)
      /\ q.sentReadTill = till =>
           till = 0 \/ (q.sentReadDone /\ (q.pending \/ q.requested))
  BY <1>1, <1>2, ReadDoneKeeps
<1> HIDE DEF q
<1>4. /\ r[h] = q /\ \A g \in History : g # h => r[g] = hist[g]
      /\ Sound(r)
  BY <1>1, <1>3 DEF Sound
<1> HIDE DEF r
<1>5. /\ Sound(S)
      /\ \A g \in History :
           /\ Carried(r[g], S[g])
           /\ S[g].willReadTill # 0 => readTimer'
           /\ \/ S[g] = r[g]
              \/ r[g].willReadTill # 0 /\ S[g] = sendReadRequest(r[g])
  BY <1>2, <1>4, SendReadsKeep
<1> HIDE DEF S
<1>6. S \in [History -> State] /\ S[h] \in State /\ StateInv(S[h])
  BY <1>5 DEF Sound
<1>7. /\ x \in State /\ StateInv(x) /\ Kept(S[h], x)
      /\ x.reading = S[h].reading \ {till}
      /\ x.willReadTill = S[h].willReadTill
      /\ x.sentReadTill = S[h].sentReadTill
      /\ x.sentReadDone = S[h].sentReadDone
      /\ S[h].pending \/ S[h].requested => x.pending \/ x.requested
  BY <1>6, FinishReadKeeps
<1> HIDE DEF x
<1>8. hist'[h] = x /\ \A g \in History : g # h => hist'[g] = S[g]
  BY <1>2, <1>6
<1>9. Sound(hist')
  BY <1>2, <1>5, <1>6, <1>7, <1>8 DEF Sound
<1>10. SettleInv(x)
  <2>1. CASE S[h] = r[h]
    BY <1>3, <1>4, <1>7, <2>1 DEF SettleInv
  <2>2. CASE r[h].willReadTill # 0 /\ S[h] = sendReadRequest(r[h])
    <3>1. /\ S[h].sentReadTill = q.willReadTill
          /\ S[h].reading = q.reading \cup {q.willReadTill}
          /\ q.willReadTill > q.asked
      BY <1>3, <1>4, <2>2, SendReadKeeps
    <3>2. till <= q.asked
      BY <1>2, <1>3 DEF StateInv, ReadsInv
    <3>3. q.willReadTill # till
      BY <1>3, <3>1, <3>2 DEF State
    <3>4. QED  BY <1>7, <3>1, <3>3 DEF SettleInv
  <2>3. QED  BY <1>5, <2>1, <2>2
<1>11. StepKept
  BY <1>3, <1>4, <1>5, <1>7, <1>8 DEF StepKept, Carried, Kept, Forward
<1>12. \A g \in History : SettleInv(hist'[g])
  <2>1. \A g \in History : SettleInv(hist[g])
    BY DEF Inv
  <2>2. ASSUME NEW g \in History, g # h  PROVE SettleInv(hist'[g])
    BY <1>4, <1>5, <1>8, <2>1, <2>2 DEF Carried
  <2>3. QED  BY <1>8, <1>10, <2>2
<1>13. /\ readTimer' \in BOOLEAN
       /\ \A g \in History : hist'[g].willReadTill # 0 => readTimer'
  BY <1>2, <1>5, <1>7, <1>8 DEF ReadTimerAfter
<1>14. /\ posted' \in BOOLEAN
       /\ \A g \in History : hist'[g].pending => posted'
  <2>1. posted \in BOOLEAN /\ \A g \in History : hist[g].pending => posted
    BY DEF Inv, TypeOK
  <2>2. QED  BY <1>2, <2>1, PostedForPending
<1>15. QED
  BY <1>2, <1>9, <1>11, <1>12, <1>13, <1>14, KeptTogether

(* Steps of the entries. *)

(* entryRequested keeps the invariant of a pending history. *)
LEMMA EntryRequestedKeeps ==
  ASSUME NEW s \in State, StateInv(s), SettleInv(s), s.pending
  PROVE  /\ entryRequested(s) \in State
         /\ StateInv(entryRequested(s))
         /\ SettleInv(entryRequested(s))
         /\ entryRequested(s).willReadTill = s.willReadTill
         /\ entryRequested(s).reading = s.reading
         /\ ~entryRequested(s).pending
         /\ postponeEntryRequest(s) => entryRequested(s).postponedRequestEntry
<1> DEFINE x == entryRequested(s)
<1>1. /\ x \in State /\ SameReads(s, x) /\ x.sent = s.sent
      /\ x.postponed = s.postponed /\ x.callback = s.callback
      /\ x.pending = FALSE /\ x.requested = TRUE
      /\ x.postponedRequestEntry =
           (s.postponedRequestEntry \/ postponeEntryRequest(s))
  BY DEF entryRequested, State, SameReads, postponeEntryRequest,
       postponeHistoryRequest
<1> HIDE DEF x
<1>2. QED
  BY <1>1 DEF x, StateInv, PagesInv, ReadsInv, EntryInv, SettleInv, SameReads,
       postponeHistoryRequest, postponeEntryRequest, State

LEMMA SendDialogsStep ==
  ASSUME Inv, sendDialogRequests
  PROVE  /\ Inv'
         /\ \A g \in History : Forward(hist[g], hist'[g])
<1> DEFINE peers == {h \in Pending(hist) : ~postponeEntryRequest(hist[h])}
<1>1. /\ hist' = [h \in History |-> IF hist[h].pending
                                      THEN entryRequested(hist[h])
                                      ELSE hist[h]]
      /\ posted' = FALSE
      /\ UNCHANGED <<readTimer, todo>>
      /\ \/ peers = {} /\ UNCHANGED batches
         \/ \E b \in BatchIds :
              batches[b] = {} /\ batches' = [batches EXCEPT ![b] = peers]
  BY DEF sendDialogRequests
<1>2. batches \in [BatchIds -> SUBSET History] /\ peers \in SUBSET History
  BY DEF Inv, TypeOK, Pending
<1>3. ASSUME NEW g \in History
      PROVE  /\ hist'[g] \in State /\ StateInv(hist'[g]) /\ SettleInv(hist'[g])
             /\ hist'[g].willReadTill = hist[g].willReadTill
             /\ hist'[g].reading = hist[g].reading
             /\ ~hist'[g].pending
  <2>1. hist[g] \in State /\ StateInv(hist[g]) /\ SettleInv(hist[g])
    BY HistFacts
  <2>2. CASE hist[g].pending
    BY <1>1, <2>1, <2>2, EntryRequestedKeeps
  <2>3. CASE ~hist[g].pending
    BY <1>1, <2>1, <2>3
  <2>4. QED  BY <2>2, <2>3
<1>4. /\ batches' \in [BatchIds -> SUBSET History]
      /\ \A b \in BatchIds : batches[b] \subseteq batches'[b]
      /\ \A g \in peers : \E b \in BatchIds : g \in batches'[b]
  <2> HIDE DEF peers
  <2>1. CASE peers = {} /\ UNCHANGED batches
    BY <1>2, <2>1
  <2>2. ASSUME NEW b \in BatchIds, batches[b] = {},
               batches' = [batches EXCEPT ![b] = peers]
        PROVE  /\ batches' \in [BatchIds -> SUBSET History]
               /\ \A c \in BatchIds : batches[c] \subseteq batches'[c]
               /\ \A g \in peers : \E c \in BatchIds : g \in batches'[c]
    BY <1>2, <2>2
  <2>3. QED  BY <1>1, <2>1, <2>2
<1>5. TypeOK'
  <2>1. hist' \in [History -> State]
    BY <1>1, <1>3
  <2>2. QED  BY <1>1, <1>4, <2>1 DEF Inv, TypeOK
<1>6. ASSUME NEW g \in History, hist'[g].requested
      PROVE  \/ hist'[g].postponedRequestEntry
             \/ g \in todo'
             \/ \E b \in BatchIds : g \in batches'[b]
  <2>1. CASE hist[g].pending
    <3>1. hist'[g] = entryRequested(hist[g])
      BY <1>1, <2>1
    <3>2. CASE postponeEntryRequest(hist[g])
      BY <2>1, <3>1, <3>2, HistFacts, EntryRequestedKeeps
    <3>3. CASE ~postponeEntryRequest(hist[g])
      BY <1>4, <2>1, <3>3 DEF Pending
    <3>4. QED  BY <3>2, <3>3
  <2>2. CASE ~hist[g].pending
    <3>1. hist'[g] = hist[g]
      BY <1>1, <2>2
    <3>2. QED  BY <1>1, <1>4, <1>6, <3>1 DEF Inv
  <2>3. QED  BY <2>1, <2>2
<1>7. \A g \in History : hist'[g].willReadTill # 0 => readTimer'
  BY <1>1, <1>3 DEF Inv
<1>8. \A g \in History : Forward(hist[g], hist'[g])
  BY <1>3 DEF Forward
<1>9. QED  BY <1>3, <1>5, <1>6, <1>7, <1>8 DEF Inv

LEMMA DialogsDoneStep ==
  ASSUME Inv, todo = {}, NEW b \in BatchIds, PeerDialogsDone(b)
  PROVE  /\ Inv'
         /\ \A g \in History : Forward(hist[g], hist'[g])
<1>1. /\ todo' = batches[b] /\ batches' = [batches EXCEPT ![b] = {}]
      /\ UNCHANGED <<hist, readTimer, posted>>
  BY DEF PeerDialogsDone
<1>2. batches \in [BatchIds -> SUBSET History]
  BY DEF Inv, TypeOK
<1>3. TypeOK'
  BY <1>1, <1>2 DEF Inv, TypeOK
<1>4. \A g \in History : \A c \in BatchIds :
        g \in batches[c] => g \in todo' \/ g \in batches'[c]
  BY <1>1, <1>2
<1>5. ASSUME NEW g \in History, hist'[g].requested
      PROVE  \/ hist'[g].postponedRequestEntry
             \/ g \in todo'
             \/ \E c \in BatchIds : g \in batches'[c]
  BY <1>1, <1>4, <1>5 DEF Inv
<1>6. \A g \in History : Forward(hist[g], hist'[g])
  BY <1>1 DEF Forward
<1>7. QED  BY <1>1, <1>3, <1>5, <1>6 DEF Inv

(* dialogEntryApplied, for histories hs that differ from hist in what the  *)
(* entry said of h.                                                        *)
LEMMA EntryAppliedKeeps ==
  ASSUME Inv, NEW h \in History, NEW load \in BOOLEAN, NEW hs, Sound(hs),
         \A g \in History : /\ SameButRead(hist[g], hs[g])
                          /\ hs[g].willReadTill = hist[g].willReadTill,
         dialogEntryApplied(hs, h, load)
  PROVE  /\ Sound(hist')
         /\ StepKept
         /\ \A g \in History : SettleInv(hist'[g])
         /\ \A g \in History : hist'[g].pending => hist[g].pending
         /\ readTimer' \in BOOLEAN
         /\ \A g \in History : hist'[g].willReadTill # 0 => readTimer'
         /\ hist'[h].requested => hist'[h].postponedRequestEntry
<1> DEFINE l == IF load THEN sendRequest(hs[h], "History") ELSE hs[h]
           k == [l EXCEPT !.pending = FALSE, !.requested = FALSE,
                          !.callback = FALSE]
           e == [hs EXCEPT ![h] = k]
<1>1. /\ hs \in [History -> State] /\ hs[h] \in State /\ StateInv(hs[h])
      /\ readTimer \in BOOLEAN
  BY SoundHist DEF Sound
<1>2. \A g \in History : SettleInv(hist[g])
  BY DEF Inv
<1>3. \A g \in History : SettleInv(hs[g])
  BY <1>2 DEF SettleInv, SameButRead, SameEntry
<1>4. \A g \in History : hs[g].willReadTill # 0 => readTimer
  BY DEF Inv
<1>5. \A g \in History : /\ hs[g].reading = hist[g].reading
                       /\ hs[g].asked = hist[g].asked
                       /\ Kept(hist[g], hs[g])
                       /\ hs[g].pending = hist[g].pending
                       /\ Forward(hist[g], hs[g])
  BY DEF SameButRead, SameEntry, Kept, Forward
<1>6. CASE hs[h].postponedRequestEntry /\ hist' = hs /\ UNCHANGED readTimer
  BY <1>1, <1>3, <1>4, <1>5, <1>6 DEF StepKept
<1>7. ASSUME ~hs[h].postponedRequestEntry
      PROVE  /\ Sound(e)
             /\ \A g \in History : Kept(hs[g], e[g])
             /\ \A g \in History : e[g].reading = hs[g].reading
             /\ \A g \in History : e[g].asked = hs[g].asked
             /\ \A g \in History : e[g].willReadTill = hs[g].willReadTill
             /\ \A g \in History : Answered(e[g])
             /\ \A g \in History : e[g].pending => hs[g].pending
             /\ \A g \in History : g # h => SettleInv(e[g])
             /\ ~e[h].requested
  <2>1. /\ l \in State /\ StateInv(l) /\ SameReads(hs[h], l)
        /\ l.requested = hs[h].requested
    BY <1>1, SendRequestKeeps DEF SameReads, AllTypes
  <2>2. l.postponedRequestEntry => hs[h].postponedRequestEntry
    <3>1. CASE load
      BY <1>1, <3>1, PageLeavesEntry
    <3>2. QED  BY <3>1
  <2> HIDE DEF l
  <2>3. /\ k \in State /\ SameReads(l, k) /\ k.sent = l.sent
        /\ k.postponed = l.postponed /\ ~k.pending /\ ~k.requested
        /\ ~k.callback /\ k.postponedRequestEntry = l.postponedRequestEntry
    BY <2>1 DEF State, SameReads
  <2> HIDE DEF k
  <2>4. StateInv(k)
    BY <1>7, <2>1, <2>2, <2>3 DEF StateInv, PagesInv, ReadsInv, EntryInv,
         SameReads, postponeHistoryRequest
  <2>5. Answered(k)
    BY <1>3, <2>1, <2>3 DEF Answered, SettleInv, SameReads
  <2>6. e[h] = k /\ \A g \in History : g # h => e[g] = hs[g]
    BY <1>1
  <2>7. Sound(e)
    BY <1>1, <2>3, <2>4, <2>6 DEF Sound
  <2> HIDE DEF e
  <2>8. \A g \in History : Answered(hs[g])
    BY <1>3 DEF Answered, SettleInv
  <2>9. QED
    BY <1>3, <2>1, <2>3, <2>5, <2>6, <2>7, <2>8 DEF Kept, SameReads
<1>8. CASE /\ ~hs[h].postponedRequestEntry
           /\ hist' = [e EXCEPT ![h] = settleRead(@)]
           /\ UNCHANGED readTimer
  <2> HIDE DEF e
  <2>1. /\ Sound(e) /\ ~e[h].requested /\ e \in [History -> State]
        /\ e[h] \in State /\ StateInv(e[h]) /\ Answered(e[h])
    BY <1>7, <1>8 DEF Sound
  <2>2. /\ settleRead(e[h]) \in State /\ StateInv(settleRead(e[h]))
        /\ SettleInv(settleRead(e[h])) /\ SameEntry(e[h], settleRead(e[h]))
        /\ settleRead(e[h]).willReadTill = e[h].willReadTill
        /\ settleRead(e[h]).reading = e[h].reading
    BY <2>1, SettleKeeps DEF Answered
  <2>3. /\ hist'[h] = settleRead(e[h])
        /\ \A g \in History : g # h => hist'[g] = e[g]
    BY <1>8, <2>1
  <2>4. Sound(hist')
    BY <1>8, <2>1, <2>2, <2>3 DEF Sound
  <2>5. StepKept
    BY <1>5, <1>7, <1>8, <2>2, <2>3 DEF StepKept, Kept, Forward, SameEntry
  <2>6. \A g \in History : SettleInv(hist'[g])
    BY <1>7, <1>8, <2>2, <2>3
  <2>7. /\ \A g \in History : hist'[g].pending => hist[g].pending
        /\ ~hist'[h].requested
    BY <1>5, <1>7, <1>8, <2>2, <2>3 DEF SameEntry
  <2>8. \A g \in History : hist'[g].willReadTill # 0 => readTimer'
    BY <1>4, <1>7, <1>8, <2>2, <2>3
  <2>9. QED  BY <1>1, <1>8, <2>4, <2>5, <2>6, <2>7, <2>8
<1>9. ASSUME ~hs[h].postponedRequestEntry,
             NEW till \in Ids, NEW still, NEW due,
             hist' = [readInboxTill(e, h, till, FALSE, still, due)
                        EXCEPT ![h] = settleRead(@)],
             readTimer' = readInboxTillTimer(e, h, till, FALSE, still, due)
      PROVE  /\ Sound(hist')
             /\ StepKept
             /\ \A g \in History : SettleInv(hist'[g])
             /\ \A g \in History : hist'[g].pending => hist[g].pending
             /\ readTimer' \in BOOLEAN
             /\ \A g \in History : hist'[g].willReadTill # 0 => readTimer'
             /\ hist'[h].requested => hist'[h].postponedRequestEntry
  <2> DEFINE force == FALSE
             x == readInboxTill(e, h, till, force, still, due)
             t == readInboxTillTimer(e, h, till, force, still, due)
  <2>1. till \in Nat
    BY HistoriesAssumption DEF Ids
  <2> HIDE DEF e
  <2>2. Sound(e) /\ \A g \in History : e[g].willReadTill # 0 => readTimer
    BY <1>4, <1>7, <1>9
  <2>3. /\ Sound(x)
        /\ readTimer' \in BOOLEAN
        /\ \A g \in History : Carried(e[g], x[g])
        /\ \A g \in History : x[g].willReadTill # 0 => readTimer'
    <3>1. readTimer \in BOOLEAN /\ force \in BOOLEAN
      BY <1>1
    <3>2. readTimer' = t
      BY <1>9
    <3> HIDE DEF force, t
    <3>3. QED  BY <2>1, <2>2, <3>1, <3>2, ReadInboxTillKeeps DEF t
  <2>4. hist' = [x EXCEPT ![h] = settleRead(x[h])]
    BY <1>9
  <2> HIDE DEF x
  <2>5. /\ \A g \in History : Kept(hist[g], x[g])
        /\ \A g \in History : Forward(hist[g], x[g])
        /\ \A g \in History : Answered(x[g])
        /\ \A g \in History : x[g].pending => hist[g].pending
        /\ \A g \in History : g # h => SettleInv(x[g])
        /\ ~x[h].requested
    <3>1. ASSUME NEW g \in History
          PROVE  /\ Kept(hist[g], x[g]) /\ Forward(hist[g], x[g])
                 /\ Answered(x[g])
                 /\ x[g].pending => hist[g].pending
                 /\ g # h => SettleInv(x[g])
                 /\ x[g].requested = e[g].requested
      <4>1. /\ Kept(hs[g], e[g]) /\ e[g].reading = hs[g].reading
            /\ e[g].asked = hs[g].asked /\ Answered(e[g])
            /\ e[g].pending => hs[g].pending
            /\ g # h => SettleInv(e[g])
        BY <1>7, <1>9, <3>1
      <4>2. /\ hs[g].reading = hist[g].reading /\ hs[g].asked = hist[g].asked
            /\ Kept(hist[g], hs[g]) /\ hs[g].pending = hist[g].pending
        BY <1>5, <3>1
      <4>3. Carried(e[g], x[g])
        BY <2>3, <3>1
      <4>4. QED  BY <4>1, <4>2, <4>3 DEF Carried, Kept, Forward
    <3>2. ~e[h].requested
      BY <1>7, <1>9
    <3>3. QED  BY <3>1, <3>2
  <2>6. /\ x \in [History -> State] /\ x[h] \in State /\ StateInv(x[h])
    BY <2>3 DEF Sound
  <2>7. /\ settleRead(x[h]) \in State /\ StateInv(settleRead(x[h]))
        /\ SettleInv(settleRead(x[h])) /\ SameEntry(x[h], settleRead(x[h]))
        /\ settleRead(x[h]).willReadTill = x[h].willReadTill
        /\ settleRead(x[h]).reading = x[h].reading
    BY <2>5, <2>6, SettleKeeps DEF Answered
  <2>8. /\ hist'[h] = settleRead(x[h])
        /\ \A g \in History : g # h => hist'[g] = x[g]
    BY <2>4, <2>6
  <2>9. Sound(hist')
    BY <2>3, <2>4, <2>6, <2>7, <2>8 DEF Sound
  <2>10. StepKept
    BY <2>5, <2>7, <2>8 DEF StepKept, Kept, Forward, SameEntry
  <2>11. \A g \in History : SettleInv(hist'[g])
    BY <2>5, <2>7, <2>8
  <2>12. /\ \A g \in History : hist'[g].pending => hist[g].pending
         /\ ~hist'[h].requested
    BY <2>5, <2>7, <2>8 DEF SameEntry
  <2>13. \A g \in History : hist'[g].willReadTill # 0 => readTimer'
    BY <2>3, <2>7, <2>8
  <2>14. QED  BY <2>3, <2>9, <2>10, <2>11, <2>12, <2>13
<1>10. QED
  BY <1>6, <1>8, <1>9 DEF dialogEntryApplied

(* An entry is applied, from a page of the chat list or from a batch.  An  *)
(* entry of a batch that is not put off is in no map after it, so it may   *)
(* leave todo.                                                             *)
LEMMA ApplyEntryStep ==
  ASSUME Inv, NEW h \in History, NEW entry \in BOOLEAN, NEW load \in BOOLEAN,
         ApplyEntry(h, entry, load), todo' = todo \/ todo' = todo \ {h}
  PROVE  Inv' /\ StepKept
<1>1. hist[h] \in State /\ StateInv(hist[h]) /\ Sound(hist)
  BY HistFacts, SoundHist
<1>2. UNCHANGED <<posted, batches>>
  BY DEF ApplyEntry
<1>3. PICK hs : /\ Sound(hs)
                /\ \A g \in History : SameButRead(hist[g], hs[g])
                /\ \A g \in History : hs[g].willReadTill = hist[g].willReadTill
                /\ dialogEntryApplied(hs, h, load)
  <2>1. CASE dialogEntryApplied(hist, h, load)
    <3>1. \A g \in History : SameButRead(hist[g], hist[g])
      BY DEF SameButRead, SameEntry
    <3>2. QED  BY <1>1, <2>1, <3>1
  <2>2. ASSUME NEW read \in Ids, NEW hs,
               hs = [hist EXCEPT ![h] = applyDialogFields(hist[h], read)],
               dialogEntryApplied(hs, h, load)
        PROVE  /\ Sound(hs)
               /\ \A g \in History : SameButRead(hist[g], hs[g])
               /\ \A g \in History : hs[g].willReadTill = hist[g].willReadTill
    <3> DEFINE x == applyDialogFields(hist[h], read)
    <3>1. read \in Nat
      BY HistoriesAssumption DEF Ids
    <3>2. /\ x \in State /\ StateInv(x) /\ SameButRead(hist[h], x)
          /\ x.willReadTill = hist[h].willReadTill
      BY <1>1, <3>1, FieldsKeep
    <3>3. hs = [hist EXCEPT ![h] = x]
      BY <2>2
    <3> HIDE DEF x
    <3>4. /\ hs \in [History -> State] /\ hs[h] = x
          /\ \A g \in History : g # h => hs[g] = hist[g]
      BY <1>1, <3>2, <3>3 DEF Sound
    <3>5. Sound(hs)
      BY <1>1, <3>2, <3>4 DEF Sound
    <3>6. \A g \in History : SameButRead(hist[g], hs[g])
      BY <3>2, <3>4 DEF SameButRead, SameEntry
    <3>7. QED  BY <3>2, <3>4, <3>5, <3>6
  <2>3. \/ dialogEntryApplied(hist, h, load)
        \/ \E read \in Ids :
             dialogEntryApplied(
               [hist EXCEPT ![h] = applyDialogFields(hist[h], read)], h, load)
    BY DEF ApplyEntry
  <2>4. QED  BY <2>1, <2>2, <2>3
<1>4. \A g \in History : /\ SameButRead(hist[g], hs[g])
                         /\ hs[g].willReadTill = hist[g].willReadTill
  BY <1>3
<1>5. /\ Sound(hist')
      /\ StepKept
      /\ \A g \in History : SettleInv(hist'[g])
      /\ \A g \in History : hist'[g].pending => hist[g].pending
      /\ readTimer' \in BOOLEAN
      /\ \A g \in History : hist'[g].willReadTill # 0 => readTimer'
      /\ hist'[h].requested => hist'[h].postponedRequestEntry
  BY <1>3, <1>4, EntryAppliedKeeps
<1>6. TypeOK'
  BY <1>2, <1>5 DEF Inv, TypeOK, Sound
<1>7. \A g \in History : hist'[g].pending => posted'
  BY <1>2, <1>5 DEF Inv
<1>8. ASSUME NEW g \in History, hist'[g].requested
      PROVE  \/ hist'[g].postponedRequestEntry
             \/ g \in todo'
             \/ \E b \in BatchIds : g \in batches'[b]
  <2>1. CASE g = h
    BY <1>5, <1>8, <2>1
  <2>2. CASE g # h
    <3>1. /\ hist[g].requested
          /\ hist[g].postponedRequestEntry => hist'[g].postponedRequestEntry
      BY <1>5, <1>8 DEF StepKept, Kept
    <3>2. \/ hist[g].postponedRequestEntry
          \/ g \in todo
          \/ \E b \in BatchIds : g \in batches[b]
      BY <3>1 DEF Inv
    <3>3. QED  BY <1>2, <2>2, <3>1, <3>2
  <2>3. QED  BY <2>1, <2>2
<1>9. QED  BY <1>5, <1>6, <1>7, <1>8 DEF Inv, Sound
-----------------------------------------------------------------------------
(* The theorems. *)

LEMMA InitInv ==
  ASSUME Init
  PROVE  Inv
<1>1. NewState \in State
  BY DEF NewState, State
<1>2. StateInv(NewState) /\ SettleInv(NewState)
  BY DEF NewState, StateInv, PagesInv, ReadsInv, EntryInv, SettleInv, Larger,
       postponeHistoryRequest, postponeEntryRequest, AllTypes
<1>3. \A h \in History : hist[h] = NewState
  BY DEF Init
<1>4. ~NewState.pending /\ ~NewState.requested /\ NewState.willReadTill = 0
  BY DEF NewState
<1>5. TypeOK
  BY <1>1 DEF Init, TypeOK
<1>6. QED  BY <1>2, <1>3, <1>4, <1>5 DEF Inv

(* What every step keeps: the invariant, and the order of the reads. *)
LEMMA NextStep ==
  ASSUME Inv, Next
  PROVE  Inv' /\ \A g \in History : Forward(hist[g], hist'[g])
<1> USE DEF StepKept
<1>1. Ids \subseteq Nat
  BY HistoriesAssumption DEF Ids
<1>2. CASE todo = {} /\ UserStep
  <2>1. PICK h \in History :
          \/ \E t \in AllTypes : Request(h, t)
          \/ \E till \in Ids, force \in BOOLEAN, still \in StillUnread,
                due \in SUBSET Waiting(hist) :
               (force => till # 0) /\ Read(h, till, force, still, due)
          \/ \E withCallback \in BOOLEAN : WantEntry(h, withCallback)
          \/ \E due \in SUBSET Waiting(hist) : sendPendingReadInbox(h, due)
          \/ cancelRequest(h)
          \/ \E upTo \in Ids, entry \in BOOLEAN :
               applyInboxReadUpdate(h, upTo, entry)
    BY <1>2 DEF UserStep
  <2>2. CASE \E t \in AllTypes : Request(h, t)
    BY <2>2, RequestStep
  <2>3. CASE \E till \in Ids, force \in BOOLEAN, still \in StillUnread,
                due \in SUBSET Waiting(hist) :
               (force => till # 0) /\ Read(h, till, force, still, due)
    BY <1>1, <2>3, ReadStep
  <2>4. CASE \E withCallback \in BOOLEAN : WantEntry(h, withCallback)
    BY <2>4, WantEntryStep
  <2>5. CASE \E due \in SUBSET Waiting(hist) : sendPendingReadInbox(h, due)
    BY <2>5, SendReadsStep DEF sendPendingReadInbox
  <2>6. CASE cancelRequest(h)
    BY <2>6, CancelStep
  <2>7. CASE \E upTo \in Ids, entry \in BOOLEAN :
               applyInboxReadUpdate(h, upTo, entry)
    BY <1>1, <2>7, ReadUpdateStep
  <2>8. QED  BY <2>1, <2>2, <2>3, <2>4, <2>5, <2>6, <2>7
<1>3. ASSUME todo = {}, NEW h \in History,
             \E t \in AllTypes, entry \in BOOLEAN : RequestDone(h, t, entry)
      PROVE  Inv' /\ StepKept
  BY <1>3, RequestDoneStep
<1>4. ASSUME todo = {}, NEW h \in History,
             \E more \in BOOLEAN, by \in {"none", "entry", "page"} :
               DeleteDone(h, more, by)
      PROVE  Inv' /\ StepKept
  BY <1>4, DeleteDoneStep
<1>5. ASSUME todo = {}, NEW h \in History, AnyReadDone(h)
      PROVE  Inv' /\ StepKept
  BY <1>1, <1>5, ReadDoneStep DEF AnyReadDone
<1>6. ASSUME todo = {}, NEW h \in History, PageEntry(h)
      PROVE  Inv' /\ StepKept
  BY <1>6, ApplyEntryStep DEF PageEntry
<1>7. CASE todo = {} /\ \E due \in SUBSET Waiting(hist) : ReadRequestsTimer(due)
  BY <1>7, SendReadsStep DEF ReadRequestsTimer
<1>8. CASE todo = {} /\ sendDialogRequests
  BY <1>8, SendDialogsStep
<1>9. CASE todo = {} /\ \E b \in BatchIds : PeerDialogsDone(b)
  BY <1>9, DialogsDoneStep
<1>10. ASSUME NEW h \in todo, BatchEntry(h)
       PROVE  Inv' /\ StepKept
  <2>1. h \in History
    BY DEF Inv, TypeOK
  <2>2. QED  BY <1>10, <2>1, ApplyEntryStep DEF BatchEntry
<1>11. QED
  BY <1>2, <1>3, <1>4, <1>5, <1>6, <1>7, <1>8, <1>9, <1>10 DEF Next, Step

(* The invariant the properties of the runs rest on holds in every         *)
(* reachable state, for any number of histories, requests and messages.    *)
THEOREM HistoriesInvariance == Spec => []Inv
<1>1. Init => Inv
  BY InitInv
<1>2. Inv /\ [Next]_vars => Inv'
  <2>1. ASSUME Inv, UNCHANGED vars  PROVE Inv'
    BY <2>1 DEF vars, Inv, TypeOK
  <2>2. QED  BY <2>1, NextStep
<1>3. QED  BY <1>1, <1>2, PTL DEF Spec

(* Types: every history's state stays one, whatever is sent and answered.  *)
THEOREM HistoriesTyped == Spec => []TypeOK
<1>1. Inv => TypeOK
  BY DEF Inv
<1>2. QED  BY <1>1, HistoriesInvariance, PTL

(* No page of history is loaded while messages are deleted, and none that  *)
(* was put off by sendRequest is forgotten when the last Delete is over.   *)
THEOREM PagesWait == Spec => []PagesWaitForDeletes
<1>1. Inv => PagesWaitForDeletes
  BY DEF Inv, StateInv, PagesInv, PagesWaitForDeletes
<1>2. QED  BY <1>1, HistoriesInvariance, PTL

(* The Expects and the Assert of sendReadRequest never fail: what will be  *)
(* read is past what was sent, answers are for nothing past it.            *)
THEOREM ReadsAreInOrder == Spec => []ReadsInOrder
<1>1. Inv => ReadsInOrder
  <2> SUFFICES ASSUME Inv, NEW h \in History
               PROVE  /\ hist[h].willReadTill # 0 =>
                           hist[h].willReadTill > hist[h].sentReadTill
                      /\ hist[h].sentReadTill # 0 =>
                           \A t \in hist[h].reading : t <= hist[h].sentReadTill
    BY DEF ReadsInOrder
  <2>1. hist[h] \in State /\ ReadsInv(hist[h])
    BY HistFacts DEF StateInv
  <2>2. QED  BY <2>1 DEF ReadsInv, State
<1>2. QED  BY <1>1, HistoriesInvariance, PTL

(* A message that readInboxTill had to mark as read is covered by a        *)
(* request that was sent, or one is waiting and the timer runs.            *)
THEOREM ReadsAreNotLost == Spec => []ReadNotLost
<1>1. Inv => ReadNotLost
  BY DEF Inv, StateInv, ReadsInv, ReadNotLost
<1>2. QED  BY <1>1, HistoriesInvariance, PTL

(* sentReadTill is held only while its answer or the entry that settles it *)
(* is to come.                                                             *)
THEOREM SentReadsSettle == Spec => []SentReadSettles
<1>1. Inv => SentReadSettles
  BY DEF Inv, SettleInv, SentReadSettles
<1>2. QED  BY <1>1, HistoriesInvariance, PTL

(* The two Asserts of finishSentRequest never fail. *)
THEOREM EntriesInOneMap == Spec => []EntryInOneMap
<1>1. Inv => EntryInOneMap
  BY DEF Inv, StateInv, EntryInv, EntryInOneMap
<1>2. QED  BY <1>1, HistoriesInvariance, PTL

(* The program is not stopped by an Expects or Assert of its reads or of   *)
(* its entries.                                                            *)
THEOREM AssertsAlwaysHold == Spec => []AssertsHold
BY ReadsAreInOrder, EntriesInOneMap, PTL DEF AssertsHold

(* An entry that is wanted is posted, put off by a request in flight, in a *)
(* batch or in the answer that is processed.                               *)
THEOREM EntriesAwaited == Spec => []EntryAwaited
<1>1. Inv => EntryAwaited
  BY DEF Inv, StateInv, EntryInv, EntryAwaited
<1>2. QED  BY <1>1, HistoriesInvariance, PTL

(* Read requests go to the server in the order of their messages. *)
THEOREM ReadsGoForward == Spec => ReadsOnlyForward
<1>1. Inv /\ [Next]_vars =>
        [\A h \in History :
           \A t \in hist'[h].reading \ hist[h].reading : t > hist[h].asked]_vars
  BY NextStep DEF Forward
<1>2. QED  BY <1>1, HistoriesInvariance, PTL DEF Spec, ReadsOnlyForward
=============================================================================
