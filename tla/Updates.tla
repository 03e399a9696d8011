------------------------------- MODULE Updates -------------------------------
(***************************************************************************)
(* Api::Updates: how the client keeps up with the server's streams of      *)
(* numbered updates.  There is one common box, and one box per channel.    *)
(* Updates are pushed (and may be lost or overtake each other), come back  *)
(* as results of the client's own requests, or are fetched with            *)
(* updates.getDifference / updates.getChannelDifference when a waiter      *)
(* (module PtsWaiter) noticed a gap.                                       *)
(*                                                                         *)
(* The record box[b] is a waiter with three more fields:                   *)
(*   afterFail  the box has a deadline in _whenGetDiffAfterFail (common    *)
(*              box: _getDifferenceTimeAfterFail is not 0)                 *)
(*   request    the state, asked, done or failed request for a difference  *)
(*   reply      what a request in state "done" or "tooLong" brings         *)
(* Deadlines carry no time: a timer that is armed may fire at any moment.  *)
(*                                                                         *)
(* history:  applied[b], the points of the stream the client has applied;  *)
(*           base[b], the point from which it follows the stream (earlier  *)
(*           updates are in the dialogs and histories it loads).           *)
(***************************************************************************)
EXTENDS PtsWaiter, FiniteSets

CONSTANTS
  Common,      \* the box of the account: PtsWaiter Updates::_ptsWaiter
  Channels,    \* the channels, each with ChannelData::_ptsWaiter
  Counts,      \* the values of pts_count the server uses
  MaxPoints    \* bound: the points the server gives out, over all boxes

ASSUME UpdatesAssumption ==
  /\ Common \notin Channels
  /\ Counts \subseteq Nat
  /\ MaxPoints \in Nat

Boxes == {Common} \cup Channels

VARIABLES
  box,         \* [Boxes -> waiter, deadlines and request]
  loaded,      \* the channels Data::Session knows enough of (channelLoaded)
  active,      \* the channels some window shows: _activeChats
  minChannel,  \* _byMinChannelTimer is active
  serverPts,   \* server: the last pts of the box
  log,         \* server: the values pts took in the box
  net,         \* messages on the way to the client
  applied, base

vars == <<box, loaded, active, minChannel, serverPts, log, net,
          applied, base>>

Update == [pts : Nat, count : Nat]

Reply == [upto : Nat, final : BOOLEAN]

BoxType ==
  [good : Nat, last : Nat, count : Nat,
   requesting : BOOLEAN, waitingForSkipped : BOOLEAN,
   waitingForShortPoll : BOOLEAN, queue : SUBSET Update,
   byPts : BOOLEAN, seen : SUBSET Nat,
   afterFail : BOOLEAN,
   request : {"none", "state", "asked", "done", "tooLong", "failed"},
   reply : Reply]

(* Where a message comes from: pushed by the server; the Updates a request *)
(* returned; the pts and pts_count (affectedMessages, affectedHistory) a   *)
(* request returned.                                                       *)
Kinds == {"push", "result", "affected"}

Message == [box : Boxes, update : Update, kind : Kinds]

NoReply == [upto |-> 0, final |-> TRUE]

-----------------------------------------------------------------------------
(* The waiter of a box that is not known yet.  The common box starts with  *)
(* updates.getState on its way.                                            *)
NewBox ==
  [good |-> 0, last |-> 0, count |-> 0,
   requesting |-> FALSE, waitingForSkipped |-> FALSE,
   waitingForShortPoll |-> FALSE, queue |-> {},
   byPts |-> FALSE, seen |-> {},
   afterFail |-> FALSE, request |-> "none", reply |-> NoReply]

Init ==
  /\ box = [b \in Boxes |->
              IF b = Common
                THEN [setRequesting(NewBox, TRUE) EXCEPT !.request = "state"]
                ELSE NewBox]
  /\ loaded \in SUBSET Channels
  /\ active = {}
  /\ minChannel = FALSE
  /\ serverPts = [b \in Boxes |-> 1]
  /\ log = [b \in Boxes |-> {1}]
  /\ net = {}
  /\ applied = [b \in Boxes |-> {}]
  /\ base = [b \in Boxes |-> 0]

-----------------------------------------------------------------------------
(* Starting to fetch a difference. *)

ask(w) ==
  [setRequesting(w, TRUE) EXCEPT !.request = "asked", !.seen = {}]

(* getDifference, on the box Common. *)
getDifference(w) ==
  LET v == [w EXCEPT !.byPts = FALSE]
  IN  IF v.requesting THEN v ELSE ask([v EXCEPT !.afterFail = FALSE])

(* getChannelDifference.  The reason it is called for decides which of the *)
(* channel's deadlines it removes.                                         *)
getChannelDifference(w, from) ==
  LET v == IF from # "PtsGapOrShortPoll" THEN [w EXCEPT !.byPts = FALSE] ELSE w
  IN  IF ~inited(v) \/ v.requesting
        THEN v
        ELSE ask(IF from # "AfterFail" THEN [v EXCEPT !.afterFail = FALSE]
                                       ELSE v)

(* getDifferenceByPts: every deadline that is due, due being a set of      *)
(* boxes with one, is removed and its difference requested.                *)
getDifferenceByPts(bx, due) ==
  [b \in Boxes |->
     CASE b \in due /\ b = Common -> getDifference(bx[b])
       [] b \in due /\ b # Common ->
            [getChannelDifference(bx[b], "PtsGapOrShortPoll")
               EXCEPT !.byPts = FALSE]
       [] OTHER -> bx[b]]

(* Mutant of getDifferenceAfterFail: the common box is still requesting. *)
getDifferenceAfterFailStuck(bx, due) ==
  [b \in Boxes |->
     CASE b \in due /\ b = Common ->
            [getDifference(bx[b]) EXCEPT !.afterFail = FALSE]
       [] OTHER -> bx[b]]

(* getDifferenceAfterFail. *)
getDifferenceAfterFail(bx, due) ==
  [b \in Boxes |->
     CASE b \in due /\ b = Common ->
            getDifference(setRequesting(bx[b], FALSE))
       [] b \in due /\ b # Common ->
            [getChannelDifference(bx[b], "AfterFail")
               EXCEPT !.afterFail = FALSE]
       [] OTHER -> bx[b]]

(* A step that gives box b the waiter w.  When it set or removed b's       *)
(* deadline, ptsWaiterStartTimerFor goes through the other deadlines as    *)
(* well.  (When it only brought b's deadline forward it does so too; that  *)
(* is this step followed by byPtsTimer.)                                   *)
SetBox(b, w) ==
  \E due \in SUBSET {c \in Boxes \ {b} : box[c].byPts} :
    /\ due # {} => w.byPts # box[b].byPts
    /\ box' = getDifferenceByPts([box EXCEPT ![b] = w], due)

(* The first waiter of a box, or one that starts over, gives the base. *)
Rebase(b, w) ==
  base' = IF inited(box[b]) THEN base ELSE [base EXCEPT ![b] = w.good]

Apply(b, S) == applied' = [applied EXCEPT ![b] = @ \cup S]
-----------------------------------------------------------------------------
(* The server and the network (external). *)

server == <<serverPts, log>>
client == <<loaded, active, minChannel, applied, base>>

(* The points given out since the client started. *)
Issued == UNION {{b} \X (2 .. serverPts[b]) : b \in Boxes}

NewUpdate(b, n, kind) ==
  LET pts == serverPts[b] + n
  IN  /\ n > 0
      /\ Cardinality(Issued) + n <= MaxPoints
      /\ kind = "affected" => b = Common \/ b \in loaded
      /\ serverPts' = [serverPts EXCEPT ![b] = pts]
      /\ log' = [log EXCEPT ![b] = @ \cup {pts}]
      /\ net' = net \cup {[box |-> b, kind |-> kind,
                           update |-> [pts |-> pts, count |-> n]]}
      /\ UNCHANGED <<box, client>>

(* A pushed update is lost with its connection; a container with a seq,    *)
(* pushed or returned, is dropped with the queue of SeqUpdates.            *)
LoseUpdate(m) ==
  /\ m.kind # "affected"
  /\ net' = net \ {m}
  /\ UNCHANGED <<box, server, client>>

(* Answers: all there is, a slice of it, or (for a channel) that it is too *)
(* much and the client should start over from the last messages.           *)
Answer(b) ==
  /\ box[b].request = "asked"
  /\ \E upto \in log[b] :
       /\ upto > box[b].good \/ upto = serverPts[b]
       /\ box' = [box EXCEPT
            ![b].request = "done",
            ![b].reply = [upto |-> upto, final |-> upto = serverPts[b]]]
  /\ UNCHANGED <<server, net, client>>

AnswerTooLong(c) ==
  /\ box[c].request = "asked"
  /\ serverPts[c] > box[c].good
  /\ box' = [box EXCEPT ![c].request = "tooLong",
                        ![c].reply = [upto |-> serverPts[c], final |-> TRUE]]
  /\ UNCHANGED <<server, net, client>>

AnswerFail(b) ==
  /\ box[b].request = "asked"
  /\ box' = [box EXCEPT ![b].request = "failed"]
  /\ UNCHANGED <<server, net, client>>

AnswerState ==
  /\ box[Common].request = "state"
  /\ box' = [box EXCEPT ![Common].request = "done", ![Common].reply =
               [upto |-> serverPts[Common], final |-> TRUE]]
  /\ UNCHANGED <<server, net, client>>
-----------------------------------------------------------------------------
(* Updates that arrive. *)

(* feedUpdate when something the update mentions is not loaded: the update *)
(* is left to a difference, at once or, for a channel's update, soon.      *)
FeedNotLoaded(b) ==
  /\ ~box[Common].requesting
  /\ IF b = Common
       THEN /\ box' = [box EXCEPT ![b] = getDifference(@)]
            /\ UNCHANGED minChannel
       ELSE /\ minChannel' = TRUE
            /\ UNCHANGED box
  /\ UNCHANGED <<applied, base>>

(* feedUpdate of an update with a pts.  A channel's update is skipped      *)
(* while the channel's difference is being fetched.                        *)
Feed(b, e) ==
  LET w == updateAndApply(box[b], e)
  IN  /\ b = Common \/ ~box[b].requesting
      /\ SetBox(b, w)
      /\ Apply(b, PointsOf(AppliedWith(box[b], e)))
      /\ Rebase(b, w)
      /\ UNCHANGED minChannel

SkipWhileRequesting(b) ==
  /\ b # Common
  /\ box[b].requesting
  /\ UNCHANGED <<box, minChannel, applied, base>>

(* An edit, deletion or the like in a channel that is not loaded. *)
FeedUnknown(b, e) ==
  /\ b \notin loaded \cup {Common}
  /\ Apply(b, Points(e))
  /\ UNCHANGED <<box, minChannel, base>>

feedUpdate(b, e) ==
  \/ FeedNotLoaded(b)
  \/ b \in loaded \cup {Common} /\ Feed(b, e)
  \/ b \in loaded /\ SkipWhileRequesting(b)
  \/ FeedUnknown(b, e)

(* mtpUpdateReceived: pushed updates are dropped while the common box's    *)
(* difference is being fetched, unless a notification of a forced logout   *)
(* is among them.                                                          *)
mtpUpdateReceived(m) ==
  /\ m.kind = "push"
  /\ net' = net \ {m}
  /\ \/ /\ box[Common].requesting
        /\ UNCHANGED <<box, minChannel, applied, base>>
     \/ feedUpdate(m.box, m.update)
  /\ UNCHANGED <<server, loaded, active>>

(* applyUpdates of what a request returned: nothing is dropped, and the    *)
(* chats the updates are about come with them (a user still may not).      *)
applyUpdates(m) ==
  /\ m.kind = "result"
  /\ net' = net \ {m}
  /\ loaded' = IF m.box = Common THEN loaded ELSE loaded \cup {m.box}
  /\ \/ FeedNotLoaded(m.box)
     \/ Feed(m.box, m.update)
     \/ SkipWhileRequesting(m.box)
  /\ UNCHANGED <<server, active>>

(* applyAffectedMessages, applyAffectedHistory: the request has done its   *)
(* work here already, only the pts is passed on.                           *)
applyAffectedMessages(m) ==
  LET b == m.box
      w == updateAndApplyCount(box[b], m.update)
  IN  /\ m.kind = "affected"
      /\ net' = net \ {m}
      /\ SetBox(b, w)
      /\ Apply(b, Points(m.update)
                    \cup PointsOf(AppliedWithCount(box[b], m.update)))
      /\ Rebase(b, w)
      /\ UNCHANGED <<server, loaded, active, minChannel>>

(* ptsReceived, and affectedMessages with a pts_count of 0: the pts the    *)
(* box had when the server answered some request.                          *)
ptsReceived(b, p) ==
  LET e == [pts |-> p, count |-> 0]
      w == updateAndApplyCount(box[b], e)
  IN  /\ 0 \in Counts
      /\ b \in loaded \cup {Common}
      /\ SetBox(b, w)
      /\ Apply(b, PointsOf(AppliedWithCount(box[b], e)))
      /\ Rebase(b, w)
      /\ UNCHANGED <<server, net, loaded, active, minChannel>>

(* updateChannelTooLong. *)
ChannelTooLong(c) ==
  /\ ~box[Common].requesting
  /\ c \in loaded
  /\ box' = [box EXCEPT ![c] = getChannelDifference(@, "Unknown")]
  /\ UNCHANGED <<server, net, client>>

(* updatesTooLong, new_session_created. *)
UpdatesTooLong ==
  /\ box' = [box EXCEPT ![Common] = getDifference(@)]
  /\ UNCHANGED <<server, net, client>>
-----------------------------------------------------------------------------
(* Differences that arrive. *)

(* The box follows the stream from upto on. *)
Restart(w, upto) ==
  [setRequesting(init(w, upto), FALSE)
     EXCEPT !.request = "none", !.reply = NoReply]

stateDone ==
  /\ box[Common].request = "done"
  /\ ~inited(box[Common])
  /\ box' = [box EXCEPT ![Common] = Restart(@, @.reply.upto)]
  /\ base' = [base EXCEPT ![Common] = box[Common].reply.upto]
  /\ UNCHANGED <<server, net, loaded, active, minChannel, applied>>

(* differenceDone.  The difference names channels to fetch differences of  *)
(* (updateChannelTooLong) and loads them.                                  *)
differenceDone ==
  LET w == box[Common]
      v == Restart(w, w.reply.upto)
  IN  /\ w.request = "done"
      /\ inited(w)
      /\ Apply(Common, (w.good + 1) .. w.reply.upto)
      /\ \E tooLong \in SUBSET Channels :
           /\ loaded' = loaded \cup tooLong
           /\ box' = [b \in Boxes |->
                CASE b = Common -> IF w.reply.final THEN v ELSE getDifference(v)
                  [] b \in tooLong -> getChannelDifference(box[b], "Unknown")
                  [] OTHER -> box[b]]
      /\ UNCHANGED <<server, net, active, minChannel, base>>

(* channelDifferenceDone: more to fetch, or short polling of a chat that   *)
(* is shown.                                                               *)
ContinueChannel(c, v, final) ==
  SetBox(c, CASE ~final -> getChannelDifference(v, "Unknown")
              [] final /\ c \in active -> setWaitingForShortPoll(v)
              [] OTHER -> v)

channelDifferenceDone(c) ==
  LET w == box[c]
  IN  /\ w.request = "done"
      /\ Apply(c, (w.good + 1) .. w.reply.upto)
      /\ ContinueChannel(c, Restart(w, w.reply.upto), w.reply.final)
      /\ UNCHANGED <<server, net, loaded, active, minChannel, base>>

(* channelDifferenceTooLong: the messages so far are dropped and the       *)
(* dialog's pts is taken, a second time through History::applyDialog.      *)
channelDifferenceTooLong(c) ==
  LET w == box[c]
      v == updateAndApplyCount(init(w, w.reply.upto),
                               [pts |-> w.reply.upto, count |-> 0])
      u == [setRequesting(v, FALSE)
              EXCEPT !.request = "none", !.reply = NoReply]
  IN  /\ w.request = "tooLong"
      /\ base' = [base EXCEPT ![c] = w.reply.upto]
      /\ ContinueChannel(c, u, w.reply.final)
      /\ UNCHANGED <<server, net, loaded, active, minChannel, applied>>

(* differenceFail, channelDifferenceFail: retry after a while.  Setting    *)
(* the deadline also goes through the other boxes' ones.                   *)
failDifference(b) ==
  /\ box[b].request = "failed"
  /\ \E due \in SUBSET {c \in Boxes \ {b} : box[c].afterFail} :
       box' = getDifferenceAfterFail(
                [box EXCEPT ![b].request = "none", ![b].afterFail = TRUE], due)
  /\ UNCHANGED <<server, net, client>>
-----------------------------------------------------------------------------
(* Timers and windows. *)

byPtsTimer(due) ==
  /\ due # {}
  /\ \A b \in due : box[b].byPts
  /\ box' = getDifferenceByPts(box, due)
  /\ UNCHANGED <<server, net, client>>

failDifferenceTimer(due) ==
  /\ due # {}
  /\ \A b \in due : box[b].afterFail
  /\ box' = getDifferenceAfterFail(box, due)
  /\ UNCHANGED <<server, net, client>>

byMinChannelTimer ==
  /\ minChannel
  /\ minChannel' = FALSE
  /\ box' = [box EXCEPT ![Common] = getDifference(@)]
  /\ UNCHANGED <<server, net, loaded, active, applied, base>>

addActiveChat(c) ==
  /\ c \in loaded
  /\ active' = active \cup {c}
  /\ SetBox(c, setWaitingForShortPoll(box[c]))
  /\ UNCHANGED <<server, net, loaded, minChannel, applied, base>>

removeActiveChat(c) ==
  /\ c \in active
  /\ active' = active \ {c}
  /\ UNCHANGED <<box, server, net, loaded, minChannel, applied, base>>
-----------------------------------------------------------------------------
Environment ==
  \/ \E b \in Boxes, n \in Counts, k \in Kinds : NewUpdate(b, n, k)
  \/ \E m \in net : LoseUpdate(m)
  \/ \E b \in Boxes : Answer(b) \/ AnswerFail(b)
  \/ \E c \in Channels : AnswerTooLong(c)
  \/ AnswerState

Client ==
  \/ \E m \in net : \/ mtpUpdateReceived(m)
                    \/ applyUpdates(m)
                    \/ applyAffectedMessages(m)
  \/ \E b \in Boxes : \E p \in log[b] : ptsReceived(b, p)
  \/ \E c \in Channels : ChannelTooLong(c)
  \/ UpdatesTooLong
  \/ stateDone
  \/ differenceDone
  \/ \E c \in Channels : channelDifferenceDone(c) \/ channelDifferenceTooLong(c)
  \/ \E b \in Boxes : failDifference(b)
  \/ \E due \in SUBSET Boxes : byPtsTimer(due) \/ failDifferenceTimer(due)
  \/ byMinChannelTimer
  \/ \E c \in Channels : addActiveChat(c) \/ removeActiveChat(c)

Next == Environment \/ Client

Spec == Init /\ [][Next]_vars

(* The timers fire, the handlers run, and a request that is repeated over  *)
(* and over is answered at last.                                           *)
Fairness ==
  /\ SF_vars(AnswerState)
  /\ WF_vars(stateDone)
  /\ WF_vars(differenceDone)
  /\ \A b \in Boxes :
       /\ SF_vars(Answer(b))
       /\ WF_vars(failDifference(b))
       /\ WF_vars(byPtsTimer({b}))
       /\ WF_vars(failDifferenceTimer({b}))
  /\ \A c \in Channels :
       WF_vars(channelDifferenceDone(c) \/ channelDifferenceTooLong(c))

FairSpec == Spec /\ Fairness
-----------------------------------------------------------------------------
(* Every variable has its type. *)
TypeOK ==
  /\ box \in [Boxes -> BoxType]
  /\ loaded \in SUBSET Channels
  /\ active \in SUBSET Channels
  /\ minChannel \in BOOLEAN
  /\ serverPts \in [Boxes -> Nat]
  /\ log \in [Boxes -> SUBSET Nat]
  /\ net \in SUBSET Message
  /\ applied \in [Boxes -> SUBSET Int]
  /\ base \in [Boxes -> Nat]

(* The pts the client asks differences from (PtsWaiter::current) never     *)
(* passes an update that was not applied: whatever was lost, overtaken,    *)
(* dropped while a difference was fetched or skipped because something was *)
(* not loaded, every point of the stream between where the client began to *)
(* follow the box and _good has been applied.                              *)
NoUpdateSkipped ==
  \A b \in Boxes : \A p \in (base[b] + 1) .. box[b].good : p \in applied[b]

(* The points counted never outrun the last pts seen: the branch           *)
(* _last < _count of PtsWaiter::check (a difference at once) is not taken, *)
(* since no update is counted twice.                                       *)
GapNeverNegative == \A b \in Boxes : box[b].count <= box[b].last

(* An update that was put aside (_queue) is waited for: it is never left   *)
(* behind with the deadline of its box cancelled or used up, nor kept      *)
(* while a difference is fetched.                                          *)
QueuedUpdatesAwaited ==
  \A b \in Boxes :
    box[b].queue # {} =>
      box[b].byPts /\ box[b].waitingForSkipped /\ ~box[b].requesting

(* No step moves a box back in its stream: a difference that was asked     *)
(* from an old pts does not undo what was applied while it was fetched.    *)
PtsNeverGoesBack ==
  [][\A b \in Boxes : box'[b].good >= box[b].good]_vars

(* What the common box has heard of is applied in the end: updates put     *)
(* aside, lost ones a later update revealed, and those dropped while a     *)
(* difference was fetched.                                                 *)
GapEventuallyFilled ==
  \A p \in 1 .. MaxPoints + 1 :
    box[Common].last >= p ~> p \in applied[Common] \/ p <= base[Common]

(* A failed getChannelDifference is repeated after the growing timeout     *)
(* (comment of _channelFailDifferenceTimeout).                             *)
ChannelDifferenceRetried ==
  \A c \in Channels :
    box[c].request = "failed" ~> box[c].request = "asked"
-----------------------------------------------------------------------------
(* The inductive invariant that NoUpdateSkipped rests on. *)

InFlight(b) == {m.update : m \in {n \in net : n.box = b}}

(* The waiter w of a box whose stream has the values L of pts, whose       *)
(* updates in E are still on the way, and of which the client has applied  *)
(* the points A, from B on.                                                *)
WaiterInv(w, A, B, L, E) ==
  /\ w.good = 0 => w.last = 0 /\ w.count = 0 /\ w.queue = {}
  /\ w.good > 0 => w.good \in L /\ w.last \in L
  /\ w.good <= w.last
  /\ w.count <= w.last
  /\ ~w.requesting => w.count = w.good + Cardinality(w.seen)
  /\ w.seen \subseteq (w.good + 1) .. w.last
  /\ w.queue # {} => w.waitingForSkipped /\ w.byPts /\ ~w.requesting
  /\ \A p \in w.seen : p \in A \/ \E e \in w.queue : p \in Points(e)
  /\ \A p \in (B + 1) .. w.good : p \in A
  /\ w.request # "none" => w.requesting
  /\ w.request \in {"done", "tooLong"} =>
       w.reply.upto \in L /\ w.reply.upto >= w.good
  /\ \A e \in E : \A p \in w.seen : p \notin Points(e)

(* pts moves from one update to the next, so no value of it is inside an   *)
(* update.                                                                 *)
Fits(e, L) ==
  /\ e.pts \in L
  /\ e.count <= e.pts
  /\ \A q \in L : q <= e.pts - e.count \/ q >= e.pts

StreamInv ==
  /\ \A b \in Boxes :
       /\ serverPts[b] \in log[b]
       /\ \A q \in log[b] : 0 < q /\ q <= serverPts[b]
  /\ \A m \in net : m.update.count > 0 /\ Fits(m.update, log[m.box])
  /\ \A m, n \in net :
       m.box = n.box /\ m.update.pts = n.update.pts => m = n

BoxInv(b) == WaiterInv(box[b], applied[b], base[b], log[b], InFlight(b))

Inv ==
  /\ TypeOK
  /\ StreamInv
  /\ \A b \in Boxes : BoxInv(b)
=============================================================================
