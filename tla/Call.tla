-------------------------------- MODULE Call --------------------------------
(***************************************************************************)
(* One-to-one calls: Calls::Call and the part of Calls::Instance that      *)
(* creates, replaces and destroys it.  Everything runs on the main thread; *)
(* what interleaves are the callbacks: answers of requests, updates of the *)
(* server, two timers, states the media controller reports from its own    *)
(* threads, permission dialogs and the user.                               *)
(*                                                                         *)
(* The user calls one peer.  The key exchange is abstracted to `power':    *)
(* how often Call::start made a new secret, 0 for never; a request carries *)
(* the secret it was made from.                                            *)
(***************************************************************************)
EXTENDS Naturals, Sequences, FiniteSets

CONSTANTS MaxCalls,      \* bound: calls the server ever knows of
          MaxStarts,     \* bound: how often the user starts a call
          MaxRedials,    \* bound: how often the user calls again
          MaxEvents,     \* bound: states reported by the controllers
          Repeats,       \* bound: copies of an update about a new call
          MaxQueue,      \* bound: tasks waiting when the user clicks
          Reported,      \* states the controllers report
          Faults,        \* what may be wrong in what the server sends
          Dialogs,       \* permissions may have to be asked for
          DhFails,       \* messages.getDhConfig may fail
          PatientRedial  \* the user redials when nothing is on its way

ControllerStates == {"WaitingInit", "WaitingInitAck", "Established", "Failed"}

ASSUME CallAssumption ==
    /\ MaxCalls \in Nat \ {0} /\ MaxStarts \in Nat /\ MaxRedials \in Nat
    /\ MaxEvents \in Nat /\ MaxQueue \in Nat \ {0} /\ Repeats \in Nat \ {0}
    /\ Reported \subseteq ControllerStates
    /\ Faults \subseteq {"people", "key", "version", "empty", "error"}
    /\ {Dialogs, DhFails, PatientRedial} \subseteq BOOLEAN

Ids == 1..MaxCalls

States == {"Starting", "WaitingInit", "WaitingInitAck", "Established",
           "FailedHangingUp", "Failed", "HangingUp", "Ended",
           "EndedByOtherDevice", "ExchangingKeys", "Waiting", "Requesting",
           "WaitingIncoming", "Ringing", "Busy"}

Final == {"Ended", "EndedByOtherDevice", "Failed"}

(* What a phoneCall object may be found to be: right, of other people,     *)
(* with a wrong key, for a library version that is not there.  "error"     *)
(* among the Faults lets the server refuse any request, "empty" forget one.*)
Looks(S) == {"none"} \cup (Faults \cap S)

VARIABLES
    call,      \* Instance::_currentCall, state "None" when there is none
    queue,     \* crl::on_main: the tasks of the calls, in order
    reqs,      \* requests of the call, with the server's answer once there
    discards,  \* phone.discardCall requests of the session
    dialog,    \* what the permission dialog that is open is for
    srv,       \* external: the server's calls
    updates,   \* updatePhoneCall's on their way, in order
    known,     \* history: the ids the client was told of
    starts, redials, events

clientVars == <<call, queue, reqs, discards>>
vars == <<call, queue, reqs, discards, dialog, srv, updates, known, starts,
          redials, events>>

NoCall ==
    [state |-> "None", type |-> "Outgoing", id |-> 0, power |-> 0,
     key |-> 0, instance |-> FALSE, answerAfter |-> FALSE,
     finishAfter |-> "None", discardTimer |-> FALSE, finishTimer |-> "None",
     asking |-> FALSE, accepts |-> 0]

(* Mutant of NewCall: an incoming call rings without a timer.              *)
NewCallUntimed(type) ==
    [NoCall EXCEPT
        !.type = type,
        !.state = IF type = "Outgoing" THEN "Requesting" ELSE "Starting"]

(* The constructor.                                                        *)
NewCall(type) ==
    [NoCall EXCEPT
        !.type = type,
        !.state = IF type = "Outgoing" THEN "Requesting" ELSE "Starting",
        !.discardTimer = type = "Incoming"]

Task(task, state) == [task |-> task, state |-> state]

Req(kind, id, power) ==
    [kind |-> kind, id |-> id, power |-> power, answer |-> "None"]

Update(kind, id, reason, fault) ==
    [kind |-> kind, id |-> id, reason |-> reason, fault |-> fault]

(* The part of the state that the handlers change, as one value: a handler *)
(* is a function of it, built from the functions it calls.                 *)
World == [call |-> call, queue |-> queue, reqs |-> reqs,
          discards |-> discards]

Become(w) == /\ call' = w.call
             /\ queue' = w.queue
             /\ reqs' = w.reqs
             /\ discards' = w.discards

isIncomingWaiting(c) ==
    c.type = "Incoming" /\ c.state \in {"Starting", "WaitingIncoming"}

inCall == call.state \notin {"None", "Busy"}

-----------------------------------------------------------------------------
(* The functions of a call.                                                *)

Post(w, t) == [w EXCEPT !.queue = Append(@, t)]

(* Mutant of setState: nothing leaves FailedHangingUp.                     *)
SetStateStuck(w, s) ==
    IF w.call.state \in {"Failed", "FailedHangingUp", s} THEN w
    ELSE LET v == [w EXCEPT
                      !.call.state = s,
                      !.call.instance = @ /\ s \notin Final \cup {"Busy"},
                      !.call.discardTimer = @ /\ s # "Busy"]
         IN  IF s \in Final THEN Post(v, Task("destroy", s)) ELSE v

(* Call::setState, with the destruction it asks the delegate for.          *)
setState(w, s) ==
    IF \/ w.call.state \in {"Failed", s}
       \/ w.call.state = "FailedHangingUp" /\ s # "Failed"
    THEN w
    ELSE LET v == [w EXCEPT
                      !.call.state = s,
                      !.call.instance = @ /\ s \notin Final \cup {"Busy"},
                      !.call.discardTimer = @ /\ s # "Busy"]
         IN  IF s \in Final THEN Post(v, Task("destroy", s)) ELSE v

(* Call::finish.  A discard equal to one that is out is answered with it.  *)
finish(w, type, reason) ==
    LET c == w.call
        hangupState == IF type = "Ended" THEN "HangingUp"
                                         ELSE "FailedHangingUp"
    IN  CASE c.state = "Requesting" ->
                 [w EXCEPT !.call.finishTimer = type,
                           !.call.finishAfter = type]
          [] c.state \in Final \cup {"HangingUp", "FailedHangingUp"} -> w
          [] OTHER ->
                 IF c.id = 0
                 THEN setState(w, type)
                 ELSE [setState(w, hangupState) EXCEPT
                          !.call.finishTimer = type,
                          !.discards = @ \cup
                              {[id |-> c.id, reason |-> reason, state |-> type,
                                guarded |-> TRUE, answer |-> "None"]}]

Fail(w) == finish(w, "Failed", "Hangup")

(* Call::hangup.                                                           *)
hangup(w) ==
    LET c == w.call
        missed == \/ c.state = "Ringing"
                  \/ c.state = "Waiting" /\ c.type = "Outgoing"
    IN  IF c.state = "Busy" THEN Post(w, Task("destroy", "Busy"))
        ELSE finish(w, "Ended", CASE missed -> "Missed"
                                  [] isIncomingWaiting(c) -> "Busy"
                                  [] OTHER -> "Hangup")

Ask(w, r) == [w EXCEPT !.reqs = @ \cup {r}]

(* Call::createAndStartController for a phoneCall with this fault; echoed  *)
(* is the key fingerprint the phoneCall came with.                         *)
createAndStartController(w, fault, echoed) ==
    LET v == [w EXCEPT !.call.discardTimer = FALSE]
    IN  IF fault # "none" \/ echoed # w.call.key THEN Fail(v)
        ELSE [v EXCEPT !.call.instance = TRUE]

(* Call::startConfirmedCall: the peer's g_a must be the one it promised.   *)
startConfirmedCall(w, fault) ==
    IF fault = "key" THEN Fail(w)
    ELSE createAndStartController([w EXCEPT !.call.key = w.call.power], fault,
                                  w.call.power)

(* Call::confirmAcceptedCall.                                              *)
confirmAcceptedCall(w, fault) ==
    LET c == w.call IN
    IF c.state = "ExchangingKeys" \/ c.instance THEN w
    ELSE IF fault = "key" THEN Fail(w)
    ELSE Ask(setState([w EXCEPT !.call.key = c.power], "ExchangingKeys"),
             Req("confirm", c.id, c.power))

(* Call::handleUpdate for every update but phoneCallRequested.             *)
handleUpdate(w, u) ==
    LET c == w.call IN
    IF c.state = "None" \/ u.id # c.id THEN w
    ELSE CASE u.kind = "Waiting" ->
                  IF /\ c.type = "Outgoing" /\ c.state = "Waiting"
                     /\ u.reason = "Received"
                  THEN setState([w EXCEPT !.call.discardTimer = TRUE],
                                "Ringing")
                  ELSE w
           [] u.kind = "Call" ->
                  IF /\ c.type = "Incoming" /\ c.state = "ExchangingKeys"
                     /\ ~c.instance
                  THEN startConfirmedCall(w, u.fault)
                  ELSE w
           [] u.kind = "Discarded" ->
                  setState(w, CASE u.reason = "Busy" -> "Busy"
                                [] \/ c.type = "Outgoing"
                                   \/ c.state = "HangingUp" -> "Ended"
                                [] OTHER -> "EndedByOtherDevice")
           [] u.kind = "Accepted" ->
                  IF c.type # "Outgoing" \/ u.fault = "people" THEN Fail(w)
                  ELSE confirmAcceptedCall(w, u.fault)
           [] u.kind = "Empty" -> Fail(w)

(* Call::handleUpdate for phoneCallRequested: only for a new call.         *)
handleRequested(w, u) ==
    IF u.fault = "people" THEN Fail(w)
    ELSE LET v == [w EXCEPT !.call.id = u.id]
         IN  IF u.fault = "key" THEN Fail(v) ELSE v

(* Mutant of actuallyAnswer: the wish to answer stays after it was met.    *)
ActuallyAnswerAgain(w) ==
    LET c == w.call
        v == setState(w, "ExchangingKeys")
    IN  IF ~ \/ c.state \in {"Starting", "WaitingIncoming"}
             \/ c.state = "ExchangingKeys" /\ c.answerAfter
        THEN w
        ELSE IF c.power = 0 THEN [v EXCEPT !.call.answerAfter = TRUE]
        ELSE Ask([v EXCEPT !.call.accepts = @ + 1],
                 Req("accept", c.id, c.power))

(* Call::actuallyAnswer.                                                   *)
actuallyAnswer(w) ==
    LET c == w.call
        v == setState(w, "ExchangingKeys")
    IN  IF ~ \/ c.state \in {"Starting", "WaitingIncoming"}
             \/ c.state = "ExchangingKeys" /\ c.answerAfter
        THEN w
        ELSE IF c.power = 0 THEN [v EXCEPT !.call.answerAfter = TRUE]
        ELSE Ask([v EXCEPT !.call.answerAfter = FALSE, !.call.accepts = @ + 1],
                 Req("accept", c.id, c.power))

(* Mutant of start: the hash that is sent is of the secret before.         *)
StartStale(w) ==
    LET v == [w EXCEPT !.call.power = @ + 1]
    IN  CASE /\ v.call.state \in {"Starting", "Requesting"}
             /\ v.call.type = "Outgoing" ->
                 Ask(v, Req("request", 0, w.call.power))
          [] OTHER -> v

(* Call::start, with the answer of messages.getDhConfig; answer() goes     *)
(* through the permissions, which are granted by then.                     *)
start(w) ==
    LET p == w.call.power + 1
        v == [w EXCEPT !.call.power = p]
    IN  CASE /\ v.call.state \in {"Starting", "Requesting"}
             /\ v.call.type = "Outgoing" ->
                 Ask(v, Req("request", 0, p))
          [] /\ v.call.state \in {"Starting", "Requesting"}
             /\ v.call.type = "Incoming" ->
                 Ask(v, Req("received", v.call.id, 0))
          [] v.call.state = "ExchangingKeys" /\ v.call.answerAfter ->
                 Post(v, Task("answer", "None"))
          [] OTHER -> v

(* Instance::destroyCall: requests and guarded callbacks of the call go.   *)
(* The tasks that create a call are all alike and stay.                    *)
Creating(q) == {i \in DOMAIN q : q[i].task = "create"}

destroyCall(w) ==
    [call |-> NoCall,
     queue |-> [i \in 1..Cardinality(Creating(w.queue)) |->
                    Task("create", "None")],
     reqs |-> {},
     discards |-> {[d EXCEPT !.guarded = FALSE] : d \in w.discards}]

(* Instance::createCall; a call that is there hangs up and is destroyed.   *)
createCall(w, type) ==
    LET v == IF w.call.state = "None" THEN w ELSE destroyCall(hangup(w))
    IN  Ask([v EXCEPT !.call = NewCall(type)], Req("dh", 0, redials))

-----------------------------------------------------------------------------
(* Answers of the requests of the call.                                    *)

(* External: the server has the call, may refuse the request.              *)
Live(id) == srv[id].stage \notin {"None", "Discarded"}

MayRefuse(r) == "error" \in Faults \/ (r.id # 0 /\ ~Live(r.id))

Without(r) == [World EXCEPT !.reqs = @ \ {r}]

Answered(kind, r) == r \in reqs /\ r.kind = kind /\ r.answer # "None"

(* refreshDhConfig: callFailed destroys the call, whatever its state.      *)
AnswerDh(r) ==
    /\ r.kind = "dh"
    /\ \/ Become(start(Without(r)))
       \/ DhFails /\ Become(Post(Without(r), Task("destroy", "Failed")))
    /\ UNCHANGED <<dialog, srv, updates, known, starts, redials, events>>

(* Mutant of requestDone: the user's hanging up meanwhile is forgotten.    *)
RequestDoneUnmindful(w, id, received) ==
    handleUpdate([setState(w, "Waiting") EXCEPT !.call.id = id,
                                                !.call.discardTimer = TRUE],
                 Update("Waiting", id, received, "none"))

requestDone(w, id, received) ==
    LET v == [setState(w, "Waiting") EXCEPT !.call.id = id]
    IN  CASE w.call.finishAfter = "Failed" -> Fail(v)
          [] w.call.finishAfter = "Ended" -> hangup(v)
          [] OTHER -> handleUpdate([v EXCEPT !.call.discardTimer = TRUE],
                                   Update("Waiting", id, received, "none"))

AnswerRequest(r) ==
    /\ Answered("request", r)
    /\ \/ /\ r.answer = "ok"
          /\ \E received \in {"Received", "None"} :
                Become(requestDone(Without(r), r.id, received))
          /\ known' = known \cup {r.id}
       \/ /\ r.answer = "wrong"
          /\ Become(Fail(setState(Without(r), "Waiting")))
          /\ UNCHANGED known
       \/ /\ r.answer = "error"
          /\ Become(Fail(Without(r)))
          /\ UNCHANGED known
    /\ UNCHANGED <<dialog, srv, updates, starts, redials, events>>

AnswerReceived(r) ==
    /\ r.kind = "received"
    /\ \/ Live(r.id) /\ Become(IF call.state = "Starting"
                               THEN setState(Without(r), "WaitingIncoming")
                               ELSE Without(r))
       \/ MayRefuse(r) /\ Become(Fail(Without(r)))
    /\ UNCHANGED <<dialog, srv, updates, known, starts, redials, events>>

AnswerAccept(r) ==
    /\ Answered("accept", r)
    /\ Become(IF r.answer # "ok" THEN Fail(Without(r))
              ELSE handleUpdate(Without(r),
                                Update("Waiting", r.id, "None", "none")))
    /\ UNCHANGED <<dialog, srv, updates, known, starts, redials, events>>

AnswerConfirm(r) ==
    /\ Answered("confirm", r)
    /\ \/ r.answer # "ok" /\ Become(Fail(Without(r)))
       \/ /\ r.answer = "ok"
          /\ \E fault \in Looks({"people", "version"}) :
                Become(createAndStartController(Without(r), fault, r.power))
    /\ UNCHANGED <<dialog, srv, updates, known, starts, redials, events>>

(* The answer of phone.discardCall; its updates are applied at once, to    *)
(* the current call.                                                       *)
AnswerDiscard(d) ==
    /\ d \in discards /\ d.answer # "None"
    /\ LET w == [World EXCEPT !.discards = @ \ {d}]
           v == IF d.guarded THEN Post(w, Task("setState", d.state)) ELSE w
       IN  Become(IF d.answer = "ok"
                  THEN handleUpdate(v, Update("Discarded", d.id, d.reason,
                                              "none"))
                  ELSE IF d.guarded THEN setState(w, d.state) ELSE w)
    /\ UNCHANGED <<dialog, srv, updates, known, starts, redials, events>>

-----------------------------------------------------------------------------
(* Updates, timers and the tasks of the main thread.                       *)

(* Instance::handleCallUpdate.                                             *)
handleCallUpdate(u, tooOld) ==
    LET repeated == call.state # "None" /\ call.id = u.id
    IN  CASE u.kind # "Requested" -> handleUpdate(World, u)
          [] u.kind = "Requested" /\ repeated -> World
          [] u.kind = "Requested" /\ ~repeated /\ inCall ->
                 [World EXCEPT !.discards = @ \cup
                     {[id |-> u.id, reason |-> "Busy", state |-> "None",
                       guarded |-> FALSE, answer |-> "None"]}]
          [] OTHER -> IF tooOld THEN World
                      ELSE handleRequested(createCall(World, "Incoming"), u)

DeliverUpdate ==
    /\ updates # <<>>
    /\ updates' = Tail(updates)
    /\ LET u == Head(updates) IN
       \E tooOld \in BOOLEAN :
          /\ tooOld => u.kind = "Requested" /\ ~inCall
          /\ Become(handleCallUpdate(u, tooOld))
          /\ known' = IF /\ u.kind = "Requested" /\ u.fault # "people"
                         /\ ~tooOld
                      THEN known \cup {u.id} ELSE known
    /\ UNCHANGED <<dialog, srv, starts, redials, events>>

DiscardTimer ==
    /\ call.discardTimer
    /\ Become(hangup([World EXCEPT !.call.discardTimer = FALSE]))
    /\ UNCHANGED <<dialog, srv, updates, known, starts, redials, events>>

FinishTimer ==
    /\ call.finishTimer # "None"
    /\ Become(setState([World EXCEPT !.call.finishTimer = "None"],
                       call.finishTimer))
    /\ UNCHANGED <<dialog, srv, updates, known, starts, redials, events>>

(* Call::handleControllerStateChange.                                      *)
handleControllerStateChange(w, s) ==
    IF s = "Failed" THEN Fail(w) ELSE setState(w, s)

(* The first task of crl::on_main.                                         *)
RunTask ==
    /\ queue # <<>>
    /\ LET w == [World EXCEPT !.queue = Tail(@)]
           t == Head(queue)
       IN  Become(CASE t.task = "destroy" -> destroyCall(w)
                    [] t.task = "setState" -> setState(w, t.state)
                    [] t.task = "controller" ->
                           handleControllerStateChange(w, t.state)
                    [] t.task = "answer" -> actuallyAnswer(w)
                    [] t.task = "create" -> createCall(w, "Outgoing"))
    /\ UNCHANGED <<dialog, srv, updates, known, starts, redials, events>>

(* stateUpdated of the controller, from another thread.                    *)
ControllerEvent ==
    /\ call.instance /\ events < MaxEvents
    /\ \E s \in Reported : Become(Post(World, Task("controller", s)))
    /\ events' = events + 1
    /\ UNCHANGED <<dialog, srv, updates, known, starts, redials>>

-----------------------------------------------------------------------------
(* The user.                                                               *)

(* Call::hangup from the panel, the top bar or Instance::isQuitPrevent.    *)
Hangup ==
    /\ call.state # "None"
    /\ Len(queue) < MaxQueue
    /\ Become(hangup(World))
    /\ UNCHANGED <<dialog, srv, updates, known, starts, redials, events>>

(* Call::answer: the permission is there, is asked for, or is refused.     *)
(* Bound: one dialog at a time.                                            *)
Answer ==
    /\ isIncomingWaiting(call) /\ Len(queue) < MaxQueue
    /\ \/ /\ Become(Post(World, Task("answer", "None")))
          /\ UNCHANGED dialog
       \/ /\ Dialogs /\ dialog = "None"
          /\ dialog' = "Answer"
          /\ Become([World EXCEPT !.call.asking = TRUE])
       \/ /\ Dialogs
          /\ Become(hangup(World))
          /\ UNCHANGED dialog
    /\ UNCHANGED <<srv, updates, known, starts, redials, events>>

(* Instance::startOutgoingCall, when activateCurrentCall finds no call.    *)
StartOutgoing ==
    /\ ~inCall /\ starts < MaxStarts
    /\ starts' = starts + 1
    /\ \/ Become(Post(World, Task("create", "None"))) /\ UNCHANGED dialog
       \/ /\ Dialogs /\ dialog = "None"
          /\ dialog' = "Start"
          /\ UNCHANGED clientVars
    /\ UNCHANGED <<srv, updates, known, redials, events>>

(* requestPermissionOrFail: a refusal hangs up the call that is there.     *)
DialogCloses ==
    /\ dialog # "None"
    /\ dialog' = "None"
    /\ \/ Become(CASE dialog = "Start" -> Post(World, Task("create", "None"))
                   [] dialog = "Answer" /\ call.asking ->
                          Post([World EXCEPT !.call.asking = FALSE],
                               Task("answer", "None"))
                   [] OTHER -> World)
       \/ Become(IF call.state = "None" THEN World
                 ELSE hangup([World EXCEPT !.call.asking = FALSE]))
    /\ UNCHANGED <<srv, updates, known, starts, redials, events>>

(* Call::redial, with callRedial of the delegate.                          *)
Redial ==
    /\ call.state = "Busy" /\ redials < MaxRedials
    /\ PatientRedial =>
           /\ reqs = {} /\ queue = <<>> /\ call.finishTimer = "None"
           /\ updates = <<>> /\ \A d \in discards : d.id # call.id
    /\ redials' = redials + 1
    /\ Become(Ask([setState([World EXCEPT !.call.type = "Outgoing"],
                            "Requesting") EXCEPT !.call.answerAfter = FALSE],
                  Req("dh", 0, redials + 1)))
    /\ UNCHANGED <<dialog, srv, updates, known, starts, events>>

(* Instance::destroyCurrentCall: the user enters a group call.             *)
EnterGroupCall ==
    /\ call.state # "None"
    /\ Become(destroyCall(hangup(World)))
    /\ UNCHANGED <<dialog, srv, updates, known, starts, redials, events>>

-----------------------------------------------------------------------------
(* External: the server, the peer and the user's other devices, as far as  *)
(* the handlers above depend on them.                                      *)

Fresh == {id \in Ids : srv[id].stage = "None"}

Served(r, answer, id) ==
    reqs' = (reqs \ {r}) \cup {[r EXCEPT !.answer = answer, !.id = id]}

ServeRequest(r) ==
    /\ r \in reqs /\ r.answer = "None"
    /\ \/ /\ r.kind = "request" /\ Fresh # {}
          /\ LET id == CHOOSE i \in Fresh : \A j \in Fresh : i <= j
             IN  /\ Served(r, "ok", id)
                 /\ srv' = [srv EXCEPT ![id] =
                        [stage |-> "Waiting", ours |-> TRUE,
                         power |-> r.power, accepted |-> FALSE]]
       \/ /\ r.kind = "accept" /\ srv[r.id].stage = "Waiting"
          /\ Served(r, "ok", r.id)
          /\ srv' = [srv EXCEPT ![r.id].stage = "Accepted",
                                ![r.id].accepted = TRUE]
       \/ /\ r.kind = "confirm" /\ srv[r.id].stage = "Accepted"
          /\ srv[r.id].power = r.power
          /\ Served(r, "ok", r.id)
          /\ srv' = [srv EXCEPT ![r.id].stage = "Confirmed"]
       \/ /\ MayRefuse(r) /\ r.kind \in {"request", "accept", "confirm"}
          /\ \E answer \in {"error", "wrong"} : Served(r, answer, r.id)
          /\ UNCHANGED srv
    /\ UNCHANGED <<call, queue, discards, dialog, updates, known, starts,
                   redials, events>>

(* No call ends as busy once it was accepted.  handleCallUpdate's discard  *)
(* has no handlers, its answer changes nothing.                            *)
ServeDiscard(d) ==
    /\ d \in discards /\ d.answer = "None"
    /\ \E answer \in {"ok"} \cup (Faults \cap {"error"}) :
          discards' = (discards \ {d}) \cup IF d.state = "None" THEN {} ELSE
              {[d EXCEPT !.answer = answer,
                         !.reason = IF srv[d.id].accepted THEN "Hangup"
                                                          ELSE @]}
    /\ srv' = [srv EXCEPT ![d.id].stage = "Discarded"]
    /\ UNCHANGED <<call, queue, reqs, dialog, updates, known, starts,
                   redials, events>>

Send(u) == updates' = Append(updates, u)

(* The peer calls; getDifference may repeat the update.                    *)
PeerCalls ==
    \E id \in Fresh, fault \in Looks({"people", "key"}), n \in 1..Repeats :
        /\ \A j \in Fresh : id <= j
        /\ srv' = [srv EXCEPT ![id] = [stage |-> "Waiting", ours |-> FALSE,
                                       power |-> 0, accepted |-> FALSE]]
        /\ updates' = updates \o
               [i \in 1..n |-> Update("Requested", id, "None", fault)]
        /\ UNCHANGED <<clientVars, dialog, known, starts, redials, events>>

(* The peer is reached, accepts our call, or confirms its own.             *)
PeerGoesOn ==
    \E id \in Ids, fault \in Looks({"people", "key", "version"}) :
        /\ \/ /\ srv[id].stage = "Waiting" /\ srv[id].ours /\ fault = "none"
              /\ srv' = [srv EXCEPT ![id].stage = "Ringing"]
              /\ Send(Update("Waiting", id, "Received", "none"))
           \/ /\ srv[id].stage \in {"Waiting", "Ringing"} /\ srv[id].ours
              /\ fault # "version"
              /\ srv' = [srv EXCEPT ![id].stage = "Accepted",
                                    ![id].accepted = TRUE]
              /\ Send(Update("Accepted", id, "None", fault))
           \/ /\ srv[id].stage = "Accepted" /\ ~srv[id].ours
              /\ srv' = [srv EXCEPT ![id].stage = "Confirmed"]
              /\ Send(Update("Call", id, "None", fault))
        /\ UNCHANGED <<clientVars, dialog, known, starts, redials, events>>

(* The peer or another device discards the call: as busy only before the   *)
(* call was accepted.  Or the server has lost it.                          *)
PeerDiscards ==
    \E id \in Ids, u \in {Update("Discarded", 0, "Busy", "none"),
                          Update("Discarded", 0, "Hangup", "none"),
                          Update("Empty", 0, "None", "none")} :
        /\ Live(id)
        /\ u.kind = "Empty" => "empty" \in Faults
        /\ u.reason = "Busy" => srv[id].stage \in {"Waiting", "Ringing"}
        /\ srv' = [srv EXCEPT ![id].stage = "Discarded"]
        /\ Send([u EXCEPT !.id = id])
        /\ UNCHANGED <<clientVars, dialog, known, starts, redials, events>>

-----------------------------------------------------------------------------
Init ==
    /\ call = NoCall /\ queue = <<>> /\ reqs = {} /\ discards = {}
    /\ dialog = "None"
    /\ srv = [id \in Ids |-> [stage |-> "None", ours |-> FALSE, power |-> 0,
                         accepted |-> FALSE]]
    /\ updates = <<>> /\ known = {}
    /\ starts = 0 /\ redials = 0 /\ events = 0

Answers ==
    \/ \E r \in reqs : \/ AnswerDh(r) \/ AnswerRequest(r) \/ AnswerReceived(r)
                       \/ AnswerAccept(r) \/ AnswerConfirm(r)
    \/ \E d \in discards : AnswerDiscard(d)

User ==
    Hangup \/ Answer \/ StartOutgoing \/ DialogCloses \/ Redial
    \/ EnterGroupCall

Server ==
    \/ \E r \in reqs : ServeRequest(r)
    \/ \E d \in discards : ServeDiscard(d)
    \/ PeerCalls \/ PeerGoesOn \/ PeerDiscards

Next ==
    \/ Answers \/ DeliverUpdate \/ DiscardTimer \/ FinishTimer \/ RunTask
    \/ ControllerEvent \/ User \/ Server

Spec == Init /\ [][Next]_vars

(* The main thread runs its tasks, and its timers fire.                    *)
FairSpec == Spec /\ WF_vars(RunTask) /\ WF_vars(FinishTimer)

-----------------------------------------------------------------------------
(* Properties.                                                             *)

(* A call is never left to itself: in any state but Busy, where the user   *)
(* has the buttons, a task, a timer, an answer or the controller is still  *)
(* to come.  createAndStartController stops the timer, setState(Busy) too. *)
(* One that hangs up has the timer that ends it in the same way, and an    *)
(* ended one is about to be destroyed, whatever has come in between.       *)
KeepsGoing ==
    /\ call.state \in States \ {"Busy"} =>
          \/ queue # <<>> \/ reqs # {} \/ call.instance
          \/ call.discardTimer \/ call.finishTimer # "None"
    /\ call.state = "HangingUp" => call.finishTimer = "Ended"
    /\ call.state = "FailedHangingUp" => call.finishTimer = "Failed"
    /\ call.state \in Final => \E i \in DOMAIN queue :
                                   queue[i].task = "destroy"

(* A call the client was told of and the server holds alive is the current *)
(* one, or the server is being told to discard it: it never rings on       *)
(* because the client has forgotten it.                                    *)
NoForgottenCall ==
    \A id \in known :
        Live(id) => \/ call.state # "None" /\ call.id = id
                    \/ \E d \in discards : d.id = id

(* phone.confirmCall reveals the secret whose hash phone.requestCall sent, *)
(* also after calling again.                                               *)
ConfirmsWhatWasRequested ==
    \A r \in reqs : r.kind = "confirm" => r.power = srv[r.id].power

(* A call is accepted once, however the clicks, the permission dialog and  *)
(* the late configuration interleave.                                      *)
AcceptsOnce == call.accepts <= 1

(* Once hanging up has begun, also while the call was still requested, the *)
(* call is gone in the end, or a new one stands in its place, even if late *)
(* events have revived it.                                                 *)
EventuallyGone ==
    call.finishTimer # "None" ~>
        \/ call.state = "None"
        \/ /\ call.state \in {"Requesting", "Starting"} /\ call.power = 0
           /\ call.finishTimer = "None"

=============================================================================
