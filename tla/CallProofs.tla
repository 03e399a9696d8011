----------------------------- MODULE CallProofs -----------------------------
(***************************************************************************)
(* Proofs about Call, for any number of calls, clicks, repeated updates    *)
(* and reported states.                                                    *)
(*                                                                         *)
(* The handlers are functions of the world, so the invariants are          *)
(* predicates of it and each function has a lemma about them; an action    *)
(* is a use of the lemmas of the functions it calls.                       *)
(*                                                                         *)
(* Inv types the state and says that acceptCall is sent at most once.      *)
(* GoingInv says that each state of a call has something that leads on     *)
(* from it: a timer, a request, a task, a controller, or an update that    *)
(* the server has sent and will send.  KnownInv says that a call which is  *)
(* over here is one that the server knows the end of or is being told.     *)
(***************************************************************************)
EXTENDS Call, FiniteSetTheorems, SequenceTheorems, TLAPS

-----------------------------------------------------------------------------
(* Types, and that a call is accepted once.                                *)

Finishes == {"Ended", "Failed"}
Maybe(S) == S \cup {"None"}

CallSet ==
    [state : Maybe(States), type : {"Outgoing", "Incoming"}, id : Ids \cup {0},
     power : Nat, key : Nat, instance : BOOLEAN, answerAfter : BOOLEAN,
     finishAfter : Maybe(Finishes), discardTimer : BOOLEAN,
     finishTimer : Maybe(Finishes), asking : BOOLEAN, accepts : Nat]

TaskSet ==
    {t \in [task : {"destroy", "setState", "controller", "answer", "create"},
            state : Maybe(States)] :
        /\ t.task = "setState" => t.state \in Finishes
        /\ t.task = "controller" => t.state \in ControllerStates}

ReqSet ==
    {r \in [kind : {"dh", "request", "received", "accept", "confirm"},
            id : Ids \cup {0}, power : Nat,
            answer : Maybe({"ok", "wrong", "error"})] :
        r.kind = "request" /\ r.answer = "ok" => r.id # 0}

Reasons == {"Missed", "Busy", "Hangup"}

DiscardSet ==
    {d \in [id : Ids, reason : Reasons, state : Maybe(Finishes),
            guarded : BOOLEAN, answer : Maybe({"ok", "error"})] :
        d.guarded => d.state # "None"}

WorldSet ==
    [call : CallSet, queue : Seq(TaskSet), reqs : SUBSET ReqSet,
     discards : SUBSET DiscardSet]

UpdateSet ==
    [kind : {"Requested", "Waiting", "Accepted", "Call", "Discarded", "Empty"},
     id : Ids, reason : Maybe({"Received"} \cup Reasons),
     fault : {"none", "people", "key", "version"}]

SrvSet ==
    {s \in [stage : Maybe({"Waiting", "Ringing", "Accepted", "Confirmed",
                           "Discarded"}),
            ours : BOOLEAN, power : Nat, accepted : BOOLEAN] :
        /\ s.stage \in {"None", "Waiting", "Ringing"} => ~s.accepted
        /\ s.stage \in {"Accepted", "Confirmed"} => s.accepted}

(* A call that was accepted is neither waiting to be answered nor to be    *)
(* answered as soon as the configuration is there.                         *)
AcceptOK(c) ==
    /\ c.accepts <= 1
    /\ c.accepts = 1 => /\ ~c.answerAfter
                        /\ c.state \notin {"Starting", "WaitingIncoming"}

Fine == {w \in WorldSet : AcceptOK(w.call)}

Inv ==
    /\ World \in Fine /\ dialog \in Maybe({"Answer", "Start"})
    /\ srv \in [Ids -> SrvSet] /\ updates \in Seq(UpdateSet)
    /\ known \subseteq Ids
    /\ starts \in Nat /\ redials \in Nat /\ events \in Nat

LEMMA IdsFact == Ids \subseteq Nat /\ 0 \notin Ids
  BY CallAssumption DEF Ids

LEMMA NoCallFact ==
    /\ NoCall \in CallSet /\ NoCall.id = 0 /\ NoCall.power = 0
    /\ ~NoCall.instance /\ ~NoCall.answerAfter /\ NoCall.finishAfter = "None"
    /\ NoCall.finishTimer = "None" /\ NoCall.accepts = 0 /\ NoCall.state = "None"
    /\ ~NoCall.discardTimer /\ NoCall.type = "Outgoing"
  BY DEF NoCall, CallSet, Maybe

LEMMA NewCallFact ==
    ASSUME NEW type \in {"Outgoing", "Incoming"}
    PROVE  /\ NewCall(type) \in CallSet /\ AcceptOK(NewCall(type))
           /\ NewCall(type).type = type /\ NewCall(type).id = 0
           /\ NewCall(type).state = IF type = "Outgoing" THEN "Requesting"
                                    ELSE "Starting"
           /\ NewCall(type).power = 0 /\ ~NewCall(type).instance
           /\ ~NewCall(type).answerAfter /\ NewCall(type).finishAfter = "None"
           /\ NewCall(type).finishTimer = "None"
           /\ NewCall(type).discardTimer <=> type = "Incoming"
<1> DEFINE st == IF type = "Outgoing" THEN "Requesting" ELSE "Starting"
           b == type = "Incoming"
           n == [NoCall EXCEPT !.type = type, !.state = st, !.discardTimer = b]
<1>1. st \in States /\ b \in BOOLEAN
  BY DEF States
<1>2. NewCall(type) = n
  BY DEF NewCall
<1> HIDE DEF st, b
<1>3. /\ n \in CallSet /\ n.type = type /\ n.state = st /\ n.discardTimer = b
      /\ n.id = 0 /\ n.power = 0 /\ ~n.instance /\ ~n.answerAfter
      /\ n.finishAfter = "None" /\ n.finishTimer = "None" /\ n.accepts = 0
  BY <1>1, NoCallFact DEF CallSet, Maybe
<1> HIDE DEF n
<1>4. AcceptOK(n)
  BY <1>3 DEF AcceptOK
<1> QED
  BY <1>2, <1>3, <1>4 DEF st, b

(* The fields of a call that setState and finish leave alone.              *)
SameCall(c, d) ==
    /\ c.type = d.type /\ c.id = d.id /\ c.power = d.power
    /\ c.answerAfter = d.answerAfter /\ c.accepts = d.accepts

Blocked(c, s) ==
    c.state \in {"Failed", s} \/ (c.state = "FailedHangingUp" /\ s # "Failed")

LEMMA SetStateFact ==
    ASSUME NEW w \in WorldSet, NEW s \in States
    PROVE  LET v == setState(w, s) IN
           /\ v \in WorldSet /\ v.reqs = w.reqs /\ v.discards = w.discards
           /\ SameCall(v.call, w.call)
           /\ v.call.finishAfter = w.call.finishAfter
           /\ v.call.finishTimer = w.call.finishTimer
           /\ Blocked(w.call, s) => v = w
           /\ ~Blocked(w.call, s) =>
                 /\ v.call.state = s
                 /\ v.call.instance <=> w.call.instance /\ s \notin Final \cup {"Busy"}
                 /\ v.call.discardTimer <=> w.call.discardTimer /\ s # "Busy"
                 /\ v.queue = IF s \in Final THEN Append(w.queue, Task("destroy", s))
                              ELSE w.queue
<1>1. CASE Blocked(w.call, s)
  BY <1>1 DEF setState, Blocked, SameCall
<1>2. CASE ~Blocked(w.call, s)
  <2> DEFINE i == w.call.instance /\ s \notin Final \cup {"Busy"}
             e == w.call.discardTimer /\ s # "Busy"
             c == [w.call EXCEPT !.state = s, !.instance = i, !.discardTimer = e]
             v == [w EXCEPT !.call.state = s, !.call.instance = i,
                            !.call.discardTimer = e]
  <2>1. setState(w, s) = IF s \in Final THEN Post(v, Task("destroy", s)) ELSE v
    BY <1>2 DEF setState, Blocked, WorldSet, CallSet
  <2>2. w.call \in CallSet /\ i \in BOOLEAN /\ e \in BOOLEAN
    BY DEF WorldSet
  <2>3. /\ c \in CallSet /\ SameCall(c, w.call) /\ c.state = s
        /\ c.finishAfter = w.call.finishAfter /\ c.finishTimer = w.call.finishTimer
        /\ c.instance = i /\ c.discardTimer = e
    <3> HIDE DEF i, e
    <3> QED
      BY <2>2 DEF CallSet, Maybe, SameCall
  <2>4. v = [w EXCEPT !.call = c]
    <3> HIDE DEF i, e
    <3> QED
      BY DEF WorldSet
  <2> HIDE DEF c, v
  <2>5. /\ v \in WorldSet /\ v.call = c /\ v.reqs = w.reqs
        /\ v.discards = w.discards /\ v.queue = w.queue
    BY <2>3, <2>4 DEF WorldSet
  <2>6. Task("destroy", s) \in TaskSet
    BY DEF Task, TaskSet, Maybe
  <2>7. CASE s \in Final
    <3>1. setState(w, s) = [v EXCEPT !.queue = Append(v.queue, Task("destroy", s))]
      BY <2>1, <2>5, <2>7 DEF Post, WorldSet
    <3>2. Append(v.queue, Task("destroy", s)) \in Seq(TaskSet)
      BY <2>5, <2>6 DEF WorldSet
    <3> QED
      BY <1>2, <2>3, <2>5, <2>7, <3>1, <3>2 DEF WorldSet
  <2>8. CASE s \notin Final
    BY <1>2, <2>1, <2>3, <2>5, <2>8
  <2> QED
    BY <2>7, <2>8
<1> QED
  BY <1>1, <1>2

(* Call::finish.                                                           *)
Closing == Final \cup {"HangingUp", "FailedHangingUp"}
HangState(type) == IF type = "Ended" THEN "HangingUp" ELSE "FailedHangingUp"
NewDiscard(id, type, reason) ==
    [id |-> id, reason |-> reason, state |-> type, guarded |-> TRUE,
     answer |-> "None"]

LEMMA FinishFact ==
    ASSUME NEW w \in WorldSet, NEW type \in Finishes, NEW reason \in Reasons
    PROVE  LET v == finish(w, type, reason) IN
           /\ v \in WorldSet /\ v.reqs = w.reqs
           /\ SameCall(v.call, w.call)
           /\ w.call.state = "Requesting" =>
                 /\ v.queue = w.queue /\ v.discards = w.discards
                 /\ v.call.state = "Requesting"
                 /\ v.call.instance = w.call.instance
                 /\ v.call.discardTimer = w.call.discardTimer
                 /\ v.call.finishTimer = type /\ v.call.finishAfter = type
           /\ w.call.state \in Closing => v = w
           /\ w.call.state \notin Closing \cup {"Requesting"} =>
                 /\ w.call.id = 0 => v = setState(w, type)
                 /\ w.call.id # 0 =>
                       /\ v.call.state = HangState(type)
                       /\ v.call.finishTimer = type
                       /\ v.call.finishAfter = w.call.finishAfter
                       /\ v.call.instance = w.call.instance
                       /\ v.call.discardTimer = w.call.discardTimer
                       /\ v.queue = w.queue
                       /\ v.discards = w.discards \cup
                              {NewDiscard(w.call.id, type, reason)}
<1> DEFINE v == finish(w, type, reason)
<1>0. w.call \in CallSet /\ type \in States /\ HangState(type) \in States
  BY DEF WorldSet, Finishes, States, HangState
<1>1. CASE w.call.state = "Requesting"
  <2> DEFINE c == [w.call EXCEPT !.finishTimer = type, !.finishAfter = type]
  <2>1. v = [w EXCEPT !.call.finishTimer = type, !.call.finishAfter = type]
    BY <1>1 DEF finish, Final
  <2>2. v = [w EXCEPT !.call = c]
    BY <2>1 DEF WorldSet
  <2>3. /\ c \in CallSet /\ SameCall(c, w.call) /\ c.state = w.call.state
        /\ c.finishTimer = type /\ c.finishAfter = type
        /\ c.instance = w.call.instance /\ c.discardTimer = w.call.discardTimer
    BY <1>0 DEF CallSet, Maybe, SameCall
  <2> HIDE DEF c, v
  <2>4. /\ v \in WorldSet /\ v.call = c /\ v.reqs = w.reqs
        /\ v.discards = w.discards /\ v.queue = w.queue
    BY <2>2, <2>3 DEF WorldSet
  <2> QED
    BY <1>1, <2>3, <2>4 DEF Closing, Final, v
<1>2. CASE w.call.state \in Closing
  <2>1. v = w
    BY <1>2 DEF finish, Closing, Final
  <2>2. w.call.state # "Requesting"
    BY <1>2 DEF Closing, Final
  <2> QED
    BY <1>2, <2>1, <2>2 DEF SameCall
<1>3. CASE w.call.state \notin Closing \cup {"Requesting"} /\ w.call.id = 0
  <2>1. v = setState(w, type)
    BY <1>3 DEF finish, Closing, Final
  <2> HIDE DEF v
  <2> QED
    BY <1>0, <1>3, <2>1, SetStateFact DEF v
<1>4. CASE w.call.state \notin Closing \cup {"Requesting"} /\ w.call.id # 0
  <2> DEFINE s == HangState(type)
             d == NewDiscard(w.call.id, type, reason)
             z == setState(w, s)
             c == [z.call EXCEPT !.finishTimer = type]
  <2>1. v = [z EXCEPT !.call.finishTimer = type, !.discards = @ \cup {d}]
    BY <1>4 DEF finish, Closing, Final, HangState, NewDiscard
  <2>2. ~Blocked(w.call, s) /\ s \notin Final \cup {"Busy"}
    BY <1>4 DEF Blocked, HangState, Closing, Final
  <2> HIDE DEF z, s
  <2>3. /\ z \in WorldSet /\ z.reqs = w.reqs /\ z.discards = w.discards
        /\ SameCall(z.call, w.call) /\ z.call.state = s /\ z.queue = w.queue
        /\ z.call.finishAfter = w.call.finishAfter
        /\ z.call.finishTimer = w.call.finishTimer
        /\ (z.call.instance <=> w.call.instance)
        /\ (z.call.discardTimer <=> w.call.discardTimer)
    BY <1>0, <2>2, SetStateFact DEF z, s
  <2>4. z.call \in CallSet
    BY <2>3 DEF WorldSet
  <2>5. z.call.instance = w.call.instance /\ z.call.discardTimer = w.call.discardTimer
    BY <1>0, <2>3, <2>4 DEF CallSet
  <2>6. /\ c \in CallSet /\ SameCall(c, z.call) /\ c.state = s
        /\ c.finishTimer = type /\ c.finishAfter = z.call.finishAfter
        /\ c.instance = z.call.instance /\ c.discardTimer = z.call.discardTimer
    BY <2>3, <2>4 DEF CallSet, Maybe, SameCall
  <2>7. d \in DiscardSet
    <3>1. w.call.id \in Ids
      BY <1>0, <1>4 DEF CallSet
    <3>2. type # "None"
      BY DEF Finishes
    <3> QED
      BY <3>1, <3>2 DEF DiscardSet, NewDiscard, Maybe
  <2> HIDE DEF d
  <2>8. v = [z EXCEPT !.call = c, !.discards = w.discards \cup {d}]
    BY <2>1, <2>3 DEF WorldSet
  <2> HIDE DEF c, v
  <2>9. /\ v \in WorldSet /\ v.call = c /\ v.reqs = w.reqs
        /\ v.discards = w.discards \cup {d} /\ v.queue = w.queue
    BY <2>3, <2>6, <2>7, <2>8 DEF WorldSet
  <2>10. SameCall(c, w.call)
    BY <2>3, <2>6 DEF SameCall
  <2> QED
    BY <1>4, <2>3, <2>5, <2>6, <2>9, <2>10 DEF Closing, v, s, d
<1> QED
  BY <1>1, <1>2, <1>3, <1>4

(* The rest of what the handlers are made of.                              *)
LEMMA AcceptKeeps ==
    ASSUME NEW c \in CallSet, NEW d \in CallSet, SameCall(c, d), AcceptOK(d),
           \/ c.state = d.state \/ c.state \notin {"Starting", "WaitingIncoming"}
           \/ d.state = "Starting"
    PROVE  AcceptOK(c)
  BY DEF SameCall, AcceptOK, CallSet

With(w, c) == [w EXCEPT !.call = c]

LEMMA WithFact ==
    ASSUME NEW w \in WorldSet, NEW c \in CallSet
    PROVE  /\ With(w, c) \in WorldSet /\ With(w, c).call = c
           /\ With(w, c).queue = w.queue /\ With(w, c).reqs = w.reqs
           /\ With(w, c).discards = w.discards
  BY DEF With, WorldSet

LEMMA PostFact ==
    ASSUME NEW w \in WorldSet, NEW t \in TaskSet
    PROVE  /\ Post(w, t) \in WorldSet /\ Post(w, t).call = w.call
           /\ Post(w, t).queue = Append(w.queue, t)
           /\ Post(w, t).reqs = w.reqs /\ Post(w, t).discards = w.discards
<1>1. w.queue \in Seq(TaskSet)
  BY DEF WorldSet
<1>2. Append(w.queue, t) \in Seq(TaskSet)
  BY <1>1
<1> QED
  BY <1>2 DEF Post, WorldSet

LEMMA AskFact ==
    ASSUME NEW w \in WorldSet, NEW r \in ReqSet
    PROVE  /\ Ask(w, r) \in WorldSet /\ Ask(w, r).call = w.call
           /\ Ask(w, r).queue = w.queue
           /\ Ask(w, r).reqs = w.reqs \cup {r}
           /\ Ask(w, r).discards = w.discards
  BY DEF Ask, WorldSet

LEMMA ReqFact ==
    ASSUME NEW kind \in {"dh", "request", "received", "accept", "confirm"},
           NEW id \in Ids \cup {0}, NEW power \in Nat
    PROVE  /\ Req(kind, id, power) \in ReqSet
           /\ Req(kind, id, power).kind = kind /\ Req(kind, id, power).id = id
           /\ Req(kind, id, power).power = power
           /\ Req(kind, id, power).answer = "None"
  BY DEF Req, ReqSet, Maybe

LEMMA TaskFact ==
    ASSUME NEW task \in {"destroy", "setState", "controller", "answer", "create"},
           NEW state \in Maybe(States),
           task = "setState" => state \in Finishes,
           task = "controller" => state \in ControllerStates
    PROVE  /\ Task(task, state) \in TaskSet
           /\ Task(task, state).task = task /\ Task(task, state).state = state
  BY DEF Task, TaskSet

LEMMA StatesFact ==
    /\ Final \subseteq States /\ Finishes \subseteq Final
    /\ ControllerStates \subseteq States /\ "None" \notin States
    /\ "None" \notin ControllerStates /\ "Busy" \in States /\ States \subseteq Maybe(States)
    /\ "None" \in Maybe(States) /\ "ExchangingKeys" \in States
    /\ "Waiting" \in States /\ "Ringing" \in States /\ "Requesting" \in States
    /\ "WaitingIncoming" \in States /\ Reported \subseteq ControllerStates
  BY CallAssumption DEF Final, States, Finishes, ControllerStates, Maybe

(* Call::hangup finishes, unless the line is busy.                         *)
LEMMA HangupFact ==
    ASSUME NEW w \in WorldSet
    PROVE  /\ w.call.state = "Busy" => hangup(w) = Post(w, Task("destroy", "Busy"))
           /\ w.call.state # "Busy" =>
                 \E reason \in Reasons : hangup(w) = finish(w, "Ended", reason)
<1> DEFINE c == w.call
           missed == \/ c.state = "Ringing"
                     \/ c.state = "Waiting" /\ c.type = "Outgoing"
           reason == CASE missed -> "Missed" [] isIncomingWaiting(c) -> "Busy"
                       [] OTHER -> "Hangup"
<1>1. reason \in Reasons
  BY DEF Reasons
<1>2. w.call.state # "Busy" => hangup(w) = finish(w, "Ended", reason)
  BY DEF hangup
<1> HIDE DEF reason
<1>3. w.call.state = "Busy" => hangup(w) = Post(w, Task("destroy", "Busy"))
  BY DEF hangup
<1> QED
  BY <1>1, <1>2, <1>3

(* createAndStartController and startConfirmedCall fail, or start.         *)
Untimed(w) == With(w, [w.call EXCEPT !.discardTimer = FALSE])
Keyed(w) == With(w, [w.call EXCEPT !.key = w.call.power])
Started(w) == With(w, [w.call EXCEPT !.discardTimer = FALSE, !.instance = TRUE])

LEMMA CreateFact ==
    ASSUME NEW w \in WorldSet, NEW fault, NEW echoed
    PROVE  createAndStartController(w, fault, echoed)
               \in {Fail(Untimed(w)), Started(w)}
<1>1. [w EXCEPT !.call.discardTimer = FALSE] = Untimed(w)
  BY DEF Untimed, With
<1>2. [Untimed(w) EXCEPT !.call.instance = TRUE] = Started(w)
  BY DEF Untimed, Started, With, WorldSet
<1> QED
  BY <1>1, <1>2 DEF createAndStartController

LEMMA StartConfirmedFact ==
    ASSUME NEW w \in WorldSet, NEW fault
    PROVE  startConfirmedCall(w, fault)
               \in {Fail(w), Fail(Untimed(Keyed(w))), Started(Keyed(w))}
<1>1. [w EXCEPT !.call.key = w.call.power] = Keyed(w)
  BY DEF Keyed, With
<1>2. Keyed(w) \in WorldSet
  BY DEF Keyed, With, WorldSet, CallSet
<1> QED
  BY <1>1, <1>2, CreateFact DEF startConfirmedCall

(* What these two change of a call and nobody looks at.                    *)
Alike(v, w) ==
    /\ v \in WorldSet /\ v.queue = w.queue /\ v.reqs = w.reqs
    /\ v.discards = w.discards /\ SameCall(v.call, w.call)
    /\ v.call.state = w.call.state /\ v.call.finishAfter = w.call.finishAfter
    /\ v.call.finishTimer = w.call.finishTimer

LEMMA UntimedFact ==
    ASSUME NEW w \in WorldSet
    PROVE  /\ Alike(Untimed(w), w) /\ Untimed(w).call.instance = w.call.instance
           /\ Alike(Keyed(w), w) /\ Keyed(w).call.instance = w.call.instance
           /\ Keyed(w).call.discardTimer = w.call.discardTimer
           /\ Alike(Started(w), w) /\ Started(w).call.instance = TRUE
<1>0. w.call \in CallSet
  BY DEF WorldSet
<1>1. ASSUME NEW c \in CallSet, SameCall(c, w.call), c.state = w.call.state,
             c.finishAfter = w.call.finishAfter,
             c.finishTimer = w.call.finishTimer
      PROVE  Alike(With(w, c), w) /\ With(w, c).call = c
  BY <1>1, WithFact DEF Alike
<1> DEFINE u == [w.call EXCEPT !.discardTimer = FALSE]
           k == [w.call EXCEPT !.key = w.call.power]
           i == [w.call EXCEPT !.discardTimer = FALSE, !.instance = TRUE]
<1>2. /\ u \in CallSet /\ SameCall(u, w.call) /\ u.state = w.call.state
      /\ u.finishAfter = w.call.finishAfter
      /\ u.finishTimer = w.call.finishTimer /\ u.instance = w.call.instance
  BY <1>0 DEF CallSet, SameCall
<1>3. /\ k \in CallSet /\ SameCall(k, w.call) /\ k.state = w.call.state
      /\ k.finishAfter = w.call.finishAfter
      /\ k.finishTimer = w.call.finishTimer /\ k.instance = w.call.instance
      /\ k.discardTimer = w.call.discardTimer
  BY <1>0 DEF CallSet, SameCall
<1>4. /\ i \in CallSet /\ SameCall(i, w.call) /\ i.state = w.call.state
      /\ i.finishAfter = w.call.finishAfter
      /\ i.finishTimer = w.call.finishTimer /\ i.instance = TRUE
  BY <1>0 DEF CallSet, SameCall
<1> HIDE DEF u, k, i
<1>5. Alike(Untimed(w), w) /\ Untimed(w).call.instance = w.call.instance
  BY <1>1, <1>2 DEF Untimed, u
<1>6. /\ Alike(Keyed(w), w) /\ Keyed(w).call.instance = w.call.instance
      /\ Keyed(w).call.discardTimer = w.call.discardTimer
  BY <1>1, <1>3 DEF Keyed, k
<1>7. Alike(Started(w), w) /\ Started(w).call.instance = TRUE
  BY <1>1, <1>4 DEF Started, i
<1> QED
  BY <1>5, <1>6, <1>7

-----------------------------------------------------------------------------
(* The functions keep the types and AcceptOK.                              *)
LEMMA FineAlike ==
    ASSUME NEW w \in Fine, NEW v, Alike(v, w)
    PROVE  v \in Fine
<1>1. w.call \in CallSet /\ v.call \in CallSet
  BY DEF Fine, Alike, WorldSet
<1> QED
  BY <1>1, AcceptKeeps DEF Fine, Alike

LEMMA FineSetState ==
    ASSUME NEW w \in Fine, NEW s \in States,
           s = "WaitingIncoming" => w.call.state = "Starting", s # "Starting"
    PROVE  setState(w, s) \in Fine
<1>1. w \in WorldSet /\ w.call \in CallSet /\ AcceptOK(w.call)
  BY DEF Fine, WorldSet
<1> DEFINE v == setState(w, s)
<1>2. /\ v \in WorldSet /\ SameCall(v.call, w.call)
      /\ v.call.state \in {w.call.state, s}
  BY <1>1, SetStateFact
<1>3. v.call \in CallSet
  BY <1>2 DEF WorldSet
<1> HIDE DEF v
<1>4. AcceptOK(v.call)
  BY <1>1, <1>2, <1>3, AcceptKeeps
<1> QED
  BY <1>2, <1>4 DEF Fine, v

LEMMA FineFinish ==
    ASSUME NEW w \in Fine, NEW type \in Finishes, NEW reason \in Reasons
    PROVE  finish(w, type, reason) \in Fine
<1>1. w \in WorldSet /\ w.call \in CallSet /\ AcceptOK(w.call)
  BY DEF Fine, WorldSet
<1> DEFINE v == finish(w, type, reason)
<1>2. v \in WorldSet /\ SameCall(v.call, w.call)
  BY <1>1, FinishFact
<1>3. v.call \in CallSet
  BY <1>2 DEF WorldSet
<1>4. v.call.state = w.call.state \/ v.call.state \notin {"Starting", "WaitingIncoming"}
  <2>1. CASE w.call.state \in Closing \cup {"Requesting"}
    BY <1>1, <2>1, FinishFact
  <2>2. CASE w.call.state \notin Closing \cup {"Requesting"} /\ w.call.id = 0
    <3>1. type \in States /\ v = setState(w, type)
      BY <1>1, <2>2, FinishFact, StatesFact
    <3>2. setState(w, type).call.state \in {w.call.state, type}
      BY <1>1, <3>1, SetStateFact
    <3> QED
      BY <3>1, <3>2 DEF Finishes
  <2>3. CASE w.call.state \notin Closing \cup {"Requesting"} /\ w.call.id # 0
    BY <1>1, <2>3, FinishFact DEF HangState
  <2> QED
    BY <2>1, <2>2, <2>3
<1> HIDE DEF v
<1>5. AcceptOK(v.call)
  BY <1>1, <1>2, <1>3, <1>4, AcceptKeeps
<1> QED
  BY <1>2, <1>5 DEF Fine, v

LEMMA FineFail ==
    ASSUME NEW w \in Fine
    PROVE  Fail(w) \in Fine
  BY FineFinish DEF Fail, Finishes, Reasons

LEMMA FinePost ==
    ASSUME NEW w \in Fine, NEW t \in TaskSet
    PROVE  Post(w, t) \in Fine
  BY PostFact DEF Fine

LEMMA FineAsk ==
    ASSUME NEW w \in Fine, NEW r \in ReqSet
    PROVE  Ask(w, r) \in Fine
  BY AskFact DEF Fine

LEMMA FineHangup ==
    ASSUME NEW w \in Fine
    PROVE  hangup(w) \in Fine
<1>1. w \in WorldSet
  BY DEF Fine
<1>2. Task("destroy", "Busy") \in TaskSet
  BY TaskFact, StatesFact
<1>3. CASE w.call.state = "Busy"
  BY <1>1, <1>2, <1>3, HangupFact, FinePost
<1>4. CASE w.call.state # "Busy"
  <2>1. PICK reason \in Reasons : hangup(w) = finish(w, "Ended", reason)
    BY <1>1, <1>4, HangupFact
  <2>2. "Ended" \in Finishes
    BY DEF Finishes
  <2> QED
    BY <2>1, <2>2, FineFinish
<1> QED
  BY <1>3, <1>4

LEMMA FineCreate ==
    ASSUME NEW w \in Fine, NEW fault, NEW echoed
    PROVE  /\ createAndStartController(w, fault, echoed) \in Fine
           /\ startConfirmedCall(w, fault) \in Fine
<1>1. w \in WorldSet
  BY DEF Fine
<1>2. ASSUME NEW x \in Fine PROVE Untimed(x) \in Fine /\ Started(x) \in Fine /\ Keyed(x) \in Fine
  <2>1. x \in WorldSet
    BY DEF Fine
  <2> QED
    BY <2>1, UntimedFact, FineAlike
<1>3. createAndStartController(w, fault, echoed) \in Fine
  BY <1>1, <1>2, CreateFact, FineFail
<1>4. startConfirmedCall(w, fault) \in Fine
  <2>1. Keyed(w) \in Fine
    BY <1>2
  <2> QED
    BY <1>1, <1>2, <2>1, StartConfirmedFact, FineFail
<1> QED
  BY <1>3, <1>4

LEMMA FineConfirm ==
    ASSUME NEW w \in Fine, NEW fault
    PROVE  confirmAcceptedCall(w, fault) \in Fine
<1>1. w \in WorldSet /\ w.call \in CallSet
  BY DEF Fine, WorldSet
<1>2. [w EXCEPT !.call.key = w.call.power] = Keyed(w) /\ Keyed(w) \in Fine
  BY <1>1, UntimedFact, FineAlike DEF Keyed, With
<1>3. setState(Keyed(w), "ExchangingKeys") \in Fine
  BY <1>2, FineSetState, StatesFact
<1>4. Req("confirm", w.call.id, w.call.power) \in ReqSet
  BY <1>1, ReqFact DEF CallSet
<1> QED
  BY <1>2, <1>3, <1>4, FineAsk, FineFail DEF confirmAcceptedCall

Timed(w) == With(w, [w.call EXCEPT !.discardTimer = TRUE])

LEMMA TimedFact ==
    ASSUME NEW w \in WorldSet
    PROVE  /\ Alike(Timed(w), w) /\ Timed(w).call.instance = w.call.instance
           /\ Timed(w).call.discardTimer = TRUE
<1> DEFINE c == [w.call EXCEPT !.discardTimer = TRUE]
<1>1. w.call \in CallSet
  BY DEF WorldSet
<1>2. /\ c \in CallSet /\ SameCall(c, w.call) /\ c.state = w.call.state
      /\ c.finishAfter = w.call.finishAfter /\ c.discardTimer = TRUE
      /\ c.finishTimer = w.call.finishTimer /\ c.instance = w.call.instance
  BY <1>1 DEF CallSet, SameCall
<1> HIDE DEF c
<1> QED
  BY <1>2, WithFact DEF Alike, Timed, c

(* What handleUpdate comes to.                                             *)
LEMMA HandleFact ==
    ASSUME NEW w \in WorldSet, NEW u, u.kind \in
               {"Waiting", "Accepted", "Call", "Discarded", "Empty"}
    PROVE  \/ handleUpdate(w, u) = w
           \/ /\ w.call.state # "None" /\ u.id = w.call.id
              /\ \/ /\ u.kind = "Waiting" /\ w.call.state = "Waiting"
                    /\ handleUpdate(w, u) = setState(Timed(w), "Ringing")
                 \/ /\ u.kind = "Call" /\ w.call.type = "Incoming"
                    /\ w.call.state = "ExchangingKeys"
                    /\ handleUpdate(w, u) = startConfirmedCall(w, u.fault)
                 \/ /\ u.kind = "Discarded"
                    /\ \E s \in {"Busy", "Ended", "EndedByOtherDevice"} :
                          /\ s = "Busy" => u.reason = "Busy"
                          /\ handleUpdate(w, u) = setState(w, s)
                 \/ /\ u.kind = "Accepted" /\ w.call.type = "Outgoing"
                    /\ handleUpdate(w, u) = confirmAcceptedCall(w, u.fault)
                 \/ /\ u.kind \in {"Accepted", "Empty"}
                    /\ handleUpdate(w, u) = Fail(w)
<1> DEFINE c == w.call
<1>1. CASE c.state = "None" \/ u.id # c.id
  BY <1>1 DEF handleUpdate
<1>2. CASE c.state # "None" /\ u.id = c.id /\ u.kind = "Waiting"
  BY <1>2 DEF handleUpdate, Timed, With
<1>3. CASE c.state # "None" /\ u.id = c.id /\ u.kind = "Call"
  BY <1>3 DEF handleUpdate
<1>4. CASE c.state # "None" /\ u.id = c.id /\ u.kind = "Discarded"
  <2> DEFINE s == CASE u.reason = "Busy" -> "Busy"
                    [] c.type = "Outgoing" \/ c.state = "HangingUp" -> "Ended"
                    [] OTHER -> "EndedByOtherDevice"
  <2>1. handleUpdate(w, u) =
          setState(w, CASE u.reason = "Busy" -> "Busy"
                        [] \/ c.type = "Outgoing"
                           \/ c.state = "HangingUp" -> "Ended"
                        [] OTHER -> "EndedByOtherDevice")
    BY <1>4 DEF handleUpdate
  <2>2. CASE u.reason = "Busy"
    <3>2. handleUpdate(w, u) = setState(w, s)
      BY <2>1
    <3>3. s \in {"Busy", "Ended", "EndedByOtherDevice"}
      OBVIOUS
    <3> HIDE DEF s
    <3> QED
      BY <1>4, <2>2, <3>2, <3>3
  <2>3. CASE u.reason # "Busy"
    <3>1. s \in {"Ended", "EndedByOtherDevice"}
      BY <2>3
    <3>2. handleUpdate(w, u) = setState(w, s)
      BY <2>1
    <3> HIDE DEF s
    <3> QED
      BY <1>4, <3>1, <3>2
  <2> QED
    BY <2>2, <2>3
<1>5. CASE c.state # "None" /\ u.id = c.id /\ u.kind = "Accepted"
  <2>0. c.type \in {"Outgoing", "Incoming"}
    BY DEF WorldSet, CallSet
  <2>1. handleUpdate(w, u) = IF c.type # "Outgoing" \/ u.fault = "people"
                             THEN Fail(w) ELSE confirmAcceptedCall(w, u.fault)
    BY <1>5 DEF handleUpdate
  <2> QED
    BY <1>5, <2>1
<1>6. CASE c.state # "None" /\ u.id = c.id /\ u.kind = "Empty"
  BY <1>6 DEF handleUpdate
<1> QED
  BY <1>1, <1>2, <1>3, <1>4, <1>5, <1>6

LEMMA FineHandle ==
    ASSUME NEW w \in Fine, NEW u, u.kind \in
               {"Waiting", "Accepted", "Call", "Discarded", "Empty"}
    PROVE  handleUpdate(w, u) \in Fine
<1>1. w \in WorldSet
  BY DEF Fine
<1>2. Timed(w) \in Fine
  BY <1>1, TimedFact, FineAlike
<1>3. setState(Timed(w), "Ringing") \in Fine
  BY <1>2, FineSetState, StatesFact
<1>4. \A s \in {"Busy", "Ended", "EndedByOtherDevice"} : setState(w, s) \in Fine
  BY FineSetState, StatesFact DEF Final
<1>5. startConfirmedCall(w, u.fault) \in Fine
  BY FineCreate
<1> QED
  BY <1>1, <1>3, <1>4, <1>5, HandleFact, FineConfirm, FineFail

Named(w, id) == With(w, [w.call EXCEPT !.id = id])

LEMMA NamedFact ==
    ASSUME NEW w \in WorldSet, NEW id \in Ids \cup {0}
    PROVE  /\ Named(w, id) \in WorldSet /\ Named(w, id).call.id = id
           /\ Named(w, id).queue = w.queue /\ Named(w, id).reqs = w.reqs
           /\ Named(w, id).discards = w.discards
           /\ Named(w, id).call = [w.call EXCEPT !.id = id]
           /\ w \in Fine => Named(w, id) \in Fine
<1> DEFINE c == [w.call EXCEPT !.id = id]
<1>1. w.call \in CallSet
  BY DEF WorldSet
<1>2. c \in CallSet /\ c.id = id /\ (AcceptOK(w.call) => AcceptOK(c))
  BY <1>1 DEF CallSet, AcceptOK
<1> HIDE DEF c
<1> QED
  BY <1>2, WithFact DEF Named, Fine, c

LEMMA FineRequested ==
    ASSUME NEW w \in Fine, NEW u, u.id \in Ids
    PROVE  handleRequested(w, u) \in Fine
<1>1. w \in WorldSet
  BY DEF Fine
<1>2. handleRequested(w, u) \in {Fail(w), Fail(Named(w, u.id)), Named(w, u.id)}
  BY DEF handleRequested, Named, With
<1>3. Named(w, u.id) \in Fine
  BY <1>1, NamedFact
<1> QED
  BY <1>2, <1>3, FineFail

(* The fields of a call that decide what becomes of it.                    *)
Similar(c, d) ==
    /\ c.state = d.state /\ c.type = d.type /\ c.id = d.id
    /\ c.instance = d.instance /\ c.discardTimer = d.discardTimer
    /\ c.finishAfter = d.finishAfter /\ c.finishTimer = d.finishTimer

(* Call::actuallyAnswer wishes to accept, or does.                         *)
Wishing(v) == With(v, [v.call EXCEPT !.answerAfter = TRUE])
Accepting(v) == With(v, [v.call EXCEPT !.answerAfter = FALSE,
                                       !.accepts = v.call.accepts + 1])
MayAnswer(c) == \/ c.state \in {"Starting", "WaitingIncoming"}
                \/ c.state = "ExchangingKeys" /\ c.answerAfter

LEMMA AnswerFact ==
    ASSUME NEW w \in WorldSet
    PROVE  LET v == setState(w, "ExchangingKeys") IN
           /\ ~MayAnswer(w.call) => actuallyAnswer(w) = w
           /\ MayAnswer(w.call) /\ w.call.power = 0 =>
                 actuallyAnswer(w) = Wishing(v)
           /\ MayAnswer(w.call) /\ w.call.power # 0 =>
                 actuallyAnswer(w) =
                     Ask(Accepting(v), Req("accept", w.call.id, w.call.power))
           /\ MayAnswer(w.call) => v.call.state = "ExchangingKeys"
<1> DEFINE v == setState(w, "ExchangingKeys")
           x == [v EXCEPT !.call.answerAfter = TRUE]
           y == [v EXCEPT !.call.answerAfter = FALSE, !.call.accepts = @ + 1]
<1>1. v \in WorldSet
  BY SetStateFact, StatesFact
<1>2. ASSUME MayAnswer(w.call) PROVE v.call.state = "ExchangingKeys"
  <2>1. CASE w.call.state = "ExchangingKeys"
    <3>1. Blocked(w.call, "ExchangingKeys") /\ "ExchangingKeys" \in States
      BY <2>1, StatesFact DEF Blocked
    <3> HIDE DEF v
    <3>2. v = w
      BY <3>1, SetStateFact DEF v
    <3> QED
      BY <2>1, <3>2
  <2>2. CASE w.call.state \in {"Starting", "WaitingIncoming"}
    <3>1. ~Blocked(w.call, "ExchangingKeys") /\ "ExchangingKeys" \in States
      BY <2>2, StatesFact DEF Blocked
    <3> HIDE DEF v
    <3>2. ~Blocked(w.call, "ExchangingKeys") => v.call.state = "ExchangingKeys"
      BY <3>1, SetStateFact DEF v
    <3> QED
      BY <3>1, <3>2
  <2> QED
    BY <1>2, <2>1, <2>2 DEF MayAnswer
<1>3. actuallyAnswer(w) =
        IF ~MayAnswer(w.call) THEN w
        ELSE IF w.call.power = 0 THEN x
        ELSE Ask(y, Req("accept", w.call.id, w.call.power))
  BY DEF actuallyAnswer, MayAnswer
<1> HIDE DEF v
<1>4. y = Accepting(v)
  BY <1>1 DEF Accepting, With, WorldSet
<1>5. x = Wishing(v)
  BY DEF Wishing, With
<1> HIDE DEF x, y
<1> QED
  BY <1>2, <1>3, <1>4, <1>5 DEF v

LEMMA WishingFact ==
    ASSUME NEW v \in WorldSet
    PROVE  /\ Wishing(v) \in WorldSet /\ Accepting(v) \in WorldSet
           /\ Similar(Wishing(v).call, v.call)
           /\ Wishing(v).call.power = v.call.power
           /\ Wishing(v).call.answerAfter = TRUE
           /\ Wishing(v).call.accepts = v.call.accepts
           /\ Similar(Accepting(v).call, v.call)
           /\ Accepting(v).call.power = v.call.power
           /\ Accepting(v).call.answerAfter = FALSE
           /\ Accepting(v).call.accepts = v.call.accepts + 1
           /\ Wishing(v).queue = v.queue /\ Accepting(v).queue = v.queue
           /\ Wishing(v).reqs = v.reqs /\ Accepting(v).reqs = v.reqs
           /\ Wishing(v).discards = v.discards /\ Accepting(v).discards = v.discards
<1>1. v.call \in CallSet
  BY DEF WorldSet
<1> DEFINE c == [v.call EXCEPT !.answerAfter = TRUE]
           n == v.call.accepts + 1
           d == [v.call EXCEPT !.answerAfter = FALSE, !.accepts = n]
<1>2. /\ c \in CallSet /\ Similar(c, v.call) /\ c.power = v.call.power
      /\ c.answerAfter = TRUE /\ c.accepts = v.call.accepts
  BY <1>1 DEF CallSet, Similar
<1>3. n \in Nat
  BY <1>1 DEF CallSet
<1> HIDE DEF n
<1>4. /\ d \in CallSet /\ Similar(d, v.call) /\ d.power = v.call.power
      /\ d.answerAfter = FALSE /\ d.accepts = n
  BY <1>1, <1>3 DEF CallSet, Similar
<1> HIDE DEF c, d
<1>5. Wishing(v) = With(v, c) /\ Accepting(v) = With(v, d)
  BY DEF Wishing, Accepting, c, d, n
<1> QED
  BY <1>2, <1>4, <1>5, WithFact DEF n

LEMMA FineAnswer ==
    ASSUME NEW w \in Fine
    PROVE  actuallyAnswer(w) \in Fine
<1>1. w \in WorldSet /\ w.call \in CallSet /\ AcceptOK(w.call)
  BY DEF Fine, WorldSet
<1>2. CASE ~MayAnswer(w.call)
  BY <1>1, <1>2, AnswerFact
<1>3. CASE MayAnswer(w.call)
  <2> DEFINE v == setState(w, "ExchangingKeys")
  <2>1. /\ v \in WorldSet /\ SameCall(v.call, w.call)
        /\ v.call.state = "ExchangingKeys"
    BY <1>1, <1>3, SetStateFact, StatesFact, AnswerFact
  <2>2. actuallyAnswer(w) = Wishing(v) \/ actuallyAnswer(w) =
            Ask(Accepting(v), Req("accept", w.call.id, w.call.power))
    BY <1>1, <1>3, AnswerFact
  <2> HIDE DEF v
  <2>3. v.call \in CallSet
    BY <2>1 DEF WorldSet
  <2>4. v.call.accepts = 0
    BY <1>1, <1>3, <2>1, <2>3 DEF AcceptOK, MayAnswer, SameCall, CallSet
  <2>5. Wishing(v) \in Fine
    <3>1. Wishing(v) \in WorldSet /\ Wishing(v).call.accepts = 0
      BY <2>1, <2>4, WishingFact
    <3>2. AcceptOK(Wishing(v).call)
      BY <3>1 DEF AcceptOK
    <3> QED
      BY <3>1, <3>2 DEF Fine
  <2>6. Accepting(v) \in Fine
    <3>1. /\ Accepting(v) \in WorldSet /\ Accepting(v).call.accepts = 0 + 1
          /\ Accepting(v).call.answerAfter = FALSE
          /\ Similar(Accepting(v).call, v.call)
      BY <2>1, <2>4, WishingFact
    <3>2. AcceptOK(Accepting(v).call)
      BY <2>1, <3>1 DEF AcceptOK, Similar
    <3> QED
      BY <3>1, <3>2 DEF Fine
  <2>7. Req("accept", w.call.id, w.call.power) \in ReqSet
    BY <1>1, ReqFact DEF CallSet
  <2> QED
    BY <2>2, <2>5, <2>6, <2>7, FineAsk
<1> QED
  BY <1>2, <1>3

(* Call::start makes a secret and goes on with it.                         *)
Powered(w) == With(w, [w.call EXCEPT !.power = @ + 1])

LEMMA PoweredFact ==
    ASSUME NEW w \in WorldSet
    PROVE  /\ Powered(w) \in WorldSet
           /\ Powered(w).call = [w.call EXCEPT !.power = @ + 1]
           /\ Powered(w).queue = w.queue /\ Powered(w).reqs = w.reqs
           /\ Powered(w).discards = w.discards
           /\ w \in Fine => Powered(w) \in Fine
<1>1. w.call \in CallSet
  BY DEF WorldSet
<1> DEFINE c == [w.call EXCEPT !.power = @ + 1]
<1>2. c \in CallSet /\ (AcceptOK(w.call) => AcceptOK(c))
  BY <1>1 DEF CallSet, AcceptOK
<1> HIDE DEF c
<1> QED
  BY <1>2, WithFact DEF Powered, Fine, c

LEMMA StartFact ==
    ASSUME NEW w \in WorldSet
    PROVE  LET c == w.call IN
           \/ /\ c.state \in {"Starting", "Requesting"} /\ c.type = "Outgoing"
              /\ start(w) = Ask(Powered(w), Req("request", 0, c.power + 1))
           \/ /\ c.state \in {"Starting", "Requesting"} /\ c.type = "Incoming"
              /\ start(w) = Ask(Powered(w), Req("received", c.id, 0))
           \/ /\ c.state = "ExchangingKeys" /\ c.answerAfter
              /\ start(w) = Post(Powered(w), Task("answer", "None"))
           \/ /\ c.state \notin {"Starting", "Requesting"}
              /\ start(w) = Powered(w)
<1>1. w.call \in CallSet
  BY DEF WorldSet
<1>2. /\ Powered(w).call.state = w.call.state /\ Powered(w).call.id = w.call.id
      /\ Powered(w).call.answerAfter = w.call.answerAfter
      /\ Powered(w).call.type = w.call.type
      /\ w.call.type \in {"Outgoing", "Incoming"}
  BY <1>1, PoweredFact DEF CallSet
<1>3. [w EXCEPT !.call.power = w.call.power + 1] = Powered(w)
  BY DEF Powered, With, WorldSet
<1> DEFINE v == Powered(w)
<1>4. start(w) = CASE /\ v.call.state \in {"Starting", "Requesting"}
                      /\ v.call.type = "Outgoing" ->
                         Ask(v, Req("request", 0, w.call.power + 1))
                   [] /\ v.call.state \in {"Starting", "Requesting"}
                      /\ v.call.type = "Incoming" ->
                         Ask(v, Req("received", v.call.id, 0))
                   [] v.call.state = "ExchangingKeys" /\ v.call.answerAfter ->
                         Post(v, Task("answer", "None"))
                   [] OTHER -> v
  BY <1>3 DEF start
<1> HIDE DEF v
<1> QED
  BY <1>2, <1>4 DEF v

LEMMA FineStart ==
    ASSUME NEW w \in Fine
    PROVE  start(w) \in Fine
<1>1. w \in WorldSet /\ w.call \in CallSet
  BY DEF Fine, WorldSet
<1>2. Powered(w) \in Fine
  BY <1>1, PoweredFact
<1>3. /\ Req("request", 0, w.call.power + 1) \in ReqSet
      /\ Req("received", w.call.id, 0) \in ReqSet
  BY <1>1, ReqFact DEF CallSet
<1>4. Task("answer", "None") \in TaskSet
  BY TaskFact, StatesFact
<1> QED
  BY <1>1, <1>2, <1>3, <1>4, StartFact, FineAsk, FinePost

(* Instance::destroyCall leaves the discards, and the tasks that create.   *)
Loose(D) == {[d EXCEPT !.guarded = FALSE] : d \in D}

LEMMA DestroyFact ==
    ASSUME NEW w \in WorldSet
    PROVE  LET v == destroyCall(w) IN
           /\ v \in Fine /\ v.call = NoCall /\ v.reqs = {}
           /\ v.discards = Loose(w.discards)
           /\ \A i \in DOMAIN v.queue : v.queue[i].task = "create"
<1> DEFINE n == Cardinality(Creating(w.queue))
           q == [i \in 1..n |-> Task("create", "None")]
           v == destroyCall(w)
<1>1. n \in Nat
  <2>1. w.queue \in Seq(TaskSet)
    BY DEF WorldSet
  <2>2. Creating(w.queue) \subseteq 1..Len(w.queue) /\ Len(w.queue) \in Nat
    BY <2>1 DEF Creating
  <2>3. IsFiniteSet(1..Len(w.queue))
    BY <2>2, FS_Interval
  <2>4. IsFiniteSet(Creating(w.queue))
    BY <2>2, <2>3, FS_Subset
  <2> QED
    BY <2>4, FS_CardinalityType
<1>2. Task("create", "None") \in TaskSet /\ Task("create", "None").task = "create"
  BY TaskFact, StatesFact
<1>3. v = [call |-> NoCall, queue |-> q, reqs |-> {}, discards |-> Loose(w.discards)]
  BY DEF destroyCall, Loose
<1>4. Loose(w.discards) \subseteq DiscardSet
  <2>1. w.discards \subseteq DiscardSet
    BY DEF WorldSet
  <2>2. ASSUME NEW d \in w.discards PROVE [d EXCEPT !.guarded = FALSE] \in DiscardSet
    BY <2>1 DEF DiscardSet
  <2> QED
    BY <2>2 DEF Loose
<1> HIDE DEF n, v
<1>5. q \in Seq(TaskSet) /\ \A i \in DOMAIN q : q[i].task = "create"
  <2> DEFINE t == Task("create", "None")
  <2> HIDE DEF t
  <2>1. t \in TaskSet
    BY <1>2 DEF t
  <2>2. q \in [1..n -> TaskSet] /\ \A i \in DOMAIN q : q[i] = t
    BY <2>1 DEF t
  <2> HIDE DEF q
  <2> QED
    BY <1>1, <1>2, <2>2, SeqDef DEF t
<1> HIDE DEF q
<1>6. AcceptOK(NoCall)
  BY NoCallFact DEF AcceptOK
<1>7. v \in WorldSet
  BY <1>3, <1>4, <1>5, NoCallFact DEF WorldSet
<1> QED
  BY <1>3, <1>5, <1>6, <1>7 DEF Fine, v

(* Instance::createCall puts a new call in the place of the one there.     *)
Vacated(w) == IF w.call.state = "None" THEN w ELSE destroyCall(hangup(w))
Anew(v, type) == With(v, NewCall(type))

LEMMA CreateCallFact ==
    ASSUME NEW w \in WorldSet, NEW type \in {"Outgoing", "Incoming"}
    PROVE  createCall(w, type) = Ask(Anew(Vacated(w), type), Req("dh", 0, redials))
  BY DEF createCall, Vacated, Anew, With

LEMMA FineCreateCall ==
    ASSUME NEW w \in Fine, NEW type \in {"Outgoing", "Incoming"}, redials \in Nat
    PROVE  createCall(w, type) \in Fine
<1>1. w \in WorldSet
  BY DEF Fine
<1>2. hangup(w) \in WorldSet
  BY FineHangup DEF Fine
<1>3. Vacated(w) \in WorldSet
  BY <1>1, <1>2, DestroyFact DEF Vacated, Fine
<1>4. Anew(Vacated(w), type) \in Fine
  BY <1>3, NewCallFact, WithFact DEF Fine, Anew
<1>5. Req("dh", 0, redials) \in ReqSet
  BY ReqFact
<1> QED
  BY <1>1, <1>4, <1>5, CreateCallFact, FineAsk

(* phone.requestCall was answered.                                         *)
LEMMA RequestDoneFact ==
    ASSUME NEW w \in WorldSet, NEW id \in Ids, NEW received
    PROVE  LET v == Named(setState(w, "Waiting"), id) IN
           \/ w.call.finishAfter = "Failed" /\ requestDone(w, id, received) = Fail(v)
           \/ w.call.finishAfter = "Ended" /\ requestDone(w, id, received) = hangup(v)
           \/ /\ w.call.finishAfter \notin Finishes
              /\ requestDone(w, id, received) =
                    handleUpdate(Timed(v), Update("Waiting", id, received, "none"))
<1> DEFINE z == setState(w, "Waiting")
           x == [z EXCEPT !.call.id = id]
           u == Update("Waiting", id, received, "none")
<1>1. requestDone(w, id, received) =
        CASE w.call.finishAfter = "Failed" -> Fail(x)
          [] w.call.finishAfter = "Ended" -> hangup(x)
          [] OTHER -> handleUpdate([x EXCEPT !.call.discardTimer = TRUE], u)
  BY DEF requestDone
<1> HIDE DEF z, u
<1>2. x = Named(z, id)
  BY DEF Named, With
<1> HIDE DEF x
<1>3. [x EXCEPT !.call.discardTimer = TRUE] = Timed(x)
  BY DEF Timed, With
<1> DEFINE y == [x EXCEPT !.call.discardTimer = TRUE]
<1> HIDE DEF y
<1> QED
  BY <1>1, <1>2, <1>3 DEF Finishes, y, z, u

LEMMA FineRequestDone ==
    ASSUME NEW w \in Fine, NEW id \in Ids, NEW received
    PROVE  requestDone(w, id, received) \in Fine
<1> DEFINE v == Named(setState(w, "Waiting"), id)
           u == Update("Waiting", id, received, "none")
<1>1. w \in WorldSet
  BY DEF Fine
<1>2. setState(w, "Waiting") \in Fine
  BY FineSetState, StatesFact
<1>3. v \in Fine
  BY <1>2, NamedFact DEF Fine
<1>4. u.kind = "Waiting"
  BY DEF Update
<1>5. requestDone(w, id, received) \in {Fail(v), hangup(v), handleUpdate(Timed(v), u)}
  BY <1>1, RequestDoneFact
<1> HIDE DEF v, u
<1>6. Timed(v) \in Fine
  BY <1>3, TimedFact, FineAlike DEF Fine
<1>7. handleUpdate(Timed(v), u) \in Fine
  BY <1>4, <1>6, FineHandle
<1> QED
  BY <1>3, <1>5, <1>7, FineFail, FineHangup

-----------------------------------------------------------------------------
(* The actions keep them.                                                  *)
LEMMA BecomeFact ==
    ASSUME NEW w \in WorldSet, Become(w)
    PROVE  World' = w
  BY DEF Become, World, WorldSet

LEMMA WorldFact ==
    /\ World.call = call /\ World.queue = queue /\ World.reqs = reqs
    /\ World.discards = discards
  BY DEF World

LEMMA WithoutFact ==
    ASSUME World \in Fine, NEW r
    PROVE  /\ Without(r) \in Fine /\ Without(r).call = call
           /\ Without(r).queue = queue /\ Without(r).reqs = reqs \ {r}
           /\ Without(r).discards = discards
<1>1. Without(r) = [World EXCEPT !.reqs = reqs \ {r}]
  BY DEF Without, World
<1> DEFINE w == World
<1>2. w \in WorldSet /\ AcceptOK(w.call) /\ w.reqs = reqs
  BY WorldFact DEF Fine
<1>3. w.call = call /\ w.queue = queue /\ w.discards = discards
  BY WorldFact
<1>4. Without(r) = [w EXCEPT !.reqs = reqs \ {r}]
  BY <1>1
<1> HIDE DEF w
<1> QED
  BY <1>2, <1>3, <1>4 DEF Fine, WorldSet

(* A discard goes; a call that comes while there is one is discarded.      *)
Dropping(d) == [World EXCEPT !.discards = @ \ {d}]
Refusal(id) == [id |-> id, reason |-> "Busy", state |-> "None",
                guarded |-> FALSE, answer |-> "None"]
Refusing(id) == [World EXCEPT !.discards = @ \cup {Refusal(id)}]

LEMMA DroppingFact ==
    ASSUME World \in Fine, NEW d
    PROVE  /\ Dropping(d) \in Fine /\ Dropping(d).call = call
           /\ Dropping(d).queue = queue /\ Dropping(d).reqs = reqs
           /\ Dropping(d).discards = discards \ {d}
<1> DEFINE w == World
<1>1. w \in WorldSet /\ AcceptOK(w.call) /\ w.reqs = reqs
  BY WorldFact DEF Fine
<1>2. w.call = call /\ w.queue = queue /\ w.discards = discards
  BY WorldFact
<1>3. Dropping(d) = [w EXCEPT !.discards = w.discards \ {d}]
  BY DEF Dropping, World
<1> HIDE DEF w
<1> QED
  BY <1>1, <1>2, <1>3 DEF Fine, WorldSet

LEMMA RefusingFact ==
    ASSUME World \in Fine, NEW id \in Ids
    PROVE  /\ Refusing(id) \in Fine /\ Refusing(id).call = call
           /\ Refusing(id).queue = queue /\ Refusing(id).reqs = reqs
           /\ Refusing(id).discards = discards \cup {Refusal(id)}
<1> DEFINE w == World
<1>1. w \in WorldSet /\ AcceptOK(w.call) /\ w.reqs = reqs
  BY WorldFact DEF Fine
<1>2. w.call = call /\ w.queue = queue /\ w.discards = discards
  BY WorldFact
<1>3. Refusing(id) = [w EXCEPT !.discards = w.discards \cup {Refusal(id)}]
  BY DEF Refusing, World
<1>4. Refusal(id) \in DiscardSet
  BY DEF Refusal, DiscardSet, Reasons, Maybe
<1> HIDE DEF w
<1> QED
  BY <1>1, <1>2, <1>3, <1>4 DEF Fine, WorldSet

(* What only the client changes.                                           *)
ClientStep(w) ==
    /\ w \in Fine /\ Become(w) /\ dialog' \in Maybe({"Answer", "Start"})
    /\ srv' = srv /\ updates' = updates /\ starts' \in Nat /\ redials' \in Nat
    /\ events' \in Nat /\ known' = known

LEMMA ClientInv ==
    ASSUME Inv, NEW w, ClientStep(w)
    PROVE  Inv'
<1>1. World' = w
  BY BecomeFact DEF ClientStep, Fine
<1>2. World' \in Fine
  BY <1>1 DEF ClientStep
<1> QED
  BY <1>2 DEF Inv, ClientStep

LEMMA InvAnswers ==
    ASSUME Inv, Answers
    PROVE  Inv'
<1>0. World \in Fine /\ World \in WorldSet /\ redials \in Nat
  BY DEF Inv, Fine
<1>1. ASSUME NEW r \in reqs, AnswerDh(r) PROVE Inv'
  <2>1. Without(r) \in Fine /\ Task("destroy", "Failed") \in TaskSet
    BY <1>0, WithoutFact, TaskFact, StatesFact DEF Finishes
  <2>2. start(Without(r)) \in Fine /\ Post(Without(r), Task("destroy", "Failed")) \in Fine
    BY <2>1, FineStart, FinePost
  <2>3. \E w : ClientStep(w)
    BY <1>1, <2>2 DEF AnswerDh, ClientStep, Inv
  <2> QED
    BY <2>3, ClientInv
<1>2. ASSUME NEW r \in reqs, AnswerRequest(r) PROVE Inv'
  <2> DEFINE v == Without(r)
  <2>1. v \in Fine /\ r \in ReqSet
    BY <1>0, WithoutFact, WorldFact DEF WorldSet
  <2> HIDE DEF v
  <2>2. Fail(setState(v, "Waiting")) \in Fine /\ Fail(v) \in Fine
    BY <2>1, FineFail, FineSetState, StatesFact
  <2>3. r.answer = "ok" =>
            r.id \in Ids /\ \A received : requestDone(v, r.id, received) \in Fine
    BY <1>2, <2>1, FineRequestDone DEF ReqSet, AnswerRequest, Answered
  <2>4. CASE r.answer = "ok"
    <3>1. PICK w : /\ w \in Fine /\ Become(w) /\ known' = known \cup {r.id}
                   /\ srv' = srv /\ updates' = updates
      BY <1>2, <2>3, <2>4 DEF AnswerRequest, v
    <3>2. World' \in Fine
      BY <3>1, BecomeFact DEF Fine
    <3> QED
      BY <1>2, <2>3, <2>4, <3>1, <3>2 DEF Inv, AnswerRequest
  <2>5. CASE r.answer # "ok"
    <3>1. \E w : ClientStep(w)
      BY <1>2, <2>2, <2>5 DEF AnswerRequest, ClientStep, Inv, v
    <3> QED
      BY <3>1, ClientInv
  <2> QED
    BY <2>4, <2>5

<1>3. ASSUME NEW r \in reqs, AnswerReceived(r) PROVE Inv'
  <2> DEFINE v == Without(r)
  <2>1. v \in Fine /\ v.call = call
    BY <1>0, WithoutFact
  <2> HIDE DEF v
  <2>2. Fail(v) \in Fine
    BY <2>1, FineFail
  <2>3. call.state = "Starting" => setState(v, "WaitingIncoming") \in Fine
    BY <2>1, FineSetState, StatesFact
  <2>4. \E w : ClientStep(w)
    BY <1>3, <2>1, <2>2, <2>3 DEF AnswerReceived, ClientStep, Inv, v
  <2> QED
    BY <2>4, ClientInv
<1>4. ASSUME NEW r \in reqs, AnswerAccept(r) PROVE Inv'
  <2> DEFINE v == Without(r)
             u == Update("Waiting", r.id, "None", "none")
  <2>1. v \in Fine /\ u.kind = "Waiting"
    BY <1>0, WithoutFact DEF Update
  <2> HIDE DEF v, u
  <2>2. Fail(v) \in Fine /\ handleUpdate(v, u) \in Fine
    BY <2>1, FineFail, FineHandle
  <2>3. \E w : ClientStep(w)
    BY <1>4, <2>2 DEF AnswerAccept, ClientStep, Inv, v, u
  <2> QED
    BY <2>3, ClientInv
<1>5. ASSUME NEW r \in reqs, AnswerConfirm(r) PROVE Inv'
  <2> DEFINE v == Without(r)
  <2>1. v \in Fine
    BY <1>0, WithoutFact
  <2> HIDE DEF v
  <2>2. Fail(v) \in Fine /\ \A fault : createAndStartController(v, fault, r.power) \in Fine
    BY <2>1, FineFail, FineCreate
  <2>3. \E w : ClientStep(w)
    BY <1>5, <2>2 DEF AnswerConfirm, ClientStep, Inv, v
  <2> QED
    BY <2>3, ClientInv
<1>6. ASSUME NEW d \in discards, AnswerDiscard(d) PROVE Inv'
  <2> DEFINE w == Dropping(d)
             p == Post(w, Task("setState", d.state))
             v == IF d.guarded THEN p ELSE w
             u == Update("Discarded", d.id, d.reason, "none")
  <2>1. w \in Fine /\ u.kind = "Discarded" /\ d \in DiscardSet
    BY <1>0, DroppingFact, WorldFact DEF Update, WorldSet
  <2>2. d.guarded => d.state \in Finishes
    BY <2>1 DEF DiscardSet, Maybe
  <2>3. /\ AnswerDiscard(d) =>
              Become(IF d.answer = "ok" THEN handleUpdate(v, u)
                     ELSE IF d.guarded THEN setState(w, d.state) ELSE w)
    BY DEF AnswerDiscard, Dropping
  <2> HIDE DEF w, u
  <2>4. d.guarded => p \in Fine
    BY <2>1, <2>2, FinePost, TaskFact, StatesFact
  <2> HIDE DEF p
  <2>5. v \in Fine
    BY <2>1, <2>4
  <2> HIDE DEF v
  <2>6. handleUpdate(v, u) \in Fine
    BY <2>1, <2>5, FineHandle
  <2>7. d.guarded => setState(w, d.state) \in Fine
    BY <2>1, <2>2, FineSetState, StatesFact DEF Finishes
  <2>8. \E x : ClientStep(x)
    BY <1>6, <2>1, <2>3, <2>6, <2>7 DEF ClientStep, Inv, AnswerDiscard
  <2> QED
    BY <2>8, ClientInv
<1> QED
  BY <1>1, <1>2, <1>3, <1>4, <1>5, <1>6 DEF Answers

LEMMA InvDeliver ==
    ASSUME Inv, DeliverUpdate
    PROVE  Inv'
<1> DEFINE u == Head(updates)
<1>1. World \in Fine /\ redials \in Nat /\ u \in UpdateSet /\ Tail(updates) \in Seq(UpdateSet)
  BY DEF Inv, DeliverUpdate
<1>2. PICK tooOld \in BOOLEAN : Become(handleCallUpdate(u, tooOld))
  BY DEF DeliverUpdate
<1>3. known' \subseteq Ids
  BY <1>1 DEF DeliverUpdate, Inv, UpdateSet
<1>4. DeliverUpdate => /\ updates' = Tail(updates)
                       /\ UNCHANGED <<dialog, srv, starts, redials, events>>
  BY DEF DeliverUpdate
<1> HIDE DEF u
<1>5. handleCallUpdate(u, tooOld) \in Fine
  <2> DEFINE busy == Refusing(u.id)
  <2>2. u.kind # "Requested" => u.kind \in
            {"Waiting", "Accepted", "Call", "Discarded", "Empty"}
    BY <1>1 DEF UpdateSet
  <2>3. u.kind # "Requested" => handleUpdate(World, u) \in Fine
    BY <1>1, <2>2, FineHandle
  <2>4. u.kind = "Requested" => handleCallUpdate(u, tooOld) \in
            {World, busy, handleRequested(createCall(World, "Incoming"), u)}
    BY DEF handleCallUpdate, Refusing, Refusal
  <2>5. u.kind # "Requested" => handleCallUpdate(u, tooOld) = handleUpdate(World, u)
    BY DEF handleCallUpdate
  <2>6. u.id \in Ids
    BY <1>1 DEF UpdateSet
  <2>7. busy \in Fine
    BY <1>1, <2>6, RefusingFact
  <2>8. handleRequested(createCall(World, "Incoming"), u) \in Fine
    BY <1>1, <2>6, FineRequested, FineCreateCall
  <2> HIDE DEF busy
  <2> QED
    BY <1>1, <2>3, <2>4, <2>5, <2>7, <2>8
<1>6. World' \in Fine
  BY <1>2, <1>5, BecomeFact DEF Fine
<1> QED
  BY <1>1, <1>3, <1>4, <1>6 DEF Inv

LEMMA FirstFact ==
    ASSUME World \in Fine, queue # <<>>
    PROVE  LET w == [World EXCEPT !.queue = Tail(@)] IN
           /\ w \in Fine /\ w.call = call /\ w.queue = Tail(queue)
           /\ w.reqs = reqs /\ w.discards = discards
           /\ Head(queue) \in TaskSet /\ queue \in Seq(TaskSet)
<1> DEFINE w == World
<1>1. w \in WorldSet /\ AcceptOK(w.call) /\ w.reqs = reqs
  BY WorldFact DEF Fine
<1>2. w.call = call /\ w.queue = queue /\ w.discards = discards
  BY WorldFact
<1> HIDE DEF w
<1>3. Head(queue) \in TaskSet /\ Tail(queue) \in Seq(TaskSet) /\ queue \in Seq(TaskSet)
  BY <1>1, <1>2 DEF WorldSet
<1>4. [World EXCEPT !.queue = Tail(@)] = [w EXCEPT !.queue = Tail(queue)]
  BY <1>2 DEF w
<1> QED
  BY <1>1, <1>2, <1>3, <1>4 DEF Fine, WorldSet

LEMMA InvRunTask ==
    ASSUME Inv, RunTask
    PROVE  Inv'
<1> DEFINE w == [World EXCEPT !.queue = Tail(@)]
           t == Head(queue)
<1>1. w \in Fine /\ w \in WorldSet /\ t \in TaskSet /\ redials \in Nat
  BY FirstFact DEF Inv, RunTask, Fine
<1>2. Become(CASE t.task = "destroy" -> destroyCall(w)
               [] t.task = "setState" -> setState(w, t.state)
               [] t.task = "controller" -> handleControllerStateChange(w, t.state)
               [] t.task = "answer" -> actuallyAnswer(w)
               [] t.task = "create" -> createCall(w, "Outgoing"))
  BY DEF RunTask
<1>3. UNCHANGED <<dialog, srv, updates, known, starts, redials, events>>
  BY DEF RunTask
<1> HIDE DEF w, t
<1>4. /\ destroyCall(w) \in Fine /\ actuallyAnswer(w) \in Fine
      /\ createCall(w, "Outgoing") \in Fine /\ Fail(w) \in Fine
  BY <1>1, DestroyFact, FineAnswer, FineCreateCall, FineFail
<1>5. t.task = "setState" => setState(w, t.state) \in Fine
  BY <1>1, FineSetState, StatesFact DEF TaskSet, Finishes
<1>6. t.task = "controller" => handleControllerStateChange(w, t.state) \in Fine
  <2>1. t.task = "controller" => t.state \in ControllerStates
    BY <1>1 DEF TaskSet
  <2>2. t.task = "controller" => setState(w, t.state) \in Fine
    BY <1>1, <2>1, FineSetState, StatesFact DEF ControllerStates
  <2> QED
    BY <1>4, <2>2 DEF handleControllerStateChange
<1>7. t.task \in {"destroy", "setState", "controller", "answer", "create"}
  BY <1>1 DEF TaskSet
<1>8. \E x \in Fine : Become(x)
  BY <1>2, <1>4, <1>5, <1>6, <1>7
<1>9. \E x : ClientStep(x)
  BY <1>3, <1>8 DEF ClientStep, Inv
<1> QED
  BY <1>9, ClientInv

(* The fields the timers and the permission dialog reset.                  *)
Late(w) == With(w, [w.call EXCEPT !.finishTimer = "None"])
Asked(w, b) == With(w, [w.call EXCEPT !.asking = b])

LEMMA LateFact ==
    ASSUME NEW w \in WorldSet
    PROVE  /\ Late(w) \in WorldSet /\ SameCall(Late(w).call, w.call)
           /\ Late(w).call.state = w.call.state
           /\ Late(w).call.instance = w.call.instance
           /\ Late(w).call.discardTimer = w.call.discardTimer
           /\ Late(w).call.finishAfter = w.call.finishAfter
           /\ Late(w).call.finishTimer = "None"
           /\ Late(w).queue = w.queue /\ Late(w).reqs = w.reqs
           /\ Late(w).discards = w.discards
           /\ w \in Fine => Late(w) \in Fine
<1> DEFINE c == [w.call EXCEPT !.finishTimer = "None"]
<1>1. w.call \in CallSet
  BY DEF WorldSet
<1>2. /\ c \in CallSet /\ SameCall(c, w.call) /\ c.state = w.call.state
      /\ c.instance = w.call.instance /\ c.discardTimer = w.call.discardTimer
      /\ c.finishAfter = w.call.finishAfter /\ c.finishTimer = "None"
  BY <1>1 DEF CallSet, SameCall, Maybe
<1> HIDE DEF c
<1>3. w \in Fine => AcceptOK(c)
  BY <1>1, <1>2, AcceptKeeps DEF Fine
<1>4. Late(w) = With(w, c)
  BY DEF Late, c
<1> QED
  BY <1>2, <1>3, <1>4, WithFact DEF Fine

LEMMA AskedFact ==
    ASSUME NEW w \in WorldSet, NEW b \in BOOLEAN
    PROVE  /\ Alike(Asked(w, b), w)
           /\ Asked(w, b).call.instance = w.call.instance
           /\ Asked(w, b).call.discardTimer = w.call.discardTimer
<1> DEFINE c == [w.call EXCEPT !.asking = b]
<1>1. w.call \in CallSet
  BY DEF WorldSet
<1>2. /\ c \in CallSet /\ SameCall(c, w.call) /\ c.state = w.call.state
      /\ c.finishAfter = w.call.finishAfter /\ c.discardTimer = w.call.discardTimer
      /\ c.finishTimer = w.call.finishTimer /\ c.instance = w.call.instance
  BY <1>1 DEF CallSet, SameCall
<1> HIDE DEF c
<1> QED
  BY <1>2, WithFact DEF Alike, Asked, c

LEMMA InvTimers ==
    ASSUME Inv, DiscardTimer \/ FinishTimer \/ ControllerEvent
    PROVE  Inv'
<1>1. World \in Fine /\ World \in WorldSet
  BY DEF Inv, Fine
<1>2. CASE DiscardTimer
  <2>1. Untimed(World) \in Fine
    BY <1>1, UntimedFact, FineAlike
  <2>2. [World EXCEPT !.call.discardTimer = FALSE] = Untimed(World)
    BY DEF Untimed, With
  <2>3. Become(hangup(Untimed(World)))
    BY <1>2, <2>2 DEF DiscardTimer
  <2>4. ClientStep(hangup(Untimed(World)))
    BY <1>2, <2>1, <2>3, FineHangup DEF ClientStep, DiscardTimer, Inv
  <2> QED
    BY <2>4, ClientInv
<1>3. CASE FinishTimer
  <2>1. Late(World) \in Fine
    BY <1>1, LateFact
  <2>2. [World EXCEPT !.call.finishTimer = "None"] = Late(World)
    BY DEF Late, With
  <2>3. Become(setState(Late(World), call.finishTimer))
    BY <1>3, <2>2 DEF FinishTimer
  <2>4. call.finishTimer \in Finishes
    BY <1>1, <1>3, WorldFact DEF FinishTimer, WorldSet, CallSet, Maybe
  <2>5. setState(Late(World), call.finishTimer) \in Fine
    BY <2>1, <2>4, FineSetState, StatesFact DEF Finishes
  <2>6. ClientStep(setState(Late(World), call.finishTimer))
    BY <1>3, <2>3, <2>5 DEF ClientStep, FinishTimer, Inv
  <2> QED
    BY <2>6, ClientInv
<1>4. CASE ControllerEvent
  <2>1. PICK s \in Reported : Become(Post(World, Task("controller", s)))
    BY <1>4 DEF ControllerEvent
  <2>2. Task("controller", s) \in TaskSet
    BY <2>1, TaskFact, StatesFact
  <2>3. ClientStep(Post(World, Task("controller", s)))
    BY <1>1, <1>4, <2>1, <2>2, FinePost DEF ClientStep, ControllerEvent, Inv
  <2> QED
    BY <2>3, ClientInv
<1> QED
  BY <1>2, <1>3, <1>4

(* Call::redial turns a busy call into one that calls.                     *)
Turned(w) == With(w, [w.call EXCEPT !.type = "Outgoing"])
Unasked(w) == With(w, [w.call EXCEPT !.answerAfter = FALSE])
Redialed(w) == Unasked(setState(Turned(w), "Requesting"))

LEMMA RedialFact ==
    ASSUME NEW w \in WorldSet, w.call.state = "Busy"
    PROVE  /\ Redialed(w) \in WorldSet /\ Redialed(w).queue = w.queue
           /\ Redialed(w).reqs = w.reqs /\ Redialed(w).discards = w.discards
           /\ Redialed(w).call.state = "Requesting"
           /\ Redialed(w).call.type = "Outgoing"
           /\ Redialed(w).call.id = w.call.id /\ Redialed(w).call.power = w.call.power
           /\ ~Redialed(w).call.answerAfter
           /\ Redialed(w).call.accepts = w.call.accepts
           /\ Redialed(w).call.finishTimer = w.call.finishTimer
           /\ Redialed(w).call.finishAfter = w.call.finishAfter
           /\ Redialed(w).call.instance <=> w.call.instance
<1> DEFINE c == [w.call EXCEPT !.type = "Outgoing"]
           v == With(w, c)
           z == setState(v, "Requesting")
           e == [z.call EXCEPT !.answerAfter = FALSE]
<1>1. w.call \in CallSet
  BY DEF WorldSet
<1>2. /\ c \in CallSet /\ c.type = "Outgoing" /\ c.state = "Busy" /\ c.id = w.call.id
      /\ c.power = w.call.power /\ c.accepts = w.call.accepts
      /\ c.finishTimer = w.call.finishTimer /\ c.finishAfter = w.call.finishAfter
      /\ c.instance = w.call.instance
  BY <1>1 DEF CallSet
<1>3. Redialed(w) = With(z, e)
  BY DEF Redialed, Unasked, Turned
<1> HIDE DEF c
<1>4. /\ v \in WorldSet /\ v.call = c /\ v.queue = w.queue /\ v.reqs = w.reqs
      /\ v.discards = w.discards
  BY <1>2, WithFact
<1> HIDE DEF v
<1>5. ~Blocked(v.call, "Requesting") /\ "Requesting" \in States
      /\ "Requesting" \notin Final
  BY <1>2, <1>4, StatesFact DEF Blocked, Final
<1>6. /\ z \in WorldSet /\ z.queue = w.queue /\ z.reqs = w.reqs
      /\ z.discards = w.discards /\ SameCall(z.call, c)
      /\ z.call.state = "Requesting"
      /\ z.call.finishTimer = w.call.finishTimer
      /\ z.call.finishAfter = w.call.finishAfter
      /\ (z.call.instance <=> w.call.instance)
  BY <1>2, <1>4, <1>5, SetStateFact
<1> HIDE DEF z
<1>7. z.call \in CallSet
  BY <1>6 DEF WorldSet
<1>8. /\ e \in CallSet /\ e.type = z.call.type /\ e.state = z.call.state
      /\ e.id = z.call.id /\ e.power = z.call.power /\ e.accepts = z.call.accepts
      /\ e.finishTimer = z.call.finishTimer /\ e.finishAfter = z.call.finishAfter
      /\ e.instance = z.call.instance /\ ~e.answerAfter
  BY <1>7 DEF CallSet
<1> HIDE DEF e
<1> QED
  BY <1>2, <1>3, <1>6, <1>8, WithFact DEF SameCall

LEMMA RedialStep ==
    ASSUME Redial
    PROVE  Become(Ask(Redialed(World), Req("dh", 0, redials + 1)))
<1> DEFINE z == setState(Turned(World), "Requesting")
<1>1. [World EXCEPT !.call.type = "Outgoing"] = Turned(World)
  BY DEF Turned, With
<1>2. Become(Ask([z EXCEPT !.call.answerAfter = FALSE], Req("dh", 0, redials + 1)))
  BY <1>1 DEF Redial
<1> HIDE DEF z
<1>3. [z EXCEPT !.call.answerAfter = FALSE] = Unasked(z)
  BY DEF Unasked, With
<1> QED
  BY <1>2, <1>3 DEF Redialed, z

LEMMA InvUser ==
    ASSUME Inv, User
    PROVE  Inv'
<1>1. World \in Fine /\ World \in WorldSet /\ hangup(World) \in Fine
  BY FineHangup DEF Inv, Fine
<1>2. Task("answer", "None") \in TaskSet /\ Task("create", "None") \in TaskSet
  BY TaskFact, StatesFact
<1>3. /\ Post(World, Task("answer", "None")) \in Fine
      /\ Post(World, Task("create", "None")) \in Fine
  BY <1>1, <1>2, FinePost
<1>4. \A b \in BOOLEAN : Asked(World, b) \in Fine
  BY <1>1, AskedFact, FineAlike
<1>5. \A b \in BOOLEAN : [World EXCEPT !.call.asking = b] = Asked(World, b)
  BY DEF Asked, With
<1>6. CASE Hangup
  <2>1. ClientStep(hangup(World))
    BY <1>1, <1>6 DEF Hangup, ClientStep, Inv
  <2> QED
    BY <2>1, ClientInv
<1>7. CASE Answer
  <2>1. \E w \in Fine : Become(w)
    BY <1>1, <1>3, <1>4, <1>5, <1>7 DEF Answer
  <2>2. \E w : ClientStep(w)
    BY <1>7, <2>1 DEF Answer, ClientStep, Inv, Maybe
  <2> QED
    BY <2>2, ClientInv
<1>8. CASE StartOutgoing
  <2>1. UNCHANGED clientVars => Become(World)
    BY DEF clientVars, Become, World
  <2>2. \E w \in Fine : Become(w)
    BY <1>1, <1>3, <1>8, <2>1 DEF StartOutgoing
  <2>3. \E w : ClientStep(w)
    BY <1>8, <2>2 DEF StartOutgoing, ClientStep, Inv, Maybe
  <2> QED
    BY <2>3, ClientInv
<1>9. CASE DialogCloses
  <2> DEFINE a == Asked(World, FALSE)
             p == Post(World, Task("create", "None"))
             z == Post(a, Task("answer", "None"))
             h == hangup(a)
  <2>1. a \in Fine
    BY <1>4
  <2>2. \/ Become(CASE dialog = "Start" -> p
                    [] dialog = "Answer" /\ call.asking -> z
                    [] OTHER -> World)
        \/ Become(IF call.state = "None" THEN World ELSE h)
    BY <1>5, <1>9 DEF DialogCloses
  <2> HIDE DEF a
  <2>3. p \in Fine /\ z \in Fine /\ h \in Fine
    BY <1>2, <1>3, <2>1, FinePost, FineHangup
  <2> HIDE DEF p, z, h
  <2>4. \E w \in Fine : Become(w)
    BY <1>1, <2>2, <2>3
  <2>5. \E w : ClientStep(w)
    BY <1>9, <2>4 DEF DialogCloses, ClientStep, Inv, Maybe
  <2> QED
    BY <2>5, ClientInv
<1>10. CASE Redial
  <2>0. World.call.state = "Busy" /\ World.call \in CallSet
    BY <1>1, <1>10, WorldFact DEF Redial, WorldSet
  <2> DEFINE w == World
  <2>1. w \in Fine /\ w \in WorldSet /\ w.call.state = "Busy" /\ w.call \in CallSet
    BY <1>1, <2>0
  <2>2. Become(Ask(Redialed(w), Req("dh", 0, redials + 1)))
    BY <1>10, RedialStep
  <2> HIDE DEF w
  <2>3. AcceptOK(Redialed(w).call)
    BY <2>1, RedialFact DEF AcceptOK, Fine
  <2>4. Redialed(w) \in Fine
    BY <2>1, <2>3, RedialFact DEF Fine
  <2>5. Req("dh", 0, redials + 1) \in ReqSet
    <3>1. redials + 1 \in Nat
      BY DEF Inv
    <3> QED
      BY <3>1, ReqFact
  <2>6. ClientStep(Ask(Redialed(w), Req("dh", 0, redials + 1)))
    BY <1>10, <2>2, <2>4, <2>5, FineAsk DEF Redial, ClientStep, Inv
  <2> QED
    BY <2>6, ClientInv
<1>11. CASE EnterGroupCall
  <2>1. destroyCall(hangup(World)) \in Fine
    BY <1>1, DestroyFact DEF Fine
  <2>2. ClientStep(destroyCall(hangup(World)))
    BY <1>11, <2>1 DEF EnterGroupCall, ClientStep, Inv
  <2> QED
    BY <2>2, ClientInv
<1> QED
  BY <1>6, <1>7, <1>8, <1>9, <1>10, <1>11 DEF User

(* The server takes the least id that is free; there is one.               *)
LEMMA LeastFact ==
    ASSUME NEW S \in SUBSET Nat, S # {}
    PROVE  \E i \in S : \A j \in S : i <= j
<1> DEFINE R == {p \in Nat \X Nat : p[1] < p[2]}
<1>1. IsWellFoundedOn(R, Nat)
  BY NatLessThanWellFounded DEF OpToRel
<1> HIDE DEF R
<1>2. PICK i \in S : \A j \in S : ~(<<j, i>> \in R)
  BY <1>1, WFMin
<1>3. ASSUME NEW j \in S PROVE i <= j
  <2>1. ~(<<j, i>> \in R)
    BY <1>2
  <2>2. i \in Nat /\ j \in Nat
    OBVIOUS
  <2>3. ~(j < i)
    BY <2>1, <2>2 DEF R
  <2> QED
    BY <2>2, <2>3
<1> QED
  BY <1>3

-----------------------------------------------------------------------------
(* The server, the peer and the other devices: what they may do to a call, *)
(* and what an update says of the call S[u.id].                            *)
Stepped(s, x) ==
    /\ s.stage # "None" => /\ x.stage # "None" /\ x.ours = s.ours
                           /\ x.power = s.power
    /\ s.stage = "Discarded" => x = s
    /\ s.accepted => x.accepted

Moves == srv' \in [Ids -> SrvSet] /\ \A id \in Ids : Stepped(srv[id], srv'[id])

Says(u, s) ==
    /\ s.stage # "None"
    /\ u.kind = "Requested" => ~s.ours
    /\ u.kind = "Accepted" => s.ours /\ s.accepted
    /\ u.kind = "Call" => s.accepted
    /\ u.kind = "Discarded" => s.stage = "Discarded"
    /\ u.kind = "Discarded" /\ u.reason = "Busy" => ~s.accepted

UpdateOK(S, u) == Says(u, S[u.id])

LEMMA UpdateFact ==
    ASSUME NEW kind \in {"Requested", "Waiting", "Accepted", "Call", "Discarded",
                         "Empty"},
           NEW id \in Ids, NEW reason \in Maybe({"Received"} \cup Reasons),
           NEW fault \in {"none", "people", "key", "version"}
    PROVE  /\ Update(kind, id, reason, fault) \in UpdateSet
           /\ Update(kind, id, reason, fault).kind = kind
           /\ Update(kind, id, reason, fault).id = id
           /\ Update(kind, id, reason, fault).reason = reason
  BY DEF Update, UpdateSet

(* One call changes.                                                       *)
LEMMA MovesFact ==
    ASSUME srv \in [Ids -> SrvSet], NEW i, NEW x,
           i \in Ids => x \in SrvSet /\ Stepped(srv[i], x),
           srv' = [srv EXCEPT ![i] = x]
    PROVE  Moves /\ (i \in Ids => srv'[i] = x)
<1>1. srv' \in [Ids -> SrvSet] /\ \A j \in Ids : srv'[j] = IF i = j THEN x ELSE srv[j]
  OBVIOUS
<1>2. \A j \in Ids : Stepped(srv[j], srv[j])
  BY DEF Stepped
<1>3. \A j \in Ids : Stepped(srv[j], srv'[j])
  BY <1>1, <1>2
<1> QED
  BY <1>1, <1>3 DEF Moves

LEMMA MovesSame ==
    ASSUME srv \in [Ids -> SrvSet], srv' = srv
    PROVE  Moves
  BY DEF Moves, Stepped

(* The answer to a request of the call.                                    *)
Reply(r, a, id) == [r EXCEPT !.answer = a, !.id = id]

LEMMA ReplyFact ==
    ASSUME NEW r \in ReqSet, NEW a \in {"ok", "wrong", "error"},
           NEW id \in Ids \cup {0}, r.kind = "request" /\ a = "ok" => id # 0
    PROVE  /\ Reply(r, a, id) \in ReqSet /\ Reply(r, a, id).kind = r.kind
           /\ Reply(r, a, id).power = r.power /\ Reply(r, a, id).id = id
           /\ Reply(r, a, id).answer = a
  BY DEF Reply, ReqSet, Maybe

Replied(r, a, id) ==
    /\ reqs' = (reqs \ {r}) \cup {Reply(r, a, id)}
    /\ r.kind = "request" /\ a = "ok" =>
          /\ id # 0 /\ srv'[id].stage # "None"
          /\ srv'[id].ours /\ srv'[id].power = r.power
    /\ r.kind # "request" => id = r.id

LEMMA ServeRequestFact ==
    ASSUME Inv, NEW r \in reqs, ServeRequest(r)
    PROVE  /\ r \in ReqSet /\ Moves
           /\ \E a \in {"ok", "wrong", "error"}, id \in Ids \cup {0} :
                 Replied(r, a, id)
<1>1. r \in ReqSet /\ srv \in [Ids -> SrvSet]
  BY WorldFact DEF Inv, Fine, WorldSet
<1>2. r.id \in Ids \cup {0} /\ r.power \in Nat
  BY <1>1 DEF ReqSet
<1>3. CASE /\ r.kind = "request" /\ Fresh # {}
           /\ LET id == CHOOSE i \in Fresh : \A j \in Fresh : i <= j
              IN  /\ Served(r, "ok", id)
                  /\ srv' = [srv EXCEPT ![id] =
                         [stage |-> "Waiting", ours |-> TRUE,
                          power |-> r.power, accepted |-> FALSE]]
  <2> DEFINE id == CHOOSE i \in Fresh : \A j \in Fresh : i <= j
             s == [stage |-> "Waiting", ours |-> TRUE, power |-> r.power,
                   accepted |-> FALSE]
  <2>1. Served(r, "ok", id) /\ srv' = [srv EXCEPT ![id] = s]
    BY <1>3
  <2>2. id \in Fresh
    <3>0. Fresh \in SUBSET Nat
      BY IdsFact DEF Fresh
    <3>1. \E i \in Fresh : \A j \in Fresh : i <= j
      BY <1>3, <3>0, LeastFact
    <3> QED
      BY <3>1
  <2>3. /\ s \in SrvSet /\ s.stage # "None" /\ s.ours /\ s.power = r.power
        /\ s.stage = "Waiting"
    BY <1>2 DEF SrvSet, Maybe
  <2> HIDE DEF id, s
  <2>4. id \in Ids /\ id # 0 /\ srv[id].stage = "None"
    BY <2>2, IdsFact DEF Fresh
  <2>5. srv[id] \in SrvSet /\ ~srv[id].accepted
    BY <1>1, <2>4 DEF SrvSet
  <2>6. Stepped(srv[id], s)
    BY <2>4, <2>5 DEF Stepped
  <2>7. Moves /\ srv'[id] = s
    BY <1>1, <2>1, <2>3, <2>4, <2>6, MovesFact
  <2>8. Replied(r, "ok", id)
    <3>1. reqs' = (reqs \ {r}) \cup {Reply(r, "ok", id)}
      BY <2>1 DEF Served, Reply
    <3> QED
      BY <1>3, <2>3, <2>4, <2>7, <3>1 DEF Replied
  <2> QED
    BY <1>1, <2>4, <2>7, <2>8
<1>4. CASE /\ r.kind = "accept" /\ srv[r.id].stage = "Waiting"
           /\ Served(r, "ok", r.id)
           /\ srv' = [srv EXCEPT ![r.id].stage = "Accepted", ![r.id].accepted = TRUE]
  <2> DEFINE x == [srv[r.id] EXCEPT !.stage = "Accepted", !.accepted = TRUE]
  <2>1. srv' = [srv EXCEPT ![r.id] = x]
    BY <1>1, <1>4
  <2>2. r.id \in Ids => x \in SrvSet /\ Stepped(srv[r.id], x)
    BY <1>1, <1>4 DEF SrvSet, Stepped, Maybe
  <2> HIDE DEF x
  <2>3. Moves
    BY <1>1, <2>1, <2>2, MovesFact
  <2>4. Replied(r, "ok", r.id)
    BY <1>4 DEF Served, Reply, Replied
  <2> QED
    BY <1>1, <1>2, <2>3, <2>4
<1>5. CASE /\ r.kind = "confirm" /\ srv[r.id].stage = "Accepted"
           /\ Served(r, "ok", r.id)
           /\ srv' = [srv EXCEPT ![r.id].stage = "Confirmed"]
  <2> DEFINE x == [srv[r.id] EXCEPT !.stage = "Confirmed"]
  <2>1. srv' = [srv EXCEPT ![r.id] = x]
    BY <1>1, <1>5
  <2>2. r.id \in Ids => x \in SrvSet /\ Stepped(srv[r.id], x)
    BY <1>1, <1>5 DEF SrvSet, Stepped, Maybe
  <2> HIDE DEF x
  <2>3. Moves
    BY <1>1, <2>1, <2>2, MovesFact
  <2>4. Replied(r, "ok", r.id)
    BY <1>5 DEF Served, Reply, Replied
  <2> QED
    BY <1>1, <1>2, <2>3, <2>4
<1>6. CASE /\ \E answer \in {"error", "wrong"} : Served(r, answer, r.id)
           /\ UNCHANGED srv
  <2>1. Moves
    BY <1>1, <1>6, MovesSame
  <2>2. PICK answer \in {"error", "wrong"} : Served(r, answer, r.id)
    BY <1>6
  <2>3. Replied(r, answer, r.id)
    BY <2>2 DEF Served, Reply, Replied
  <2> QED
    BY <1>1, <1>2, <2>1, <2>3
<1> QED
  BY <1>3, <1>4, <1>5, <1>6 DEF ServeRequest

(* The answer to a discard: the server has discarded the call.             *)
Discarded(d, E) ==
    /\ discards' = (discards \ {d}) \cup E
    /\ \A e \in E : /\ e.id = d.id /\ e.guarded = d.guarded
                    /\ e.reason = "Busy" => ~srv'[d.id].accepted
    /\ E = {} => ~d.guarded

LEMMA ServeDiscardFact ==
    ASSUME Inv, NEW d \in discards, ServeDiscard(d)
    PROVE  /\ d \in DiscardSet /\ Moves /\ srv'[d.id].stage = "Discarded"
           /\ \E E \in SUBSET DiscardSet : Discarded(d, E)
<1>1. d \in DiscardSet /\ srv \in [Ids -> SrvSet]
  BY WorldFact DEF Inv, Fine, WorldSet
<1>2. d.id \in Ids /\ srv[d.id] \in SrvSet
  BY <1>1 DEF DiscardSet
<1> DEFINE x == [srv[d.id] EXCEPT !.stage = "Discarded"]
           h == IF srv[d.id].accepted THEN "Hangup" ELSE d.reason
           F(a) == [d EXCEPT !.answer = a, !.reason = h]
<1>3. srv' = [srv EXCEPT ![d.id] = x]
  BY <1>1 DEF ServeDiscard
<1>4. x \in SrvSet /\ x.stage = "Discarded" /\ x.accepted = srv[d.id].accepted
  BY <1>2 DEF SrvSet, Maybe
<1>5. Stepped(srv[d.id], x)
  BY <1>2 DEF Stepped, SrvSet
<1> HIDE DEF x
<1>6. Moves /\ srv'[d.id] = x
  BY <1>1, <1>2, <1>3, <1>4, <1>5, MovesFact
<1>7. PICK a \in {"ok", "error"} :
         discards' = (discards \ {d}) \cup (IF d.state = "None" THEN {} ELSE {F(a)})
  BY DEF ServeDiscard
<1>8. h \in Reasons /\ (h = "Busy" => ~srv[d.id].accepted)
  BY <1>1 DEF DiscardSet, Reasons
<1> HIDE DEF h
<1>9. F(a) \in DiscardSet /\ F(a).id = d.id /\ F(a).guarded = d.guarded
      /\ F(a).reason = h
  BY <1>1, <1>8 DEF DiscardSet, Maybe
<1>10. d.state = "None" => ~d.guarded
  BY <1>1 DEF DiscardSet
<1> HIDE DEF F
<1>11. CASE d.state = "None"
  <2>1. Discarded(d, {})
    BY <1>7, <1>10, <1>11 DEF Discarded
  <2> QED
    BY <1>1, <1>4, <1>6, <2>1
<1>12. CASE d.state # "None"
  <2>1. discards' = (discards \ {d}) \cup {F(a)}
    BY <1>7, <1>12
  <2>2. {F(a)} \in SUBSET DiscardSet /\ {F(a)} # {}
    BY <1>9
  <2>3. \A e \in {F(a)} : /\ e.id = d.id /\ e.guarded = d.guarded
                          /\ e.reason = "Busy" => ~srv'[d.id].accepted
    BY <1>4, <1>6, <1>8, <1>9
  <2>4. Discarded(d, {F(a)})
    BY <2>1, <2>2, <2>3 DEF Discarded
  <2> QED
    BY <1>1, <1>4, <1>6, <2>2, <2>4
<1> QED
  BY <1>11, <1>12

(* The others send updates about calls that are not discarded yet.         *)
Others == PeerCalls \/ PeerGoesOn \/ PeerDiscards

News(V) ==
    /\ updates' = updates \o V
    /\ \A i \in DOMAIN V : /\ UpdateOK(srv', V[i])
                           /\ srv[V[i].id].stage # "Discarded"

LEMMA OthersFact ==
    ASSUME Inv, Others
    PROVE  /\ UNCHANGED <<clientVars, dialog, known, starts, redials, events>>
           /\ Moves /\ \E V \in Seq(UpdateSet) : News(V)
<1>0. UNCHANGED <<clientVars, dialog, known, starts, redials, events>>
  BY DEF Others, PeerCalls, PeerGoesOn, PeerDiscards
<1>1. srv \in [Ids -> SrvSet] /\ updates \in Seq(UpdateSet)
  BY DEF Inv
<1> DEFINE Goal == Moves /\ \E V \in Seq(UpdateSet) : News(V)
<1>2. ASSUME NEW id \in Ids, NEW x \in SrvSet, NEW V \in Seq(UpdateSet),
             Stepped(srv[id], x), srv' = [srv EXCEPT ![id] = x],
             updates' = updates \o V, srv[id].stage # "Discarded",
             \A i \in DOMAIN V : V[i].id = id /\ Says(V[i], x)
      PROVE  Goal
  <2>1. Moves /\ srv'[id] = x
    BY <1>1, <1>2, MovesFact
  <2>2. News(V)
    BY <1>2, <2>1 DEF UpdateOK, News
  <2> QED
    BY <2>1, <2>2
<1>3. ASSUME NEW id \in Ids, NEW x \in SrvSet, NEW u \in UpdateSet,
             Stepped(srv[id], x), srv' = [srv EXCEPT ![id] = x], Send(u),
             srv[id].stage # "Discarded", u.id = id, Says(u, x)
      PROVE  Goal
  <2> DEFINE V == <<u>>
  <2>1. /\ V \in Seq(UpdateSet) /\ updates' = updates \o V
        /\ \A i \in DOMAIN V : V[i] = u
    BY <1>1, <1>3, SMTT(30) DEF Send
  <2> HIDE DEF V, Goal
  <2>2. \A i \in DOMAIN V : V[i].id = id /\ Says(V[i], x)
    BY <1>3, <2>1
  <2> QED
    BY <1>2, <1>3, <2>1, <2>2
<1> HIDE DEF Goal
<1> SUFFICES Goal
  BY <1>0 DEF Goal
<1>4. CASE PeerCalls
  <2>1. PICK id \in Fresh, fault \in Looks({"people", "key"}), n \in 1..Repeats :
            /\ srv' = [srv EXCEPT ![id] = [stage |-> "Waiting", ours |-> FALSE,
                                           power |-> 0, accepted |-> FALSE]]
            /\ updates' = updates \o
                   [i \in 1..n |-> Update("Requested", id, "None", fault)]
    BY <1>4 DEF PeerCalls
  <2> DEFINE x == [stage |-> "Waiting", ours |-> FALSE, power |-> 0, accepted |-> FALSE]
             u == Update("Requested", id, "None", fault)
             V == [i \in 1..n |-> u]
  <2>2. /\ x \in SrvSet /\ ~x.ours /\ x.stage = "Waiting" /\ ~x.accepted
    BY DEF SrvSet, Maybe
  <2>3. id \in Ids /\ srv[id].stage = "None" /\ srv[id] \in SrvSet
    BY <1>1 DEF Fresh
  <2>4. Stepped(srv[id], x)
    BY <2>3 DEF Stepped, SrvSet
  <2>5. u \in UpdateSet /\ u.kind = "Requested" /\ u.id = id
    BY <2>3, UpdateFact DEF Looks, Maybe
  <2> HIDE DEF x, u
  <2>6. V \in Seq(UpdateSet) /\ \A i \in DOMAIN V : V[i] = u
    <3>1. n \in Nat
      BY CallAssumption
    <3>2. V \in [1..n -> UpdateSet] /\ \A i \in DOMAIN V : V[i] = u
      BY <2>5
    <3> HIDE DEF V
    <3> QED
      BY <3>1, <3>2, SeqDef
  <2>7. srv' = [srv EXCEPT ![id] = x] /\ updates' = updates \o V
    BY <2>1 DEF x, u
  <2> HIDE DEF V
  <2>8. \A i \in DOMAIN V : V[i].id = id /\ Says(V[i], x)
    BY <2>2, <2>5, <2>6 DEF Says
  <2> QED
    BY <1>2, <2>2, <2>3, <2>4, <2>6, <2>7, <2>8
<1>5. CASE PeerGoesOn
  <2>1. PICK id \in Ids, fault \in Looks({"people", "key", "version"}) :
            /\ \/ /\ srv[id].stage = "Waiting" /\ srv[id].ours
                  /\ srv' = [srv EXCEPT ![id].stage = "Ringing"]
                  /\ Send(Update("Waiting", id, "Received", "none"))
               \/ /\ srv[id].stage \in {"Waiting", "Ringing"} /\ srv[id].ours
                  /\ srv' = [srv EXCEPT ![id].stage = "Accepted",
                                        ![id].accepted = TRUE]
                  /\ Send(Update("Accepted", id, "None", fault))
               \/ /\ srv[id].stage = "Accepted" /\ ~srv[id].ours
                  /\ srv' = [srv EXCEPT ![id].stage = "Confirmed"]
                  /\ Send(Update("Call", id, "None", fault))
    BY <1>5 DEF PeerGoesOn
  <2>2. srv[id] \in SrvSet
    BY <1>1
  <2>3. CASE /\ srv[id].stage = "Waiting"
             /\ srv' = [srv EXCEPT ![id].stage = "Ringing"]
             /\ Send(Update("Waiting", id, "Received", "none"))
    <3> DEFINE x == [srv[id] EXCEPT !.stage = "Ringing"]
               u == Update("Waiting", id, "Received", "none")
    <3>1. /\ x \in SrvSet /\ Stepped(srv[id], x) /\ x.stage = "Ringing"
          /\ srv' = [srv EXCEPT ![id] = x]
      BY <1>1, <2>2, <2>3 DEF SrvSet, Stepped, Maybe
    <3>2. u \in UpdateSet /\ u.kind = "Waiting" /\ u.id = id /\ Send(u)
      BY <2>3, UpdateFact DEF Maybe
    <3> HIDE DEF x, u
    <3>3. Says(u, x)
      BY <3>1, <3>2 DEF Says
    <3> QED
      BY <1>3, <2>3, <3>1, <3>2, <3>3
  <2>4. CASE /\ srv[id].stage \in {"Waiting", "Ringing"} /\ srv[id].ours
             /\ srv' = [srv EXCEPT ![id].stage = "Accepted", ![id].accepted = TRUE]
             /\ Send(Update("Accepted", id, "None", fault))
    <3> DEFINE x == [srv[id] EXCEPT !.stage = "Accepted", !.accepted = TRUE]
               u == Update("Accepted", id, "None", fault)
    <3>1. /\ x \in SrvSet /\ Stepped(srv[id], x) /\ x.stage = "Accepted"
          /\ x.accepted /\ x.ours /\ srv' = [srv EXCEPT ![id] = x]
      BY <1>1, <2>2, <2>4 DEF SrvSet, Stepped, Maybe
    <3>2. u \in UpdateSet /\ u.kind = "Accepted" /\ u.id = id /\ Send(u)
      BY <2>4, UpdateFact DEF Maybe, Looks
    <3> HIDE DEF x, u
    <3>3. Says(u, x)
      BY <3>1, <3>2 DEF Says
    <3> QED
      BY <1>3, <2>4, <3>1, <3>2, <3>3
  <2>5. CASE /\ srv[id].stage = "Accepted"
             /\ srv' = [srv EXCEPT ![id].stage = "Confirmed"]
             /\ Send(Update("Call", id, "None", fault))
    <3> DEFINE x == [srv[id] EXCEPT !.stage = "Confirmed"]
               u == Update("Call", id, "None", fault)
    <3>1. /\ x \in SrvSet /\ Stepped(srv[id], x) /\ x.stage = "Confirmed"
          /\ x.accepted /\ srv' = [srv EXCEPT ![id] = x]
      BY <1>1, <2>2, <2>5 DEF SrvSet, Stepped, Maybe
    <3>2. u \in UpdateSet /\ u.kind = "Call" /\ u.id = id /\ Send(u)
      BY <2>5, UpdateFact DEF Maybe, Looks
    <3> HIDE DEF x, u
    <3>3. Says(u, x)
      BY <3>1, <3>2 DEF Says
    <3> QED
      BY <1>3, <2>5, <3>1, <3>2, <3>3
  <2> QED
    BY <2>1, <2>3, <2>4, <2>5
<1>6. CASE PeerDiscards
  <2>1. PICK id \in Ids, v \in {Update("Discarded", 0, "Busy", "none"),
                                Update("Discarded", 0, "Hangup", "none"),
                                Update("Empty", 0, "None", "none")} :
            /\ Live(id)
            /\ v.reason = "Busy" => srv[id].stage \in {"Waiting", "Ringing"}
            /\ srv' = [srv EXCEPT ![id].stage = "Discarded"]
            /\ Send([v EXCEPT !.id = id])
    BY <1>6 DEF PeerDiscards
  <2> DEFINE x == [srv[id] EXCEPT !.stage = "Discarded"]
             u == [v EXCEPT !.id = id]
  <2>2. srv[id] \in SrvSet /\ srv[id].stage \notin {"None", "Discarded"}
    BY <1>1, <2>1 DEF Live
  <2>3. /\ x \in SrvSet /\ Stepped(srv[id], x) /\ x.stage = "Discarded"
        /\ x.accepted = srv[id].accepted /\ srv' = [srv EXCEPT ![id] = x]
    BY <1>1, <2>1, <2>2 DEF SrvSet, Stepped, Maybe
  <2>4. u \in UpdateSet /\ u.id = id /\ Send(u) /\ u.kind \in {"Discarded", "Empty"}
        /\ u.reason = v.reason
    BY <2>1 DEF Update, UpdateSet, Maybe, Reasons
  <2>5. u.reason = "Busy" => ~x.accepted
    BY <2>1, <2>2, <2>3, <2>4 DEF SrvSet
  <2> HIDE DEF x, u
  <2>6. Says(u, x)
    BY <2>3, <2>4, <2>5 DEF Says
  <2> QED
    BY <1>3, <2>2, <2>3, <2>4, <2>6
<1> QED
  BY <1>4, <1>5, <1>6 DEF Others

LEMMA InvServer ==
    ASSUME Inv, Server
    PROVE  Inv'
<1>0. World \in WorldSet /\ AcceptOK(call)
  BY WorldFact DEF Inv, Fine
<1>1. ASSUME NEW r \in reqs, ServeRequest(r) PROVE Inv'
  <2>1. PICK a \in {"ok", "wrong", "error"}, id \in Ids \cup {0} :
            Replied(r, a, id)
    BY <1>1, ServeRequestFact
  <2>2. r \in ReqSet /\ Moves
    BY <1>1, ServeRequestFact
  <2>3. reqs' \subseteq ReqSet
    BY <1>0, <2>1, <2>2, ReplyFact, WorldFact DEF WorldSet, Replied
  <2>4. UNCHANGED <<call, queue, discards, dialog, updates, known, starts,
                    redials, events>>
    BY <1>1 DEF ServeRequest
  <2>5. World' \in Fine
    BY <1>0, <2>3, <2>4 DEF World, Fine, WorldSet
  <2> QED
    BY <2>2, <2>4, <2>5 DEF Inv, Moves
<1>2. ASSUME NEW d \in discards, ServeDiscard(d) PROVE Inv'
  <2>1. PICK E \in SUBSET DiscardSet : discards' = (discards \ {d}) \cup E
    BY <1>2, ServeDiscardFact DEF Discarded
  <2>2. Moves
    BY <1>2, ServeDiscardFact
  <2>3. discards' \subseteq DiscardSet
    BY <1>0, <2>1, WorldFact DEF WorldSet
  <2>4. UNCHANGED <<call, queue, reqs, dialog, updates, known, starts,
                    redials, events>>
    BY <1>2 DEF ServeDiscard
  <2>5. World' \in Fine
    BY <1>0, <2>3, <2>4 DEF World, Fine, WorldSet
  <2> QED
    BY <2>2, <2>4, <2>5 DEF Inv, Moves
<1>3. CASE Others
  <2>1. /\ Moves /\ UNCHANGED <<clientVars, dialog, known, starts, redials, events>>
        /\ \E V \in Seq(UpdateSet) : updates' = updates \o V
    BY <1>3, OthersFact DEF News
  <2>2. updates' \in Seq(UpdateSet)
    BY <2>1 DEF Inv
  <2>3. World' = World
    BY <2>1 DEF World, clientVars
  <2> QED
    BY <2>1, <2>2, <2>3 DEF Inv, Moves
<1> QED
  BY <1>1, <1>2, <1>3 DEF Server, Others

LEMMA InvInit == Init => Inv
<1> SUFFICES ASSUME Init PROVE Inv
  OBVIOUS
<1>1. AcceptOK(NoCall)
  BY NoCallFact DEF AcceptOK
<1>2. World \in Fine
  BY <1>1, NoCallFact DEF Init, World, Fine, WorldSet
<1>3. srv \in [Ids -> SrvSet]
  BY DEF Init, SrvSet, Maybe
<1> QED
  BY <1>2, <1>3 DEF Init, Inv, Maybe

LEMMA InvNext == Inv /\ [Next]_vars => Inv'
<1> SUFFICES ASSUME Inv, [Next]_vars PROVE Inv'
  OBVIOUS
<1>1. CASE UNCHANGED vars
  <2>1. World' = World
    BY <1>1 DEF World, vars
  <2> QED
    BY <1>1, <2>1 DEF Inv, vars
<1>2. CASE Next
  BY <1>2, InvAnswers, InvDeliver, InvTimers, InvRunTask, InvUser, InvServer
  DEF Next
<1> QED
  BY <1>1, <1>2

(* The types, and with them that a call the user has accepted is not       *)
(* accepted again.                                                         *)
THEOREM AlwaysInv == Spec => []Inv
  BY InvInit, InvNext, PTL DEF Spec

(* phone.acceptCall is sent once for a call, for any number of clicks,     *)
(* dialogs and tasks, whenever the configuration comes (actuallyAnswer).   *)
THEOREM AlwaysAcceptsOnce == Spec => []AcceptsOnce
<1>1. Inv => AcceptsOnce
  BY WorldFact DEF Inv, Fine, AcceptOK, AcceptsOnce
<1> QED
  BY <1>1, AlwaysInv, PTL

-----------------------------------------------------------------------------
(* A call is never left to itself.  The invariant is about a world w, the  *)
(* calls S of the server, and the set Q of calls that were refused and     *)
(* have no update on its way any more.                                     *)
Has(q, task) == \E i \in DOMAIN q : q[i].task = task
Destroying(w) == Has(w.queue, "destroy")

(* An outgoing call whose secret or whose id is still to come.             *)
Calling(w) == /\ w.call.type = "Outgoing"
              /\ \E r \in w.reqs : r.kind \in {"dh", "request"}

Refused(s) == s.stage = "Discarded" /\ ~s.accepted

Kept(w) == \/ Destroying(w) \/ w.call.instance \/ w.call.discardTimer
           \/ w.call.finishTimer # "None"

Goes(w) == /\ w.call.state \in States \ {"Busy", "Requesting"} => Kept(w)
           /\ w.call.state = "Requesting" => Kept(w) \/ Calling(w)

TimersOK(w) ==
    /\ w.call.state = "HangingUp" => w.call.finishTimer = "Ended"
    /\ w.call.state = "FailedHangingUp" => w.call.finishTimer = "Failed"
    /\ w.call.state \in Final => Destroying(w)

(* The controller is there for a call both sides accepted, and what it     *)
(* reported is either still of use or comes before the end.                *)
ControllerOK(w, S) ==
    w.call.instance \/ Has(w.queue, "controller") =>
        /\ w.call.id # 0 /\ S[w.call.id].accepted
        /\ w.call.instance \/ Destroying(w)

(* A busy call was never accepted; after the server has given it an id, it *)
(* has the secret the server knows the hash of, unless it is refused.      *)
StateOK(w, S, Q) ==
    /\ w.call.state = "None" =>
          /\ w.call = NoCall /\ w.reqs = {} /\ ~Destroying(w)
          /\ ~Has(w.queue, "setState") /\ ~Has(w.queue, "controller")
    /\ w.call.state = "Busy" => w.call.id # 0 /\ Refused(S[w.call.id])
    /\ w.call.type = "Outgoing" =>
          /\ ~w.call.answerAfter
          /\ w.call.state \notin {"Starting", "WaitingIncoming"}
    /\ w.call.id # 0 =>
          /\ S[w.call.id].stage # "None"
          /\ w.call.type = "Incoming" => ~S[w.call.id].ours
          /\ S[w.call.id].ours /\ w.call.id \notin Q =>
                w.call.power = S[w.call.id].power

(* While it calls, nothing of the call it may have been before comes in.   *)
CallingOK(w, Q) ==
    Calling(w) =>
        /\ w.call.id # 0 => /\ w.call.id \in Q
                            /\ \A d \in w.discards : d.id # w.call.id
        /\ ~w.call.instance /\ w.call.state \in {"Requesting", "Ended"}
        /\ ~Has(w.queue, "setState") /\ ~Has(w.queue, "controller")
        /\ \A d \in w.discards : ~d.guarded
        /\ w.call.finishTimer # "Failed"
        /\ Destroying(w) \/ w.call.finishTimer # "None" =>
              w.call.finishAfter # "None"

ReqOK(w, S, r) ==
    /\ r.kind \in {"dh", "request"} => w.reqs = {r}
    /\ r.kind = "dh" /\ w.call.type = "Incoming" => w.call.power = 0
    /\ r.kind = "request" =>
          /\ w.call.type = "Outgoing" /\ r.power = w.call.power
          /\ r.answer = "ok" => /\ S[r.id].stage # "None" /\ S[r.id].ours
                                /\ S[r.id].power = r.power
    /\ r.kind = "confirm" =>
          /\ r.id = w.call.id /\ r.id # 0
          /\ S[r.id].accepted /\ S[r.id].power = r.power

DiscardOK(w, S, d) ==
    /\ d.guarded => w.call.state # "None" /\ d.id = w.call.id
    /\ d.answer # "None" => S[d.id].stage = "Discarded"
    /\ d.answer = "ok" /\ d.reason = "Busy" => ~S[d.id].accepted

Core(w, S, Q) ==
    /\ ControllerOK(w, S) /\ StateOK(w, S, Q) /\ CallingOK(w, Q)
    /\ \A r \in w.reqs : ReqOK(w, S, r)
    /\ \A d \in w.discards : DiscardOK(w, S, d)

Going(w, S, Q) == TimersOK(w) /\ Core(w, S, Q) /\ Goes(w)

Quietly(S, Q) == \A id \in Q : Refused(S[id])

(* Tasks that come and go.                                                 *)
LEMMA HasAppend ==
    ASSUME NEW q \in Seq(TaskSet), NEW t \in TaskSet, NEW task
    PROVE  Has(Append(q, t), task) <=> Has(q, task) \/ t.task = task
<1> DEFINE p == Append(q, t)
<1>1. /\ DOMAIN q = 1..Len(q) /\ DOMAIN p = 1..(Len(q) + 1) /\ Len(q) \in Nat
      /\ p[Len(q) + 1] = t /\ \A i \in 1..Len(q) : p[i] = q[i]
  OBVIOUS
<1> HIDE DEF p
<1>2. Has(q, task) => Has(p, task)
  BY <1>1 DEF Has
<1>3. t.task = task => Has(p, task)
  BY <1>1 DEF Has
<1>4. ASSUME NEW i \in DOMAIN p, p[i].task = task PROVE Has(q, task) \/ t.task = task
  <2>1. i \in 1..Len(q) \/ i = Len(q) + 1
    BY <1>1
  <2> QED
    BY <1>1, <1>4, <2>1 DEF Has
<1> QED
  BY <1>2, <1>3, <1>4 DEF Has, p

LEMMA HasTail ==
    ASSUME NEW q \in Seq(TaskSet), q # <<>>, NEW task
    PROVE  Has(q, task) <=> Head(q).task = task \/ Has(Tail(q), task)
<1> DEFINE p == Tail(q)
<1>1. /\ DOMAIN q = 1..Len(q) /\ DOMAIN p = 1..(Len(q) - 1) /\ Len(q) \in Nat
      /\ Len(q) > 0 /\ Head(q) = q[1] /\ \A i \in 1..(Len(q) - 1) : p[i] = q[i + 1]
  OBVIOUS
<1> HIDE DEF p
<1>2. Head(q).task = task => Has(q, task)
  <2>1. 1 \in DOMAIN q
    BY <1>1
  <2> QED
    BY <1>1, <2>1 DEF Has
<1>3. ASSUME NEW i \in DOMAIN p, p[i].task = task PROVE Has(q, task)
  <2>1. i + 1 \in DOMAIN q /\ p[i] = q[i + 1]
    BY <1>1
  <2> QED
    BY <1>3, <2>1 DEF Has
<1>4. ASSUME NEW i \in DOMAIN q, q[i].task = task
      PROVE  Head(q).task = task \/ Has(p, task)
  <2>1. CASE i = 1
    BY <1>1, <1>4, <2>1
  <2>2. CASE i # 1
    <3>1. i - 1 \in DOMAIN p /\ (i - 1) + 1 = i
      BY <1>1, <2>2
    <3>2. p[i - 1] = q[i]
      BY <1>1, <3>1
    <3> QED
      BY <1>4, <3>1, <3>2 DEF Has
  <2> QED
    BY <2>1, <2>2
<1> QED
  BY <1>2, <1>3, <1>4 DEF Has, p

(* A request goes.                                                         *)
LEMMA CoreDrop ==
    ASSUME NEW w \in WorldSet, NEW S, NEW Q, Core(w, S, Q), NEW r \in w.reqs,
           NEW v \in WorldSet, v.call = w.call, v.queue = w.queue,
           v.reqs = w.reqs \ {r}, v.discards = w.discards
    PROVE  /\ Core(v, S, Q) /\ ~Calling(v)
           /\ r.kind \in {"dh", "request"} => v.reqs = {}
           /\ r.kind \notin {"dh", "request"} => ~Calling(w)
           /\ TimersOK(w) => TimersOK(v)
           /\ Kept(w) => Kept(v)
<1>1. \A x \in w.reqs : x.kind \in {"dh", "request"} => w.reqs = {x}
  BY DEF Core, ReqOK
<1>2. \A x \in v.reqs : x.kind \notin {"dh", "request"}
  BY <1>1
<1>3. ~Calling(v)
  BY <1>2 DEF Calling
<1>4. ControllerOK(v, S) /\ StateOK(v, S, Q) /\ CallingOK(v, Q)
  BY <1>3 DEF Core, ControllerOK, StateOK, CallingOK, Destroying
<1>5. \A x \in v.reqs : ReqOK(v, S, x)
  BY <1>2 DEF Core, ReqOK
<1>6. \A d \in v.discards : DiscardOK(v, S, d)
  BY DEF Core, DiscardOK
<1>7. (TimersOK(w) => TimersOK(v)) /\ (Kept(w) => Kept(v))
  BY DEF TimersOK, Kept, Destroying
<1>8. r.kind \notin {"dh", "request"} => ~Calling(w)
  BY <1>1 DEF Calling
<1> QED
  BY <1>1, <1>3, <1>4, <1>5, <1>6, <1>7, <1>8 DEF Core

(* Call::setState.                                                         *)
LEMMA CoreSetState ==
    ASSUME NEW w \in WorldSet, NEW S, NEW Q, Core(w, S, Q), NEW s \in States,
           s \notin {"HangingUp", "FailedHangingUp", "Starting"},
           s = "WaitingIncoming" => w.call.type = "Incoming",
           s = "Busy" => w.call.id # 0 /\ Refused(S[w.call.id]),
           Calling(w) => s = "Ended" /\ w.call.finishAfter # "None"
    PROVE  LET v == setState(w, s) IN
           /\ Core(v, S, Q) /\ (TimersOK(w) => TimersOK(v))
           /\ s \in Final => Destroying(v) \/ v = w
           /\ s \notin Final \cup {"Busy"} /\ Kept(w) => Kept(v)
           /\ Calling(v) <=> Calling(w)
<1> DEFINE v == setState(w, s)
<1>1. CASE Blocked(w.call, s)
  <2>1. v = w
    BY <1>1, SetStateFact
  <2> HIDE DEF v
  <2> QED
    BY <2>1 DEF v
<1>2. CASE ~Blocked(w.call, s)
  <2> DEFINE t == Task("destroy", s)
  <2>1. /\ v \in WorldSet /\ v.reqs = w.reqs /\ v.discards = w.discards
        /\ SameCall(v.call, w.call) /\ v.call.finishAfter = w.call.finishAfter
        /\ v.call.finishTimer = w.call.finishTimer /\ v.call.state = s
        /\ (v.call.instance <=> w.call.instance /\ s \notin Final \cup {"Busy"})
        /\ (v.call.discardTimer <=> w.call.discardTimer /\ s # "Busy")
        /\ v.queue = IF s \in Final THEN Append(w.queue, t) ELSE w.queue
    BY <1>2, SetStateFact
  <2>2. t \in TaskSet /\ t.task = "destroy" /\ w.queue \in Seq(TaskSet)
    BY TaskFact, StatesFact DEF WorldSet
  <2> HIDE DEF v, t
  <2>3. /\ (Has(v.queue, "controller") <=> Has(w.queue, "controller"))
        /\ (Has(v.queue, "setState") <=> Has(w.queue, "setState"))
        /\ (Destroying(v) <=> Destroying(w) \/ s \in Final)
    <3>1. CASE s \in Final
      BY <2>1, <2>2, <3>1, HasAppend DEF Destroying
    <3>2. CASE s \notin Final
      BY <2>1, <3>2 DEF Destroying
    <3> QED
      BY <3>1, <3>2
  <2>4. Calling(v) <=> Calling(w)
    BY <2>1 DEF Calling, SameCall
  <2>5. s # "None" /\ "Busy" \notin Final
    BY StatesFact DEF Final
  <2>6. ControllerOK(v, S)
    BY <2>1, <2>3, <2>5 DEF Core, ControllerOK, SameCall, Refused
  <2>7. StateOK(v, S, Q)
    BY <2>1, <2>5 DEF Core, StateOK, SameCall
  <2>8. CallingOK(v, Q)
    BY <2>1, <2>3, <2>4 DEF Core, CallingOK, SameCall
  <2>9. \A r \in v.reqs : ReqOK(v, S, r)
    BY <2>1 DEF Core, ReqOK, SameCall
  <2>10. \A d \in v.discards : DiscardOK(v, S, d)
    BY <2>1, <2>5 DEF Core, DiscardOK, SameCall
  <2>11. TimersOK(v)
    BY <2>1, <2>3 DEF TimersOK
  <2>12. s \notin Final \cup {"Busy"} /\ Kept(w) => Kept(v)
    BY <2>1, <2>3 DEF Kept
  <2> QED
    BY <2>3, <2>4, <2>6, <2>7, <2>8, <2>9, <2>10, <2>11, <2>12 DEF Core, v
<1> QED
  BY <1>1, <1>2

(* Call::finish, whatever has come in before.                              *)
LEMMA GoingFinish ==
    ASSUME NEW w \in WorldSet, NEW S, NEW Q, Core(w, S, Q), TimersOK(w),
           NEW type \in Finishes, NEW reason \in Reasons,
           w.call.state # "None", Calling(w) => type = "Ended"
    PROVE  Going(finish(w, type, reason), S, Q)
<1> DEFINE v == finish(w, type, reason)
<1>0. /\ v \in WorldSet /\ v.reqs = w.reqs /\ SameCall(v.call, w.call)
      /\ w.call.state \in States /\ w.call \in CallSet
  BY FinishFact DEF WorldSet, CallSet, Maybe
<1>1. CASE w.call.state = "Requesting"
  <2>1. /\ v.queue = w.queue /\ v.discards = w.discards
        /\ v.call.state = "Requesting" /\ v.call.instance = w.call.instance
        /\ v.call.finishTimer = type /\ v.call.finishAfter = type
    BY <1>1, FinishFact
  <2> HIDE DEF v
  <2>2. type # "None" /\ type \in {"Ended", "Failed"}
    BY DEF Finishes
  <2>3. (Calling(v) <=> Calling(w)) /\ (Destroying(v) <=> Destroying(w))
    BY <1>0, <2>1 DEF Calling, SameCall, Destroying
  <2>4. ControllerOK(v, S) /\ StateOK(v, S, Q)
    BY <1>0, <1>1, <2>1, <2>3 DEF Core, ControllerOK, StateOK, SameCall
  <2>5. CallingOK(v, Q)
    BY <1>0, <1>1, <2>1, <2>2, <2>3 DEF Core, CallingOK, SameCall
  <2>6. \A r \in v.reqs : ReqOK(v, S, r)
    BY <1>0 DEF Core, ReqOK, SameCall
  <2>7. \A d \in v.discards : DiscardOK(v, S, d)
    BY <1>0, <2>1 DEF Core, DiscardOK, SameCall
  <2>8. TimersOK(v) /\ Goes(v)
    BY <2>1, <2>2 DEF TimersOK, Goes, Kept, Final
  <2> QED
    BY <2>4, <2>5, <2>6, <2>7, <2>8 DEF Going, Core, v
<1>2. CASE w.call.state \in Closing
  <2>1. v = w
    BY <1>2, FinishFact
  <2>2. Kept(w) /\ w.call.state # "Requesting"
    BY <1>2 DEF TimersOK, Closing, Kept, Final
  <2> HIDE DEF v
  <2> QED
    BY <2>1, <2>2 DEF Going, Goes, v
<1>3. CASE w.call.state \notin Closing \cup {"Requesting"} /\ w.call.id = 0
  <2>1. v = setState(w, type) /\ type \in States /\ type \in Final
    BY <1>3, FinishFact, StatesFact
  <2>2. ~Blocked(w.call, type)
    BY <1>3 DEF Blocked, Closing, Final, Finishes
  <2>3. v.call.state = type
    BY <2>1, <2>2, SetStateFact
  <2>4. ~Calling(w)
    BY <1>3 DEF Core, CallingOK, Closing, Final
  <2>5. type \notin {"HangingUp", "FailedHangingUp", "Starting", "WaitingIncoming",
                     "Busy", "Requesting"}
    BY DEF Finishes
  <2>6. v # w
    BY <1>3, <2>1, <2>3 DEF Closing
  <2> HIDE DEF v
  <2>7. Core(v, S, Q) /\ TimersOK(v) /\ Destroying(v)
    BY <2>1, <2>4, <2>5, <2>6, CoreSetState
  <2>8. Goes(v)
    BY <2>3, <2>5, <2>7 DEF Goes, Kept
  <2> QED
    BY <2>7, <2>8 DEF Going, v
<1>4. CASE w.call.state \notin Closing \cup {"Requesting"} /\ w.call.id # 0
  <2> DEFINE e == NewDiscard(w.call.id, type, reason)
  <2>1. /\ v.call.state = HangState(type) /\ v.call.finishTimer = type
        /\ v.call.instance = w.call.instance /\ v.queue = w.queue
        /\ v.discards = w.discards \cup {e}
    BY <1>4, FinishFact
  <2>2. e.id = w.call.id /\ e.answer = "None"
    BY DEF NewDiscard
  <2> HIDE DEF v, e
  <2>3. ~Calling(w)
    BY <1>4 DEF Core, CallingOK, Closing, Final
  <2>4. ~Calling(v) /\ (Destroying(v) <=> Destroying(w))
    BY <1>0, <2>1, <2>3 DEF Calling, SameCall, Destroying
  <2>5. /\ v.call.state \notin Final \cup {"None", "Busy", "Starting",
                                           "WaitingIncoming", "Requesting"}
        /\ v.call.state = "HangingUp" => type = "Ended"
        /\ v.call.state = "FailedHangingUp" => type = "Failed"
        /\ type # "None"
    BY <2>1 DEF HangState, Finishes, Final
  <2>6. ControllerOK(v, S) /\ StateOK(v, S, Q) /\ CallingOK(v, Q)
    BY <1>0, <2>1, <2>4, <2>5 DEF Core, ControllerOK, StateOK, CallingOK, SameCall
  <2>7. \A r \in v.reqs : ReqOK(v, S, r)
    BY <1>0 DEF Core, ReqOK, SameCall
  <2>8. \A d \in v.discards : DiscardOK(v, S, d)
    BY <1>0, <2>1, <2>2, <2>5 DEF Core, DiscardOK, SameCall
  <2>9. TimersOK(v) /\ Goes(v)
    BY <2>1, <2>5 DEF TimersOK, Goes, Kept
  <2> QED
    BY <2>6, <2>7, <2>8, <2>9 DEF Going, Core, v
<1> QED
  BY <1>1, <1>2, <1>3, <1>4

LEMMA GoingFail ==
    ASSUME NEW w \in WorldSet, NEW S, NEW Q, Core(w, S, Q), TimersOK(w),
           w.call.state # "None", ~Calling(w)
    PROVE  Going(Fail(w), S, Q)
  BY GoingFinish DEF Fail, Finishes, Reasons

(* A task is added.                                                        *)
LEMMA CorePost ==
    ASSUME NEW w \in WorldSet, NEW S, NEW Q, Core(w, S, Q), NEW t \in TaskSet,
           t.task \in {"destroy", "setState", "controller"} =>
               w.call.state # "None" /\ ~Calling(w),
           t.task = "controller" => w.call.instance
    PROVE  LET v == Post(w, t) IN
           /\ Core(v, S, Q) /\ (TimersOK(w) => TimersOK(v)) /\ (Kept(w) => Kept(v))
           /\ (Calling(v) <=> Calling(w)) /\ (Goes(w) => Goes(v))
           /\ t.task = "destroy" => Destroying(v)
<1> DEFINE v == Post(w, t)
<1>1. /\ v \in WorldSet /\ v.call = w.call /\ v.queue = Append(w.queue, t)
      /\ v.reqs = w.reqs /\ v.discards = w.discards /\ w.queue \in Seq(TaskSet)
  BY PostFact DEF WorldSet
<1> HIDE DEF v
<1>2. \A task : Has(v.queue, task) <=> Has(w.queue, task) \/ t.task = task
  BY <1>1, HasAppend
<1>3. Destroying(v) <=> Destroying(w) \/ t.task = "destroy"
  BY <1>2 DEF Destroying
<1>4. Calling(v) <=> Calling(w)
  BY <1>1 DEF Calling
<1>5. (Kept(w) => Kept(v)) /\ (TimersOK(w) => TimersOK(v))
  BY <1>1, <1>3 DEF Kept, TimersOK
<1>6. Goes(w) => Goes(v)
  BY <1>1, <1>4, <1>5 DEF Goes
<1>7. ControllerOK(v, S)
  BY <1>1, <1>2, <1>3 DEF Core, ControllerOK
<1>8. StateOK(v, S, Q)
  BY <1>1, <1>2, <1>3 DEF Core, StateOK
<1>9. CallingOK(v, Q)
  BY <1>1, <1>2, <1>3, <1>4 DEF Core, CallingOK
<1>10. \A r \in v.reqs : ReqOK(v, S, r)
  BY <1>1 DEF Core, ReqOK
<1>11. \A d \in v.discards : DiscardOK(v, S, d)
  BY <1>1 DEF Core, DiscardOK
<1> QED
  BY <1>3, <1>4, <1>5, <1>6, <1>7, <1>8, <1>9, <1>10, <1>11 DEF Core, v

(* Call::hangup.                                                           *)
LEMMA GoingHangup ==
    ASSUME NEW w \in WorldSet, NEW S, NEW Q, Core(w, S, Q), TimersOK(w),
           w.call.state # "None"
    PROVE  Going(hangup(w), S, Q) /\ hangup(w) \in WorldSet
<1>1. CASE w.call.state = "Busy"
  <2> DEFINE t == Task("destroy", "Busy")
  <2>1. t \in TaskSet /\ t.task = "destroy" /\ hangup(w) = Post(w, t)
    BY <1>1, TaskFact, StatesFact, HangupFact
  <2>2. ~Calling(w)
    BY <1>1 DEF Core, CallingOK
  <2> HIDE DEF t
  <2>3. /\ Core(Post(w, t), S, Q) /\ TimersOK(Post(w, t)) /\ Post(w, t) \in WorldSet
        /\ Destroying(Post(w, t))
    BY <1>1, <2>1, <2>2, CorePost, PostFact
  <2>4. Goes(Post(w, t))
    BY <2>3 DEF Goes, Kept
  <2> QED
    BY <2>1, <2>3, <2>4 DEF Going
<1>2. CASE w.call.state # "Busy"
  <2>1. PICK reason \in Reasons : hangup(w) = finish(w, "Ended", reason)
    BY <1>2, HangupFact
  <2>2. "Ended" \in Finishes
    BY DEF Finishes
  <2> QED
    BY <2>1, <2>2, GoingFinish, FinishFact
<1> QED
  BY <1>1, <1>2

(* What the handlers do to fields that do not matter here.                 *)
LEMMA CoreAlike ==
    ASSUME NEW w \in WorldSet, NEW S, NEW Q, Core(w, S, Q), NEW v, Alike(v, w),
           v.call.instance = w.call.instance, w.call.state # "None"
    PROVE  /\ Core(v, S, Q) /\ (TimersOK(w) => TimersOK(v))
           /\ (Calling(v) <=> Calling(w)) /\ v \in WorldSet
           /\ v.call.discardTimer = w.call.discardTimer /\ Goes(w) => Goes(v)
           /\ v.call.discardTimer = w.call.discardTimer /\ Kept(w) => Kept(v)
<1>1. (Calling(v) <=> Calling(w)) /\ (Destroying(v) <=> Destroying(w))
  BY DEF Alike, Calling, Destroying, SameCall
<1>2. ControllerOK(v, S) /\ StateOK(v, S, Q) /\ CallingOK(v, Q)
  BY <1>1 DEF Alike, SameCall, Core, ControllerOK, StateOK, CallingOK
<1>3. \A r \in v.reqs : ReqOK(v, S, r)
  BY DEF Alike, SameCall, Core, ReqOK
<1>4. \A d \in v.discards : DiscardOK(v, S, d)
  BY DEF Alike, SameCall, Core, DiscardOK
<1>5. TimersOK(w) => TimersOK(v)
  BY <1>1 DEF Alike, TimersOK
<1>6. v.call.discardTimer = w.call.discardTimer /\ Kept(w) => Kept(v)
  BY <1>1 DEF Alike, Kept
<1>7. v.call.discardTimer = w.call.discardTimer /\ Goes(w) => Goes(v)
  BY <1>1, <1>6 DEF Alike, Goes
<1> QED
  BY <1>1, <1>2, <1>3, <1>4, <1>5, <1>6, <1>7 DEF Core, Alike

(* The controller starts.                                                  *)
LEMMA GoingStarted ==
    ASSUME NEW w \in WorldSet, NEW S, NEW Q, Core(w, S, Q), TimersOK(w),
           w.call.state # "None", ~Calling(w), w.call.id # 0, S[w.call.id].accepted
    PROVE  Going(Started(w), S, Q)
<1> DEFINE v == Started(w)
<1>1. Alike(v, w) /\ v.call.instance
  BY UntimedFact
<1> HIDE DEF v
<1>2. ~Calling(v) /\ (Destroying(v) <=> Destroying(w))
  BY <1>1 DEF Alike, Calling, Destroying, SameCall
<1>3. ControllerOK(v, S) /\ StateOK(v, S, Q) /\ CallingOK(v, Q)
  BY <1>1, <1>2 DEF Alike, SameCall, Core, ControllerOK, StateOK, CallingOK
<1>4. \A r \in v.reqs : ReqOK(v, S, r)
  BY <1>1 DEF Alike, SameCall, Core, ReqOK
<1>5. \A d \in v.discards : DiscardOK(v, S, d)
  BY <1>1 DEF Alike, SameCall, Core, DiscardOK
<1>6. TimersOK(v)
  BY <1>1, <1>2 DEF Alike, TimersOK
<1>7. Goes(v)
  BY <1>1 DEF Goes, Kept
<1> QED
  BY <1>3, <1>4, <1>5, <1>6, <1>7 DEF Going, Core, v

(* A request is made.                                                      *)
LEMMA CoreAsk ==
    ASSUME NEW w \in WorldSet, NEW S, NEW Q, Core(w, S, Q), NEW r \in ReqSet,
           w.call.state # "None", NEW v, v = Ask(w, r),
           \/ r.kind \in {"dh", "request"} /\ w.reqs = {}
           \/ \A x \in w.reqs \cup {r} : x.kind \notin {"dh", "request"},
           CallingOK(v, Q), ReqOK(v, S, r)
    PROVE  /\ Core(v, S, Q) /\ (TimersOK(w) => TimersOK(v)) /\ v \in WorldSet
           /\ (Kept(w) => Kept(v)) /\ (Goes(w) => Goes(v))
<1>1. /\ v \in WorldSet /\ v.call = w.call /\ v.queue = w.queue
      /\ v.reqs = w.reqs \cup {r} /\ v.discards = w.discards
  BY AskFact
<1>2. Destroying(v) <=> Destroying(w)
  BY <1>1 DEF Destroying
<1>3. ControllerOK(v, S) /\ StateOK(v, S, Q)
  BY <1>1, <1>2 DEF Core, ControllerOK, StateOK
<1>4. \A x \in v.reqs : ReqOK(v, S, x)
  <2>1. \A x \in w.reqs : ReqOK(w, S, x)
    BY DEF Core
  <2>2. ASSUME NEW x \in w.reqs PROVE ReqOK(v, S, x)
    <3>1. x.kind \notin {"dh", "request"}
      BY <2>2
    <3> QED
      BY <1>1, <2>1, <3>1 DEF ReqOK
  <2> QED
    BY <1>1, <2>2
<1>5. \A d \in v.discards : DiscardOK(v, S, d)
  BY <1>1 DEF Core, DiscardOK
<1>6. (TimersOK(w) => TimersOK(v)) /\ (Kept(w) => Kept(v))
  BY <1>1, <1>2 DEF TimersOK, Kept
<1>7. Calling(w) => Calling(v)
  BY <1>1 DEF Calling
<1>8. Goes(w) => Goes(v)
  BY <1>1, <1>6, <1>7 DEF Goes
<1> QED
  BY <1>1, <1>3, <1>4, <1>5, <1>6, <1>8 DEF Core

(* Instance::destroyCall and Instance::createCall.                         *)
LEMMA GoingDestroy ==
    ASSUME NEW w \in WorldSet, NEW S, NEW Q, \A d \in w.discards : DiscardOK(w, S, d)
    PROVE  /\ Going(destroyCall(w), S, Q) /\ destroyCall(w) \in WorldSet
           /\ destroyCall(w).call.state = "None"
<1> DEFINE v == destroyCall(w)
<1>1. /\ v \in WorldSet /\ v.call = NoCall /\ v.reqs = {}
      /\ v.discards = Loose(w.discards)
      /\ \A i \in DOMAIN v.queue : v.queue[i].task = "create"
  BY DestroyFact DEF Fine
<1> HIDE DEF v
<1>2. \A task : task # "create" => ~Has(v.queue, task)
  BY <1>1 DEF Has
<1>3. ~Destroying(v) /\ ~Has(v.queue, "setState") /\ ~Has(v.queue, "controller")
  BY <1>2 DEF Destroying
<1>4. ~Calling(v)
  BY <1>1 DEF Calling
<1>5. /\ v.call.state = "None" /\ v.call.id = 0 /\ ~v.call.instance
      /\ ~v.call.answerAfter
  BY <1>1, NoCallFact
<1>6. ControllerOK(v, S) /\ StateOK(v, S, Q) /\ CallingOK(v, Q)
  BY <1>1, <1>3, <1>4, <1>5 DEF ControllerOK, StateOK, CallingOK
<1>7. \A d \in v.discards : DiscardOK(v, S, d)
  <2>1. ASSUME NEW d \in w.discards
        PROVE  DiscardOK(v, S, [d EXCEPT !.guarded = FALSE])
    <3>1. d \in DiscardSet /\ DiscardOK(w, S, d)
      BY DEF WorldSet, Core
    <3>2. LET e == [d EXCEPT !.guarded = FALSE] IN
          /\ ~e.guarded /\ e.answer = d.answer /\ e.reason = d.reason /\ e.id = d.id
      BY <3>1 DEF DiscardSet
    <3> QED
      BY <3>1, <3>2 DEF DiscardOK
  <2> QED
    BY <1>1, <2>1 DEF Loose
<1>8. TimersOK(v) /\ Goes(v)
  BY <1>5, StatesFact DEF TimersOK, Goes, Final
<1> QED
  BY <1>1, <1>5, <1>6, <1>7, <1>8 DEF Going, Core, v

LEMMA GoingCreateCall ==
    ASSUME NEW w \in WorldSet, NEW S, NEW Q, Core(w, S, Q), TimersOK(w),
           NEW type \in {"Outgoing", "Incoming"}, redials \in Nat
    PROVE  LET v == createCall(w, type) IN
           /\ Going(v, S, Q) /\ v \in WorldSet /\ v.call = NewCall(type)
           /\ ~Has(v.queue, "controller") /\ ~Has(v.queue, "setState")
           /\ ~Has(v.queue, "destroy")
           /\ \A d \in v.discards : ~d.guarded
           /\ \A x \in v.reqs : x.kind = "dh"
<1> DEFINE z == Vacated(w)
           y == Anew(z, type)
           r == Req("dh", 0, redials)
           v == Ask(y, r)
<1>0. createCall(w, type) = v
  BY CreateCallFact
<1>1. z \in WorldSet /\ z.call.state = "None" /\ Core(z, S, Q)
  <2>1. CASE w.call.state = "None"
    BY <2>1 DEF Vacated
  <2>2. CASE w.call.state # "None"
    <3>1. hangup(w) \in WorldSet /\ Core(hangup(w), S, Q)
      BY <2>2, GoingHangup DEF Going
    <3>2. z = destroyCall(hangup(w))
      BY <2>2 DEF Vacated
    <3>3. \A d \in hangup(w).discards : DiscardOK(hangup(w), S, d)
      BY <3>1 DEF Core
    <3> HIDE DEF z
    <3> QED
      BY <3>1, <3>2, <3>3, GoingDestroy DEF Going
  <2> QED
    BY <2>1, <2>2
<1> HIDE DEF z
<1>2. /\ z.reqs = {} /\ ~Destroying(z) /\ ~Has(z.queue, "setState")
      /\ ~Has(z.queue, "controller") /\ \A d \in z.discards : ~d.guarded
  BY <1>1 DEF Core, StateOK, DiscardOK
<1>3. /\ y \in WorldSet /\ y.call = NewCall(type) /\ y.queue = z.queue
      /\ y.reqs = {} /\ y.discards = z.discards
  BY <1>1, <1>2, NewCallFact, WithFact DEF Anew
<1>4. /\ y.call.type = type /\ y.call.id = 0 /\ y.call.power = 0
      /\ y.call.state = IF type = "Outgoing" THEN "Requesting" ELSE "Starting"
      /\ ~y.call.instance /\ ~y.call.answerAfter /\ y.call.finishTimer = "None"
      /\ (y.call.discardTimer <=> type = "Incoming")
  BY <1>3, NewCallFact
<1>5. r \in ReqSet /\ r.kind = "dh"
  BY ReqFact
<1> HIDE DEF y, r
<1>6. /\ v \in WorldSet /\ v.call = y.call /\ v.queue = y.queue
      /\ v.reqs = {r} /\ v.discards = y.discards
  BY <1>3, <1>5, AskFact
<1>7. ~Destroying(y)
  BY <1>2, <1>3 DEF Destroying
<1>8. Core(y, S, Q) /\ TimersOK(y)
  <2>1. ControllerOK(y, S) /\ StateOK(y, S, Q)
    BY <1>2, <1>3, <1>4 DEF ControllerOK, StateOK
  <2>2. CallingOK(y, Q)
    BY <1>3 DEF CallingOK, Calling
  <2>3. \A d \in y.discards : DiscardOK(y, S, d)
    BY <1>1, <1>2, <1>3 DEF Core, DiscardOK
  <2>4. TimersOK(y)
    BY <1>4 DEF TimersOK, Final
  <2> QED
    BY <1>3, <2>1, <2>2, <2>3, <2>4 DEF Core
<1>9. CallingOK(v, Q)
  <2>1. ~Destroying(v)
    BY <1>6, <1>7 DEF Destroying
  <2>2. Calling(v) => type = "Outgoing"
    BY <1>4, <1>6 DEF Calling
  <2> QED
    BY <1>2, <1>3, <1>4, <1>6, <2>1, <2>2 DEF CallingOK
<1>10. ReqOK(v, S, r)
  BY <1>4, <1>5, <1>6 DEF ReqOK
<1>11. Core(v, S, Q) /\ TimersOK(v)
  <2>1. y.call.state # "None"
    BY <1>4
  <2> HIDE DEF v
  <2> QED
    BY <1>3, <1>5, <1>8, <1>9, <1>10, <2>1, CoreAsk DEF v
<1>12. Goes(v)
  <2>1. CASE type = "Outgoing"
    BY <1>4, <1>5, <1>6, <2>1 DEF Goes, Calling
  <2>2. CASE type = "Incoming"
    BY <1>4, <1>6, <2>2 DEF Goes, Kept
  <2> QED
    BY <2>1, <2>2
<1> HIDE DEF v
<1> QED
  BY <1>0, <1>2, <1>3, <1>5, <1>6, <1>11, <1>12 DEF Going, Destroying

(* A call learns its id.                                                   *)
LEMMA CoreNamed ==
    ASSUME NEW w \in WorldSet, NEW S, NEW Q, Core(w, S, Q), NEW id \in Ids,
           ~w.call.instance, ~Has(w.queue, "controller"), ~Calling(w),
           \A d \in w.discards : ~d.guarded,
           \A r \in w.reqs : r.kind # "confirm",
           w.call.state \notin {"None", "Busy"}, S[id].stage # "None",
           w.call.type = "Incoming" => ~S[id].ours,
           S[id].ours => w.call.power = S[id].power
    PROVE  LET v == Named(w, id) IN
           /\ Core(v, S, Q) /\ v \in WorldSet /\ ~Calling(v) /\ v.call.id = id
           /\ (TimersOK(w) => TimersOK(v)) /\ (Goes(w) => Goes(v))
           /\ v.call.state = w.call.state
<1> DEFINE v == Named(w, id)
<1>1. /\ v \in WorldSet /\ v.queue = w.queue /\ v.reqs = w.reqs
      /\ v.discards = w.discards /\ v.call = [w.call EXCEPT !.id = id]
      /\ w.call \in CallSet
  BY NamedFact DEF WorldSet
<1> HIDE DEF v
<1>2. /\ v.call.id = id /\ v.call.state = w.call.state /\ v.call.type = w.call.type
      /\ v.call.power = w.call.power /\ v.call.instance = w.call.instance
      /\ v.call.answerAfter = w.call.answerAfter
      /\ v.call.discardTimer = w.call.discardTimer
      /\ v.call.finishTimer = w.call.finishTimer
      /\ v.call.finishAfter = w.call.finishAfter
  BY <1>1 DEF CallSet
<1>3. ~Calling(v) /\ (Destroying(v) <=> Destroying(w)) /\ ~Calling(w)
  BY <1>1, <1>2 DEF Calling, Destroying
<1>4. ControllerOK(v, S) /\ StateOK(v, S, Q) /\ CallingOK(v, Q)
  BY <1>1, <1>2, <1>3 DEF Core, ControllerOK, StateOK, CallingOK
<1>5. \A r \in v.reqs : ReqOK(v, S, r)
  BY <1>1, <1>2 DEF Core, ReqOK
<1>6. \A d \in v.discards : DiscardOK(v, S, d)
  BY <1>1 DEF Core, DiscardOK
<1>7. (TimersOK(w) => TimersOK(v)) /\ (Goes(w) => Goes(v))
  BY <1>2, <1>3 DEF TimersOK, Goes, Kept
<1> QED
  BY <1>1, <1>2, <1>3, <1>4, <1>5, <1>6, <1>7 DEF Core, v

LEMMA GoingCreate ==
    ASSUME NEW w \in WorldSet, NEW S, NEW Q, Core(w, S, Q), TimersOK(w),
           w.call.state # "None", ~Calling(w), w.call.id # 0,
           S[w.call.id].accepted, NEW fault, NEW echoed
    PROVE  Going(createAndStartController(w, fault, echoed), S, Q)
<1>1. Alike(Untimed(w), w) /\ Untimed(w).call.instance = w.call.instance
  BY UntimedFact
<1>2. Core(Untimed(w), S, Q) /\ TimersOK(Untimed(w)) /\ ~Calling(Untimed(w))
  BY <1>1, CoreAlike
<1>3. Untimed(w).call.state # "None" /\ Untimed(w) \in WorldSet
  BY <1>1 DEF Alike
<1>4. Going(Fail(Untimed(w)), S, Q)
  BY <1>2, <1>3, GoingFail
<1>5. Going(Started(w), S, Q)
  BY GoingStarted
<1> QED
  BY <1>4, <1>5, CreateFact

LEMMA GoingStartConfirmed ==
    ASSUME NEW w \in WorldSet, NEW S, NEW Q, Core(w, S, Q), TimersOK(w),
           w.call.state # "None", ~Calling(w), w.call.id # 0,
           S[w.call.id].accepted, NEW fault
    PROVE  Going(startConfirmedCall(w, fault), S, Q)
<1> DEFINE v == Keyed(w)
<1>1. Alike(v, w) /\ v.call.instance = w.call.instance
  BY UntimedFact
<1> HIDE DEF v
<1>2. Core(v, S, Q) /\ TimersOK(v) /\ ~Calling(v)
  BY <1>1, CoreAlike
<1>3. /\ v.call.state # "None" /\ v \in WorldSet /\ v.call.id = w.call.id
  BY <1>1 DEF Alike, SameCall
<1>4. Going(createAndStartController(v, fault, w.call.power), S, Q)
  BY <1>2, <1>3, GoingCreate
<1>5. Going(Fail(w), S, Q)
  BY GoingFail
<1>6. [w EXCEPT !.call.key = w.call.power] = v
  BY DEF Keyed, With, v
<1> QED
  BY <1>4, <1>5, <1>6 DEF startConfirmedCall

(* Call::confirmAcceptedCall reveals the secret the server has the hash of.*)
LEMMA GoingConfirm ==
    ASSUME NEW w \in WorldSet, NEW S, NEW Q, Going(w, S, Q), Quietly(S, Q),
           w.call.state # "None", w.call.type = "Outgoing", ~Calling(w),
           w.call.id # 0, S[w.call.id].accepted, S[w.call.id].ours, NEW fault
    PROVE  Going(confirmAcceptedCall(w, fault), S, Q)
<1> DEFINE c == w.call
           k == Keyed(w)
           z == setState(k, "ExchangingKeys")
           r == Req("confirm", c.id, c.power)
           v == Ask(z, r)
<1>1. confirmAcceptedCall(w, fault) \in {w, Fail(w), v}
  BY DEF confirmAcceptedCall, Keyed, With
<1>2. Going(Fail(w), S, Q)
  BY GoingFail DEF Going
<1>3. c.id \notin Q /\ c.power = S[c.id].power /\ c \in CallSet
  BY DEF Quietly, Refused, Going, Core, StateOK, WorldSet
<1>4. c.state # "Busy"
  BY DEF Going, Core, StateOK, Refused
<1>5. Kept(w)
  <2>1. c.state \in States
    BY <1>3 DEF CallSet, Maybe
  <2> QED
    BY <1>4, <2>1 DEF Going, Goes
<1>6. \A x \in w.reqs : x.kind \notin {"dh", "request"}
  BY DEF Calling
<1>7. /\ Alike(k, w) /\ k.call.instance = w.call.instance
      /\ k.call.discardTimer = w.call.discardTimer
  BY UntimedFact
<1> HIDE DEF k
<1>8. /\ Core(k, S, Q) /\ TimersOK(k) /\ ~Calling(k) /\ k \in WorldSet /\ Kept(k)
      /\ k.call.state = c.state /\ k.call.id = c.id /\ k.call.power = c.power
      /\ k.call.type = "Outgoing" /\ k.reqs = w.reqs
  BY <1>5, <1>7, CoreAlike DEF Going, Alike, SameCall
<1>9. "ExchangingKeys" \in States /\ "ExchangingKeys" \notin Final \cup {"Busy"}
  BY StatesFact DEF Final
<1>10. /\ Core(z, S, Q) /\ TimersOK(z) /\ ~Calling(z) /\ Kept(z)
  BY <1>8, <1>9, CoreSetState
<1>11. /\ z \in WorldSet /\ SameCall(z.call, k.call) /\ z.reqs = k.reqs
       /\ z.call.state \in {c.state, "ExchangingKeys"}
  BY <1>8, <1>9, SetStateFact
<1> HIDE DEF z
<1>12. r \in ReqSet /\ r.kind = "confirm" /\ r.id = c.id /\ r.power = c.power
  BY <1>3, ReqFact DEF CallSet
<1> HIDE DEF r
<1>13. /\ v \in WorldSet /\ v.call = z.call /\ v.queue = z.queue
       /\ v.reqs = z.reqs \cup {r} /\ v.discards = z.discards
  BY <1>11, <1>12, AskFact
<1> HIDE DEF v
<1>14. \A x \in z.reqs \cup {r} : x.kind \notin {"dh", "request"}
  BY <1>6, <1>8, <1>11, <1>12
<1>15. CallingOK(v, Q)
  BY <1>13, <1>14 DEF CallingOK, Calling
<1>16. ReqOK(v, S, r)
  BY <1>3, <1>8, <1>11, <1>12, <1>13 DEF ReqOK, SameCall
<1>17. z.call.state # "None"
  BY <1>11
<1>18. Core(v, S, Q) /\ TimersOK(v) /\ Kept(v)
  BY <1>10, <1>11, <1>12, <1>14, <1>15, <1>16, <1>17, CoreAsk DEF v
<1>19. Going(v, S, Q)
  BY <1>18 DEF Going, Goes
<1> QED
  BY <1>1, <1>2, <1>19

(* Call::handleUpdate, for what the server says of the call.               *)
LEMMA GoingHandle ==
    ASSUME NEW w \in WorldSet, NEW S, NEW Q, Going(w, S, Q), Quietly(S, Q), NEW u,
           u.kind \in {"Waiting", "Accepted", "Call", "Discarded", "Empty"},
           w.call.state # "None" /\ u.id = w.call.id => ~Calling(w),
           u.kind # "Waiting" /\ u.id = w.call.id =>
               u.id # 0 /\ Says(u, S[u.id])
    PROVE  Going(handleUpdate(w, u), S, Q)
<1>1. SUFFICES ASSUME w.call.state # "None", u.id = w.call.id,
                      handleUpdate(w, u) # w
               PROVE  Going(handleUpdate(w, u), S, Q)
  BY HandleFact
<1>2. ~Calling(w) /\ Core(w, S, Q) /\ TimersOK(w)
  BY <1>1 DEF Going
<1>3. Going(Fail(w), S, Q)
  BY <1>1, <1>2, GoingFail
<1>4. CASE u.kind = "Waiting" /\ handleUpdate(w, u) = setState(Timed(w), "Ringing")
  <2> DEFINE z == Timed(w)
             v == setState(z, "Ringing")
  <2>1. Alike(z, w) /\ z.call.instance = w.call.instance /\ z.call.discardTimer
    BY TimedFact
  <2> HIDE DEF z
  <2>2. Core(z, S, Q) /\ TimersOK(z) /\ ~Calling(z) /\ z \in WorldSet /\ Kept(z)
    BY <1>1, <1>2, <2>1, CoreAlike DEF Kept
  <2>3. "Ringing" \in States /\ "Ringing" \notin Final \cup {"Busy"}
    BY StatesFact DEF Final
  <2>4. Core(v, S, Q) /\ TimersOK(v) /\ Kept(v)
    BY <2>2, <2>3, CoreSetState
  <2> HIDE DEF v
  <2>5. Going(v, S, Q)
    BY <2>4 DEF Going, Goes
  <2> QED
    BY <1>4, <2>5 DEF v, z
<1>5. CASE u.kind = "Call" /\ handleUpdate(w, u) = startConfirmedCall(w, u.fault)
  <2>1. w.call.id # 0 /\ S[w.call.id].accepted
    BY <1>1, <1>5 DEF Says
  <2> QED
    BY <1>1, <1>2, <1>5, <2>1, GoingStartConfirmed
<1>6. CASE /\ u.kind = "Discarded"
           /\ \E s \in {"Busy", "Ended", "EndedByOtherDevice"} :
                 /\ s = "Busy" => u.reason = "Busy"
                 /\ handleUpdate(w, u) = setState(w, s)
  <2>1. PICK s \in {"Busy", "Ended", "EndedByOtherDevice"} :
            /\ s = "Busy" => u.reason = "Busy"
            /\ handleUpdate(w, u) = setState(w, s)
    BY <1>6
  <2> DEFINE v == setState(w, s)
  <2>2. s \in States /\ (s = "Busy" \/ s \in Final) /\ "Busy" \notin Final
    BY StatesFact DEF Final
  <2>3. s = "Busy" => w.call.id # 0 /\ Refused(S[w.call.id])
    BY <1>1, <1>6, <2>1 DEF Says, Refused
  <2>4. Core(v, S, Q) /\ TimersOK(v) /\ (s \in Final => Destroying(v) \/ v = w)
    BY <1>2, <2>2, <2>3, CoreSetState
  <2>5. v # w
    BY <1>1, <2>1
  <2>6. ~Blocked(w.call, s)
    BY <2>2, <2>5, SetStateFact
  <2>7. v.call.state = s
    BY <2>2, <2>6, SetStateFact
  <2> HIDE DEF v
  <2>8. Goes(v)
    BY <2>2, <2>4, <2>5, <2>7 DEF Goes, Kept
  <2> QED
    BY <2>1, <2>4, <2>8 DEF Going, v
<1>7. CASE /\ u.kind = "Accepted" /\ w.call.type = "Outgoing"
           /\ handleUpdate(w, u) = confirmAcceptedCall(w, u.fault)
  <2>1. w.call.id # 0 /\ S[w.call.id].accepted /\ S[w.call.id].ours
    BY <1>1, <1>7 DEF Says
  <2> QED
    BY <1>1, <1>2, <1>7, <2>1, GoingConfirm
<1>8. CASE handleUpdate(w, u) = Fail(w)
  BY <1>3, <1>8
<1> QED
  BY <1>1, <1>4, <1>5, <1>6, <1>7, <1>8, HandleFact

(* Call::actuallyAnswer.                                                   *)
LEMMA GoingAnswer ==
    ASSUME NEW w \in WorldSet, NEW S, NEW Q, Going(w, S, Q)
    PROVE  Going(actuallyAnswer(w), S, Q)
<1>0. Core(w, S, Q) /\ TimersOK(w) /\ w.call \in CallSet
  BY DEF Going, WorldSet
<1>1. CASE ~MayAnswer(w.call)
  BY <1>1, AnswerFact
<1>2. CASE MayAnswer(w.call)
  <2> DEFINE z == setState(w, "ExchangingKeys")
  <2>1. /\ w.call.type = "Incoming" /\ ~Calling(w)
        /\ w.call.state \in {"Starting", "WaitingIncoming", "ExchangingKeys"}
    BY <1>0, <1>2 DEF MayAnswer, Core, StateOK, CallSet, Calling
  <2>2. Kept(w)
    BY <2>1 DEF Going, Goes, States
  <2>3. "ExchangingKeys" \in States /\ "ExchangingKeys" \notin Final \cup {"Busy"}
    BY StatesFact DEF Final
  <2>4. Core(z, S, Q) /\ TimersOK(z) /\ Kept(z) /\ ~Calling(z)
    BY <1>0, <2>1, <2>2, <2>3, CoreSetState
  <2>5. /\ z \in WorldSet /\ SameCall(z.call, w.call) /\ z.reqs = w.reqs
        /\ z.call.state = "ExchangingKeys"
    BY <1>2, <2>3, SetStateFact, AnswerFact
  <2>6. /\ w.call.power = 0 => actuallyAnswer(w) = Wishing(z)
        /\ w.call.power # 0 => actuallyAnswer(w) =
              Ask(Accepting(z), Req("accept", w.call.id, w.call.power))
    BY <1>2, AnswerFact
  <2> HIDE DEF z
  <2>7. ASSUME NEW v \in WorldSet, Similar(v.call, z.call),
               v.call.power = z.call.power, v.queue = z.queue,
               v.reqs = z.reqs, v.discards = z.discards
        PROVE  /\ Going(v, S, Q) /\ ~Calling(v) /\ v.call.state = "ExchangingKeys"
               /\ v.call.type = "Incoming"
    <3>1. (Destroying(v) <=> Destroying(z)) /\ ~Calling(v)
      BY <2>4, <2>7 DEF Destroying, Calling, Similar
    <3>2. v.call.state = "ExchangingKeys" /\ v.call.type = "Incoming"
      BY <2>1, <2>5, <2>7 DEF Similar, SameCall
    <3>3. ControllerOK(v, S) /\ StateOK(v, S, Q) /\ CallingOK(v, Q)
      BY <2>4, <2>5, <2>7, <3>1, <3>2
      DEF Core, ControllerOK, StateOK, CallingOK, Similar
    <3>4. \A r \in v.reqs : ReqOK(v, S, r)
      BY <2>4, <2>7 DEF Core, ReqOK, Similar
    <3>5. \A d \in v.discards : DiscardOK(v, S, d)
      BY <2>4, <2>7 DEF Core, DiscardOK, Similar
    <3>6. TimersOK(v) /\ Goes(v)
      BY <2>4, <2>7, <3>1 DEF TimersOK, Goes, Kept, Similar
    <3> QED
      BY <3>1, <3>2, <3>3, <3>4, <3>5, <3>6 DEF Core, Going
  <2>8. CASE w.call.power = 0
    BY <2>5, <2>6, <2>7, <2>8, WishingFact
  <2>9. CASE w.call.power # 0
    <3> DEFINE y == Accepting(z)
               r == Req("accept", w.call.id, w.call.power)
               v == Ask(y, r)
    <3>1. /\ y \in WorldSet /\ Going(y, S, Q) /\ ~Calling(y) /\ y.reqs = w.reqs
          /\ y.call.state = "ExchangingKeys" /\ y.call.type = "Incoming"
      BY <2>5, <2>7, WishingFact
    <3>0. w.call.id \in Ids \cup {0} /\ w.call.power \in Nat
      BY <1>0 DEF CallSet
    <3>2. r \in ReqSet /\ r.kind = "accept"
      BY <3>0, ReqFact
    <3> HIDE DEF y, r
    <3>3. \A x \in w.reqs : x.kind \notin {"dh", "request"}
      BY <1>0, <2>1, <2>9 DEF Core, ReqOK
    <3>4. v.reqs = y.reqs \cup {r} /\ v.call = y.call
      BY <3>1, <3>2, AskFact
    <3> HIDE DEF v
    <3>5. CallingOK(v, Q)
      BY <3>1, <3>4 DEF CallingOK, Calling
    <3>6. ReqOK(v, S, r)
      BY <3>2 DEF ReqOK
    <3>7. Core(v, S, Q) /\ TimersOK(v) /\ Goes(v)
      BY <3>1, <3>2, <3>3, <3>5, <3>6, CoreAsk DEF v, Going
    <3> QED
      BY <2>6, <2>9, <3>7 DEF Going, v, y, r
  <2> QED
    BY <2>8, <2>9
<1> QED
  BY <1>1, <1>2

(* Call::start, when messages.getDhConfig was answered.                    *)
LEMMA GoingStart ==
    ASSUME NEW x \in WorldSet, NEW S, NEW Q, Going(x, S, Q), NEW r \in x.reqs,
           r.kind = "dh", NEW w \in WorldSet, w.call = x.call, w.queue = x.queue,
           w.reqs = x.reqs \ {r}, w.discards = x.discards
    PROVE  Going(start(w), S, Q)
<1> DEFINE c == w.call
           z == Powered(w)
<1>1. Core(w, S, Q) /\ TimersOK(w) /\ w.reqs = {} /\ (Kept(x) => Kept(w))
  BY CoreDrop DEF Going
<1>2. x.reqs = {r} /\ c.state # "None" /\ c \in CallSet /\ c.state \in States
  BY DEF Going, Core, ReqOK, StateOK, WorldSet, CallSet, Maybe
<1>3. c.type = "Outgoing" => Calling(x)
  BY DEF Calling
<1>4. c.type = "Incoming" => Goes(w)
  BY <1>1, <1>2 DEF Going, Goes, Calling
<1>5. c.type = "Outgoing" /\ c.state # "Requesting" => Goes(w)
  BY <1>1, <1>3 DEF Going, Goes
<1>6. /\ z \in WorldSet /\ z.call = [c EXCEPT !.power = @ + 1]
      /\ z.queue = w.queue /\ z.reqs = w.reqs /\ z.discards = w.discards
  BY PoweredFact
<1> HIDE DEF z
<1>7. Similar(z.call, c) /\ z.call.power = c.power + 1 /\ z.call.answerAfter = c.answerAfter
  BY <1>2, <1>6 DEF CallSet, Similar
<1>8. (Destroying(z) <=> Destroying(w)) /\ ~Calling(z)
  BY <1>1, <1>6 DEF Destroying, Calling
<1>9. Core(z, S, Q) /\ TimersOK(z)
  <2>1. ControllerOK(z, S)
    BY <1>1, <1>6, <1>7, <1>8 DEF Core, ControllerOK, Similar
  <2>2. c.type = "Outgoing" /\ c.id # 0 => c.id \in Q
    BY <1>3 DEF Going, Core, CallingOK
  <2>3. StateOK(z, S, Q)
    BY <1>1, <1>2, <1>6, <1>7, <1>8, <2>2 DEF Core, StateOK, Similar, CallSet
  <2>4. CallingOK(z, Q)
    BY <1>8 DEF CallingOK
  <2>5. \A d \in z.discards : DiscardOK(z, S, d)
    BY <1>1, <1>6, <1>7 DEF Core, DiscardOK, Similar
  <2>6. TimersOK(z)
    BY <1>1, <1>7, <1>8 DEF TimersOK, Similar
  <2> QED
    BY <1>1, <1>6, <2>1, <2>3, <2>4, <2>5, <2>6 DEF Core
<1>10. Goes(w) => Goes(z)
  BY <1>1, <1>7, <1>8 DEF Goes, Kept, Similar, Calling
<1>11. z.call.state = c.state /\ z.call.type = c.type /\ z.call.state # "None"
  BY <1>2, <1>7 DEF Similar
<1>12. CASE /\ c.state \in {"Starting", "Requesting"} /\ c.type = "Outgoing"
            /\ start(w) = Ask(z, Req("request", 0, c.power + 1))
  <2> DEFINE n == c.power + 1
             q == Req("request", 0, n)
             v == Ask(z, q)
  <2>1. n \in Nat
    BY <1>2 DEF CallSet
  <2> HIDE DEF n
  <2>2. q \in ReqSet /\ q.kind = "request" /\ q.power = n /\ q.answer = "None"
    BY <2>1, ReqFact
  <2> HIDE DEF q
  <2>3. /\ v \in WorldSet /\ v.call = z.call /\ v.queue = z.queue
        /\ v.reqs = {q} /\ v.discards = z.discards
    BY <1>1, <1>6, <2>2, AskFact
  <2>4. Calling(v)
    BY <1>7, <1>12, <2>2, <2>3 DEF Calling, Similar
  <2>5. CallingOK(v, Q)
    <3>1. CallingOK(x, Q) /\ Calling(x)
      BY <1>3, <1>12 DEF Going, Core
    <3>2. Similar(v.call, x.call) /\ v.queue = x.queue /\ v.discards = x.discards
      BY <1>6, <1>7, <2>3
    <3> QED
      BY <3>1, <3>2 DEF CallingOK, Similar, Destroying
  <2>6. ReqOK(v, S, q)
    BY <1>7, <1>12, <2>2, <2>3 DEF ReqOK, Similar, n
  <2> HIDE DEF v
  <2>7. Core(v, S, Q) /\ TimersOK(v)
    BY <1>1, <1>6, <1>9, <1>11, <2>2, <2>5, <2>6, CoreAsk DEF v
  <2>8. v.call.state = "Requesting"
    BY <1>1, <1>11, <1>12, <2>3 DEF Core, StateOK
  <2>9. Goes(v)
    BY <2>4, <2>8 DEF Goes
  <2> QED
    BY <1>12, <2>7, <2>9 DEF Going, v, q, n
<1>13. CASE /\ c.state \in {"Starting", "Requesting"} /\ c.type = "Incoming"
            /\ start(w) = Ask(z, Req("received", c.id, 0))
  <2> DEFINE q == Req("received", c.id, 0)
             v == Ask(z, q)
  <2>1. q \in ReqSet /\ q.kind = "received"
    BY <1>2, ReqFact DEF CallSet
  <2> HIDE DEF q
  <2>2. v.reqs = {q} /\ v.call = z.call
    BY <1>1, <1>6, <2>1, AskFact
  <2> HIDE DEF v
  <2>3. CallingOK(v, Q) /\ ReqOK(v, S, q)
    BY <2>1, <2>2 DEF CallingOK, Calling, ReqOK
  <2>4. Core(v, S, Q) /\ TimersOK(v) /\ Goes(v)
    BY <1>1, <1>4, <1>6, <1>9, <1>10, <1>11, <1>13, <2>1, <2>3, CoreAsk DEF v
  <2> QED
    BY <1>13, <2>4 DEF Going, v, q
<1>14. CASE /\ c.state = "ExchangingKeys"
            /\ start(w) = Post(z, Task("answer", "None"))
  <2> DEFINE t == Task("answer", "None")
  <2>1. t \in TaskSet /\ t.task = "answer"
    BY TaskFact, StatesFact
  <2>2. Goes(z)
    BY <1>2, <1>4, <1>5, <1>10, <1>14 DEF CallSet
  <2> HIDE DEF t
  <2>3. Core(Post(z, t), S, Q) /\ TimersOK(Post(z, t)) /\ Goes(Post(z, t))
    BY <1>6, <1>9, <2>1, <2>2, CorePost
  <2> QED
    BY <1>14, <2>3 DEF Going, t
<1>15. CASE c.state \notin {"Starting", "Requesting"} /\ start(w) = z
  BY <1>2, <1>4, <1>5, <1>9, <1>10, <1>15 DEF Going, CallSet
<1> QED
  BY <1>12, <1>13, <1>14, <1>15, StartFact DEF z

(* phone.requestCall was answered: the call has an id, and is hung up if   *)
(* the user has hung up meanwhile.                                         *)
LEMMA CoreRequestDone ==
    ASSUME NEW x \in WorldSet, NEW S, NEW Q, Going(x, S, Q), NEW r \in x.reqs,
           r.kind = "request", r.answer = "ok", NEW w \in WorldSet,
           w.call = x.call, w.queue = x.queue, w.reqs = x.reqs \ {r},
           w.discards = x.discards
    PROVE  LET v == Named(setState(w, "Waiting"), r.id) IN
           /\ v \in WorldSet /\ Core(v, S, Q) /\ TimersOK(v) /\ ~Calling(v)
           /\ v.call.state = "Waiting" /\ v.call.id = r.id /\ r.id \in Ids
           /\ v.discards = x.discards /\ v.queue = x.queue
           /\ v.call.finishTimer = x.call.finishTimer
           /\ Calling(x)
<1> DEFINE z == setState(w, "Waiting")
<1>1. /\ Core(w, S, Q) /\ TimersOK(w) /\ w.reqs = {} /\ ~Calling(w)
  BY CoreDrop DEF Going
<1>2. /\ x.call.type = "Outgoing" /\ r.power = x.call.power
      /\ S[r.id].stage # "None" /\ S[r.id].ours /\ S[r.id].power = r.power
  BY DEF Going, Core, ReqOK
<1>3. /\ Calling(x) /\ ~x.call.instance /\ x.call.state \in {"Requesting", "Ended"}
      /\ ~Has(x.queue, "controller") /\ \A d \in x.discards : ~d.guarded
  BY <1>2 DEF Going, Core, CallingOK, Calling
<1>4. r.id \in Ids
  BY DEF WorldSet, ReqSet
<1>5. "Waiting" \in States /\ "Waiting" \notin Final \cup {"Busy"}
  BY StatesFact DEF Final
<1>6. ~Blocked(w.call, "Waiting")
  BY <1>3 DEF Blocked
<1>7. Core(z, S, Q) /\ TimersOK(z) /\ ~Calling(z)
  BY <1>1, <1>5, CoreSetState
<1>8. /\ z \in WorldSet /\ SameCall(z.call, w.call) /\ z.call.state = "Waiting"
      /\ z.queue = w.queue /\ z.reqs = {} /\ z.discards = w.discards
      /\ z.call.finishTimer = w.call.finishTimer
      /\ (z.call.instance <=> w.call.instance)
  BY <1>1, <1>5, <1>6, SetStateFact
<1> HIDE DEF z
<1>9. z.call.type = "Outgoing" /\ z.call.power = S[r.id].power
  BY <1>2, <1>8 DEF SameCall
<1> DEFINE v == Named(z, r.id)
<1>10. /\ Core(v, S, Q) /\ TimersOK(v) /\ v \in WorldSet /\ ~Calling(v)
       /\ v.call.state = "Waiting" /\ v.call.id = r.id
  BY <1>2, <1>3, <1>4, <1>7, <1>8, <1>9, CoreNamed
<1>11. /\ v.discards = z.discards /\ v.queue = z.queue
       /\ v.call = [z.call EXCEPT !.id = r.id] /\ z.call \in CallSet
  BY <1>4, <1>8, NamedFact DEF WorldSet
<1>12. v.call.finishTimer = z.call.finishTimer
  BY <1>11 DEF CallSet
<1> HIDE DEF v
<1> QED
  BY <1>3, <1>4, <1>8, <1>10, <1>11, <1>12 DEF v, z

LEMMA GoingRequestDone ==
    ASSUME NEW x \in WorldSet, NEW S, NEW Q, Going(x, S, Q), Quietly(S, Q),
           NEW r \in x.reqs,
           r.kind = "request", r.answer = "ok", NEW w \in WorldSet,
           w.call = x.call, w.queue = x.queue, w.reqs = x.reqs \ {r},
           w.discards = x.discards, NEW received
    PROVE  Going(requestDone(w, r.id, received), S, Q)
<1> DEFINE v == Named(setState(w, "Waiting"), r.id)
           y == Timed(v)
           u == Update("Waiting", r.id, received, "none")
<1>1. /\ v \in WorldSet /\ Core(v, S, Q) /\ TimersOK(v) /\ ~Calling(v)
      /\ v.call.state = "Waiting" /\ v.call.id = r.id /\ r.id \in Ids
  BY CoreRequestDone
<1>2. \/ requestDone(w, r.id, received) = Fail(v)
      \/ requestDone(w, r.id, received) = hangup(v)
      \/ requestDone(w, r.id, received) = handleUpdate(y, u)
  BY <1>1, RequestDoneFact
<1> HIDE DEF v
<1>3. Going(Fail(v), S, Q) /\ Going(hangup(v), S, Q)
  BY <1>1, GoingFail, GoingHangup
<1>4. Alike(y, v) /\ y.call.instance = v.call.instance /\ y.call.discardTimer
  BY <1>1, TimedFact
<1>5. u.kind = "Waiting" /\ u.id = r.id
  BY DEF Update
<1> HIDE DEF y, u
<1>6. Core(y, S, Q) /\ TimersOK(y) /\ ~Calling(y) /\ y \in WorldSet
  BY <1>1, <1>4, CoreAlike
<1>7. Going(y, S, Q)
  BY <1>4, <1>6 DEF Going, Goes, Kept
<1>8. Going(handleUpdate(y, u), S, Q)
  BY <1>5, <1>6, <1>7, GoingHandle
<1> QED
  BY <1>2, <1>3, <1>8

(* Call::handleUpdate for a call that comes in.                            *)
LEMMA GoingRequested ==
    ASSUME NEW w \in WorldSet, NEW S, NEW Q, Core(w, S, Q), TimersOK(w),
           redials \in Nat, NEW u \in UpdateSet, u.kind = "Requested",
           Says(u, S[u.id])
    PROVE  /\ Going(handleRequested(createCall(w, "Incoming"), u), S, Q)
<1> DEFINE z == createCall(w, "Incoming")
           v == Named(z, u.id)
<1>1. /\ Going(z, S, Q) /\ z \in WorldSet /\ z.call = NewCall("Incoming")
      /\ ~Has(z.queue, "controller") /\ \A d \in z.discards : ~d.guarded
      /\ \A x \in z.reqs : x.kind = "dh"
  BY GoingCreateCall
<1>2. handleRequested(z, u) \in {Fail(z), Fail(v), v}
  BY DEF handleRequested, Named, With
<1> HIDE DEF z
<1>3. /\ z.call.type = "Incoming" /\ z.call.state = "Starting"
      /\ ~z.call.instance /\ ~Calling(z) /\ Core(z, S, Q) /\ TimersOK(z) /\ Goes(z)
  BY <1>1, NewCallFact DEF Calling, Going
<1>4. Going(Fail(z), S, Q)
  BY <1>1, <1>3, GoingFail
<1>5. u.id \in Ids /\ S[u.id].stage # "None" /\ ~S[u.id].ours
  BY DEF UpdateSet, Says
<1>6. /\ Core(v, S, Q) /\ TimersOK(v) /\ v \in WorldSet /\ ~Calling(v) /\ Goes(v)
      /\ v.call.state = "Starting"
  BY <1>1, <1>3, <1>5, CoreNamed
<1> HIDE DEF v
<1>7. Going(v, S, Q) /\ Going(Fail(v), S, Q)
  BY <1>6, GoingFail DEF Going
<1> QED
  BY <1>2, <1>4, <1>7 DEF z

(* A discard that was answered goes; one for a call that comes is made.    *)
LEMMA GoingDropping ==
    ASSUME NEW w \in WorldSet, NEW S, NEW Q, Going(w, S, Q), NEW D,
           NEW v \in WorldSet, v.call = w.call, v.queue = w.queue,
           v.reqs = w.reqs, v.discards = D,
           \A d \in D : \/ d \in w.discards
                        \/ ~d.guarded /\ d.answer = "None" /\ d.id # w.call.id
    PROVE  /\ Going(v, S, Q) /\ (Calling(v) <=> Calling(w))
<1>1. (Calling(v) <=> Calling(w)) /\ (Destroying(v) <=> Destroying(w))
  BY DEF Calling, Destroying
<1>2. ControllerOK(v, S) /\ StateOK(v, S, Q)
  BY <1>1 DEF Going, Core, ControllerOK, StateOK
<1>3. CallingOK(v, Q)
  BY <1>1 DEF Going, Core, CallingOK
<1>4. \A r \in v.reqs : ReqOK(v, S, r)
  BY DEF Going, Core, ReqOK
<1>5. \A d \in v.discards : DiscardOK(v, S, d)
  BY DEF Going, Core, DiscardOK
<1>6. TimersOK(v) /\ Goes(v)
  BY <1>1 DEF Going, TimersOK, Goes, Kept
<1> QED
  BY <1>1, <1>2, <1>3, <1>4, <1>5, <1>6 DEF Going, Core

(* The finish timer ends the call.                                         *)
LEMMA GoingFinishTimer ==
    ASSUME NEW w \in WorldSet, NEW S, NEW Q, Going(w, S, Q),
           w.call.finishTimer # "None"
    PROVE  Going(setState(Late(w), w.call.finishTimer), S, Q)
<1> DEFINE z == Late(w)
           s == w.call.finishTimer
           v == setState(z, s)
<1>1. /\ z \in WorldSet /\ SameCall(z.call, w.call) /\ z.call.state = w.call.state
      /\ z.call.instance = w.call.instance /\ z.call.finishTimer = "None"
      /\ z.call.finishAfter = w.call.finishAfter /\ z.queue = w.queue
      /\ z.reqs = w.reqs /\ z.discards = w.discards
  BY LateFact
<1>2. s \in Finishes /\ s \in States /\ s \in Final
  BY StatesFact DEF WorldSet, CallSet, Maybe
<1>3. w.call.state # "None"
  BY NoCallFact DEF Going, Core, StateOK
<1> HIDE DEF z, s
<1>4. (Calling(z) <=> Calling(w)) /\ (Destroying(z) <=> Destroying(w))
  BY <1>1 DEF Calling, Destroying, SameCall
<1>5. Core(z, S, Q)
  <2>1. ControllerOK(z, S) /\ StateOK(z, S, Q) /\ CallingOK(z, Q)
    BY <1>1, <1>3, <1>4
    DEF Going, Core, ControllerOK, StateOK, CallingOK, SameCall
  <2>2. \A r \in z.reqs : ReqOK(z, S, r)
    BY <1>1 DEF Going, Core, ReqOK, SameCall
  <2>3. \A d \in z.discards : DiscardOK(z, S, d)
    BY <1>1 DEF Going, Core, DiscardOK, SameCall
  <2> QED
    BY <2>1, <2>2, <2>3 DEF Core
<1>6. Calling(z) => s = "Ended" /\ z.call.finishAfter # "None"
  BY <1>1, <1>2, <1>4 DEF Going, Core, CallingOK, Finishes, s
<1>7. s \notin {"HangingUp", "FailedHangingUp", "Starting", "WaitingIncoming", "Busy",
                "Requesting"}
  BY <1>2 DEF Finishes
<1>8. Core(v, S, Q) /\ (Destroying(v) \/ v = z)
  BY <1>1, <1>2, <1>5, <1>6, <1>7, CoreSetState
<1>9. CASE Blocked(z.call, s)
  <2>1. v = z
    BY <1>1, <1>2, <1>9, SetStateFact
  <2>2. z.call.state \in Final
    BY <1>1, <1>2, <1>9 DEF Blocked, Final, Going, TimersOK, s
  <2>3. Destroying(z)
    BY <1>1, <1>4, <2>2 DEF Going, TimersOK
  <2>4. TimersOK(z) /\ Goes(z)
    BY <2>2, <2>3 DEF TimersOK, Goes, Kept, Final
  <2> HIDE DEF v
  <2> QED
    BY <1>8, <2>1, <2>4 DEF Going, v, z, s
<1>10. CASE ~Blocked(z.call, s)
  <2>1. v.call.state = s
    BY <1>1, <1>2, <1>10, SetStateFact
  <2>2. v # z
    BY <1>10, <2>1 DEF Blocked
  <2> HIDE DEF v
  <2>3. TimersOK(v) /\ Goes(v)
    BY <1>2, <1>7, <1>8, <2>1, <2>2 DEF TimersOK, Goes, Kept
  <2> QED
    BY <1>8, <2>3 DEF Going, v, z, s
<1> QED
  BY <1>9, <1>10

-----------------------------------------------------------------------------
(* The actions keep it, as long as the user redials a busy call when       *)
(* nothing of it is on its way.                                            *)
Quiet == {id \in Ids : /\ Refused(srv[id])
                       /\ \A i \in DOMAIN updates : updates[i].id # id}

UpdatesOK == \A i \in DOMAIN updates : UpdateOK(srv, updates[i])

GoingInv == UpdatesOK /\ Going(World, srv, Quiet)

LEMMA QuietFact == Quietly(srv, Quiet)
  BY DEF Quietly, Quiet

LEMMA GoingSame ==
    ASSUME NEW w, NEW v, NEW S, NEW Q, Going(w, S, Q), v.call = w.call,
           v.queue = w.queue, v.reqs = w.reqs, v.discards = w.discards
    PROVE  Going(v, S, Q)
<1>1. (Calling(v) <=> Calling(w)) /\ (Destroying(v) <=> Destroying(w))
  BY DEF Calling, Destroying
<1>2. ControllerOK(v, S) /\ StateOK(v, S, Q) /\ CallingOK(v, Q)
  BY <1>1 DEF Going, Core, ControllerOK, StateOK, CallingOK
<1>3. \A r \in v.reqs : ReqOK(v, S, r)
  BY DEF Going, Core, ReqOK
<1>4. \A d \in v.discards : DiscardOK(v, S, d)
  BY DEF Going, Core, DiscardOK
<1>5. TimersOK(v) /\ Goes(v)
  BY <1>1 DEF Going, TimersOK, Goes, Kept
<1> QED
  BY <1>2, <1>3, <1>4, <1>5 DEF Going, Core

(* The server goes on.                                                     *)
LEMMA GoingMoves ==
    ASSUME NEW w \in WorldSet, NEW S, NEW Q, Going(w, S, Q), Quietly(S, Q),
           NEW T, NEW P, Q \subseteq P,
           \A id \in Ids : Stepped(S[id], T[id])
    PROVE  Going(w, T, P)
<1>1. w.call.id \in Ids \cup {0} /\ w.reqs \subseteq ReqSet /\ w.discards \subseteq DiscardSet
  BY DEF WorldSet, CallSet
<1>2. w.call.id # 0 => Stepped(S[w.call.id], T[w.call.id])
  BY <1>1
<1>3. ControllerOK(w, T)
  BY <1>2 DEF Going, Core, ControllerOK, Stepped
<1>4. StateOK(w, T, P)
  BY <1>2 DEF Going, Core, StateOK, Stepped, Refused
<1>5. CallingOK(w, P)
  BY DEF Going, Core, CallingOK
<1>6. ASSUME NEW r \in w.reqs PROVE ReqOK(w, T, r)
  <2>1. ReqOK(w, S, r) /\ r \in ReqSet
    BY <1>1 DEF Going, Core
  <2>2. r.id # 0 => Stepped(S[r.id], T[r.id])
    BY <2>1 DEF ReqSet
  <2>3. r.kind = "request" /\ r.answer = "ok" => r.id # 0
    BY <2>1 DEF ReqSet
  <2>4. r.kind = "confirm" => r.id # 0 /\ S[r.id].stage # "None"
    BY <2>1 DEF ReqOK, Going, Core, StateOK
  <2> QED
    BY <2>1, <2>2, <2>3, <2>4 DEF ReqOK, Stepped
<1>7. ASSUME NEW d \in w.discards PROVE DiscardOK(w, T, d)
  <2>1. DiscardOK(w, S, d) /\ d.id \in Ids
    BY <1>1 DEF Going, Core, DiscardSet
  <2>2. Stepped(S[d.id], T[d.id])
    BY <2>1
  <2> QED
    BY <2>1, <2>2 DEF DiscardOK, Stepped
<1> QED
  BY <1>3, <1>4, <1>5, <1>6, <1>7 DEF Going, Core

(* A step of the client alone, or with the update it has taken.            *)
LEMMA ClientGoes ==
    ASSUME Inv, GoingInv, NEW w, Become(w), Going(w, srv, Quiet), srv' = srv,
           updates' = updates
    PROVE  GoingInv'
<1>1. Quiet' = Quiet /\ UpdatesOK'
  BY DEF Quiet, UpdatesOK, GoingInv
<1>2. /\ World'.call = w.call /\ World'.queue = w.queue /\ World'.reqs = w.reqs
      /\ World'.discards = w.discards
  BY DEF Become, World
<1>3. Going(World', srv, Quiet)
  BY <1>2, GoingSame
<1>4. Going(World', srv', Quiet')
  BY <1>1, <1>3
<1> QED
  BY <1>1, <1>4 DEF GoingInv

LEMMA GoesAnswers ==
    ASSUME Inv, GoingInv, Answers
    PROVE  GoingInv'
<1>0. World \in Fine /\ World \in WorldSet /\ Going(World, srv, Quiet) /\ Quietly(srv, Quiet)
  BY QuietFact DEF Inv, Fine, GoingInv
<1> DEFINE x == World
<1>1. ASSUME NEW r \in reqs
      PROVE  /\ Without(r) \in WorldSet /\ Without(r).call = x.call /\ r \in x.reqs
             /\ Without(r).queue = x.queue /\ Without(r).reqs = x.reqs \ {r}
             /\ Without(r).discards = x.discards
             /\ x.call.state # "None" /\ Without(r).call.state # "None"
             /\ Core(Without(r), srv, Quiet) /\ ~Calling(Without(r)) /\ TimersOK(Without(r))
             /\ r.kind \notin {"dh", "request"} => Goes(Without(r))
             /\ r.kind \in {"dh", "request"} => Without(r).reqs = {}
  <2> DEFINE w == Without(r)
  <2>1. /\ w \in WorldSet /\ w.call = x.call /\ w.queue = x.queue
        /\ w.reqs = x.reqs \ {r} /\ w.discards = x.discards /\ r \in x.reqs
    BY <1>0, WithoutFact, WorldFact DEF Fine
  <2>2. x \in WorldSet /\ Going(x, srv, Quiet)
    BY <1>0
  <2> HIDE DEF w, x
  <2>3. x.call.state # "None"
    BY <2>1, <2>2 DEF Going, Core, StateOK
  <2>4. /\ Core(w, srv, Quiet) /\ ~Calling(w) /\ TimersOK(w) /\ (Kept(x) => Kept(w))
        /\ (r.kind \in {"dh", "request"} => w.reqs = {})
        /\ (r.kind \notin {"dh", "request"} => ~Calling(x))
    BY <2>1, <2>2, CoreDrop DEF Going
  <2>5. r.kind \notin {"dh", "request"} => Goes(w)
    BY <2>1, <2>2, <2>4 DEF Going, Goes
  <2> QED
    BY <2>1, <2>3, <2>4, <2>5 DEF w
<1>2. ASSUME NEW r \in reqs, AnswerDh(r) PROVE GoingInv'
  <2> DEFINE w == Without(r)
             t == Task("destroy", "Failed")
  <2>1. Become(start(w)) \/ Become(Post(w, t))
    BY <1>2 DEF AnswerDh
  <2>2. r.kind = "dh" /\ srv' = srv /\ updates' = updates
    BY <1>2 DEF AnswerDh
  <2>3. x \in WorldSet /\ Going(x, srv, Quiet)
    BY <1>0
  <2>4. /\ w \in WorldSet /\ w.call = x.call /\ r \in x.reqs /\ w.queue = x.queue
        /\ w.reqs = x.reqs \ {r} /\ w.discards = x.discards
        /\ w.call.state # "None" /\ Core(w, srv, Quiet) /\ ~Calling(w) /\ TimersOK(w)
    BY <1>1
  <2>5. t \in TaskSet /\ t.task = "destroy"
    BY TaskFact, StatesFact DEF Final, States, Maybe
  <2> HIDE DEF x, w, t
  <2>6. Going(start(w), srv, Quiet)
    BY <2>2, <2>3, <2>4, GoingStart
  <2>7. Core(Post(w, t), srv, Quiet) /\ TimersOK(Post(w, t)) /\ Destroying(Post(w, t))
    BY <2>4, <2>5, CorePost
  <2>8. Going(Post(w, t), srv, Quiet)
    BY <2>7 DEF Going, Goes, Kept
  <2> QED
    BY <2>1, <2>2, <2>6, <2>8, ClientGoes
<1>3. ASSUME NEW r \in reqs, AnswerRequest(r) PROVE GoingInv'
  <2> DEFINE w == Without(r)
             z == setState(w, "Waiting")
  <2>1. /\ r.kind = "request" /\ srv' = srv /\ updates' = updates
        /\ \/ r.answer = "ok" /\ \E received : Become(requestDone(w, r.id, received))
           \/ Become(Fail(z)) \/ Become(Fail(w))
    BY <1>3 DEF AnswerRequest, Answered
  <2>2. x \in WorldSet /\ Going(x, srv, Quiet)
    BY <1>0
  <2>3. /\ w \in WorldSet /\ w.call = x.call /\ r \in x.reqs /\ w.queue = x.queue
        /\ w.reqs = x.reqs \ {r} /\ w.discards = x.discards
        /\ w.call.state # "None" /\ Core(w, srv, Quiet) /\ ~Calling(w) /\ TimersOK(w)
    BY <1>1
  <2> HIDE DEF x, w
  <2>4. r.answer = "ok" => \A received : Going(requestDone(w, r.id, received), srv, Quiet)
    BY <1>0, <2>1, <2>2, <2>3, GoingRequestDone
  <2>5. Going(Fail(w), srv, Quiet)
    BY <2>3, GoingFail
  <2>6. "Waiting" \in States /\ "Waiting" # "None"
    BY StatesFact
  <2>7. Core(z, srv, Quiet) /\ TimersOK(z) /\ ~Calling(z)
    BY <2>3, <2>6, CoreSetState
  <2>8. z \in WorldSet /\ z.call.state \in {w.call.state, "Waiting"}
    BY <2>3, <2>6, SetStateFact
  <2> HIDE DEF z
  <2>9. Going(Fail(z), srv, Quiet)
    BY <2>3, <2>7, <2>8, GoingFail
  <2> QED
    BY <2>1, <2>4, <2>5, <2>9, ClientGoes
<1>4. ASSUME NEW r \in reqs, AnswerReceived(r) PROVE GoingInv'
  <2> DEFINE w == Without(r)
             z == setState(w, "WaitingIncoming")
  <2>1. /\ r.kind = "received" /\ srv' = srv /\ updates' = updates
        /\ \/ Become(w)
           \/ call.state = "Starting" /\ Become(z)
           \/ Become(Fail(w))
    BY <1>4 DEF AnswerReceived
  <2>2. /\ w \in WorldSet /\ w.call = call /\ w.call.state # "None" /\ Goes(w)
        /\ Core(w, srv, Quiet) /\ ~Calling(w) /\ TimersOK(w)
    BY <1>1, <2>1, WorldFact
  <2> HIDE DEF x, w
  <2>3. Going(Fail(w), srv, Quiet) /\ Going(w, srv, Quiet)
    BY <2>2, GoingFail DEF Going
  <2>4. ASSUME call.state = "Starting" PROVE Going(z, srv, Quiet)
    <3>1. Kept(w) /\ w.call.type = "Incoming"
      BY <2>2, <2>4 DEF Goes, Core, StateOK, States, WorldSet, CallSet
    <3>2. "WaitingIncoming" \in States /\ "WaitingIncoming" \notin Final \cup {"Busy"}
      BY StatesFact DEF Final
    <3>3. Core(z, srv, Quiet) /\ TimersOK(z) /\ Kept(z)
      BY <2>2, <3>1, <3>2, CoreSetState
    <3> HIDE DEF z
    <3> QED
      BY <3>3 DEF Going, Goes
  <2> QED
    BY <2>1, <2>3, <2>4, ClientGoes
<1>5. ASSUME NEW r \in reqs, AnswerAccept(r) PROVE GoingInv'
  <2> DEFINE w == Without(r)
             u == Update("Waiting", r.id, "None", "none")
  <2>1. /\ r.kind = "accept" /\ srv' = srv /\ updates' = updates
        /\ Become(Fail(w)) \/ Become(handleUpdate(w, u))
    BY <1>5 DEF AnswerAccept, Answered
  <2>2. /\ w \in WorldSet /\ w.call.state # "None" /\ Goes(w)
        /\ Core(w, srv, Quiet) /\ ~Calling(w) /\ TimersOK(w)
    BY <1>1, <2>1
  <2>3. u.kind = "Waiting"
    BY DEF Update
  <2> HIDE DEF w, u
  <2>4. Going(Fail(w), srv, Quiet) /\ Going(w, srv, Quiet)
    BY <2>2, GoingFail DEF Going
  <2>5. Going(handleUpdate(w, u), srv, Quiet)
    BY <1>0, <2>2, <2>3, <2>4, GoingHandle
  <2> QED
    BY <2>1, <2>4, <2>5, ClientGoes
<1>6. ASSUME NEW r \in reqs, AnswerConfirm(r) PROVE GoingInv'
  <2> DEFINE w == Without(r)
  <2>1. /\ r.kind = "confirm" /\ srv' = srv /\ updates' = updates
        /\ \/ Become(Fail(w))
           \/ \E fault : Become(createAndStartController(w, fault, r.power))
    BY <1>6 DEF AnswerConfirm, Answered
  <2>2. /\ w \in WorldSet /\ w.call.state # "None" /\ Goes(w) /\ w.call = x.call
        /\ Core(w, srv, Quiet) /\ ~Calling(w) /\ TimersOK(w) /\ r \in x.reqs
    BY <1>1, <2>1
  <2>3. w.call.id # 0 /\ srv[w.call.id].accepted
    BY <1>0, <2>1, <2>2 DEF Going, Core, ReqOK
  <2> HIDE DEF w, x
  <2>4. Going(Fail(w), srv, Quiet)
    BY <2>2, GoingFail
  <2>5. \A fault : Going(createAndStartController(w, fault, r.power), srv, Quiet)
    BY <2>2, <2>3, GoingCreate
  <2> QED
    BY <2>1, <2>4, <2>5, ClientGoes
<1>7. ASSUME NEW d \in discards, AnswerDiscard(d) PROVE GoingInv'
  <2> DEFINE w == Dropping(d)
             t == Task("setState", d.state)
             p == Post(w, t)
             v == IF d.guarded THEN p ELSE w
             u == Update("Discarded", d.id, d.reason, "none")
  <2>1. /\ srv' = srv /\ updates' = updates /\ d.answer # "None"
        /\ Become(IF d.answer = "ok" THEN handleUpdate(v, u)
                  ELSE IF d.guarded THEN setState(w, d.state) ELSE w)
    BY <1>7 DEF AnswerDiscard, Dropping
  <2>2. /\ w \in WorldSet /\ w.call = x.call /\ w.queue = x.queue
        /\ w.reqs = x.reqs /\ w.discards = x.discards \ {d} /\ d \in x.discards
    BY <1>0, DroppingFact, WorldFact DEF Fine
  <2>3. x \in WorldSet /\ Going(x, srv, Quiet) /\ d \in DiscardSet
    BY <1>0, <2>2 DEF WorldSet
  <2>4. u.kind = "Discarded" /\ u.id = d.id /\ u.reason = d.reason
    BY DEF Update
  <2> HIDE DEF x, w, u
  <2>5. Going(w, srv, Quiet) /\ (Calling(w) <=> Calling(x))
    BY <2>2, <2>3, GoingDropping
  <2>6. d.id \in Ids /\ d.id # 0 /\ (d.guarded => d.state \in Finishes)
    BY <2>3, IdsFact DEF DiscardSet, Maybe
  <2>7. DiscardOK(x, srv, d)
    BY <2>2, <2>3 DEF Going, Core
  <2>8. d.id = w.call.id => ~Calling(w)
    BY <2>2, <2>3, <2>5, <2>6 DEF Going, Core, CallingOK
  <2>9. d.guarded => w.call.state # "None" /\ ~Calling(w) /\ d.id = w.call.id
    BY <2>2, <2>7, <2>8 DEF DiscardOK
  <2>10. d.guarded => t \in TaskSet /\ t.task = "setState"
    BY <2>6, TaskFact, StatesFact
  <2> HIDE DEF t
  <2>11. ASSUME d.guarded
         PROVE  Going(p, srv, Quiet) /\ ~Calling(p) /\ p \in WorldSet /\ p.call = w.call
    BY <2>2, <2>5, <2>9, <2>10, <2>11, CorePost, PostFact DEF Going
  <2> HIDE DEF p
  <2>12. /\ Going(v, srv, Quiet) /\ v \in WorldSet /\ v.call = w.call
         /\ d.id = v.call.id => ~Calling(v)
    BY <2>2, <2>5, <2>8, <2>11
  <2> HIDE DEF v
  <2>13. d.answer = "ok" => Says(u, srv[u.id])
    BY <2>1, <2>4, <2>7 DEF DiscardOK, Says
  <2>14. d.answer = "ok" => Going(handleUpdate(v, u), srv, Quiet)
    BY <1>0, <2>4, <2>6, <2>12, <2>13, GoingHandle
  <2>15. ASSUME d.guarded PROVE Going(setState(w, d.state), srv, Quiet)
    <3> DEFINE s == d.state
               z == setState(w, s)
    <3>1. s \in States /\ s \in Final
      BY <2>6, <2>15, StatesFact
    <3>2. s \notin {"HangingUp", "FailedHangingUp", "Starting", "WaitingIncoming", "Busy"}
      BY <2>6, <2>15 DEF Finishes
    <3> HIDE DEF s
    <3>3. Core(z, srv, Quiet) /\ TimersOK(z) /\ (Destroying(z) \/ z = w)
      BY <2>2, <2>5, <2>9, <2>15, <3>1, <3>2, CoreSetState DEF Going
    <3> HIDE DEF z
    <3>4. Goes(z)
      BY <2>5, <3>3 DEF Going, Goes, Kept
    <3> QED
      BY <3>3, <3>4 DEF Going, z, s
  <2> QED
    BY <2>1, <2>5, <2>14, <2>15, ClientGoes
<1> QED
  BY <1>2, <1>3, <1>4, <1>5, <1>6, <1>7 DEF Answers

LEMMA GoesTimers ==
    ASSUME Inv, GoingInv, DiscardTimer \/ FinishTimer \/ ControllerEvent
    PROVE  GoingInv'
<1> DEFINE x == World
<1>1. x \in WorldSet /\ Going(x, srv, Quiet)
  BY DEF Inv, Fine, GoingInv
<1>2. x.call = call
  BY WorldFact
<1>3. CASE DiscardTimer
  <2> DEFINE w == Untimed(x)
  <2>1. [World EXCEPT !.call.discardTimer = FALSE] = w
    BY DEF Untimed, With
  <2>2. Become(hangup(w)) /\ srv' = srv /\ updates' = updates /\ call.discardTimer
    BY <1>3, <2>1 DEF DiscardTimer
  <2> HIDE DEF x
  <2>3. x.call.state # "None"
    BY <1>1, <1>2, <2>2, NoCallFact DEF Going, Core, StateOK
  <2>4. Alike(w, x) /\ w.call.instance = x.call.instance
    BY <1>1, UntimedFact
  <2> HIDE DEF w
  <2>5. Core(w, srv, Quiet) /\ TimersOK(w) /\ w \in WorldSet /\ w.call.state # "None"
    BY <1>1, <2>3, <2>4, CoreAlike DEF Going, Alike
  <2>6. Going(hangup(w), srv, Quiet)
    BY <2>5, GoingHangup
  <2> QED
    BY <2>2, <2>6, ClientGoes
<1>4. CASE FinishTimer
  <2> DEFINE w == setState(Late(x), call.finishTimer)
  <2>1. [World EXCEPT !.call.finishTimer = "None"] = Late(x)
    BY DEF Late, With
  <2>2. /\ Become(w) /\ srv' = srv /\ updates' = updates
        /\ call.finishTimer # "None"
    BY <1>4, <2>1 DEF FinishTimer
  <2> HIDE DEF x
  <2>3. Going(w, srv, Quiet)
    BY <1>1, <1>2, <2>2, GoingFinishTimer
  <2> QED
    BY <2>2, <2>3, ClientGoes
<1>5. CASE ControllerEvent
  <2>1. PICK s \in Reported : Become(Post(x, Task("controller", s)))
    BY <1>5 DEF ControllerEvent
  <2>2. srv' = srv /\ updates' = updates /\ call.instance
    BY <1>5 DEF ControllerEvent
  <2> DEFINE t == Task("controller", s)
  <2>3. t \in TaskSet /\ t.task = "controller"
    BY <2>1, TaskFact, StatesFact
  <2> HIDE DEF x, t
  <2>4. x.call.state # "None" /\ ~Calling(x)
    BY <1>1, <1>2, <2>2, NoCallFact DEF Going, Core, StateOK, CallingOK
  <2>5. Going(Post(x, t), srv, Quiet)
    BY <1>1, <1>2, <2>2, <2>3, <2>4, CorePost DEF Going
  <2> QED
    BY <2>1, <2>2, <2>5, ClientGoes DEF t
<1> QED
  BY <1>3, <1>4, <1>5

LEMMA GoesRunTask ==
    ASSUME Inv, GoingInv, RunTask
    PROVE  GoingInv'
<1> DEFINE x == World
           w == [World EXCEPT !.queue = Tail(@)]
           t == Head(queue)
           s == t.state
<1>1. x \in WorldSet /\ Going(x, srv, Quiet) /\ redials \in Nat
  BY DEF Inv, Fine, GoingInv
<1>2. /\ w \in WorldSet /\ w.call = x.call /\ w.queue = Tail(queue) /\ w.reqs = x.reqs
      /\ w.discards = x.discards /\ x.queue = queue
      /\ t \in TaskSet /\ queue \in Seq(TaskSet) /\ queue # <<>>
  BY FirstFact, WorldFact DEF Inv, RunTask, Fine
<1>3. Become(CASE t.task = "destroy" -> destroyCall(w)
               [] t.task = "setState" -> setState(w, s)
               [] t.task = "controller" -> handleControllerStateChange(w, s)
               [] t.task = "answer" -> actuallyAnswer(w)
               [] t.task = "create" -> createCall(w, "Outgoing"))
  BY DEF RunTask
<1>4. srv' = srv /\ updates' = updates
  BY DEF RunTask
<1>5. \A task : Has(x.queue, task) <=> t.task = task \/ Has(w.queue, task)
  BY <1>2, HasTail
<1> HIDE DEF w, t, x
<1>6. t.task \in {"destroy", "setState", "controller", "answer", "create"}
  BY <1>2 DEF TaskSet
<1>7. \A d \in w.discards : DiscardOK(w, srv, d)
  BY <1>1, <1>2 DEF Going, Core, DiscardOK
<1>8. Going(destroyCall(w), srv, Quiet)
  BY <1>2, <1>7, GoingDestroy
<1>9. ASSUME t.task # "destroy"
      PROVE  Going(w, srv, Quiet)
  <2>1. Destroying(x) <=> Destroying(w)
    BY <1>5, <1>9 DEF Destroying
  <2>2. (Has(w.queue, "setState") => Has(x.queue, "setState"))
        /\ (Has(w.queue, "controller") => Has(x.queue, "controller"))
    BY <1>5
  <2>3. Calling(w) <=> Calling(x)
    BY <1>2 DEF Calling
  <2>4. ControllerOK(w, srv) /\ StateOK(w, srv, Quiet) /\ CallingOK(w, Quiet)
    BY <1>1, <1>2, <2>1, <2>2, <2>3 DEF Going, Core, ControllerOK, StateOK, CallingOK
  <2>5. \A r \in w.reqs : ReqOK(w, srv, r)
    BY <1>1, <1>2 DEF Going, Core, ReqOK
  <2>6. TimersOK(w) /\ Goes(w)
    BY <1>1, <1>2, <2>1, <2>3 DEF Going, TimersOK, Goes, Kept
  <2> QED
    BY <1>7, <2>4, <2>5, <2>6 DEF Going, Core
<1>10. ASSUME t.task \in {"setState", "controller"}
       PROVE  w.call.state # "None" /\ ~Calling(w)
  <2>1. Has(x.queue, t.task)
    BY <1>5
  <2>2. x.call.state # "None" /\ ~Calling(x)
    BY <1>1, <1>10, <2>1 DEF Going, Core, StateOK, CallingOK
  <2> QED
    BY <1>2, <2>2 DEF Calling
<1>11. ASSUME t.task = "setState" PROVE Going(setState(w, s), srv, Quiet)
  <2> DEFINE z == setState(w, s)
  <2>1. s \in Finishes /\ s \in States /\ s \in Final
    BY <1>2, <1>11, StatesFact DEF TaskSet
  <2>2. s \notin {"HangingUp", "FailedHangingUp", "Starting", "WaitingIncoming", "Busy"}
    BY <2>1 DEF Finishes
  <2> HIDE DEF s
  <2>3. Core(z, srv, Quiet) /\ TimersOK(z) /\ (Destroying(z) \/ z = w)
    BY <1>2, <1>9, <1>10, <1>11, <2>1, <2>2, CoreSetState DEF Going
  <2> HIDE DEF z
  <2>4. Goes(z)
    BY <1>9, <1>11, <2>3 DEF Going, Goes, Kept
  <2> QED
    BY <2>3, <2>4 DEF Going, z
<1>12. ASSUME t.task = "controller"
       PROVE  Going(handleControllerStateChange(w, s), srv, Quiet)
  <2> DEFINE z == setState(w, s)
  <2>1. s \in ControllerStates /\ s \in States
    BY <1>2, <1>12, StatesFact DEF TaskSet
  <2>2. /\ s \notin {"HangingUp", "FailedHangingUp", "Starting", "WaitingIncoming", "Busy"}
        /\ s # "Failed" => s \notin Final \cup {"Busy"}
    BY <2>1 DEF ControllerStates, Final
  <2> HIDE DEF s
  <2>3. Core(z, srv, Quiet) /\ TimersOK(z) /\ (s # "Failed" /\ Kept(w) => Kept(z))
    BY <1>2, <1>9, <1>10, <1>12, <2>1, <2>2, CoreSetState DEF Going
  <2>4. Kept(w)
    <3>1. Has(x.queue, "controller")
      BY <1>5, <1>12
    <3>2. x.call.instance \/ Destroying(x)
      BY <1>1, <3>1 DEF Going, Core, ControllerOK
    <3>3. Destroying(x) <=> Destroying(w)
      BY <1>5, <1>12 DEF Destroying
    <3> QED
      BY <1>2, <3>2, <3>3 DEF Kept
  <2>5. Going(Fail(w), srv, Quiet)
    BY <1>2, <1>9, <1>10, <1>12, GoingFail DEF Going
  <2> HIDE DEF z
  <2>6. s # "Failed" => Going(z, srv, Quiet)
    BY <2>3, <2>4 DEF Going, Goes
  <2> QED
    BY <2>5, <2>6 DEF handleControllerStateChange, z
<1>13. t.task = "answer" => Going(actuallyAnswer(w), srv, Quiet)
  BY <1>2, <1>9, GoingAnswer
<1>14. t.task = "create" => Going(createCall(w, "Outgoing"), srv, Quiet)
  BY <1>1, <1>2, <1>9, GoingCreateCall DEF Going
<1>15. PICK v : Become(v) /\ Going(v, srv, Quiet)
  BY <1>3, <1>6, <1>8, <1>11, <1>12, <1>13, <1>14
<1> QED
  BY <1>4, <1>15, ClientGoes

(* An update is taken: more calls may be quiet now.                        *)
LEMMA GoesDeliver ==
    ASSUME Inv, GoingInv, DeliverUpdate
    PROVE  GoingInv'
<1> DEFINE x == World
           u == Head(updates)
           z == handleRequested(createCall(x, "Incoming"), u)
           y == Refusing(u.id)
<1>1. /\ x \in WorldSet /\ Going(x, srv, Quiet) /\ redials \in Nat
      /\ Quietly(srv, Quiet) /\ x.call = call
  BY QuietFact, WorldFact DEF Inv, Fine, GoingInv
<1>2. PICK tooOld \in BOOLEAN : Become(handleCallUpdate(u, tooOld))
  BY DEF DeliverUpdate
<1>3. srv' = srv /\ updates' = Tail(updates) /\ updates \in Seq(UpdateSet) /\ updates # <<>>
  BY DEF DeliverUpdate, Inv
<1>4. /\ u \in UpdateSet /\ u = updates[1] /\ 1 \in DOMAIN updates
      /\ \A i \in DOMAIN updates' : /\ i + 1 \in DOMAIN updates
                                    /\ updates'[i] = updates[i + 1]
  BY <1>3
<1>5. Says(u, srv[u.id]) /\ u.id \in Ids /\ u.id \notin Quiet /\ u.id # 0
  BY <1>4, IdsFact DEF GoingInv, UpdatesOK, UpdateOK, UpdateSet, Quiet
<1>6. Quiet \subseteq Quiet' /\ UpdatesOK'
  <2>1. \A i \in DOMAIN updates' : UpdateOK(srv', updates'[i])
    BY <1>3, <1>4 DEF GoingInv, UpdatesOK
  <2>2. ASSUME NEW id \in Quiet PROVE id \in Quiet'
    BY <1>3, <1>4 DEF Quiet
  <2> QED
    BY <2>1, <2>2 DEF UpdatesOK
<1>7. ~Calling(x) \/ x.call.id # u.id
  BY <1>1, <1>5 DEF Going, Core, CallingOK
<1>8. /\ y \in WorldSet /\ y.call = x.call /\ y.queue = x.queue /\ y.reqs = x.reqs
      /\ y.discards = x.discards \cup {Refusal(u.id)}
  BY <1>5, RefusingFact, WorldFact DEF Inv, Fine
<1>9. /\ u.kind # "Requested" => handleCallUpdate(u, tooOld) = handleUpdate(x, u)
      /\ u.kind = "Requested" =>
            \/ handleCallUpdate(u, tooOld) = x
            \/ handleCallUpdate(u, tooOld) = y /\ x.call.id # u.id
            \/ handleCallUpdate(u, tooOld) = z
  <2>1. u.kind # "Requested" => handleCallUpdate(u, tooOld) = handleUpdate(x, u)
    BY DEF handleCallUpdate
  <2>2. ASSUME u.kind = "Requested", call.state # "None", call.id = u.id
        PROVE  handleCallUpdate(u, tooOld) = x
    BY <2>2 DEF handleCallUpdate
  <2>3. ASSUME u.kind = "Requested", ~(call.state # "None" /\ call.id = u.id), inCall
        PROVE  handleCallUpdate(u, tooOld) = y /\ call.id # u.id
    BY <2>3 DEF handleCallUpdate, Refusing, Refusal, inCall
  <2>4. ASSUME u.kind = "Requested", ~(call.state # "None" /\ call.id = u.id), ~inCall
        PROVE  handleCallUpdate(u, tooOld) \in {x, z}
    BY <2>4 DEF handleCallUpdate
  <2> HIDE DEF u, x, y, z
  <2> QED
    BY <1>1, <2>1, <2>2, <2>3, <2>4
<1> HIDE DEF u, x, y
<1>10. u.kind # "Requested" => Going(handleUpdate(x, u), srv, Quiet)
  <2>1. u.kind # "Requested" => u.kind \in
            {"Waiting", "Accepted", "Call", "Discarded", "Empty"}
    BY <1>4 DEF UpdateSet
  <2> QED
    BY <1>1, <1>5, <1>7, <2>1, GoingHandle
<1>11. x.call.id # u.id => Going(y, srv, Quiet)
  <2>1. ~Refusal(u.id).guarded /\ Refusal(u.id).answer = "None" /\ Refusal(u.id).id = u.id
    BY DEF Refusal
  <2> QED
    BY <1>1, <1>8, <2>1, GoingDropping
<1>12. u.kind = "Requested" => Going(z, srv, Quiet)
  BY <1>1, <1>4, <1>5, GoingRequested DEF Going
<1> HIDE DEF z
<1>13. PICK v : Become(v) /\ Going(v, srv, Quiet)
  BY <1>1, <1>2, <1>9, <1>10, <1>11, <1>12
<1>14. /\ World'.call = v.call /\ World'.queue = v.queue /\ World'.reqs = v.reqs
       /\ World'.discards = v.discards
  BY <1>13 DEF Become, World
<1>15. Going(World', srv, Quiet)
  BY <1>13, <1>14, GoingSame
<1>16. World' \in WorldSet
  BY InvDeliver DEF Inv, Fine
<1>17. \A id \in Ids : Stepped(srv[id], srv'[id])
  BY <1>3 DEF Stepped
<1>18. Going(World', srv', Quiet')
  BY <1>1, <1>6, <1>15, <1>16, <1>17, GoingMoves
<1> QED
  BY <1>6, <1>18 DEF GoingInv

(* Calling again: the call was refused, and nothing of it is on its way.   *)
LEMMA GoesRedial ==
    ASSUME Inv, GoingInv, Redial, PatientRedial
    PROVE  GoingInv'
<1> DEFINE x == World
           w == Redialed(x)
           r == Req("dh", 0, redials + 1)
           v == Ask(w, r)
<1>1. /\ x \in WorldSet /\ Going(x, srv, Quiet) /\ x.call = call /\ x.queue = queue
      /\ x.reqs = reqs /\ x.discards = discards
  BY WorldFact DEF Inv, Fine, GoingInv
<1>2. /\ call.state = "Busy" /\ reqs = {} /\ queue = <<>> /\ call.finishTimer = "None"
      /\ updates = <<>> /\ \A d \in discards : d.id # call.id
      /\ srv' = srv /\ updates' = updates
  BY DEF Redial
<1>3. Become(v)
  BY RedialStep
<1>4. r \in ReqSet /\ r.kind = "dh"
  <2>1. redials + 1 \in Nat
    BY DEF Inv
  <2> QED
    BY <2>1, ReqFact
<1> HIDE DEF r, x
<1>5. /\ w \in WorldSet /\ w.queue = <<>> /\ w.reqs = {} /\ w.discards = x.discards
      /\ w.call.state = "Requesting" /\ w.call.type = "Outgoing"
      /\ w.call.id = x.call.id /\ w.call.finishTimer = "None" /\ ~w.call.answerAfter
      /\ (w.call.instance <=> x.call.instance)
  BY <1>1, <1>2, RedialFact
<1> HIDE DEF w
<1>6. x.call.id # 0 /\ Refused(srv[x.call.id]) /\ srv[x.call.id].stage # "None"
  BY <1>1, <1>2 DEF Going, Core, StateOK
<1>7. x.call.id \in Quiet
  <2>1. x.call.id \in Ids
    BY <1>1, <1>6 DEF WorldSet, CallSet
  <2> QED
    BY <1>2, <1>6, <2>1 DEF Quiet
<1>8. ~w.call.instance
  BY <1>1, <1>5, <1>6 DEF Going, Core, ControllerOK, Refused
<1>9. \A task : ~Has(w.queue, task)
  BY <1>5 DEF Has
<1>10. ~Calling(w) /\ ~Destroying(w)
  BY <1>5, <1>9 DEF Calling, Destroying
<1>11. \A d \in w.discards : DiscardOK(w, srv, d) /\ ~d.guarded /\ d.id # w.call.id
  BY <1>1, <1>2, <1>5 DEF Going, Core, DiscardOK
<1>12. Core(w, srv, Quiet)
  <2>1. ControllerOK(w, srv) /\ CallingOK(w, Quiet)
    BY <1>8, <1>9, <1>10 DEF ControllerOK, CallingOK
  <2>2. StateOK(w, srv, Quiet)
    BY <1>5, <1>6, <1>7 DEF StateOK
  <2> QED
    BY <1>5, <1>11, <2>1, <2>2 DEF Core
<1>13. TimersOK(w)
  BY <1>5 DEF TimersOK, Final
<1>14. /\ v.call = w.call /\ v.queue = w.queue /\ v.reqs = {r}
       /\ v.discards = w.discards
  BY <1>4, <1>5, AskFact
<1>15. CallingOK(v, Quiet)
  BY <1>5, <1>7, <1>8, <1>9, <1>11, <1>14 DEF CallingOK, Destroying
<1>16. ReqOK(v, srv, r)
  BY <1>4, <1>5, <1>14 DEF ReqOK
<1>17. Core(v, srv, Quiet) /\ TimersOK(v)
  BY <1>4, <1>5, <1>12, <1>13, <1>15, <1>16, CoreAsk
<1>18. Goes(v)
  BY <1>4, <1>5, <1>14 DEF Goes, Calling
<1> QED
  BY <1>2, <1>3, <1>17, <1>18, ClientGoes DEF Going

(* What the user does otherwise.                                           *)
LEMMA UserFact ==
    ASSUME Inv, GoingInv, User, ~Redial
    PROVE  LET x == World
               a == Task("answer", "None")
               c == Task("create", "None")
               y == Asked(x, TRUE)
               z == Asked(x, FALSE)
           IN  /\ srv' = srv /\ updates' = updates /\ known' = known
               /\ \/ Become(x) \/ Become(Post(x, a)) \/ Become(Post(x, c))
                  \/ /\ call.state # "None"
                     /\ \/ Become(y) \/ Become(hangup(x)) \/ Become(Post(z, a))
                        \/ Become(hangup(z)) \/ Become(destroyCall(hangup(x)))
<1> DEFINE x == World
           a == Task("answer", "None")
           c == Task("create", "None")
           y == Asked(x, TRUE)
           z == Asked(x, FALSE)
<1>1. x.call = call /\ Going(x, srv, Quiet)
  BY WorldFact DEF GoingInv
<1>2. srv' = srv /\ updates' = updates /\ known' = known
  BY DEF User, Hangup, Answer, StartOutgoing, DialogCloses, EnterGroupCall
<1>3. /\ [World EXCEPT !.call.asking = TRUE] = y
      /\ [World EXCEPT !.call.asking = FALSE] = z
  BY DEF Asked, With
<1>4. isIncomingWaiting(call) => call.state # "None"
  BY DEF isIncomingWaiting
<1>5. UNCHANGED clientVars => Become(x)
  BY DEF clientVars, Become, World
<1>6. Hangup => call.state # "None" /\ Become(hangup(x))
  BY DEF Hangup
<1>7. EnterGroupCall => call.state # "None" /\ Become(destroyCall(hangup(x)))
  BY DEF EnterGroupCall
<1>8. StartOutgoing => Become(x) \/ Become(Post(x, c))
  BY <1>5 DEF StartOutgoing
<1>9. Answer => /\ call.state # "None"
                /\ Become(Post(x, a)) \/ Become(y) \/ Become(hangup(x))
  BY <1>3, <1>4 DEF Answer
<1>10. ASSUME DialogCloses
       PROVE  \/ Become(x) \/ Become(Post(x, c))
              \/ call.state # "None" /\ (Become(Post(z, a)) \/ Become(hangup(z)))
  <2>1. call.asking => call.state # "None"
    <3>1. ~NoCall.asking
      BY DEF NoCall
    <3> QED
      BY <1>1, <3>1 DEF Going, Core, StateOK
  <2> DEFINE p == Post(z, a)
             q == Post(x, c)
             h == hangup(z)
  <2>2. \/ Become(CASE dialog = "Start" -> q
                    [] dialog = "Answer" /\ call.asking -> p
                    [] OTHER -> x)
        \/ Become(IF call.state = "None" THEN x ELSE h)
    BY <1>3, <1>10 DEF DialogCloses
  <2> HIDE DEF p, q, h, x
  <2>3. \/ Become(x) \/ Become(q)
        \/ call.state # "None" /\ (Become(p) \/ Become(h))
    BY <2>1, <2>2
  <2> QED
    BY <2>3 DEF p, q, h
<1> QED
  BY <1>2, <1>6, <1>7, <1>8, <1>9, <1>10 DEF User

LEMMA GoesUser ==
    ASSUME Inv, GoingInv, User, PatientRedial
    PROVE  GoingInv'
<1> DEFINE x == World
           a == Task("answer", "None")
           c == Task("create", "None")
           y == Asked(x, TRUE)
           z == Asked(x, FALSE)
<1>1. x \in WorldSet /\ Going(x, srv, Quiet) /\ x.call = call
  BY WorldFact DEF Inv, Fine, GoingInv
<1>2. a \in TaskSet /\ c \in TaskSet /\ a.task = "answer" /\ c.task = "create"
  BY TaskFact, StatesFact
<1>3. CASE Redial
  BY <1>3, GoesRedial
<1>4. CASE ~Redial
  <2>1. /\ srv' = srv /\ updates' = updates
        /\ \/ Become(x) \/ Become(Post(x, a)) \/ Become(Post(x, c))
           \/ /\ call.state # "None"
              /\ \/ Become(y) \/ Become(hangup(x)) \/ Become(Post(z, a))
                 \/ Become(hangup(z)) \/ Become(destroyCall(hangup(x)))
    BY <1>4, UserFact
  <2> HIDE DEF x, a, c
  <2>2. Going(Post(x, a), srv, Quiet) /\ Going(Post(x, c), srv, Quiet)
    BY <1>1, <1>2, CorePost DEF Going
  <2>3. ASSUME call.state # "None", NEW b \in BOOLEAN
        PROVE  Going(Asked(x, b), srv, Quiet) /\ Asked(x, b) \in WorldSet
               /\ Asked(x, b).call.state # "None"
    <3> DEFINE v == Asked(x, b)
    <3>1. /\ Alike(v, x) /\ v.call.instance = x.call.instance
          /\ v.call.discardTimer = x.call.discardTimer
      BY <1>1, AskedFact
    <3> HIDE DEF v
    <3>2. /\ Core(v, srv, Quiet) /\ TimersOK(v) /\ Goes(v) /\ v \in WorldSet
          /\ v.call.state # "None"
      BY <1>1, <2>3, <3>1, CoreAlike DEF Going, Alike
    <3> QED
      BY <3>2 DEF Going, v
  <2>4. call.state # "None" => Going(y, srv, Quiet)
    BY <2>3
  <2>5. call.state # "None" =>
            Going(z, srv, Quiet) /\ z \in WorldSet /\ z.call.state # "None"
    BY <2>3
  <2> HIDE DEF y, z
  <2>6. call.state # "None" => Going(hangup(x), srv, Quiet) /\ hangup(x) \in WorldSet
    BY <1>1, GoingHangup DEF Going
  <2>7. call.state # "None" => Going(hangup(z), srv, Quiet)
    BY <2>5, GoingHangup DEF Going
  <2>8. call.state # "None" => Going(Post(z, a), srv, Quiet)
    BY <1>2, <2>5, CorePost DEF Going
  <2>9. ASSUME call.state # "None" PROVE Going(destroyCall(hangup(x)), srv, Quiet)
    <3>1. \A d \in hangup(x).discards : DiscardOK(hangup(x), srv, d)
      BY <2>6, <2>9 DEF Going, Core
    <3> QED
      BY <2>6, <2>9, <3>1, GoingDestroy
  <2>10. PICK v : Become(v) /\ Going(v, srv, Quiet)
    BY <1>1, <2>1, <2>2, <2>4, <2>6, <2>7, <2>8, <2>9
  <2> QED
    BY <2>1, <2>10, ClientGoes
<1> QED
  BY <1>3, <1>4

(* The server answers a request or a discard, or the others act: what the  *)
(* updates say stays true, and a call that is quiet stays so.              *)
LEMMA GoingReply ==
    ASSUME NEW x \in WorldSet, NEW S, NEW Q, Going(x, S, Q), NEW r \in x.reqs,
           NEW e, e.kind = r.kind, e.power = r.power,
           r.kind # "request" => e.id = r.id,
           r.kind = "request" /\ e.answer = "ok" =>
               S[e.id].stage # "None" /\ S[e.id].ours /\ S[e.id].power = r.power,
           NEW v, v.call = x.call, v.queue = x.queue, v.discards = x.discards,
           v.reqs = (x.reqs \ {r}) \cup {e}
    PROVE  Going(v, S, Q)
<1>1. (Calling(v) <=> Calling(x)) /\ (Destroying(v) <=> Destroying(x))
  BY DEF Calling, Destroying
<1>2. ControllerOK(v, S) /\ StateOK(v, S, Q) /\ CallingOK(v, Q)
  BY <1>1 DEF Going, Core, ControllerOK, StateOK, CallingOK
<1>3. \A q \in v.reqs : ReqOK(v, S, q)
  <2>1. ASSUME NEW q \in x.reqs \ {r} PROVE ReqOK(v, S, q)
    <3>1. ReqOK(x, S, q) /\ q.kind \notin {"dh", "request"}
      BY DEF Going, Core, ReqOK
    <3> QED
      BY <3>1 DEF ReqOK
  <2>2. ReqOK(v, S, e)
    <3>1. ReqOK(x, S, r)
      BY DEF Going, Core
    <3>2. e.kind \in {"dh", "request"} => v.reqs = {e}
      BY <3>1 DEF ReqOK
    <3> QED
      BY <3>1, <3>2 DEF ReqOK
  <2> QED
    BY <2>1, <2>2
<1>4. \A d \in v.discards : DiscardOK(v, S, d)
  BY DEF Going, Core, DiscardOK
<1>5. TimersOK(v) /\ Goes(v)
  BY <1>1 DEF Going, TimersOK, Goes, Kept
<1> QED
  BY <1>2, <1>3, <1>4, <1>5 DEF Going, Core

LEMMA GoingDiscarded ==
    ASSUME NEW x \in WorldSet, NEW S, NEW Q, Going(x, S, Q), NEW d \in x.discards,
           S[d.id].stage = "Discarded", NEW E,
           \A e \in E : /\ e.id = d.id /\ e.guarded = d.guarded
                        /\ e.reason = "Busy" => ~S[d.id].accepted,
           NEW v, v.call = x.call, v.queue = x.queue, v.reqs = x.reqs,
           v.discards = (x.discards \ {d}) \cup E
    PROVE  Going(v, S, Q)
<1>1. (Calling(v) <=> Calling(x)) /\ (Destroying(v) <=> Destroying(x))
  BY DEF Calling, Destroying
<1>2. ControllerOK(v, S) /\ StateOK(v, S, Q)
  BY <1>1 DEF Going, Core, ControllerOK, StateOK
<1>3. CallingOK(v, Q)
  BY <1>1 DEF Going, Core, CallingOK
<1>4. \A r \in v.reqs : ReqOK(v, S, r)
  BY DEF Going, Core, ReqOK
<1>5. \A e \in v.discards : DiscardOK(v, S, e)
  <2>1. \A e \in x.discards : DiscardOK(v, S, e)
    BY DEF Going, Core, DiscardOK
  <2>2. \A e \in E : DiscardOK(v, S, e)
    BY <2>1 DEF DiscardOK
  <2> QED
    BY <2>1, <2>2
<1>6. TimersOK(v) /\ Goes(v)
  BY <1>1 DEF Going, TimersOK, Goes, Kept
<1> QED
  BY <1>2, <1>3, <1>4, <1>5, <1>6 DEF Going, Core

LEMMA ServerMoves ==
    ASSUME Inv, GoingInv, Moves, updates' = updates \/ \E V \in Seq(UpdateSet) : News(V)
    PROVE  Going(World, srv', Quiet') /\ UpdatesOK'
<1>1. PICK V \in Seq(UpdateSet) : News(V)
  <2>1. CASE updates' = updates
    <3>1. updates' = updates \o << >> /\ << >> \in Seq(UpdateSet)
      BY <2>1 DEF Inv
    <3>2. News(<< >>)
      BY <3>1 DEF News
    <3> QED
      BY <3>1, <3>2
  <2> QED
    BY <2>1
<1>2. updates \in Seq(UpdateSet) /\ updates' = updates \o V
  BY <1>1 DEF Inv, News
<1>3. ASSUME NEW i \in DOMAIN updates'
      PROVE  \/ i \in DOMAIN updates /\ updates'[i] = updates[i]
             \/ \E j \in DOMAIN V : updates'[i] = V[j]
  <2>1. CASE i <= Len(updates)
    BY <1>2, <2>1
  <2>2. CASE i > Len(updates)
    <3>1. i - Len(updates) \in DOMAIN V /\ updates'[i] = V[i - Len(updates)]
      BY <1>2, <2>2
    <3> QED
      BY <3>1
  <2> QED
    BY <1>2, <2>1, <2>2
<1>4. \A id \in Ids : Stepped(srv[id], srv'[id])
  BY DEF Moves
<1>5. UpdatesOK'
  <2>1. ASSUME NEW i \in DOMAIN updates PROVE UpdateOK(srv', updates[i])
    <3>0. updates[i] \in UpdateSet
      BY <1>2
    <3>1. updates[i].id \in Ids /\ UpdateOK(srv, updates[i])
      BY <3>0 DEF GoingInv, UpdatesOK, UpdateSet
    <3>2. Stepped(srv[updates[i].id], srv'[updates[i].id])
      BY <1>4, <3>1
    <3> QED
      BY <3>1, <3>2 DEF UpdateOK, Says, Stepped
  <2>2. \A j \in DOMAIN V : UpdateOK(srv', V[j])
    BY <1>1 DEF News
  <2>3. \A i \in DOMAIN updates' : UpdateOK(srv', updates'[i])
    BY <1>3, <2>1, <2>2
  <2> QED
    BY <2>3 DEF UpdatesOK
<1>6. Quiet \subseteq Quiet'
  <2>1. ASSUME NEW id \in Quiet PROVE id \in Quiet'
    <3>1. id \in Ids /\ Refused(srv[id]) /\ \A i \in DOMAIN updates : updates[i].id # id
      BY DEF Quiet
    <3>2. Refused(srv'[id]) /\ srv[id].stage = "Discarded"
      BY <1>4, <3>1 DEF Refused, Stepped
    <3>3. \A j \in DOMAIN V : V[j].id # id
      BY <1>1, <3>2 DEF News
    <3>4. \A i \in DOMAIN updates' : updates'[i].id # id
      BY <1>3, <3>1, <3>3
    <3> QED
      BY <3>1, <3>2, <3>4 DEF Quiet
  <2> QED
    BY <2>1
<1>7. Going(World, srv', Quiet')
  BY <1>4, <1>6, QuietFact, GoingMoves DEF GoingInv, Inv, Fine
<1> QED
  BY <1>5, <1>7

LEMMA GoesServer ==
    ASSUME Inv, GoingInv, Server
    PROVE  GoingInv'
<1>0. World \in WorldSet /\ World.reqs = reqs /\ World.discards = discards
      /\ World.call = call /\ World.queue = queue
  BY WorldFact DEF Inv, Fine
<1>1. ASSUME NEW r \in reqs, ServeRequest(r) PROVE GoingInv'
  <2>1. PICK a \in {"ok", "wrong", "error"}, id \in Ids \cup {0} : Replied(r, a, id)
    BY <1>1, ServeRequestFact
  <2>2. r \in ReqSet /\ Moves
    BY <1>1, ServeRequestFact
  <2>3. UNCHANGED <<call, queue, discards, updates>>
    BY <1>1 DEF ServeRequest
  <2>4. Going(World, srv', Quiet') /\ UpdatesOK'
    BY <2>2, <2>3, ServerMoves
  <2> DEFINE e == Reply(r, a, id)
  <2>5. e.kind = r.kind /\ e.power = r.power /\ e.id = id /\ e.answer = a
    BY <2>1, <2>2, ReplyFact DEF Replied
  <2>6. /\ World'.call = World.call /\ World'.queue = World.queue
        /\ World'.discards = World.discards
        /\ World'.reqs = (World.reqs \ {r}) \cup {e}
    BY <2>1, <2>3 DEF World, Replied
  <2>7. /\ r.kind = "request" /\ a = "ok" =>
              /\ srv'[id].stage # "None" /\ srv'[id].ours /\ srv'[id].power = r.power
        /\ r.kind # "request" => id = r.id
    BY <2>1 DEF Replied
  <2> HIDE DEF e
  <2>8. Going(World', srv', Quiet')
    BY <1>0, <2>4, <2>5, <2>6, <2>7, GoingReply
  <2> QED
    BY <2>4, <2>8 DEF GoingInv
<1>2. ASSUME NEW d \in discards, ServeDiscard(d) PROVE GoingInv'
  <2>1. PICK E \in SUBSET DiscardSet : Discarded(d, E)
    BY <1>2, ServeDiscardFact
  <2>2. Moves /\ srv'[d.id].stage = "Discarded"
    BY <1>2, ServeDiscardFact
  <2>3. UNCHANGED <<call, queue, reqs, updates>>
    BY <1>2 DEF ServeDiscard
  <2>4. Going(World, srv', Quiet') /\ UpdatesOK'
    BY <2>2, <2>3, ServerMoves
  <2>5. /\ World'.call = World.call /\ World'.queue = World.queue
        /\ World'.reqs = World.reqs
        /\ World'.discards = (World.discards \ {d}) \cup E
    BY <2>1, <2>3 DEF World, Discarded
  <2>6. \A e \in E : /\ e.id = d.id /\ e.guarded = d.guarded
                     /\ e.reason = "Busy" => ~srv'[d.id].accepted
    BY <2>1 DEF Discarded
  <2>7. Going(World', srv', Quiet')
    BY <1>0, <2>2, <2>4, <2>5, <2>6, GoingDiscarded
  <2> QED
    BY <2>4, <2>7 DEF GoingInv
<1>3. CASE Others
  <2>1. /\ Moves /\ UNCHANGED <<clientVars, dialog, known, starts, redials, events>>
        /\ \E V \in Seq(UpdateSet) : News(V)
    BY <1>3, OthersFact
  <2>2. Going(World, srv', Quiet') /\ UpdatesOK'
    BY <2>1, ServerMoves
  <2>3. World' = World
    BY <2>1 DEF World, clientVars
  <2> QED
    BY <2>2, <2>3 DEF GoingInv
<1> QED
  BY <1>1, <1>2, <1>3 DEF Server, Others

LEMMA GoesInit == Init => GoingInv
<1> SUFFICES ASSUME Init PROVE GoingInv
  OBVIOUS
<1> DEFINE x == World
<1>1. x.call = NoCall /\ x.queue = <<>> /\ x.reqs = {} /\ x.discards = {}
  BY DEF Init, World
<1>2. UpdatesOK
  BY DEF Init, UpdatesOK
<1> HIDE DEF x
<1>3. \A task : ~Has(x.queue, task)
  BY <1>1 DEF Has
<1>4. ControllerOK(x, srv) /\ StateOK(x, srv, Quiet) /\ CallingOK(x, Quiet)
  BY <1>1, <1>3, NoCallFact DEF ControllerOK, StateOK, CallingOK, Calling, Destroying
<1>5. TimersOK(x) /\ Goes(x)
  BY <1>1, NoCallFact, StatesFact DEF TimersOK, Goes, Final
<1> QED
  BY <1>1, <1>2, <1>4, <1>5 DEF GoingInv, Going, Core, x

LEMMA GoesNext ==
    ASSUME Inv, GoingInv, PatientRedial, [Next]_vars
    PROVE  GoingInv'
<1>1. CASE UNCHANGED vars
  <2>1. World' = World /\ Quiet' = Quiet /\ UpdatesOK'
    BY <1>1 DEF World, vars, Quiet, UpdatesOK, GoingInv
  <2> QED
    BY <1>1, <2>1 DEF GoingInv, vars
<1>2. CASE Next
  BY <1>2, GoesAnswers, GoesDeliver, GoesTimers, GoesRunTask, GoesUser, GoesServer
  DEF Next
<1> QED
  BY <1>1, <1>2

(* With a user who calls a busy peer again when nothing of the call is on  *)
(* its way, a call is never left to itself: as long as it is neither gone  *)
(* nor busy, a task, a timer, an answer or the controller is still to come *)
(* (setState, finish, createAndStartController, the timers).               *)
THEOREM AlwaysKeepsGoing == PatientRedial => (Spec => []KeepsGoing)
<1> SUFFICES ASSUME PatientRedial PROVE Spec => []KeepsGoing
  OBVIOUS
<1>1. Inv /\ GoingInv => KeepsGoing
  <2> SUFFICES ASSUME Inv, GoingInv PROVE KeepsGoing
    OBVIOUS
  <2> DEFINE x == World
  <2>1. x.call = call /\ x.queue = queue /\ x.reqs = reqs /\ Going(x, srv, Quiet)
    BY WorldFact DEF GoingInv
  <2> HIDE DEF x
  <2>2. Destroying(x) => \E i \in DOMAIN queue : queue[i].task = "destroy"
    BY <2>1 DEF Destroying, Has
  <2>3. Destroying(x) => queue # <<>>
    BY <2>2
  <2>4. Calling(x) => reqs # {}
    BY <2>1 DEF Calling
  <2>5. TimersOK(x) /\ Goes(x)
    BY <2>1 DEF Going
  <2>6. call.state \in States \ {"Busy"} =>
            queue # <<>> \/ reqs # {} \/ call.instance
            \/ call.discardTimer \/ call.finishTimer # "None"
    BY <2>1, <2>3, <2>4, <2>5 DEF Goes, Kept
  <2> QED
    BY <2>1, <2>2, <2>5, <2>6 DEF TimersOK, KeepsGoing
<1>2. Inv /\ GoingInv /\ [Next]_vars => GoingInv'
  BY GoesNext
<1> QED
  BY <1>1, <1>2, GoesInit, AlwaysInv, PTL DEF Spec

(* The same user: phone.confirmCall reveals the secret whose hash the      *)
(* server has from phone.requestCall, for any number of calls one after    *)
(* the other in the same Call (start, requestDone, confirmAcceptedCall).   *)
THEOREM AlwaysConfirmsWhatWasRequested ==
    PatientRedial => (Spec => []ConfirmsWhatWasRequested)
<1> SUFFICES ASSUME PatientRedial PROVE Spec => []ConfirmsWhatWasRequested
  OBVIOUS
<1>1. GoingInv => ConfirmsWhatWasRequested
  BY WorldFact DEF GoingInv, Going, Core, ReqOK, ConfirmsWhatWasRequested
<1>2. Inv /\ GoingInv /\ [Next]_vars => GoingInv'
  BY GoesNext
<1> QED
  BY <1>1, <1>2, GoesInit, AlwaysInv, PTL DEF Spec

-----------------------------------------------------------------------------
(* No call is forgotten.  A call that is over is one the server knows the  *)
(* end of or is being told of; a call the client knows is the one that is  *)
(* there, or the server knows or is being told of its end.                 *)
Told(id, D, S) ==
    id # 0 => \/ S[id].stage \in {"None", "Discarded"}
              \/ \E d \in D : d.id = id

Over(w) == \/ w.call.state \in Closing \cup {"Busy", "Requesting"}
           \/ Has(w.queue, "destroy") \/ Has(w.queue, "setState")
           \/ w.call.finishTimer # "None"

OverOK(w, S) == Over(w) => Told(w.call.id, w.discards, S)

Remembered(w, S, K) ==
    \A id \in K : \/ w.call.state # "None" /\ w.call.id = id
                  \/ Told(id, w.discards, S)

Mind(w, S, K) == OverOK(w, S) /\ Remembered(w, S, K)

LEMMA ToldMore ==
    ASSUME NEW D, NEW E, D \subseteq E, NEW id, NEW S, Told(id, D, S)
    PROVE  Told(id, E, S)
  BY DEF Told

(* The call keeps its id, and no discard is dropped.                       *)
LEMMA MindStep ==
    ASSUME NEW w, NEW S, NEW K, Remembered(w, S, K), NEW v, v.call.id = w.call.id,
           w.discards \subseteq v.discards,
           w.call.state # "None" => v.call.state # "None",
           Over(v) => \/ Over(w) /\ OverOK(w, S)
                      \/ Told(v.call.id, v.discards, S)
    PROVE  Mind(v, S, K)
<1>1. \A id : Told(id, w.discards, S) => Told(id, v.discards, S)
  BY ToldMore
<1>2. Remembered(v, S, K)
  BY <1>1 DEF Remembered
<1>3. OverOK(v, S)
  BY <1>1 DEF OverOK
<1> QED
  BY <1>2, <1>3 DEF Mind

LEMMA MindSetState ==
    ASSUME NEW w \in WorldSet, NEW S, NEW K, Remembered(w, S, K), NEW s \in States,
           OverOK(w, S) \/ Told(w.call.id, w.discards, S),
           s \in Closing \cup {"Busy", "Requesting"} =>
               Told(w.call.id, w.discards, S)
    PROVE  Mind(setState(w, s), S, K)
<1> DEFINE v == setState(w, s)
<1>0. s # "None"
  BY StatesFact
<1>1. /\ v.discards = w.discards /\ SameCall(v.call, w.call)
      /\ v.call.finishTimer = w.call.finishTimer
      /\ Blocked(w.call, s) => v = w
      /\ ~Blocked(w.call, s) =>
            /\ v.call.state = s
            /\ s \notin Final => v.queue = w.queue
  BY SetStateFact
<1> HIDE DEF v
<1>2. v.call.id = w.call.id /\ (w.call.state # "None" => v.call.state # "None")
  BY <1>0, <1>1 DEF SameCall
<1>3. Over(v) => \/ Over(w) /\ OverOK(w, S)
                 \/ Told(v.call.id, v.discards, S)
  <2>1. CASE Blocked(w.call, s)
    BY <1>1, <2>1 DEF OverOK
  <2>2. CASE ~Blocked(w.call, s)
    <3>1. CASE s \in Closing \cup {"Busy", "Requesting"}
      BY <1>1, <1>2, <3>1
    <3>2. CASE s \notin Closing \cup {"Busy", "Requesting"}
      <4>1. v.call.state = s /\ v.queue = w.queue
        BY <1>1, <2>2, <3>2 DEF Closing
      <4>2. Over(v) => Over(w)
        BY <1>1, <3>2, <4>1 DEF Over
      <4> QED
        BY <1>1, <1>2, <4>2
    <3> QED
      BY <3>1, <3>2
  <2> QED
    BY <2>1, <2>2
<1> QED
  BY <1>1, <1>2, <1>3, MindStep DEF v

(* Once finish has run, the server is told, or was before.                 *)
LEMMA MindFinish ==
    ASSUME NEW w \in WorldSet, NEW S, NEW K, Remembered(w, S, K),
           NEW type \in Finishes, NEW reason \in Reasons,
           w.call.state \in Closing \cup {"Requesting"} => OverOK(w, S)
    PROVE  /\ Mind(finish(w, type, reason), S, K)
           /\ Told(w.call.id, finish(w, type, reason).discards, S)
           /\ finish(w, type, reason).call.id = w.call.id
<1> DEFINE v == finish(w, type, reason)
<1>1. /\ v \in WorldSet /\ SameCall(v.call, w.call)
      /\ w.call.state = "Requesting" =>
            /\ v.queue = w.queue /\ v.discards = w.discards
            /\ v.call.state = "Requesting"
      /\ w.call.state \in Closing => v = w
      /\ w.call.state \notin Closing \cup {"Requesting"} =>
            /\ w.call.id = 0 => v = setState(w, type)
            /\ w.call.id # 0 =>
                  /\ v.call.state = HangState(type)
                  /\ v.discards = w.discards \cup {NewDiscard(w.call.id, type, reason)}
  BY FinishFact
<1> HIDE DEF v
<1>2. v.call.id = w.call.id
  BY <1>1 DEF SameCall
<1>3. CASE w.call.state \in Closing
  <2>1. Told(w.call.id, w.discards, S)
    BY <1>3 DEF OverOK, Over
  <2> QED
    BY <1>1, <1>2, <1>3, <2>1 DEF Mind, v
<1>4. CASE w.call.state = "Requesting"
  <2>1. Told(v.call.id, v.discards, S)
    BY <1>1, <1>2, <1>4 DEF OverOK, Over
  <2> QED
    BY <1>1, <1>2, <1>4, <2>1, MindStep DEF v
<1>5. CASE w.call.state \notin Closing \cup {"Requesting"} /\ w.call.id = 0
  <2>1. Told(w.call.id, w.discards, S) /\ Told(w.call.id, v.discards, S)
    BY <1>5 DEF Told
  <2>2. type \in States
    BY StatesFact
  <2>3. v = setState(w, type)
    BY <1>1, <1>5
  <2>4. Mind(v, S, K)
    BY <2>1, <2>2, <2>3, MindSetState
  <2> QED
    BY <1>2, <2>1, <2>4 DEF v
<1>6. CASE w.call.state \notin Closing \cup {"Requesting"} /\ w.call.id # 0
  <2>1. NewDiscard(w.call.id, type, reason) \in v.discards
        /\ NewDiscard(w.call.id, type, reason).id = w.call.id
        /\ w.discards \subseteq v.discards /\ v.call.state = HangState(type)
    BY <1>1, <1>6 DEF NewDiscard
  <2>2. Told(v.call.id, v.discards, S)
    BY <1>2, <2>1 DEF Told
  <2>3. v.call.state # "None"
    BY <2>1 DEF HangState
  <2>4. Mind(v, S, K)
    BY <1>2, <2>1, <2>2, <2>3, MindStep
  <2> QED
    BY <1>2, <2>2, <2>4 DEF v
<1> QED
  BY <1>3, <1>4, <1>5, <1>6

LEMMA MindFail ==
    ASSUME NEW w \in WorldSet, NEW S, NEW K, Remembered(w, S, K),
           w.call.state \in Closing \cup {"Requesting"} => OverOK(w, S)
    PROVE  Mind(Fail(w), S, K)
<1>1. "Failed" \in Finishes /\ "Hangup" \in Reasons
  BY DEF Finishes, Reasons
<1> QED
  BY <1>1, MindFinish DEF Fail

LEMMA MindPost ==
    ASSUME NEW w \in WorldSet, NEW S, NEW K, Mind(w, S, K), NEW t \in TaskSet,
           t.task \in {"destroy", "setState"} => Told(w.call.id, w.discards, S)
    PROVE  Mind(Post(w, t), S, K)
<1> DEFINE v == Post(w, t)
<1>1. v.call = w.call /\ v.queue = Append(w.queue, t) /\ v.discards = w.discards
  BY PostFact
<1> HIDE DEF v
<1>2. \A task : Has(v.queue, task) <=> Has(w.queue, task) \/ t.task = task
  BY <1>1, HasAppend DEF WorldSet
<1>3. Over(v) => Over(w) \/ t.task \in {"destroy", "setState"}
  BY <1>1, <1>2 DEF Over
<1> QED
  BY <1>1, <1>3, MindStep DEF Mind, v

LEMMA MindAsk ==
    ASSUME NEW w \in WorldSet, NEW S, NEW K, Mind(w, S, K), NEW r \in ReqSet
    PROVE  Mind(Ask(w, r), S, K)
<1> DEFINE v == Ask(w, r)
<1>1. v.call = w.call /\ v.queue = w.queue /\ v.discards = w.discards
  BY AskFact
<1> HIDE DEF v
<1> QED
  BY <1>1, MindStep DEF Mind, Over, v

LEMMA MindAlike ==
    ASSUME NEW w, NEW S, NEW K, Mind(w, S, K), NEW v, v.queue = w.queue,
           v.discards = w.discards, v.call.id = w.call.id,
           v.call.state = w.call.state, v.call.finishTimer = w.call.finishTimer
    PROVE  Mind(v, S, K)
  BY MindStep DEF Mind, Over

LEMMA MindHangup ==
    ASSUME NEW w \in WorldSet, NEW S, NEW K, Remembered(w, S, K),
           w.call.state \in Closing \cup {"Requesting", "Busy"} => OverOK(w, S)
    PROVE  /\ Mind(hangup(w), S, K)
           /\ Told(hangup(w).call.id, hangup(w).discards, S)
<1>1. CASE w.call.state = "Busy"
  <2> DEFINE t == Task("destroy", "Busy")
  <2>1. t \in TaskSet
    BY TaskFact, StatesFact
  <2>2. Told(w.call.id, w.discards, S) /\ OverOK(w, S)
    BY <1>1 DEF OverOK, Over
  <2>3. hangup(w) = Post(w, t)
    BY <1>1, HangupFact
  <2> HIDE DEF t
  <2>4. Mind(Post(w, t), S, K)
    BY <2>1, <2>2, MindPost DEF Mind
  <2> QED
    BY <2>1, <2>2, <2>3, <2>4, PostFact
<1>2. CASE w.call.state # "Busy"
  <2>1. PICK reason \in Reasons : hangup(w) = finish(w, "Ended", reason)
    BY <1>2, HangupFact
  <2>2. "Ended" \in Finishes
    BY DEF Finishes
  <2> QED
    BY <2>1, <2>2, MindFinish
<1> QED
  BY <1>1, <1>2

LEMMA MindDestroy ==
    ASSUME NEW w \in WorldSet, NEW S, NEW K, Remembered(w, S, K),
           Told(w.call.id, w.discards, S)
    PROVE  Mind(destroyCall(w), S, K)
<1> DEFINE v == destroyCall(w)
<1>1. v.call = NoCall /\ v.discards = Loose(w.discards)
  BY DestroyFact
<1> HIDE DEF v
<1>2. ASSUME NEW id, Told(id, w.discards, S) PROVE Told(id, v.discards, S)
  <2>1. ASSUME NEW d \in w.discards, d.id = id PROVE \E e \in v.discards : e.id = id
    <3> DEFINE e == [d EXCEPT !.guarded = FALSE]
    <3>1. d \in DiscardSet
      BY DEF WorldSet
    <3>2. e.id = id
      BY <2>1, <3>1 DEF DiscardSet
    <3>3. e \in v.discards
      BY <1>1 DEF Loose
    <3> QED
      BY <3>2, <3>3
  <2> QED
    BY <1>2, <2>1 DEF Told
<1>3. Remembered(v, S, K)
  BY <1>2 DEF Remembered
<1>4. OverOK(v, S)
  BY <1>1, NoCallFact DEF OverOK, Told
<1> QED
  BY <1>3, <1>4 DEF Mind, v

LEMMA HangupInWorld ==
    ASSUME NEW w \in WorldSet
    PROVE  hangup(w) \in WorldSet
<1>1. \A t \in TaskSet : Post(w, t) \in WorldSet
  BY PostFact
<1>2. Task("destroy", "Busy") \in TaskSet /\ "Ended" \in Finishes
  BY TaskFact, StatesFact DEF Finishes
<1> QED
  BY <1>1, <1>2, HangupFact, FinishFact

LEMMA MindCreateCall ==
    ASSUME NEW w \in WorldSet, NEW S, NEW K, Mind(w, S, K),
           NEW type \in {"Outgoing", "Incoming"}, redials \in Nat
    PROVE  Mind(createCall(w, type), S, K)
           /\ \A id \in K : Told(id, createCall(w, type).discards, S)
<1> DEFINE z == Vacated(w)
           y == Anew(z, type)
           r == Req("dh", 0, redials)
           v == Ask(y, r)
<1>1. createCall(w, type) = v
  BY CreateCallFact
<1>2. z \in WorldSet /\ Mind(z, S, K) /\ z.call.state = "None"
  <2>1. CASE w.call.state = "None"
    BY <2>1 DEF Vacated
  <2>2. CASE w.call.state # "None"
    <3> DEFINE h == hangup(w)
    <3>1. h \in WorldSet
      BY HangupInWorld
    <3>2. Remembered(h, S, K) /\ Told(h.call.id, h.discards, S)
      BY MindHangup DEF Mind
    <3>3. z = destroyCall(h)
      BY <2>2 DEF Vacated
    <3> HIDE DEF h, z
    <3> QED
      BY <3>1, <3>2, <3>3, MindDestroy, DestroyFact, NoCallFact DEF Fine
  <2> QED
    BY <2>1, <2>2
<1> HIDE DEF z
<1>3. y \in WorldSet /\ y.call = NewCall(type) /\ y.discards = z.discards
  BY <1>2, NewCallFact, WithFact DEF Anew
<1>4. r \in ReqSet
  BY ReqFact
<1> HIDE DEF y, r
<1>5. \A id \in K : Told(id, y.discards, S)
  BY <1>2, <1>3 DEF Mind, Remembered
<1>6. y.call.id = 0
  BY <1>3, NewCallFact
<1>7. Mind(y, S, K)
  BY <1>5, <1>6 DEF Mind, OverOK, Remembered, Told
<1>8. Mind(v, S, K) /\ v.discards = y.discards
  BY <1>3, <1>4, <1>7, MindAsk, AskFact
<1> HIDE DEF v
<1> QED
  BY <1>1, <1>5, <1>8

LEMMA MindCreate ==
    ASSUME NEW w \in WorldSet, NEW S, NEW K, Mind(w, S, K), NEW fault, NEW echoed
    PROVE  /\ Mind(createAndStartController(w, fault, echoed), S, K)
           /\ Mind(startConfirmedCall(w, fault), S, K)
<1>1. \A x, y : Alike(x, y) /\ Mind(y, S, K) => Mind(x, S, K)
  BY MindAlike DEF Alike, SameCall
<1>2. \A x \in WorldSet : Mind(x, S, K) => Mind(Fail(x), S, K)
  BY MindFail DEF Mind
<1>3. \A x \in WorldSet : Alike(Untimed(x), x) /\ Alike(Keyed(x), x) /\ Alike(Started(x), x)
  BY UntimedFact
<1>4. \A x : Alike(x, w) => x \in WorldSet
  BY DEF Alike
<1>5. Keyed(w) \in WorldSet /\ Mind(Keyed(w), S, K)
  BY <1>1, <1>3, <1>4
<1>6. ASSUME NEW x \in WorldSet, Mind(x, S, K)
      PROVE  Mind(Fail(Untimed(x)), S, K) /\ Mind(Started(x), S, K)
  <2>1. Untimed(x) \in WorldSet /\ Mind(Untimed(x), S, K) /\ Mind(Started(x), S, K)
    BY <1>1, <1>3, <1>6 DEF Alike
  <2> QED
    BY <1>2, <2>1
<1>7. Mind(createAndStartController(w, fault, echoed), S, K)
  BY <1>6, CreateFact
<1>8. Mind(startConfirmedCall(w, fault), S, K)
  BY <1>2, <1>5, <1>6, StartConfirmedFact
<1> QED
  BY <1>7, <1>8

LEMMA MindConfirm ==
    ASSUME NEW w \in WorldSet, NEW S, NEW K, Mind(w, S, K), NEW fault
    PROVE  Mind(confirmAcceptedCall(w, fault), S, K)
<1> DEFINE z == Keyed(w)
           y == setState(z, "ExchangingKeys")
           r == Req("confirm", w.call.id, w.call.power)
<1>1. confirmAcceptedCall(w, fault) \in {w, Fail(w), Ask(y, r)}
  BY DEF confirmAcceptedCall, Keyed, With
<1>2. Alike(z, w)
  BY UntimedFact
<1> HIDE DEF z
<1>3. z \in WorldSet /\ Mind(z, S, K)
  BY <1>2, MindAlike DEF Alike, SameCall
<1>4. "ExchangingKeys" \in States /\ "ExchangingKeys" \notin Closing \cup {"Busy", "Requesting"}
  BY StatesFact DEF Closing, Final
<1>5. y \in WorldSet /\ Mind(y, S, K)
  BY <1>3, <1>4, MindSetState, SetStateFact DEF Mind
<1>6. r \in ReqSet
  <2>1. w.call.id \in Ids \cup {0} /\ w.call.power \in Nat
    BY DEF WorldSet, CallSet
  <2> QED
    BY <2>1, ReqFact
<1> HIDE DEF y, r
<1>7. Mind(Ask(y, r), S, K)
  BY <1>5, <1>6, MindAsk
<1>8. Mind(Fail(w), S, K)
  BY MindFail DEF Mind
<1> QED
  BY <1>1, <1>7, <1>8

LEMMA MindHandle ==
    ASSUME NEW w \in WorldSet, NEW S, NEW K, Mind(w, S, K), NEW u,
           u.kind \in {"Waiting", "Accepted", "Call", "Discarded", "Empty"},
           u.kind = "Discarded" /\ u.id = w.call.id => S[u.id].stage = "Discarded"
    PROVE  Mind(handleUpdate(w, u), S, K)
<1> DEFINE z == Timed(w)
           h == handleUpdate(w, u)
<1>1. Alike(z, w)
  BY TimedFact
<1>2. \/ h = w
      \/ h = setState(z, "Ringing")
      \/ h = startConfirmedCall(w, u.fault)
      \/ /\ S[w.call.id].stage = "Discarded"
         /\ \E s \in {"Busy", "Ended", "EndedByOtherDevice"} : h = setState(w, s)
      \/ h = confirmAcceptedCall(w, u.fault)
      \/ h = Fail(w)
  BY HandleFact
<1> HIDE DEF z, h
<1>3. z \in WorldSet /\ Mind(z, S, K)
  BY <1>1, MindAlike DEF Alike, SameCall
<1>4. Mind(setState(z, "Ringing"), S, K)
  <2>1. "Ringing" \in States /\ "Ringing" \notin Closing \cup {"Busy", "Requesting"}
    BY StatesFact DEF Closing, Final
  <2> QED
    BY <1>3, <2>1, MindSetState DEF Mind
<1>5. ASSUME S[w.call.id].stage = "Discarded",
             NEW s \in {"Busy", "Ended", "EndedByOtherDevice"}
      PROVE  Mind(setState(w, s), S, K)
  <2>1. s \in States
    BY <1>5 DEF States
  <2>2. Told(w.call.id, w.discards, S)
    BY <1>5 DEF Told
  <2> QED
    BY <2>1, <2>2, MindSetState DEF Mind
<1>6. Mind(Fail(w), S, K)
  BY MindFail DEF Mind
<1> QED
  BY <1>2, <1>4, <1>5, <1>6, MindCreate, MindConfirm DEF h

LEMMA MindAnswer ==
    ASSUME NEW w \in WorldSet, NEW S, NEW K, Mind(w, S, K)
    PROVE  Mind(actuallyAnswer(w), S, K)
<1> DEFINE v == setState(w, "ExchangingKeys")
           r == Req("accept", w.call.id, w.call.power)
<1>1. actuallyAnswer(w) \in {w, Wishing(v), Ask(Accepting(v), r)}
  BY AnswerFact
<1>2. "ExchangingKeys" \in States /\ "ExchangingKeys" \notin Closing \cup {"Busy", "Requesting"}
  BY StatesFact DEF Closing, Final
<1>3. v \in WorldSet /\ Mind(v, S, K)
  BY <1>2, MindSetState, SetStateFact DEF Mind
<1>4. r \in ReqSet
  <2>1. w.call.id \in Ids \cup {0} /\ w.call.power \in Nat
    BY DEF WorldSet, CallSet
  <2> QED
    BY <2>1, ReqFact
<1> HIDE DEF v, r
<1>5. Mind(Wishing(v), S, K) /\ Mind(Accepting(v), S, K) /\ Accepting(v) \in WorldSet
  <2> DEFINE y == Wishing(v)
             z == Accepting(v)
  <2>1. /\ Similar(y.call, v.call) /\ y.queue = v.queue /\ y.discards = v.discards
        /\ Similar(z.call, v.call) /\ z.queue = v.queue /\ z.discards = v.discards
        /\ z \in WorldSet
    BY <1>3, WishingFact
  <2> HIDE DEF y, z
  <2>2. Mind(y, S, K) /\ Mind(z, S, K)
    BY <1>3, <2>1, MindAlike DEF Similar
  <2> QED
    BY <2>1, <2>2 DEF y, z
<1>6. Mind(Ask(Accepting(v), r), S, K)
  BY <1>4, <1>5, MindAsk
<1> QED
  BY <1>1, <1>5, <1>6

LEMMA MindStart ==
    ASSUME NEW w \in WorldSet, NEW S, NEW K, Mind(w, S, K)
    PROVE  Mind(start(w), S, K)
<1> DEFINE v == Powered(w)
           p == w.call.power + 1
           t == Task("answer", "None")
<1>1. /\ v \in WorldSet /\ v.call = [w.call EXCEPT !.power = p]
      /\ v.queue = w.queue /\ v.discards = w.discards
  BY PoweredFact
<1>2. p \in Nat /\ w.call.id \in Ids \cup {0} /\ w.call \in CallSet
  BY DEF WorldSet, CallSet
<1>3. \/ start(w) = Ask(v, Req("request", 0, p))
      \/ start(w) = Ask(v, Req("received", w.call.id, 0))
      \/ start(w) = Post(v, t)
      \/ start(w) = v
  BY StartFact
<1>4. t \in TaskSet /\ t.task = "answer"
  BY TaskFact, StatesFact
<1> HIDE DEF v, p, t
<1>5. /\ v.call.state = w.call.state /\ v.call.id = w.call.id
      /\ v.call.finishTimer = w.call.finishTimer
  BY <1>1, <1>2 DEF CallSet
<1>6. Mind(v, S, K)
  BY <1>1, <1>5, MindAlike
<1>7. Req("request", 0, p) \in ReqSet /\ Req("received", w.call.id, 0) \in ReqSet
  BY <1>2, ReqFact
<1> QED
  BY <1>1, <1>3, <1>4, <1>6, <1>7, MindAsk, MindPost

(* The id the call had before is refused; with the new one, the call is    *)
(* hung up if anything says that it is over.                               *)
LEMMA MindRequestDone ==
    ASSUME NEW x \in WorldSet, NEW S, NEW Q, Going(x, S, Q), Quietly(S, Q),
           NEW K, Mind(x, S, K), NEW r \in x.reqs,
           r.kind = "request", r.answer = "ok", NEW w \in WorldSet,
           w.call = x.call, w.queue = x.queue, w.reqs = x.reqs \ {r},
           w.discards = x.discards, NEW received
    PROVE  Mind(requestDone(w, r.id, received), S, K \cup {r.id})
<1> DEFINE v == Named(setState(w, "Waiting"), r.id)
           y == Timed(v)
           u == Update("Waiting", r.id, received, "none")
           L == K \cup {r.id}
<1>1. /\ v \in WorldSet /\ v.call.state = "Waiting" /\ v.call.id = r.id /\ r.id \in Ids
      /\ v.discards = x.discards /\ v.queue = x.queue
      /\ v.call.finishTimer = x.call.finishTimer /\ Calling(x)
  BY CoreRequestDone
<1>2. \/ requestDone(w, r.id, received) = Fail(v)
      \/ requestDone(w, r.id, received) = hangup(v)
      \/ /\ w.call.finishAfter \notin Finishes
         /\ requestDone(w, r.id, received) = handleUpdate(y, u)
  BY <1>1, RequestDoneFact
<1> HIDE DEF v
<1>3. u.kind = "Waiting"
  BY DEF Update
<1>4. Told(x.call.id, x.discards, S)
  BY <1>1 DEF Going, Core, CallingOK, Quietly, Refused, Told
<1>5. Remembered(v, S, L)
  BY <1>1, <1>4 DEF Mind, Remembered
<1>6. "Waiting" \notin Closing \cup {"Requesting", "Busy"}
  BY DEF Closing, Final
<1>7. Mind(Fail(v), S, L) /\ Mind(hangup(v), S, L)
  BY <1>1, <1>5, <1>6, MindFail, MindHangup
<1>8. ASSUME w.call.finishAfter \notin Finishes PROVE Mind(handleUpdate(y, u), S, L)
  <2>1. x.call.finishAfter = "None"
    BY <1>8 DEF WorldSet, CallSet, Maybe
  <2>2. ~Has(x.queue, "setState") /\ ~Has(x.queue, "destroy") /\ x.call.finishTimer = "None"
    BY <1>1, <2>1 DEF Going, Core, CallingOK, Destroying
  <2>3. ~Over(v)
    BY <1>1, <1>6, <2>2 DEF Over
  <2>4. Mind(v, S, L)
    BY <1>5, <2>3 DEF Mind, OverOK
  <2>5. Alike(y, v)
    BY <1>1, TimedFact
  <2> HIDE DEF y, L, u
  <2>6. y \in WorldSet /\ Mind(y, S, L)
    BY <2>4, <2>5, MindAlike DEF Alike, SameCall
  <2> QED
    BY <1>3, <2>6, MindHandle
<1> HIDE DEF y, u
<1> QED
  BY <1>2, <1>7, <1>8

LEMMA MindRequested ==
    ASSUME NEW w \in WorldSet, NEW S, NEW Q, Core(w, S, Q), TimersOK(w),
           NEW K, Mind(w, S, K), redials \in Nat, NEW u, u.id \in Ids,
           NEW L, L = IF u.fault = "people" THEN K ELSE K \cup {u.id}
    PROVE  Mind(handleRequested(createCall(w, "Incoming"), u), S, L)
<1> DEFINE z == createCall(w, "Incoming")
           v == Named(z, u.id)
<1>1. /\ z \in WorldSet /\ z.call = NewCall("Incoming")
      /\ ~Has(z.queue, "setState") /\ ~Has(z.queue, "destroy")
  BY GoingCreateCall
<1>2. Mind(z, S, K) /\ \A id \in K : Told(id, z.discards, S)
  BY MindCreateCall
<1>3. handleRequested(z, u) = IF u.fault = "people" THEN Fail(z)
                              ELSE IF u.fault = "key" THEN Fail(v) ELSE v
  BY DEF handleRequested, Named, With
<1> HIDE DEF z
<1>4. z.call \in CallSet /\ z.call.state = "Starting" /\ z.call.finishTimer = "None"
  BY <1>1, NewCallFact
<1>5. /\ v \in WorldSet /\ v.call.id = u.id /\ v.queue = z.queue /\ v.discards = z.discards
      /\ v.call = [z.call EXCEPT !.id = u.id]
  BY <1>1, NamedFact
<1> HIDE DEF v
<1>6. v.call.state = "Starting" /\ v.call.finishTimer = "None"
  BY <1>4, <1>5 DEF CallSet
<1>7. "Starting" \notin Closing \cup {"Requesting", "Busy"}
  BY DEF Closing, Final
<1>8. Mind(v, S, K \cup {u.id})
  <2>1. ~Over(v)
    BY <1>1, <1>5, <1>6, <1>7 DEF Over
  <2> QED
    BY <1>2, <1>5, <1>6, <2>1 DEF Mind, OverOK, Remembered
<1>9. Mind(Fail(v), S, K \cup {u.id})
  BY <1>5, <1>8, MindFail DEF Mind
<1>10. Mind(Fail(z), S, K)
  BY <1>1, <1>2, MindFail DEF Mind
<1> QED
  BY <1>3, <1>8, <1>9, <1>10 DEF z

-----------------------------------------------------------------------------
KnownInv == Mind(World, srv, known) /\ \A id \in known : srv[id].stage # "None"

LEMMA ClientKnows ==
    ASSUME NEW w, Become(w), Mind(w, srv, known'), srv' = srv,
           \A id \in known' : srv[id].stage # "None"
    PROVE  KnownInv'
<1>1. World'.call = w.call /\ World'.queue = w.queue /\ World'.discards = w.discards
  BY DEF Become, World
<1>2. Mind(World', srv, known')
  BY <1>1, MindAlike
<1>3. Mind(World', srv', known')
  BY <1>2
<1> QED
  BY <1>3 DEF KnownInv

LEMMA KnowsAnswers ==
    ASSUME Inv, GoingInv, KnownInv, ~DhFails, Answers
    PROVE  KnownInv'
<1> DEFINE x == World
<1>0. /\ World \in Fine /\ x \in WorldSet /\ Going(x, srv, Quiet)
      /\ Quietly(srv, Quiet) /\ Mind(x, srv, known)
      /\ \A id \in known : srv[id].stage # "None"
  BY QuietFact DEF Inv, Fine, GoingInv, KnownInv
<1>1. ASSUME NEW r \in reqs
      PROVE  /\ Without(r) \in WorldSet /\ Without(r).call = x.call /\ r \in x.reqs
             /\ Without(r).queue = x.queue /\ Without(r).reqs = x.reqs \ {r}
             /\ Without(r).discards = x.discards /\ Mind(Without(r), srv, known)
             /\ Mind(Fail(Without(r)), srv, known)
  <2> DEFINE w == Without(r)
  <2>1. /\ w \in WorldSet /\ w.call = x.call /\ w.queue = x.queue
        /\ w.reqs = x.reqs \ {r} /\ w.discards = x.discards /\ r \in x.reqs
    BY <1>0, WithoutFact, WorldFact DEF Fine
  <2> HIDE DEF w, x
  <2>2. Mind(w, srv, known)
    BY <1>0, <2>1, MindAlike
  <2> QED
    BY <2>1, <2>2, MindFail DEF w, Mind
<1>2. ASSUME NEW r \in reqs, AnswerDh(r) PROVE KnownInv'
  <2>1. Become(start(Without(r))) /\ srv' = srv /\ known' = known
    BY <1>2 DEF AnswerDh
  <2>2. Mind(start(Without(r)), srv, known)
    BY <1>1, MindStart
  <2> QED
    BY <1>0, <2>1, <2>2, ClientKnows
<1>3. ASSUME NEW r \in reqs, AnswerRequest(r) PROVE KnownInv'
  <2> DEFINE w == Without(r)
             z == setState(w, "Waiting")
  <2>1. /\ r.kind = "request" /\ srv' = srv
        /\ \/ /\ r.answer = "ok" /\ known' = known \cup {r.id}
              /\ \E received : Become(requestDone(w, r.id, received))
           \/ /\ known' = known /\ (Become(Fail(z)) \/ Become(Fail(w)))
    BY <1>3 DEF AnswerRequest, Answered
  <2>2. /\ w \in WorldSet /\ w.call = x.call /\ r \in x.reqs /\ w.queue = x.queue
        /\ w.reqs = x.reqs \ {r} /\ w.discards = x.discards /\ Mind(w, srv, known)
        /\ Mind(Fail(w), srv, known)
    BY <1>1
  <2> HIDE DEF x, w
  <2>3. r.answer = "ok" => srv[r.id].stage # "None" /\ \A received :
            Mind(requestDone(w, r.id, received), srv, known \cup {r.id})
    <3>1. r.answer = "ok" => srv[r.id].stage # "None"
      BY <1>0, <2>1, <2>2 DEF Going, Core, ReqOK
    <3> QED
      BY <1>0, <2>1, <2>2, <3>1, MindRequestDone
  <2>4. "Waiting" \in States /\ "Waiting" \notin Closing \cup {"Busy", "Requesting"}
    BY StatesFact DEF Closing, Final
  <2>5. Mind(z, srv, known) /\ z \in WorldSet
    BY <2>2, <2>4, MindSetState, SetStateFact DEF Mind
  <2> HIDE DEF z
  <2>6. Mind(Fail(z), srv, known)
    BY <2>5, MindFail DEF Mind
  <2>7. CASE r.answer = "ok" /\ known' = known \cup {r.id}
             /\ \E received : Become(requestDone(w, r.id, received))
    <3>1. \A id \in known' : srv[id].stage # "None"
      BY <1>0, <2>3, <2>7
    <3>2. PICK v : Become(v) /\ Mind(v, srv, known')
      BY <2>3, <2>7
    <3> QED
      BY <2>1, <3>1, <3>2, ClientKnows
  <2>8. CASE known' = known /\ (Become(Fail(z)) \/ Become(Fail(w)))
    BY <1>0, <2>1, <2>2, <2>6, <2>8, ClientKnows
  <2> QED
    BY <2>1, <2>7, <2>8
<1>4. ASSUME NEW r \in reqs, AnswerReceived(r) PROVE KnownInv'
  <2> DEFINE w == Without(r)
             z == setState(w, "WaitingIncoming")
  <2>1. /\ srv' = srv /\ known' = known
        /\ Become(w) \/ Become(z) \/ Become(Fail(w))
    BY <1>4 DEF AnswerReceived
  <2>2. w \in WorldSet /\ Mind(w, srv, known) /\ Mind(Fail(w), srv, known)
    BY <1>1
  <2> HIDE DEF w
  <2>3. "WaitingIncoming" \in States
        /\ "WaitingIncoming" \notin Closing \cup {"Busy", "Requesting"}
    BY StatesFact DEF Closing, Final
  <2>4. Mind(z, srv, known)
    BY <2>2, <2>3, MindSetState DEF Mind
  <2> QED
    BY <1>0, <2>1, <2>2, <2>4, ClientKnows
<1>5. ASSUME NEW r \in reqs, AnswerAccept(r) PROVE KnownInv'
  <2> DEFINE w == Without(r)
             u == Update("Waiting", r.id, "None", "none")
  <2>1. /\ srv' = srv /\ known' = known
        /\ Become(Fail(w)) \/ Become(handleUpdate(w, u))
    BY <1>5 DEF AnswerAccept
  <2>2. w \in WorldSet /\ Mind(w, srv, known) /\ Mind(Fail(w), srv, known)
    BY <1>1
  <2>3. u.kind = "Waiting"
    BY DEF Update
  <2> HIDE DEF w, u
  <2>4. Mind(handleUpdate(w, u), srv, known)
    BY <2>2, <2>3, MindHandle
  <2> QED
    BY <1>0, <2>1, <2>2, <2>4, ClientKnows
<1>6. ASSUME NEW r \in reqs, AnswerConfirm(r) PROVE KnownInv'
  <2> DEFINE w == Without(r)
  <2>1. /\ srv' = srv /\ known' = known
        /\ \/ Become(Fail(w))
           \/ \E fault : Become(createAndStartController(w, fault, r.power))
    BY <1>6 DEF AnswerConfirm
  <2>2. w \in WorldSet /\ Mind(w, srv, known) /\ Mind(Fail(w), srv, known)
    BY <1>1
  <2> HIDE DEF w
  <2>3. \A fault : Mind(createAndStartController(w, fault, r.power), srv, known)
    BY <2>2, MindCreate
  <2> QED
    BY <1>0, <2>1, <2>2, <2>3, ClientKnows
<1>7. ASSUME NEW d \in discards, AnswerDiscard(d) PROVE KnownInv'
  <2> DEFINE w == Dropping(d)
             t == Task("setState", d.state)
             p == Post(w, t)
             v == IF d.guarded THEN p ELSE w
             u == Update("Discarded", d.id, d.reason, "none")
  <2>1. /\ srv' = srv /\ known' = known /\ d.answer # "None"
        /\ Become(IF d.answer = "ok" THEN handleUpdate(v, u)
                  ELSE IF d.guarded THEN setState(w, d.state) ELSE w)
    BY <1>7 DEF AnswerDiscard, Dropping
  <2>2. /\ w \in WorldSet /\ w.call = x.call /\ w.queue = x.queue
        /\ w.discards = x.discards \ {d} /\ d \in x.discards
    BY <1>0, DroppingFact, WorldFact DEF Fine
  <2>3. u.kind = "Discarded" /\ u.id = d.id
    BY DEF Update
  <2> HIDE DEF x, w, u
  <2>4. d \in DiscardSet
    BY <1>0, <2>2 DEF WorldSet
  <2>5. d.guarded => d.state \in Finishes
    BY <2>4 DEF DiscardSet, Maybe
  <2>6. srv[d.id].stage = "Discarded" /\ (d.guarded => d.id = w.call.id)
    BY <1>0, <2>1, <2>2 DEF Going, Core, DiscardOK
  <2>7. Mind(w, srv, known)
    <3>1. \A id : Told(id, x.discards, srv) => Told(id, w.discards, srv)
      BY <2>2, <2>6 DEF Told
    <3> QED
      BY <1>0, <2>2, <3>1 DEF Mind, OverOK, Over, Remembered
  <2>8. d.guarded => Told(w.call.id, w.discards, srv)
    BY <2>6 DEF Told
  <2>9. d.guarded => t \in TaskSet
    BY <2>5, TaskFact, StatesFact
  <2> HIDE DEF t
  <2>10. d.guarded => p \in WorldSet /\ Mind(p, srv, known)
    BY <2>2, <2>7, <2>8, <2>9, MindPost, PostFact
  <2> HIDE DEF p
  <2>11. v \in WorldSet /\ Mind(v, srv, known)
    BY <2>2, <2>7, <2>10
  <2> HIDE DEF v
  <2>12. Mind(handleUpdate(v, u), srv, known)
    BY <2>3, <2>6, <2>11, MindHandle
  <2>13. d.guarded => Mind(setState(w, d.state), srv, known)
    <3>1. d.guarded => d.state \in States
      BY <2>5, StatesFact
    <3> QED
      BY <2>2, <2>7, <2>8, <3>1, MindSetState DEF Mind
  <2>14. PICK y : Become(y) /\ Mind(y, srv, known)
    BY <2>1, <2>7, <2>12, <2>13
  <2> QED
    BY <1>0, <2>1, <2>14, ClientKnows
<1> QED
  BY <1>2, <1>3, <1>4, <1>5, <1>6, <1>7 DEF Answers

LEMMA KnowsDeliver ==
    ASSUME Inv, GoingInv, KnownInv, DeliverUpdate
    PROVE  KnownInv'
<1> DEFINE x == World
           u == Head(updates)
           z == handleRequested(createCall(x, "Incoming"), u)
           y == Refusing(u.id)
           L == IF u.fault = "people" THEN known ELSE known \cup {u.id}
<1>1. /\ x \in WorldSet /\ Core(x, srv, Quiet) /\ TimersOK(x) /\ redials \in Nat
      /\ x.call = call /\ Mind(x, srv, known)
      /\ \A id \in known : srv[id].stage # "None"
  BY WorldFact DEF Inv, Fine, GoingInv, Going, KnownInv
<1>2. PICK tooOld \in BOOLEAN :
          /\ tooOld => u.kind = "Requested" /\ ~inCall
          /\ Become(handleCallUpdate(u, tooOld))
          /\ known' = IF /\ u.kind = "Requested" /\ u.fault # "people"
                         /\ ~tooOld
                      THEN known \cup {u.id} ELSE known
  BY DEF DeliverUpdate
<1>3. srv' = srv /\ updates \in Seq(UpdateSet) /\ updates # <<>>
  BY DEF DeliverUpdate, Inv
<1>4. u \in UpdateSet /\ u = updates[1] /\ 1 \in DOMAIN updates
  BY <1>3
<1>5. Says(u, srv[u.id]) /\ u.id \in Ids
  BY <1>4 DEF GoingInv, UpdatesOK, UpdateOK, UpdateSet
<1>6. /\ y.call = x.call /\ y.queue = x.queue
      /\ y.discards = x.discards \cup {Refusal(u.id)} /\ Refusal(u.id).id = u.id
  BY <1>5, RefusingFact, WorldFact DEF Inv, Fine, Refusal
<1>7. /\ u.kind # "Requested" => handleCallUpdate(u, tooOld) = handleUpdate(x, u)
      /\ u.kind = "Requested" =>
            \/ handleCallUpdate(u, tooOld) = x /\ (tooOld \/ (x.call.state # "None" /\ x.call.id = u.id))
            \/ handleCallUpdate(u, tooOld) = y
            \/ handleCallUpdate(u, tooOld) = z /\ ~tooOld
  <2>1. u.kind # "Requested" => handleCallUpdate(u, tooOld) = handleUpdate(x, u)
    BY DEF handleCallUpdate
  <2>2. ASSUME u.kind = "Requested", call.state # "None", call.id = u.id
        PROVE  handleCallUpdate(u, tooOld) = x
    BY <2>2 DEF handleCallUpdate
  <2>3. ASSUME u.kind = "Requested", ~(call.state # "None" /\ call.id = u.id), inCall
        PROVE  handleCallUpdate(u, tooOld) = y
    BY <2>3 DEF handleCallUpdate, Refusing, Refusal
  <2>4. ASSUME u.kind = "Requested", ~(call.state # "None" /\ call.id = u.id), ~inCall
        PROVE  handleCallUpdate(u, tooOld) = IF tooOld THEN x ELSE z
    BY <2>4 DEF handleCallUpdate
  <2> HIDE DEF u, x, y, z
  <2> QED
    BY <1>1, <2>1, <2>2, <2>3, <2>4
<1>8. /\ u.kind # "Requested" => known' = known
      /\ tooOld => known' = known
      /\ known' \in {known, L}
      /\ u.kind = "Requested" /\ ~tooOld => known' = L
  BY <1>2
<1>9. \A id \in known' : srv[id].stage # "None"
  BY <1>1, <1>5, <1>8 DEF Says
<1> HIDE DEF u, x, y
<1>10. u.kind # "Requested" => Mind(handleUpdate(x, u), srv, known)
  <2>1. u.kind # "Requested" => u.kind \in
            {"Waiting", "Accepted", "Call", "Discarded", "Empty"}
    BY <1>4 DEF UpdateSet
  <2> QED
    BY <1>1, <1>5, <2>1, MindHandle DEF Says
<1>11. Mind(y, srv, L) /\ Mind(y, srv, known)
  <2>1. Mind(y, srv, known)
    BY <1>1, <1>6, MindStep DEF Mind, Over
  <2>2. Told(u.id, y.discards, srv)
    BY <1>6 DEF Told
  <2> QED
    BY <2>1, <2>2 DEF Mind, Remembered
<1>12. Mind(z, srv, L)
  BY <1>1, <1>5, MindRequested
<1>13. x.call.state # "None" /\ x.call.id = u.id => Mind(x, srv, L)
  BY <1>1 DEF Mind, Remembered
<1> HIDE DEF z, L
<1>14. PICK v : Become(v) /\ Mind(v, srv, known')
  <2>1. CASE u.kind # "Requested"
    BY <1>2, <1>7, <1>8, <1>10, <2>1
  <2>2. CASE u.kind = "Requested"
    BY <1>1, <1>2, <1>7, <1>8, <1>11, <1>12, <1>13, <2>2
  <2> QED
    BY <2>1, <2>2
<1> QED
  BY <1>3, <1>9, <1>14, ClientKnows

LEMMA KnowsTimers ==
    ASSUME Inv, KnownInv, DiscardTimer \/ FinishTimer \/ ControllerEvent
    PROVE  KnownInv'
<1> DEFINE x == World
<1>1. /\ x \in WorldSet /\ x.call = call /\ Mind(x, srv, known)
      /\ \A id \in known : srv[id].stage # "None"
  BY WorldFact DEF Inv, Fine, KnownInv
<1>2. srv' = srv /\ known' = known
  BY DEF DiscardTimer, FinishTimer, ControllerEvent
<1>3. CASE DiscardTimer
  <2> DEFINE w == Untimed(x)
  <2>1. [World EXCEPT !.call.discardTimer = FALSE] = w
    BY DEF Untimed, With
  <2>2. Become(hangup(w))
    BY <1>3, <2>1 DEF DiscardTimer
  <2> HIDE DEF x
  <2>3. Alike(w, x)
    BY <1>1, UntimedFact
  <2> HIDE DEF w
  <2>4. w \in WorldSet /\ Mind(w, srv, known)
    BY <1>1, <2>3, MindAlike DEF Alike, SameCall
  <2>5. Mind(hangup(w), srv, known)
    BY <2>4, MindHangup DEF Mind
  <2> QED
    BY <1>1, <1>2, <2>2, <2>5, ClientKnows
<1>4. CASE FinishTimer
  <2> DEFINE z == Late(x)
             s == call.finishTimer
             w == setState(z, s)
  <2>1. [World EXCEPT !.call.finishTimer = "None"] = z
    BY DEF Late, With
  <2>2. Become(w) /\ s # "None"
    BY <1>4, <2>1 DEF FinishTimer
  <2> HIDE DEF x
  <2>3. /\ z \in WorldSet /\ z.call.id = x.call.id /\ z.discards = x.discards
        /\ z.call.state = x.call.state /\ z.queue = x.queue
        /\ z.call.finishTimer = "None"
    BY <1>1, LateFact DEF SameCall
  <2>4. s \in States
    BY <1>1, <2>2, StatesFact DEF WorldSet, CallSet, Maybe
  <2> HIDE DEF z
  <2>5. Told(z.call.id, z.discards, srv)
    BY <1>1, <2>2, <2>3 DEF Mind, OverOK, Over
  <2>6. Remembered(z, srv, known)
    BY <1>1, <2>3 DEF Mind, Remembered
  <2>7. Mind(w, srv, known)
    BY <2>3, <2>4, <2>5, <2>6, MindSetState
  <2> QED
    BY <1>1, <1>2, <2>2, <2>7, ClientKnows
<1>5. CASE ControllerEvent
  <2>1. PICK s \in Reported : Become(Post(x, Task("controller", s)))
    BY <1>5 DEF ControllerEvent
  <2> DEFINE t == Task("controller", s)
  <2>2. t \in TaskSet /\ t.task = "controller"
    BY <2>1, TaskFact, StatesFact
  <2> HIDE DEF x, t
  <2>3. Mind(Post(x, t), srv, known)
    BY <1>1, <2>2, MindPost
  <2> QED
    BY <1>1, <1>2, <2>1, <2>3, ClientKnows DEF t
<1> QED
  BY <1>3, <1>4, <1>5

LEMMA KnowsRunTask ==
    ASSUME Inv, KnownInv, RunTask
    PROVE  KnownInv'
<1> DEFINE x == World
           w == [World EXCEPT !.queue = Tail(@)]
           t == Head(queue)
           s == t.state
<1>1. /\ x \in WorldSet /\ Mind(x, srv, known) /\ redials \in Nat
      /\ \A id \in known : srv[id].stage # "None"
  BY DEF Inv, Fine, KnownInv
<1>2. /\ w \in WorldSet /\ w.call = x.call /\ w.queue = Tail(queue) /\ w.reqs = x.reqs
      /\ w.discards = x.discards /\ x.queue = queue
      /\ t \in TaskSet /\ queue \in Seq(TaskSet) /\ queue # <<>>
  BY FirstFact, WorldFact DEF Inv, RunTask, Fine
<1>3. Become(CASE t.task = "destroy" -> destroyCall(w)
               [] t.task = "setState" -> setState(w, s)
               [] t.task = "controller" -> handleControllerStateChange(w, s)
               [] t.task = "answer" -> actuallyAnswer(w)
               [] t.task = "create" -> createCall(w, "Outgoing"))
  BY DEF RunTask
<1>4. srv' = srv /\ known' = known
  BY DEF RunTask
<1>5. \A task : Has(x.queue, task) <=> t.task = task \/ Has(w.queue, task)
  BY <1>2, HasTail
<1> HIDE DEF w, t, x
<1>6. t.task \in {"destroy", "setState", "controller", "answer", "create"}
  BY <1>2 DEF TaskSet
<1>7. Mind(w, srv, known)
  <2>1. Over(w) => Over(x)
    BY <1>2, <1>5 DEF Over
  <2> QED
    BY <1>1, <1>2, <2>1 DEF Mind, OverOK, Remembered
<1>8. t.task \in {"destroy", "setState"} => Told(w.call.id, w.discards, srv)
  <2>1. t.task \in {"destroy", "setState"} => Over(x)
    BY <1>5 DEF Over
  <2> QED
    BY <1>1, <1>2, <2>1 DEF Mind, OverOK
<1>9. t.task = "destroy" => Mind(destroyCall(w), srv, known)
  BY <1>2, <1>7, <1>8, MindDestroy DEF Mind
<1>10. t.task = "setState" => Mind(setState(w, s), srv, known)
  <2>1. t.task = "setState" => s \in States
    BY <1>2, StatesFact DEF TaskSet
  <2> QED
    BY <1>2, <1>7, <1>8, <2>1, MindSetState DEF Mind
<1>11. t.task = "controller" => Mind(handleControllerStateChange(w, s), srv, known)
  <2>1. t.task = "controller" => s \in ControllerStates /\ s \in States
    BY <1>2, StatesFact DEF TaskSet
  <2>2. Mind(Fail(w), srv, known)
    BY <1>2, <1>7, MindFail DEF Mind
  <2>3. s \in ControllerStates /\ s # "Failed" =>
            s \notin Closing \cup {"Busy", "Requesting"}
    BY DEF ControllerStates, Closing, Final
  <2>4. t.task = "controller" /\ s # "Failed" => Mind(setState(w, s), srv, known)
    BY <1>2, <1>7, <2>1, <2>3, MindSetState DEF Mind
  <2> QED
    BY <2>2, <2>4 DEF handleControllerStateChange
<1>12. Mind(actuallyAnswer(w), srv, known) /\ Mind(createCall(w, "Outgoing"), srv, known)
  BY <1>1, <1>2, <1>7, MindAnswer, MindCreateCall
<1>13. PICK v : Become(v) /\ Mind(v, srv, known)
  BY <1>3, <1>6, <1>9, <1>10, <1>11, <1>12
<1> QED
  BY <1>1, <1>4, <1>13, ClientKnows

LEMMA KnowsUser ==
    ASSUME Inv, GoingInv, KnownInv, User
    PROVE  KnownInv'
<1> DEFINE x == World
           a == Task("answer", "None")
           c == Task("create", "None")
           y == Asked(x, TRUE)
           z == Asked(x, FALSE)
<1>1. /\ x \in WorldSet /\ x.call = call /\ Mind(x, srv, known)
      /\ \A id \in known : srv[id].stage # "None"
  BY WorldFact DEF Inv, Fine, KnownInv
<1>2. a \in TaskSet /\ c \in TaskSet /\ a.task = "answer" /\ c.task = "create"
  BY TaskFact, StatesFact
<1>3. CASE Redial
  <2> DEFINE w == Redialed(x)
             r == Req("dh", 0, redials + 1)
  <2>1. Become(Ask(w, r)) /\ srv' = srv /\ known' = known /\ call.state = "Busy"
    BY <1>3, RedialStep DEF Redial
  <2>2. r \in ReqSet
    <3>1. redials + 1 \in Nat
      BY DEF Inv
    <3> QED
      BY <3>1, ReqFact
  <2> HIDE DEF x, r
  <2>3. /\ w \in WorldSet /\ w.discards = x.discards /\ w.call.id = x.call.id
        /\ w.call.state = "Requesting"
    BY <1>1, <2>1, RedialFact
  <2> HIDE DEF w
  <2>4. Told(x.call.id, x.discards, srv)
    BY <1>1, <2>1 DEF Mind, OverOK, Over
  <2>5. Mind(w, srv, known)
    BY <1>1, <2>3, <2>4, MindStep DEF Mind
  <2>6. Mind(Ask(w, r), srv, known)
    BY <2>2, <2>3, <2>5, MindAsk
  <2> QED
    BY <1>1, <2>1, <2>6, ClientKnows
<1>4. CASE ~Redial
  <2>1. /\ srv' = srv /\ known' = known
        /\ \/ Become(x) \/ Become(Post(x, a)) \/ Become(Post(x, c))
           \/ Become(y) \/ Become(hangup(x)) \/ Become(Post(z, a))
           \/ Become(hangup(z)) \/ Become(destroyCall(hangup(x)))
    BY <1>4, UserFact
  <2> HIDE DEF x, a, c
  <2>2. \A b \in BOOLEAN : Alike(Asked(x, b), x)
    BY <1>1, AskedFact
  <2>3. Alike(y, x) /\ Alike(z, x)
    BY <2>2
  <2> HIDE DEF y, z
  <2>4. Mind(y, srv, known) /\ z \in WorldSet /\ Mind(z, srv, known)
    BY <1>1, <2>3, MindAlike DEF Alike, SameCall
  <2>5. Mind(Post(x, a), srv, known) /\ Mind(Post(x, c), srv, known)
    BY <1>1, <1>2, MindPost
  <2>6. Mind(Post(z, a), srv, known)
    BY <1>2, <2>4, MindPost
  <2>7. Mind(hangup(z), srv, known)
    BY <2>4, MindHangup DEF Mind
  <2>8. Mind(hangup(x), srv, known) /\ Told(hangup(x).call.id, hangup(x).discards, srv)
    BY <1>1, MindHangup DEF Mind
  <2>9. hangup(x) \in WorldSet
    BY <1>1, HangupInWorld
  <2>10. Mind(destroyCall(hangup(x)), srv, known)
    BY <2>8, <2>9, MindDestroy DEF Mind
  <2>11. PICK v : Become(v) /\ Mind(v, srv, known)
    BY <1>1, <2>1, <2>4, <2>5, <2>6, <2>7, <2>8, <2>10
  <2> QED
    BY <1>1, <2>1, <2>11, ClientKnows
<1> QED
  BY <1>3, <1>4

(* The server goes on, and a discard goes only when the call is discarded. *)
LEMMA MindMoves ==
    ASSUME NEW w \in WorldSet, NEW S, NEW Q, Going(w, S, Q),
           NEW K \in SUBSET Ids, Mind(w, S, K), \A id \in K : S[id].stage # "None",
           NEW T, \A id \in Ids : Stepped(S[id], T[id]),
           NEW v, v.call = w.call, v.queue = w.queue,
           \A d \in w.discards : \/ T[d.id].stage = "Discarded"
                                 \/ \E e \in v.discards : e.id = d.id
    PROVE  Mind(v, T, K) /\ \A id \in K : T[id].stage # "None"
<1>1. ASSUME NEW id \in Ids \cup {0}, Told(id, w.discards, S),
             id # 0 => S[id].stage # "None"
      PROVE  Told(id, v.discards, T)
  <2>1. id # 0 /\ S[id].stage = "Discarded" => T[id].stage = "Discarded"
    BY DEF Stepped
  <2>2. \A d \in w.discards : d.id = id => Told(id, v.discards, T)
    BY DEF Told
  <2> QED
    BY <1>1, <2>1, <2>2 DEF Told
<1>2. w.call.id \in Ids \cup {0} /\ (w.call.id # 0 => S[w.call.id].stage # "None")
  BY DEF WorldSet, CallSet, Going, Core, StateOK
<1>3. OverOK(v, T)
  BY <1>1, <1>2 DEF Mind, OverOK, Over
<1>4. Remembered(v, T, K)
  BY <1>1 DEF Mind, Remembered
<1>5. \A id \in K : T[id].stage # "None"
  BY DEF Stepped
<1> QED
  BY <1>3, <1>4, <1>5 DEF Mind

LEMMA KnowsServer ==
    ASSUME Inv, GoingInv, KnownInv, Server
    PROVE  KnownInv'
<1>1. /\ World \in WorldSet /\ Going(World, srv, Quiet) /\ known \in SUBSET Ids
      /\ Mind(World, srv, known) /\ \A id \in known : srv[id].stage # "None"
  BY DEF Inv, Fine, GoingInv, KnownInv
<1>2. /\ World'.call = call' /\ World'.queue = queue' /\ World'.discards = discards'
      /\ World.call = call /\ World.queue = queue /\ World.discards = discards
  BY DEF World
<1>3. /\ Moves /\ call' = call /\ queue' = queue /\ known' = known
      /\ \A d \in discards : \/ srv'[d.id].stage = "Discarded"
                             \/ \E e \in discards' : e.id = d.id
  <2>1. ASSUME NEW r \in reqs, ServeRequest(r)
        PROVE  /\ Moves /\ call' = call /\ queue' = queue /\ known' = known
               /\ discards' = discards
    BY <2>1, ServeRequestFact DEF ServeRequest
  <2>2. ASSUME NEW d \in discards, ServeDiscard(d)
        PROVE  /\ Moves /\ call' = call /\ queue' = queue /\ known' = known
               /\ srv'[d.id].stage = "Discarded" /\ discards \ {d} \subseteq discards'
    <3>1. Moves /\ srv'[d.id].stage = "Discarded" /\ discards \ {d} \subseteq discards'
      BY <2>2, ServeDiscardFact DEF Discarded
    <3> QED
      BY <2>2, <3>1 DEF ServeDiscard
  <2>3. ASSUME Others
        PROVE  /\ Moves /\ call' = call /\ queue' = queue /\ known' = known
               /\ discards' = discards
    BY <2>3, OthersFact DEF clientVars
  <2>4. CASE \E r \in reqs : ServeRequest(r)
    BY <2>1, <2>4
  <2>5. CASE \E d \in discards : ServeDiscard(d)
    <3>1. PICK d \in discards : ServeDiscard(d)
      BY <2>5
    <3>2. /\ Moves /\ call' = call /\ queue' = queue /\ known' = known
          /\ srv'[d.id].stage = "Discarded" /\ discards \ {d} \subseteq discards'
      BY <2>2, <3>1
    <3> QED
      BY <3>2
  <2>6. CASE Others
    BY <2>3, <2>6
  <2> QED
    BY <2>4, <2>5, <2>6 DEF Server, Others
<1>4. \A id \in Ids : Stepped(srv[id], srv'[id])
  BY <1>3 DEF Moves
<1>5. Mind(World', srv', known) /\ \A id \in known : srv'[id].stage # "None"
  BY <1>1, <1>2, <1>3, <1>4, MindMoves
<1> QED
  BY <1>3, <1>5 DEF KnownInv

LEMMA KnowsNext ==
    ASSUME Inv, GoingInv, KnownInv, ~DhFails, [Next]_vars
    PROVE  KnownInv'
<1>1. CASE UNCHANGED vars
  <2>1. World' = World
    BY <1>1 DEF World, vars
  <2> QED
    BY <1>1, <2>1 DEF KnownInv, vars
<1>2. CASE Next
  BY <1>2, KnowsAnswers, KnowsDeliver, KnowsTimers, KnowsRunTask, KnowsUser, KnowsServer
  DEF Next
<1> QED
  BY <1>1, <1>2

(* With that user, and unless messages.getDhConfig fails, which destroys   *)
(* the call whatever its state: a call the client was told of and the      *)
(* server holds alive is the current one, or the server is being told to   *)
(* discard it (finish, hangup, destroyCall, handleCallUpdate, redial).     *)
THEOREM AlwaysNoForgottenCall ==
    PatientRedial /\ ~DhFails => (Spec => []NoForgottenCall)
<1> SUFFICES ASSUME PatientRedial, ~DhFails PROVE Spec => []NoForgottenCall
  OBVIOUS
<1>1. Inv /\ KnownInv => NoForgottenCall
  <2> SUFFICES ASSUME Inv, KnownInv PROVE NoForgottenCall
    OBVIOUS
  <2> QED
    BY WorldFact, IdsFact DEF KnownInv, Mind, Remembered, Told, NoForgottenCall, Live, Inv
<1>2. Init => KnownInv
  <2> SUFFICES ASSUME Init PROVE KnownInv
    OBVIOUS
  <2>1. World.call.id = 0
    BY NoCallFact DEF Init, World
  <2> QED
    BY <2>1 DEF Init, KnownInv, Mind, OverOK, Remembered, Told
<1>3. Inv /\ GoingInv /\ [Next]_vars => GoingInv'
  BY GoesNext
<1>4. Inv /\ GoingInv /\ KnownInv /\ [Next]_vars => KnownInv'
  BY KnowsNext
<1> QED
  BY <1>1, <1>2, <1>3, <1>4, GoesInit, AlwaysInv, PTL DEF Spec
=============================================================================
