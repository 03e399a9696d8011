---------------------------- MODULE MtpInstance ----------------------------
(***************************************************************************)
(* MTP::Instance::Private: what becomes of a request between the moment it *)
(* is sent and the one call of its handler, while answers say that it has  *)
(* to go to another data center, to wait, to be authorized first, or to    *)
(* follow another request.                                                 *)
(*                                                                         *)
(* The instance runs in the main thread and an action is one callback of   *)
(* it. Its sessions are seen through their promise (RequestPromise): a     *)
(* session holds what was given to it until the one answer to it, and a    *)
(* killed one never answers. A request is in _requestMap just when it is   *)
(* in _requestsByDc, so one function stands for both. Time is counted in   *)
(* the seconds of the delays.                                              *)
(***************************************************************************)
EXTENDS Integers, Sequences, FiniteSets, SequencesExt

CONSTANTS
    Requests,   \* the requests of the user, numbers
    Dcs,        \* the data centers, numbers from 1
    Shifts,     \* the shifts of their sessions, 0 for the general one
    AfterOf,    \* the request that a request is sent after, 0 for none
    Kinds,      \* the answers other than a result that the server gives
    MaxErrors,  \* how many of these it gives
    DelayLimit  \* a delay above this is not doubled again (60 in the code)

ASSUME InstanceAssumption ==
    /\ Requests \subseteq Nat \ {0} /\ Dcs \subseteq Nat \ {0} /\ Dcs # {}
    /\ 0 \in Shifts /\ Shifts \subseteq Nat
    /\ AfterOf \in [Requests -> Requests \cup {0}]
    /\ \A r \in Requests : AfterOf[r] < r
    /\ MaxErrors \in Nat /\ DelayLimit \in Nat

VARIABLES
    inst,     \* the fields of the instance and what its sessions hold
    answered, \* how often the handler of a request was called with an end
    gone,     \* the requests that were cancelled
    errors    \* the errors so far

instanceVars == <<inst, answered, gone, errors>>

(* exportAuthorization and importAuthorization are requests, too.          *)
User == {"user"} \X Requests
Export(d) == <<"export", d>>
Import(d) == <<"import", d>>
Ids == User \cup ({"export", "import"} \X Dcs)

(* The sessions, with the ones that getSession() makes of a negative id.   *)
Bogus(d) == <<-d, 0>>
DcSessions == Dcs \X Shifts
AllSessions == DcSessions \cup {Bogus(d) : d \in Dcs}

Bare(session) == session[1]
qAbs(place) == <<place.dc, place.shift>>

Without(f, S) == [x \in DOMAIN f \ S |-> f[x]]
With(f, x, v) == [y \in DOMAIN f \cup {x} |-> IF y = x THEN v ELSE f[y]]

InstanceInit ==
    /\ \E d \in Dcs :
         inst = [byDc |-> <<>>, parser |-> {}, after |-> <<>>,
                 dependent |-> <<>>, delays |-> <<>>, delayed |-> <<>>,
                 waiters |-> [e \in Dcs |-> <<>>], exports |-> <<>>,
                 badGuest |-> {}, main |-> d,
                 held |-> [s \in AllSessions |-> {}], lost |-> {}]
    /\ answered = [r \in Requests |-> 0]
    /\ gone = {} /\ errors = 0

-----------------------------------------------------------------------------
sendPrepared(i, session, id) == [i EXCEPT !.held[session] = @ \cup {id}]

resend(i, id) == sendPrepared(i, qAbs(i.byDc[id]), id)

(* sendRequest() to the main data center or to a session of another one;   *)
(* after is given if that request is still known.                          *)
sendRequest(i, id, place, after) ==
    sendPrepared(
        [i EXCEPT !.byDc = With(@, id, place),
                  !.parser = @ \cup {id},
                  !.lost = @ \ {id},
                  !.after = IF after \in DOMAIN i.byDc
                            THEN With(@, id, after) ELSE Without(@, {id})],
        qAbs(place), id)

ToMain(i) == [main |-> TRUE, dc |-> i.main, shift |-> 0]
To(session) == [main |-> FALSE, dc |-> Bare(session), shift |-> session[2]]

(* sendPrepared() to the sessions they are registered with.                *)
resendAll(i, ids) ==
    [i EXCEPT !.held = [s \in AllSessions |->
                           i.held[s] \cup {x \in ids : qAbs(i.byDc[x]) = s}]]

(* unregisterRequest(): toRemove is the request with whatever waits for it *)
(* or for one that waits for it, and so on: the least such set.            *)
dependents(i, id) ==
    LET all == {id} \cup DOMAIN i.dependent
        whole == {S \in SUBSET all :
                     /\ id \in S
                     /\ \A x \in DOMAIN i.dependent :
                            i.dependent[x] \in S => x \in S}
    IN  {x \in all : \A S \in whole : x \in S}

(* Mutant of unregisterRequest: what depends on the request is forgotten,  *)
(* but not sent again.                                                     *)
UnregisterForgets(i, id) ==
    [i EXCEPT !.byDc = Without(@, {id}), !.delays = Without(@, {id}),
              !.dependent = Without(@, dependents(i, id))]

unregisterRequest(i, id) ==
    LET toRemove == dependents(i, id)
        toResend == (toRemove \ {id}) \cap DOMAIN i.byDc
    IN  [resendAll(i, toResend) EXCEPT
            !.byDc = Without(@, {id}), !.delays = Without(@, {id}),
            !.dependent = Without(@, toRemove)]

(* setMainDcId(): the sessions of both data centers are destroyed.         *)
setMainDcId(i, d) ==
    LET killed == IF i.main = d THEN {} ELSE {<<i.main, 0>>, <<d, 0>>} IN
    [i EXCEPT !.main = d,
              !.held = [s \in AllSessions |->
                           IF s \in killed THEN {} ELSE i.held[s]],
              !.lost = @ \cup UNION {i.held[s] : s \in killed}]

(* changeRequestByDc()                                                     *)
changed(place, d) ==
    IF place.main THEN [main |-> TRUE, dc |-> d, shift |-> 0]
    ELSE [place EXCEPT !.dc = d]

(* importDone(): a request to the main data center is sent to the session  *)
(* of the negative id that it is registered with.                          *)
resendWaiters(i, d, ids) ==
    LET session(x) == IF i.byDc[x].main THEN Bogus(d)
                      ELSE qAbs(changed(i.byDc[x], d))
    IN  [i EXCEPT !.byDc = [x \in DOMAIN i.byDc |->
                               IF x \in ids THEN changed(i.byDc[x], d)
                               ELSE i.byDc[x]],
                  !.held = [s \in AllSessions |->
                               i.held[s] \cup {x \in ids : session(x) = s}]]

(* Mutant of importDone: the waiters are cleared before they are resent.   *)
ImportDropsWaiters(i, id) == [i EXCEPT !.waiters[i.byDc[id].dc] = <<>>]

(* The waiters are sent in order. The first one of the main data center    *)
(* changes it, which kills two sessions with what they were given before.  *)
importDone(i, id) ==
    LET d == i.byDc[id].dc
        q == i.waiters[d]
        moves(n) == q[n] \in DOMAIN i.byDc /\ i.byDc[q[n]].main
        before == {n \in DOMAIN q : \A m \in 1 .. n : ~moves(m)}
        sent(N) == {q[n] : n \in N} \cap DOMAIN i.byDc
        first == resendWaiters(i, d, sent(before))
        moved == IF before = DOMAIN q THEN first ELSE setMainDcId(first, d)
    IN  [resendWaiters(moved, d, sent(DOMAIN q \ before))
            EXCEPT !.waiters[d] = <<>>]

exportDone(i, id) ==
    IF id \notin DOMAIN i.exports THEN i
    ELSE [sendRequest(i, Import(Bare(i.exports[id])), To(i.exports[id]), <<>>)
            EXCEPT !.exports = Without(@, {id})]

exportFail(i, id) ==
    IF id \notin DOMAIN i.exports THEN i
    ELSE [i EXCEPT !.waiters[Bare(i.exports[id])] = <<>>]

(* The request is put before the first one that is to be sent later, if it *)
(* does not come before.                                                   *)
insertDelayed(q, id, secs) ==
    LET before == SelectInSeq(q, LAMBDA x : x.left > secs)
        at == IF before = 0 THEN Len(q) + 1 ELSE before
    IN  IF \E n \in 1 .. at - 1 : q[n].id = id THEN q
        ELSE InsertAt(q, at, [id |-> id, left |-> secs])

-----------------------------------------------------------------------------
(* processCallback(): the session that holds the request gives an answer   *)
(* and the handler is taken out. Every request has one here.               *)

Taken(session, id) == [inst EXCEPT !.held[session] = @ \ {id},
                                   !.parser = @ \ {id}]

Answers(session, id) ==
    /\ session \in DcSessions /\ id \in inst.held[session]
    /\ id \in inst.parser /\ id \in DOMAIN inst.byDc

Called(id) ==
    answered' = IF id[1] = "user" THEN [answered EXCEPT ![id[2]] = @ + 1]
                ELSE answered

Error(kind) ==
    /\ kind \in Kinds /\ errors < MaxErrors
    /\ errors' = errors + 1

(* rpcErrorOccured() has returned false: the handler stays.                *)
Retries(i, id) ==
    /\ inst' = [i EXCEPT !.parser = @ \cup {id}]
    /\ UNCHANGED <<answered, gone>>

(* It has returned true.                                                   *)
Fails(i, id) ==
    /\ inst' = unregisterRequest(
                 IF id[1] = "export" THEN exportFail(i, id) ELSE i, id)
    /\ Called(id)
    /\ UNCHANGED gone

Done(session, id) ==
    /\ Answers(session, id)
    /\ LET i == Taken(session, id) IN
       inst' = unregisterRequest(
                 CASE id[1] = "user" -> i
                   [] id[1] = "export" -> exportDone(i, id)
                   [] id[1] = "import" -> importDone(i, id), id)
    /\ Called(id)
    /\ UNCHANGED <<gone, errors>>

Failed(session, id) ==
    /\ Answers(session, id)
    /\ IF id[1] = "user" THEN Error("fail") ELSE Error("authFail")
    /\ Fails(Taken(session, id), id)

(* FILE_MIGRATE and the others; the server imports an authorization where  *)
(* it is asked to.                                                         *)
Migrate(session, id, d) ==
    LET i == Taken(session, id)
        place == inst.byDc[id]
        there == changed(place, d)
        j == IF place.main THEN setMainDcId(i, d) ELSE i
    IN  /\ Answers(session, id) /\ id[1] # "import" /\ d # place.dc
        /\ Error("migrate")
        /\ Retries(resend([j EXCEPT !.byDc[id] = there], id), id)

(* MSG_WAIT_TIMEOUT, MSG_WAIT_FAILED                                       *)
MsgWait(session, id) ==
    LET i == Taken(session, id) IN
    /\ Answers(session, id) /\ id \in DOMAIN inst.after
    /\ Error("msgWait")
    /\ LET after == inst.after[id]
           same == /\ after \in DOMAIN inst.byDc
                   /\ inst.byDc[after] = inst.byDc[id]
       IN  IF ~same
           THEN Retries(resend([i EXCEPT !.after = Without(@, {id})], id), id)
           ELSE Retries([i EXCEPT !.dependent = IF id \in DOMAIN @ THEN @
                                                ELSE With(@, id, after)], id)

(* An error of the server, with a delay that grows.                        *)
ServerError(session, id) ==
    LET i == Taken(session, id)
        was == inst.delays[id]
        secs == IF id \notin DOMAIN inst.delays THEN 1
                ELSE IF was > DelayLimit THEN was ELSE 2 * was
    IN  /\ Answers(session, id)
        /\ Error("server")
        /\ Retries([i EXCEPT !.delays = With(@, id, secs),
                             !.delayed = insertDelayed(@, id, secs)], id)

(* FLOOD_WAIT_n and a short SLOWMODE_WAIT_n                                *)
FloodWait(session, id, secs) ==
    /\ Answers(session, id)
    /\ Error("flood")
    /\ Retries([Taken(session, id) EXCEPT
                   !.delayed = insertDelayed(@, id, secs)], id)

(* The request waits until the authorization is imported, and the first    *)
(* one exports it.                                                         *)
waitForAuth(i, id) ==
    LET d == i.byDc[id].dc
        j == IF i.waiters[d] # <<>> THEN i
             ELSE [sendRequest(i, Export(d), ToMain(i), <<>>) EXCEPT
                      !.exports = With(@, Export(d), qAbs(i.byDc[id]))]
    IN  [j EXCEPT !.waiters[d] = Append(@, id)]

(* The error 401; the server imports an authorization without having one.  *)
Unauthorized(session, id) ==
    LET i == Taken(session, id) IN
    /\ Answers(session, id) /\ id[1] # "import"
    /\ IF id[1] = "user" THEN Error("unauthorized") ELSE Error("authFail")
    /\ IF i.byDc[id].dc = i.main THEN Fails(i, id)
       ELSE Retries(waitForAuth(i, id), id)

(* FILE_ID_INVALID is taken for a missing authorization once.              *)
BadGuestDc(session, id) ==
    LET i == Taken(session, id) IN
    /\ Answers(session, id) /\ id[1] = "user"
    /\ Error("badGuest")
    /\ IF id \in i.badGuest THEN Fails([i EXCEPT !.badGuest = @ \ {id}], id)
       ELSE IF i.byDc[id].dc = i.main THEN Fails(i, id)
       ELSE Retries([waitForAuth(i, id) EXCEPT !.badGuest = @ \cup {id}], id)

(* CONNECTION_NOT_INITED: it is sent again with the layer.                 *)
NotInited(session, id) ==
    /\ Answers(session, id)
    /\ Error("notInited")
    /\ Retries(resend(Taken(session, id), id), id)

-----------------------------------------------------------------------------
(* A second passes and checkDelayedRequests() is called when it is time.   *)
Tick ==
    LET passed == [n \in DOMAIN inst.delayed |->
                      [inst.delayed[n] EXCEPT !.left = @ - 1]]
        due(n) == \A m \in 1 .. n : passed[m].left <= 0
        sent(n) == {passed[m].id : m \in 1 .. n} \cap DOMAIN inst.byDc
    IN  /\ inst.delayed # <<>>
        /\ \E n \in 0 .. Len(passed) :
             /\ due(n) /\ (n < Len(passed) => ~due(n + 1))
             /\ inst' = [resendAll(inst, sent(n)) EXCEPT
                            !.delayed = SubSeq(passed, n + 1, Len(passed))]
        /\ UNCHANGED <<answered, gone, errors>>

Send(r) ==
    /\ <<"user", r>> \notin DOMAIN inst.byDc /\ answered[r] = 0 /\ r \notin gone
    /\ \E place \in {ToMain(inst)} \cup {To(s) : s \in DcSessions} :
         inst' = sendRequest(inst, <<"user", r>>, place, <<"user", AfterOf[r]>>)
    /\ UNCHANGED <<answered, gone, errors>>

Cancel(r) ==
    LET id == <<"user", r>>
        i == unregisterRequest(inst, id)
        session == qAbs(inst.byDc[id])
    IN  /\ id \in DOMAIN inst.byDc
        /\ inst' = [i EXCEPT !.held[session] = @ \ {id}, !.parser = @ \ {id}]
        /\ gone' = gone \cup {r}
        /\ UNCHANGED <<answered, errors>>

Answer(session, id) ==
    \/ Done(session, id)
    \/ Failed(session, id)
    \/ \E d \in Dcs : Migrate(session, id, d)
    \/ MsgWait(session, id)
    \/ ServerError(session, id)
    \/ \E secs \in 1 .. 2 : FloodWait(session, id, secs)
    \/ Unauthorized(session, id)
    \/ BadGuestDc(session, id)
    \/ NotInited(session, id)

InstanceNext ==
    \/ Tick
    \/ \E r \in Requests : Send(r) \/ Cancel(r)
    \/ \E session \in DcSessions, id \in Ids : Answer(session, id)

InstanceSpec == InstanceInit /\ [][InstanceNext]_instanceVars

(* The sessions keep their promise and time passes.                        *)
FairSpec ==
    /\ InstanceSpec
    /\ WF_instanceVars(Tick)
    /\ WF_instanceVars(\E session \in DcSessions, id \in Ids : Done(session, id))

-----------------------------------------------------------------------------
Held(id) == {s \in AllSessions : id \in inst.held[s]}
Delays(id) == {n \in DOMAIN inst.delayed : inst.delayed[n].id = id}
Waits(id) ==
    UNION {{<<d, n>> : n \in {m \in DOMAIN inst.waiters[d] :
                                 inst.waiters[d][m] = id}} : d \in Dcs}
Importing(d) == {Export(d), Import(d)} \cap DOMAIN inst.byDc # {}

(* A request whose data is kept is at one place: a session has it, it is   *)
(* delayed, or it waits for another request that is not forgotten or for   *)
(* an authorization that is being imported. So it is not sent twice, and   *)
(* something will send it: "return true if need to clean request data".    *)
(* Requests of a killed session are lost with it.                          *)
OnePlace ==
    \A id \in DOMAIN inst.byDc :
        LET places == Cardinality(Held(id)) + Cardinality(Delays(id))
                        + Cardinality(Waits(id))
                        + Cardinality({id} \cap DOMAIN inst.dependent)
        IN  /\ places <= 1
            /\ id \notin inst.lost =>
                 /\ places = 1
                 /\ id \in DOMAIN inst.dependent =>
                        inst.dependent[id] \in DOMAIN inst.byDc
                 /\ \A w \in Waits(id) : Importing(w[1])

(* A request that no session took with it gets its answer, however often   *)
(* it has to wait or to move before, unless it is cancelled.               *)
Stray(id) == id \in inst.lost \/ Held(id) \ DcSessions # {}

EventuallyAnswered ==
    \A r \in Requests :
        <<"user", r>> \in DOMAIN inst.byDc ~>
            answered[r] = 1 \/ r \in gone \/ \E id \in Ids : Stray(id)
=============================================================================
