----------------------------- MODULE MtpSession -----------------------------
(***************************************************************************)
(* One MTProto session: Session and the registry of Instance in the main   *)
(* thread, SessionPrivate in the thread of the session, and the server.    *)
(*                                                                         *)
(* The two threads share q (SessionData, see SentRequests) and received;   *)
(* they call each other by posting: wantSend stands for a sendAnything or  *)
(* needToResumeAndSend of the main thread, or for the tryToSend that it    *)
(* posts in turn. A handler of the session's thread is one step;           *)
(* Instance::cancel of the main thread takes the lock of each map in turn  *)
(* and is three. Updates go to Api::Updates (see Updates) and are left out *)
(* of received.                                                            *)
(*                                                                         *)
(* The server is external. What it does is what the handlers can be told:  *)
(* it may take a packet or refuse it for its salt, its msg_id, its seq_no  *)
(* or fatally, may forget the session, may answer in any order and repeat  *)
(* an answer. A connection that breaks loses the packets and the notices   *)
(* that were under way. Every fault is drawn from a budget of MaxFaults.   *)
(***************************************************************************)
EXTENDS SentRequests, Sequences

CONSTANTS
    KeyKinds,      \* the key found first: "bound" by another session, or
                   \* "unbound", created by this one
    WithCallback,  \* the requests that are sent with a done or fail handler
    Skews,         \* the errors the local clock may start with
    FaultKinds,    \* the faults of the instance
    MaxFaults,     \* how many of them happen
    MaxId          \* msg_ids of each side of a correction of the clock

ASSUME CallbackAssumption == WithCallback \subseteq Requests
ASSUME SkewAssumption == Skews \subseteq {"none", "behind", "ahead"}
ASSUME MaxIdAssumption == MaxId \in Nat

VARIABLES
    q,          \* the maps of the requests
    received,   \* _receivedMessages: answers [req, ok, of], of being the
                \* request that the server answered (history)
    callbacks,  \* _parserMap, the requests whose handler waits
    registered, \* _requestMap and _requestsByDc
    delayed,    \* _delayedRequests, waiting to be sent again after an error
    cancelling, \* where Instance::cancel stands, NoCancel when it is not run
    wantSend,   \* tryToSend is on its way through the two threads
    p,          \* SessionPrivate
    clock,      \* [skew, next]: the local clock and the next msg_id
    wire,       \* the packets under way to the server
    down,       \* the notices under way to the client
    srv,        \* the session at the server
    made,       \* the requests that were made (history)
    handled,    \* how often each request's handler was called (history)
    unsettled,  \* the requests, one after the other, that were sent anew
                \* after an error or refused for good (history)
    faults      \* the faults so far

main == <<received, callbacks, registered, delayed, cancelling, made,
          handled, unsettled>>
net == <<wire, down, srv>>
vars == <<q, main, wantSend, p, clock, net, faults>>

Fault(kind) ==
    /\ kind \in FaultKinds /\ faults < MaxFaults
    /\ faults' = faults + 1

NoCancel == [req |-> 0, id |-> 0, at |-> "idle"]
MainIdle == cancelling = NoCancel

-----------------------------------------------------------------------------
(* SessionPrivate. conn says that a connection with a key handles what is  *)
(* received, reconnect what will call connectToServer next, fresh which    *)
(* requests were sent less than kCheckSentRequestTimeout ago.              *)

NewPrivate(sess) ==
    [alive |-> TRUE, state |-> "Disconnected", conn |-> FALSE,
     reconnect |-> "queued", key |-> "none", salt |-> 0, sess |-> sess,
     started |-> FALSE, needReset |-> FALSE, acks |-> FALSE, ask |-> {},
     refetch |-> {}, got |-> {}, pingToSend |-> FALSE, pingMsg |-> 0,
     bind |-> 0, checkTimer |-> FALSE, fresh |-> {}]

changeSessionId(s) ==
    [s EXCEPT !.sess = @ + 1, !.started = FALSE, !.acks = FALSE, !.ask = {},
              !.refetch = {}, !.got = {}]

doDisconnect(s) == [s EXCEPT !.conn = FALSE, !.state = "Disconnected"]

restart(s) ==
    LET d == [doDisconnect(s) EXCEPT !.reconnect = "retry"] IN
    IF s.needReset
    THEN [changeSessionId(d) EXCEPT !.needReset = FALSE]
    ELSE d

(* destroyTemporaryKey() lets another key be looked for or created.        *)
destroyTemporaryKey(s) == restart(changeSessionId([s EXCEPT !.key = "none"]))

clearSpecial(s, id) ==
    [s EXCEPT !.pingMsg = IF id = @ THEN 0 ELSE @,
              !.bind = IF id = @ /\ id # s.pingMsg THEN 0 ELSE @]

special(s) == {s.pingMsg, s.bind}

(* The private maps of SessionPrivate go away with it, SessionData stays.  *)
dropPrivate(x) ==
    [x EXCEPT !.resending = NoIds, !.acked = NoIds, !.containers = NoIds,
              !.states = NoIds]

Init ==
    /\ q = Empty
    /\ received = <<>> /\ callbacks = {} /\ registered = {} /\ delayed = {}
    /\ cancelling = NoCancel
    /\ wantSend = FALSE
    /\ p = NewPrivate(1)
    /\ clock \in {[skew |-> s, next |-> IF s = "ahead" THEN MaxId + 1 ELSE 1]
                    : s \in Skews}
    /\ wire = {} /\ down = {}
    /\ srv = [salt |-> 1, sess |-> 0, acc |-> NoIds, answers |-> NoIds,
              created |-> 0, asked |-> NoIds, seen |-> {}, next |-> 1]
    /\ made = {} /\ handled = [r \in Requests |-> 0] /\ unsettled = <<>>
    /\ faults = 0

-----------------------------------------------------------------------------
(* The main thread.                                                        *)

(* Instance::sendRequest; a request is made once.                          *)
SendRequest(r) ==
    /\ MainIdle
    /\ r \notin made
    /\ made' = made \cup {r}
    /\ q' = sendPrepared(q, r)
    /\ callbacks' = callbacks \cup ({r} \cap WithCallback)
    /\ registered' = registered \cup {r}
    /\ wantSend' = TRUE
    /\ UNCHANGED <<received, delayed, cancelling, p, clock, net,
                   handled, unsettled, faults>>

(* Instance::cancel: the msg_id is read, then each map is locked in turn.  *)
CancelRead(r) ==
    /\ MainIdle
    /\ r \in registered
    /\ Fault("cancel")
    /\ cancelling' = [req |-> r, id |-> q.msgId[r], at |-> "toSend"]
    /\ registered' = registered \ {r}
    /\ UNCHANGED <<q, received, callbacks, delayed, wantSend, p, clock,
                   net, made, handled, unsettled>>

CancelToSend ==
    /\ cancelling.at = "toSend"
    /\ q' = cancelToSend(q, cancelling.req)
    /\ cancelling' = [cancelling EXCEPT !.at = "haveSent"]
    /\ UNCHANGED <<received, callbacks, registered, delayed, wantSend,
                   p, clock, net, made, handled, unsettled, faults>>

CancelHaveSent ==
    /\ cancelling.at = "haveSent"
    /\ q' = cancelHaveSent(q, cancelling.id)
    /\ callbacks' = callbacks \ {cancelling.req}
    /\ cancelling' = NoCancel
    /\ UNCHANGED <<received, registered, delayed, wantSend, p, clock,
                   net, made, handled, unsettled, faults>>

(* Session::sendAnything, when it has waited enough, and                   *)
(* needToResumeAndSend, that starts a SessionPrivate when there is none.   *)
ResumeAndSend ==
    /\ MainIdle
    /\ wantSend /\ ~p.alive
    /\ p' = NewPrivate(p.sess + 1)
    /\ UNCHANGED <<q, main, wantSend, clock, net, faults>>

(* Mutant of TryToReceive: a handler is called and kept, and after an      *)
(* error the request is sent again too.                                    *)
TryToReceiveKeeps ==
    /\ MainIdle
    /\ received # <<>>
    /\ received' = Tail(received)
    /\ LET m == Head(received) IN
       IF m.req \in callbacks
       THEN /\ handled' = [handled EXCEPT ![m.req] = @ + 1]
            /\ delayed' = IF m.ok THEN delayed ELSE delayed \cup {m.req}
       ELSE UNCHANGED <<handled, delayed>>
    /\ UNCHANGED <<q, callbacks, registered, cancelling, wantSend, p, clock,
                   net, made, unsettled, faults>>

(* Session::tryToReceive and Instance::processCallback, one answer of the  *)
(* queue at a time: a handler may send and cancel in between. An answer    *)
(* that is an error may be handled by sending the request again later.     *)
TryToReceive ==
    /\ MainIdle
    /\ received # <<>>
    /\ LET m == Head(received) IN
       /\ received' = Tail(received)
       /\ IF m.req \in callbacks
          THEN \/ /\ callbacks' = callbacks \ {m.req}
                  /\ registered' = registered \ {m.req}
                  /\ handled' = [handled EXCEPT ![m.req] = @ + 1]
                  /\ UNCHANGED delayed
               \/ /\ ~m.ok
                  /\ delayed' = delayed \cup {m.req}
                  /\ UNCHANGED <<callbacks, registered, handled>>
          ELSE /\ registered' = registered \ {m.req}
               /\ UNCHANGED <<callbacks, delayed, handled>>
    /\ UNCHANGED <<q, cancelling, wantSend, p, clock, net, made, unsettled,
                   faults>>

(* Instance::checkDelayedRequests for the front of the queue.              *)
CheckDelayedRequest(r) ==
    /\ MainIdle
    /\ r \in delayed
    /\ delayed' = delayed \ {r}
    /\ IF r \in registered
       THEN /\ q' = sendPrepared(q, r)
            /\ wantSend' = TRUE
            /\ unsettled' = Append(unsettled, r)
       ELSE UNCHANGED <<q, wantSend, unsettled>>
    /\ UNCHANGED <<received, callbacks, registered, cancelling, p,
                   clock, net, made, handled, faults>>

(* Session::stop deletes SessionPrivate with all that was posted to it, a   *)
(* tryToSend too if it was.                                                *)
Stop ==
    /\ MainIdle
    /\ p.alive
    /\ Fault("stop")
    /\ p' = [doDisconnect(p) EXCEPT !.alive = FALSE, !.reconnect = "no"]
    /\ q' = dropPrivate(q)
    /\ wantSend' \in {wantSend, FALSE}
    /\ wire' = {} /\ down' = {}
    /\ UNCHANGED <<main, clock, srv>>
-----------------------------------------------------------------------------
(* The connection. A connection that is gone takes what is under way along. *)

Lost == wire' = {} /\ down' = {} /\ UNCHANGED srv

ConnectToServer ==
    /\ p.alive /\ p.reconnect # "no"
    /\ p' = [p EXCEPT !.reconnect = "no", !.conn = FALSE, !.state = "Connecting",
                      !.bind = 0, !.pingMsg = 0,
                      !.pingToSend = FALSE]
    /\ Lost
    /\ UNCHANGED <<q, main, wantSend, clock, faults>>

WaitConnectedFailed ==
    /\ p.alive /\ p.state = "Connecting" /\ ~p.conn
    /\ Fault("connect")
    /\ p' = [doDisconnect(p) EXCEPT !.reconnect = "queued"]
    /\ UNCHANGED <<q, main, wantSend, clock, net>>

(* Mutant of synced: the msg_ids start again with every correction.        *)
syncedRestart(c) == [skew |-> "none", next |-> 1]

(* base::unixtime::update, when the server has told the time (external).   *)
synced(c) == [skew |-> "none", next |-> IF c.skew = "ahead" THEN 1 ELSE c.next]

(* onConnected, checkAuthKey and authKeyChecked: with the key there is, or  *)
(* with the one that another session or this one has created. Creating one *)
(* tells the time.                                                         *)
OnConnected ==
    /\ p.alive /\ p.state = "Connecting" /\ ~p.conn
    /\ \E key \in IF p.key = "none" THEN KeyKinds ELSE {p.key} :
         LET s == IF p.key # "none" THEN p
                  ELSE changeSessionId([p EXCEPT !.key = key, !.salt =
                          IF key = "unbound" THEN srv.salt ELSE @])
             up == s.salt # 0
         IN  /\ p' = [s EXCEPT !.conn = TRUE, !.pingToSend = TRUE, !.state =
                          IF up THEN "Connected" ELSE @]
             /\ q' = IF up THEN resendAll(q) ELSE q
             /\ clock' = IF p.key = "none" /\ key = "unbound" THEN synced(clock)
                         ELSE clock
    /\ wantSend' = TRUE
    /\ UNCHANGED <<main, net, faults>>

WaitReceivedFailed ==
    /\ p.alive /\ p.conn
    /\ Fault("timeout")
    /\ p' = [doDisconnect(p) EXCEPT !.reconnect = "queued"]
    /\ Lost
    /\ UNCHANGED <<q, main, wantSend, clock>>

(* onDisconnected, and handleError of any code but -404.                   *)
OnError ==
    /\ p.alive /\ p.conn
    /\ Fault("error")
    /\ p' = restart(p)
    /\ Lost
    /\ UNCHANGED <<q, main, wantSend, clock>>

(* handleError(-404): the server does not know the temporary key.          *)
OnKeyError ==
    /\ p.alive /\ p.conn
    /\ Fault("key")
    /\ p' = destroyTemporaryKey(p)
    /\ Lost
    /\ UNCHANGED <<q, main, wantSend, clock>>

-----------------------------------------------------------------------------
(* tryToSend(). Until the connection is Connected only the first ping is   *)
(* sent, until the key is bound only service messages are. One message is  *)
(* sent alone unless it was sent before; several share a container. The    *)
(* ids are taken in the order bind, ping, requests, msgs_state_req,        *)
(* msg_resend_req, container; those of msgs_ack and http_wait, to which    *)
(* nothing refers, are left out.                                           *)

One(b) == IF b THEN 1 ELSE 0
Only(b, id) == IF b THEN id ELSE 0

LastId(c) == IF c.skew = "ahead" THEN 2 * MaxId ELSE MaxId

TryToSend ==
    /\ p.alive /\ wantSend
    /\ wantSend' = FALSE
    /\ LET first == p.state # "Connected"
           all == ~first /\ p.key = "bound"
           force == all /\ ~p.started
           ping == p.pingToSend
           bind == ~first /\ p.key = "unbound" /\ p.bind = 0
           ask == ~first /\ p.ask # {}
           refetch == ~first /\ p.refetch # {}
           acks == ~first /\ p.acks
           now == IF all THEN q.toSend ELSE {}
           count == One(ping) + One(bind) + One(ask) + One(refetch) + One(acks)
                        + Cardinality(now)
           box == count > 1 \/ now \cap q.boxed # {}
           bindId == clock.next
           pingId == bindId + One(bind)
           from == pingId + One(ping)
           x == IF all THEN sendAll(q, from, force) ELSE q
           askId == from + (IF all THEN Cardinality(renamed(q, from, force)) ELSE 0)
           fetchId == askId + One(ask)
           boxId == fetchId + One(refetch)
           ids == {x.msgId[r] : r \in now}
           states == (IF ask THEN askId :> p.ask ELSE NoIds)
                        @@ (IF refetch THEN fetchId :> {} ELSE NoIds)
           outer == IF box THEN boxId
                    ELSE CHOOSE i \in ids \cup {Only(ping, pingId), Only(bind, bindId),
                                  Only(ask, askId), Only(refetch, fetchId), 0} :
                            i # 0 \/ (count = One(acks))
       IN  IF ~p.conn \/ (first /\ ~ping) \/ count = 0
           THEN /\ p' = [p EXCEPT !.started = @ \/ (p.conn /\ force)]
                /\ UNCHANGED <<q, clock, wire>>
           ELSE /\ boxId <= LastId(clock)
                /\ clock' = [clock EXCEPT !.next = boxId + One(box)]
                /\ q' = [x EXCEPT !.states = @ @@ states,
                                  !.containers = IF box THEN @ @@ (boxId :> ids)
                                                 ELSE @]
                /\ p' = [p EXCEPT
                            !.started = @ \/ force,
                            !.pingToSend = FALSE,
                            !.pingMsg = IF ping THEN pingId ELSE @,
                            !.bind = IF bind THEN bindId ELSE @,
                            !.ask = IF first THEN @ ELSE {},
                            !.refetch = IF first THEN @ ELSE {},
                            !.acks = first /\ @,
                            !.fresh = @ \cup now,
                            !.checkTimer = @ \/ (box /\ now # {})]
                /\ wire' = IF outer = 0 THEN wire
                           ELSE wire \cup
                             {[outer |-> outer, sess |-> p.sess, salt |-> p.salt,
                               skew |-> clock.skew,
                               reqs |-> [i \in ids |-> CHOOSE r \in now : x.msgId[r] = i],
                               ping |-> Only(ping, pingId), bind |-> Only(bind, bindId),
                               asked |-> states]}
    /\ UNCHANGED <<main, down, srv, faults>>

(* checkSentRequests(): the state of what was sent long ago is asked for,  *)
(* unless the key has not been bound for as long.                          *)
CheckSentRequests ==
    /\ p.alive /\ p.checkTimer
    /\ Fault("slow")
    /\ LET due == {i \in DOMAIN q.haveSent : q.haveSent[i] \notin p.fresh}
           rest == DOMAIN q.haveSent \ due
       IN  \/ /\ p.bind # 0
              /\ p' = restart(p)
              /\ Lost
              /\ UNCHANGED wantSend
           \/ /\ p' = [p EXCEPT !.ask = @ \cup due,
                                 !.fresh = {q.haveSent[i] : i \in due},
                                 !.checkTimer = rest # {}]
              /\ wantSend' = (wantSend \/ ~(due \subseteq p.ask))
              /\ UNCHANGED net
    /\ UNCHANGED <<q, main, clock>>

ClearOldContainers ==
    /\ p.alive
    /\ \E old \in SUBSET DOMAIN q.containers :
         /\ old # {}
         /\ q' = clearOldContainers(q, old)
         /\ wantSend' = (wantSend \/ \E c \in old : q.containers[c] # {})
    /\ Fault("old")
    /\ UNCHANGED <<main, p, clock, net>>
-----------------------------------------------------------------------------
(* The server (external).                                                  *)

Least(ids) == CHOOSE i \in ids : \A j \in ids : i <= j
Notice(kind, id) == [kind |-> kind, id |-> id]

Refused(pk, kind) ==
    /\ down' = down \cup {Notice(kind, pk.outer)}
    /\ UNCHANGED srv

Taken(pk) ==
    LET new == pk.sess # srv.sess
        ids == DOMAIN pk.reqs \cup DOMAIN pk.asked
                 \cup ({pk.outer, pk.ping, pk.bind} \ {0})
        acc == pk.reqs @@ (IF pk.bind # 0 THEN pk.bind :> Other ELSE NoIds)
    IN  /\ down' = down \cup {Notice("pong", i) : i \in {pk.ping} \ {0}}
        /\ srv' = IF new
                  THEN [srv EXCEPT !.sess = pk.sess, !.acc = acc,
                                   !.answers = NoIds, !.asked = pk.asked,
                                   !.seen = {pk.outer},
                                   !.created = Least(ids)]
                  ELSE [srv EXCEPT !.acc = @ @@ acc, !.seen = @ \cup {pk.outer},
                                   !.asked = @ @@ pk.asked]

ServerTakes(pk) ==
    /\ wire' = wire \ {pk}
    /\ \/ /\ pk.salt # srv.salt
          /\ Refused(pk, "badSalt")
          /\ UNCHANGED faults
       \/ /\ pk.salt = srv.salt /\ pk.skew # "none"
          /\ Refused(pk, "badId")
          /\ UNCHANGED faults
       \/ /\ pk.salt = srv.salt
          /\ \E kind \in {"badId", "badSeq", "fatal"} :
                Fault(kind) /\ Refused(pk, kind)
       \/ /\ pk.salt = srv.salt
          /\ Taken(pk)
          /\ UNCHANGED faults
    /\ UNCHANGED <<q, main, wantSend, p, clock>>

ServerAnswers(id) ==
    /\ id \in DOMAIN srv.acc \ DOMAIN srv.answers
    /\ \E ok \in BOOLEAN :
         /\ IF ok THEN UNCHANGED faults ELSE Fault("rpcError")
         /\ srv' = [srv EXCEPT !.answers = @ @@ (id :> [aid |-> srv.next, ok |-> ok]),
                               !.next = @ + 1]
    /\ UNCHANGED <<q, main, wantSend, p, clock, wire, down>>

ServerForgets ==
    /\ Fault("forget")
    /\ srv' = [srv EXCEPT !.sess = 0, !.acc = NoIds, !.answers = NoIds,
                          !.asked = NoIds, !.seen = {}, !.created = 0]
    /\ UNCHANGED <<q, main, wantSend, p, clock, wire, down>>

ServerChangesSalt ==
    /\ Fault("salt")
    /\ srv' = [srv EXCEPT !.salt = @ + 1]
    /\ UNCHANGED <<q, main, wantSend, p, clock, wire, down>>

-----------------------------------------------------------------------------
(* handleReceived() and handleOneReceived(). A handler makes of the state  *)
(* h another one: q, p, the answers out for the main thread, whether it    *)
(* asked for sendAnything, the skew of the clock, and the result res.      *)

received0 ==
    LET fix == p.salt # srv.salt /\ clock.skew = "none"
        up == fix /\ p.state = "Connecting"
    IN  [q |-> IF up THEN resendAll(q) ELSE q,
         p |-> [p EXCEPT !.salt = IF fix THEN srv.salt ELSE @,
                         !.state = IF up THEN "Connected" ELSE @],
         send |-> up, out |-> <<>>, skew |-> clock.skew, res |-> "Success"]

known(h, id) == wasSent(h.q, id, special(h.p)) # 0

badTime(h) == h.skew # "none"

(* requestsFixTimeSalt(), correctUnixtimeWithBadLocal()                    *)
fixTimeSalt(h) == [h EXCEPT !.p.salt = srv.salt, !.skew = "none"]
fixTimeIfBad(h) == IF badTime(h) THEN fixTimeSalt(h) ELSE h

resendIn(h, id) ==
    [h EXCEPT !.q = resend(@, id), !.p = clearSpecial(@, id), !.send = TRUE]

onAck(h, id) ==
    IF badTime(h) /\ ~known(h, id) THEN h
    ELSE [fixTimeIfBad(h) EXCEPT !.q = requestsAcked(@, {id}, FALSE, callbacks)]

(* bad_msg_notification with the codes 16, 17 and 64                       *)
onBadId(h, id) ==
    IF ~known(h, id) THEN h ELSE resendIn(fixTimeSalt(h), id)

(* bad_msg_notification with the codes 32 and 33                           *)
onBadSeq(h, id) ==
    IF ~known(h, id) THEN h
    ELSE [fixTimeIfBad(h) EXCEPT !.res = "ResetSession"]

(* bad_msg_notification with another code                                  *)
onFatal(h, id) ==
    IF ~known(h, id) THEN h
    ELSE LET r == wasSent(h.q, id, special(h.p)) IN
         [h EXCEPT !.out = Append(@, [req |-> r, ok |-> FALSE, of |-> r])]

onBadSalt(h, id) ==
    IF ~known(h, id) THEN h
    ELSE LET up == h.p.state = "Connecting"
             f == fixTimeSalt(h)
         IN  resendIn([f EXCEPT !.q = IF up THEN resendAll(@) ELSE @,
                                !.p.state = IF up THEN "Connected" ELSE @], id)

onPong(h, id) ==
    IF ~known(h, id) THEN h
    ELSE [fixTimeIfBad(h) EXCEPT
            !.q = requestsAcked(@, {id}, TRUE, callbacks)]

onNotice(h, n) ==
    CASE n.kind = "badId" -> onBadId(h, n.id)
      [] n.kind = "badSeq" -> onBadSeq(h, n.id)
      [] n.kind = "fatal" -> onFatal(h, n.id)
      [] n.kind = "badSalt" -> onBadSalt(h, n.id)
      [] n.kind = "pong" -> onPong(h, n.id)

onStateInfo(h, id) ==
    IF id \notin DOMAIN h.q.states THEN h
    ELSE LET ids == h.q.states[id]
             f == fixTimeIfBad(h)
             x == requestsAcked(f.q, {id}, TRUE, callbacks)
             got == DOMAIN srv.acc
         IN  [f EXCEPT !.q = handleMsgsStates(x, ids, got, callbacks),
                       !.send = @ \/ ~((ids \cap DOMAIN x.haveSent) \subseteq got)]

onDetailedInfo(h, id) ==
    IF badTime(h) /\ ~known(h, id) THEN h
    ELSE LET aid == srv.answers[id].aid
             f == fixTimeIfBad(h)
         IN  [f EXCEPT !.q = requestsAcked(@, {id}, FALSE, callbacks),
                       !.p.acks = @ \/ aid \in f.p.got,
                       !.p.refetch = IF aid \in f.p.got THEN @ ELSE @ \cup {aid}]

onNewSession(h, first) ==
    IF badTime(h) /\ ~known(h, first) THEN h
    ELSE LET f == fixTimeIfBad(h)
             again == {i \in DOMAIN f.q.haveSent : i < first}
         IN  [f EXCEPT !.p.salt = srv.salt,
                       !.q = resendSet(@, again),
                       !.send = @ \/ again # {}]

onUpdate(h) ==
    IF badTime(h) THEN [h EXCEPT !.res = "ResetSession"] ELSE h

(* ReceivedIdsManager::registerMsgId and shrink                            *)
registerMsgId(got, aid) ==
    IF aid \in got THEN "Duplicate"
    ELSE IF Cardinality(got) < kIdsBufferSize \/ aid > Least(got) THEN "Success"
    ELSE "TooOld"

shrink(got) ==
    {i \in got : Cardinality({j \in got : j > i}) < kIdsBufferSize}

(* rpc_result. handleBindResponse() takes the answer to the bind message.  *)
onBound(h, ok) ==
    [h EXCEPT !.p.bind = 0, !.p.key = IF ok THEN "bound" ELSE @, !.send = TRUE]

onResult(h, id, ok) ==
    IF badTime(h) /\ ~known(h, id) THEN h
    ELSE LET f == fixTimeIfBad(h)
             x == requestsAcked(f.q, {id}, TRUE, callbacks)
             r == wasSent(x, id, special(f.p))
         IN  IF f.p.key = "unbound" /\ id = f.p.bind
             THEN onBound([f EXCEPT !.q = x], ok)
             ELSE [f EXCEPT !.q = x,
                            !.out = IF r \in Requests
                                    THEN Append(@, [req |-> r, ok |-> ok,
                                                    of |-> srv.acc[id]])
                                    ELSE @]

onAnswer(h, id, keyLost) ==
    LET a == srv.answers[id]
        how == registerMsgId(h.p.got, a.aid)
        g == [h EXCEPT !.p.acks = TRUE,
                       !.p.got = IF how = "Success" THEN shrink(@ \cup {a.aid})
                                 ELSE @]
    IN  CASE how = "Duplicate" -> g
          [] how = "TooOld" -> [g EXCEPT !.res = "ResetSession"]
          [] how = "Success" /\ keyLost -> [g EXCEPT !.res = "DestroyTemporaryKey"]
          [] how = "Success" /\ ~keyLost -> onResult(g, id, a.ok)

(* What handleReceived() does when a message is handled.                   *)
Handled(h) ==
    /\ q' = h.q
    /\ received' = received \o h.out
    /\ wantSend' = \/ wantSend \/ h.send \/ h.p.acks
                   \/ p.state # "Connected" /\ h.p.state = "Connected"
    /\ p' = CASE h.res = "Success" -> h.p
              [] h.res = "ResetSession" -> restart([h.p EXCEPT !.needReset = TRUE])
              [] h.res = "DestroyTemporaryKey" -> destroyTemporaryKey(h.p)
    /\ wire' = IF h.res = "Success" THEN wire ELSE {}
    /\ clock' = IF h.skew = "none" THEN synced(clock) ELSE clock
    /\ UNCHANGED <<callbacks, registered, delayed, cancelling, made, handled>>

Receiving == p.alive /\ p.conn

ReceiveNotice(n) ==
    LET h == onNotice(received0, n) IN
    /\ Receiving
    /\ Handled(h)
    /\ down' = IF h.res = "Success" THEN down \ {n} ELSE {}
    /\ unsettled' = IF n.kind = "fatal"
                    THEN unsettled \o [i \in 1 .. Len(h.out) |-> h.out[i].req]
                    ELSE unsettled
    /\ UNCHANGED <<srv, faults>>

(* A message of another session makes handleReceived restart, as OnError.   *)
InSession == Receiving /\ srv.sess = p.sess

ReceiveAck(id) ==
    /\ InSession
    /\ id \in srv.seen
    /\ Handled(onAck(received0, id))
    /\ UNCHANGED <<unsettled, down, srv, faults>>

ReceiveStateInfo(id) ==
    /\ InSession
    /\ id \in DOMAIN srv.asked
    /\ Handled(onStateInfo(received0, id))
    /\ srv' = [srv EXCEPT !.asked = Erase(@, {id})]
    /\ UNCHANGED <<unsettled, down, faults>>

ReceiveNewSession ==
    /\ InSession
    /\ srv.created # 0
    /\ Handled(onNewSession(received0, srv.created))
    /\ srv' = [srv EXCEPT !.created = 0]
    /\ UNCHANGED <<unsettled, down, faults>>

ReceiveAnswer(id) ==
    /\ InSession
    /\ id \in DOMAIN srv.answers
    /\ \E keyLost \in BOOLEAN :
         LET h == onAnswer(received0, id, keyLost) IN
         /\ IF keyLost THEN Fault("keyLost") ELSE UNCHANGED faults
         /\ Handled(h)
         /\ down' = IF h.res = "Success" THEN down ELSE {}
    /\ UNCHANGED <<unsettled, srv>>

ReceiveDetailedInfo(id) ==
    /\ InSession
    /\ id \in DOMAIN srv.answers
    /\ Fault("detailed")
    /\ Handled(onDetailedInfo(received0, id))
    /\ UNCHANGED <<unsettled, down, srv>>

ReceiveUpdate ==
    LET h == onUpdate(received0) IN
    /\ InSession
    /\ Fault("update")
    /\ Handled(h)
    /\ down' = IF h.res = "Success" THEN down ELSE {}
    /\ UNCHANGED <<unsettled, srv>>

-----------------------------------------------------------------------------
MsgIds == 1 .. 2 * MaxId

MainThread ==
    \/ \E r \in Requests : SendRequest(r) \/ CancelRead(r) \/ CheckDelayedRequest(r)
    \/ CancelToSend \/ CancelHaveSent
    \/ ResumeAndSend \/ TryToReceive \/ Stop

Server ==
    \/ \E pk \in wire : ServerTakes(pk)
    \/ \E id \in MsgIds : ServerAnswers(id)
    \/ ServerForgets \/ ServerChangesSalt

SessionThread ==
    \/ ConnectToServer \/ WaitConnectedFailed \/ OnConnected
    \/ WaitReceivedFailed \/ OnError \/ OnKeyError
    \/ TryToSend \/ CheckSentRequests \/ ClearOldContainers
    \/ \E n \in down : ReceiveNotice(n)
    \/ \E id \in MsgIds : \/ ReceiveAck(id) \/ ReceiveStateInfo(id)
                          \/ ReceiveAnswer(id)
                          \/ ReceiveDetailedInfo(id)
    \/ ReceiveNewSession \/ ReceiveUpdate

Next == MainThread \/ Server \/ SessionThread

Spec == Init /\ [][Next]_vars

-----------------------------------------------------------------------------
(* Properties.                                                             *)

(* A request whose handler waits is somewhere: queued, sent, answered or   *)
(* delayed. requestsAcked, resend, resendAll, replaceMsgId and the main    *)
(* thread move it between maps that have a lock each. For no more msg_ids  *)
(* than acked keeps, one for each request and each time that one was sent  *)
(* anew: requestsAcked drops the smallest beyond it.                       *)
(* One that is queued while the connection may carry it is not forgotten:  *)
(* a tryToSend is on its way.                                              *)
Waiting(r) ==
    \/ r \in q.toSend \/ r \in Values(q.haveSent) \/ r \in delayed
    \/ \E i \in 1 .. Len(received) : received[i].req = r
NoRequestLost ==
    /\ Cardinality(Requests) + Len(unsettled) <= kIdsBufferSize =>
         \A r \in callbacks : Waiting(r) \/ cancelling.req = r
    /\ p.alive /\ p.state = "Connected" /\ p.key = "bound" /\ q.toSend # {}
         => wantSend

(* However often a request was sent and answered, its handler is called    *)
(* once.                                                                   *)
HandledOnce == \A r \in Requests : handled[r] <= 1

(* An answer is given to the request that the server answered, although    *)
(* msg_ids are replaced, and start again when the clock is corrected.      *)
AnswerIsItsOwn ==
    \A i \in 1 .. Len(received) : received[i].req = received[i].of

(* What was answered is neither queued nor kept as sent, so it is not sent *)
(* again. For requests that were not sent anew after an error: a server    *)
(* that forgot the session may answer the first sending once more. And not *)
(* for those that a bad_msg_notification refuses for good, which           *)
(* handleOneReceived() reports to the handler and leaves in haveSent.      *)
Settled(r) == \A i \in 1 .. Len(unsettled) : unsettled[i] # r
AnsweredIsGone ==
    \A r \in Requests :
        handled[r] > 0 /\ Settled(r) =>
            r \notin q.toSend /\ r \notin Values(q.haveSent)

-----------------------------------------------------------------------------
(* What the rest of the program sees of the session.                       *)
Promise == INSTANCE RequestPromise WITH
    Asking <- WithCallback,
    waiting <- callbacks,
    done <- {r \in Requests : handled[r] > 0},
    asked <- made \cap WithCallback

(* The session keeps what it promises, whatever breaks on the way: a       *)
(* handler is called at most once and never after its request was          *)
(* cancelled. See RequestPromise.                                          *)
KeepsPromise == Promise!Safe
=============================================================================
