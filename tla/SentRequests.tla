---------------------------- MODULE SentRequests ----------------------------
(***************************************************************************)
(* The maps in which a session keeps the requests that it will send, has   *)
(* sent and has seen acknowledged (session_private.cpp, session.h).        *)
(*                                                                         *)
(* They are gathered in one record:                                        *)
(*   toSend      _toSend, the requests that wait to be sent                *)
(*   msgId       the msg_id written into each serialized request, 0 before *)
(*               it was sent                                               *)
(*   boxed       the requests with forceSendInContainer                    *)
(*   haveSent    _haveSent, msg_id -> request                              *)
(*   resending   _resendingIds, msg_id -> request                          *)
(*   acked       _ackedIds, msg_id -> request                              *)
(*   containers  _sentContainers, msg_id -> the msg_ids inside             *)
(*   states      _stateAndResendRequests, msg_id -> the msg_ids asked for  *)
(*                                                                         *)
(* flat_map::emplace leaves a key that is there alone, as f @@ (k :> v).   *)
(* The two operators are those of TLC, written out for the proofs.         *)
(***************************************************************************)
EXTENDS Integers, FiniteSets

CONSTANTS
    Requests,      \* the requests, by their mtpRequestId
    kIdsBufferSize \* how many msg_ids are kept, in acked and of the received

ASSUME RequestsAreIds == Requests \subseteq Nat \ {0} /\ IsFiniteSet(Requests)
ASSUME BufferAssumption == kIdsBufferSize \in Nat \ {0}

NoIds == <<>>

f @@ g ==
    [i \in DOMAIN f \cup DOMAIN g |-> IF i \in DOMAIN f THEN f[i] ELSE g[i]]

k :> v == [i \in {k} |-> v]

Empty ==
    [toSend |-> {}, msgId |-> [r \in Requests |-> 0], boxed |-> {},
     haveSent |-> NoIds, resending |-> NoIds, acked |-> NoIds,
     containers |-> NoIds, states |-> NoIds]

Erase(f, ids) == [i \in DOMAIN f \ ids |-> f[i]]
Keep(f, ids) == [i \in DOMAIN f \cap ids |-> f[i]]
Values(f) == {f[i] : i \in DOMAIN f}

-----------------------------------------------------------------------------
(* Session::sendPrepared, and the two halves of Session::cancel.           *)

sendPrepared(q, r) ==
    [q EXCEPT !.toSend = @ \cup {r}, !.msgId[r] = 0]

cancelToSend(q, r) == [q EXCEPT !.toSend = @ \ {r}]
cancelHaveSent(q, id) == [q EXCEPT !.haveSent = Erase(@, {id})]

-----------------------------------------------------------------------------
(* resend(): back to toSend, to be sent in a container and under the same  *)
(* msg_id unless the session is new. A container is taken apart.           *)

resendSet(q, ids) ==
    LET moved == Keep(q.haveSent, ids) IN
    [q EXCEPT !.haveSent = Erase(@, ids),
              !.resending = @ @@ moved,
              !.toSend = @ \cup Values(moved),
              !.boxed = @ \cup Values(moved)]

resend(q, id) ==
    IF id \in DOMAIN q.containers
    THEN resendSet([q EXCEPT !.containers = Erase(@, {id})], q.containers[id])
    ELSE resendSet(q, {id})

resendAll(q) == resendSet(q, DOMAIN q.haveSent)

(* clearOldContainers() takes apart every container that is old.           *)
clearOldContainers(q, old) ==
    resendSet([q EXCEPT !.containers = Erase(@, old)],
              UNION {q.containers[c] : c \in old})

-----------------------------------------------------------------------------
(* requestsAcked(). A request with a callback is acknowledged by its       *)
(* response only, and acked is cut to its largest kIdsBufferSize msg_ids.  *)

Newest(f) ==
    {i \in DOMAIN f : Cardinality({j \in DOMAIN f : j > i}) < kIdsBufferSize}

trimAcked(f) == Keep(f, Newest(f))

(* Mutant of Acknowledges: an ack is enough for a request with a callback. *)
AcknowledgesAny(r, byResponse, callbacks) == TRUE

Acknowledges(r, byResponse, callbacks) == byResponse \/ r \notin callbacks

(* Mutant of ackSent: what was acknowledged stays in haveSent.             *)
ackSentKeeps(q, ids, byResponse, callbacks) ==
    [q EXCEPT !.acked = @ @@ Keep(q.haveSent, ids)]

ackSent(q, ids, byResponse, callbacks) ==
    LET gone == {i \in ids \cap DOMAIN q.haveSent :
                    Acknowledges(q.haveSent[i], byResponse, callbacks)}
    IN  [q EXCEPT !.haveSent = Erase(@, gone),
                  !.acked = @ @@ Keep(q.haveSent, gone)]

ackResending(q, ids, byResponse, callbacks) ==
    LET gone == {i \in ids \cap DOMAIN q.resending :
                    Acknowledges(q.resending[i], byResponse, callbacks)}
        queued == {i \in gone : q.resending[i] \in q.toSend}
    IN  [q EXCEPT !.resending = Erase(@, gone),
                  !.toSend = @ \ {q.resending[i] : i \in queued},
                  !.acked = @ @@ Keep(q.resending, queued)]

ackOnce(q, ids, byResponse, callbacks) ==
    LET boxes == ids \cap DOMAIN q.containers
        asked == (ids \ boxes) \cap DOMAIN q.states
        sent == (ids \ (boxes \cup asked)) \cap DOMAIN q.haveSent
        other == ids \ (boxes \cup asked \cup sent)
        q1 == [q EXCEPT !.containers = Erase(@, boxes), !.states = Erase(@, asked)]
        q2 == ackSent(q1, sent, byResponse, callbacks)
        q3 == ackResending(q2, other, byResponse, callbacks)
    IN  [q3 EXCEPT !.acked = trimAcked(@)]

requestsAcked(q, ids, byResponse, callbacks) ==
    LET boxes == ids \cap DOMAIN q.containers
        more == UNION {q.containers[c] : c \in boxes}
        once == ackOnce(q, ids, byResponse, callbacks)
    IN  IF more = {} THEN once ELSE ackOnce(once, more, FALSE, callbacks)

(* handleMsgsStates(): ids were asked for, the server knows those in got.  *)
handleMsgsStates(q, ids, got, callbacks) ==
    LET known == DOMAIN q.haveSent \cup DOMAIN q.resending
        again == resendSet(q, ids \ got)
    IN  requestsAcked(again, ids \cap got \cap known, FALSE, callbacks)

-----------------------------------------------------------------------------
(* wasSent(): the request of a msg_id, 0 when nobody knows the id. The     *)
(* session adds the msg_ids of its ping and bind messages (Other).         *)

Other == -1

wasSent(q, id, special) ==
    IF id \in special
    THEN Other
    ELSE (q.resending @@ q.acked @@ [c \in DOMAIN q.containers |-> Other]
            @@ q.haveSent @@ (id :> 0))[id]

-----------------------------------------------------------------------------
(* prepareToSend() and replaceMsgId() for all of toSend at once: next is   *)
(* the first msg_id that is free, force says that the session is new. The  *)
(* renamed requests take the msg_ids from next on, in the order of toSend. *)

renamed(q, next, force) ==
    {r \in q.toSend : q.msgId[r] = 0 \/ force \/ q.msgId[r] > next}

newMsgId(q, next, force, r) ==
    IF r \in renamed(q, next, force)
    THEN next + Cardinality({x \in renamed(q, next, force) : x < r})
    ELSE q.msgId[r]

replaceIds(ids, old, new) ==
    (ids \ Values(old)) \cup {new[r] : r \in {x \in DOMAIN old : old[x] \in ids}}

(* An id is renamed in the containers, in acked and in haveSent too.       *)
rename(f, old, new) ==
    LET moved == {r \in DOMAIN old : old[r] \in DOMAIN f} IN
    [i \in (DOMAIN f \ {old[r] : r \in moved}) \cup {new[r] : r \in moved} |->
        IF \E r \in moved : new[r] = i
        THEN f[old[CHOOSE r \in moved : new[r] = i]]
        ELSE f[i]]

sendAll(q, next, force) ==
    LET new == [r \in q.toSend |-> newMsgId(q, next, force, r)]
        old == [r \in {x \in q.toSend : q.msgId[x] # 0 /\ new[x] # q.msgId[x]}
                    |-> q.msgId[r]]
        was == {q.msgId[r] : r \in q.toSend}
        ids == {new[r] : r \in q.toSend}
    IN  [q EXCEPT
            !.toSend = {},
            !.msgId = [r \in Requests |-> IF r \in q.toSend THEN new[r] ELSE @[r]],
            !.haveSent = rename(@, old, new)
                            @@ [i \in ids |-> CHOOSE r \in q.toSend : new[r] = i],
            !.resending = Erase(@, was),
            !.acked = rename(@, old, new),
            !.containers = [c \in DOMAIN @ |-> replaceIds(@[c], old, new)]]
=============================================================================
