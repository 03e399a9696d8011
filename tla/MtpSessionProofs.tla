-------------------------- MODULE MtpSessionProofs --------------------------
(***************************************************************************)
(* Proofs about MtpSession for every set of requests and every bound: the  *)
(* handler of a request is called once, and the session implements         *)
(* RequestPromise. Both follow from PInv, which only the main thread can   *)
(* disturb. An answer reaches its own request, by NamesInv: there is one   *)
(* assignment of requests to msg_ids that all maps of both threads, the    *)
(* packets and the server agree with. With it, an answered request is      *)
(* neither queued nor kept as sent.                                        *)
(***************************************************************************)
EXTENDS MtpSession, FiniteSetTheorems, SequenceTheorems, TLAPS

(* What the main thread knows of a request and its handler.                *)
PInv ==
    /\ made \subseteq Requests
    /\ callbacks \subseteq made
    /\ callbacks \subseteq WithCallback
    /\ handled \in [Requests -> {0, 1}]
    /\ \A r \in Requests : handled[r] = 1 => r \in made
    /\ \A r \in Requests : handled[r] = 1 => r \notin callbacks

(* The part of the state that RequestPromise sees.                         *)
Seen == <<made, callbacks, handled>>

-----------------------------------------------------------------------------
(* The steps of the server and of the session's thread are not seen.       *)

LEMMA HandledUnseen ==
    ASSUME NEW h, Handled(h)
    PROVE  UNCHANGED Seen
  BY DEF Handled, Seen

LEMMA ServerUnseen ==
    ASSUME Server
    PROVE  UNCHANGED Seen
<1>1. CASE \E pk \in wire : ServerTakes(pk)
  BY <1>1 DEF ServerTakes, main, Seen
<1>2. CASE \E id \in MsgIds : ServerAnswers(id)
  BY <1>2 DEF ServerAnswers, main, Seen
<1>3. CASE ServerForgets
  BY <1>3 DEF ServerForgets, main, Seen
<1>4. CASE ServerChangesSalt
  BY <1>4 DEF ServerChangesSalt, main, Seen
<1> QED
  BY <1>1, <1>2, <1>3, <1>4 DEF Server

LEMMA TryToSendUnseen ==
    ASSUME TryToSend
    PROVE  UNCHANGED Seen
<1>1. UNCHANGED main
  BY Zenon DEF TryToSend
<1> QED
  BY <1>1 DEF main, Seen

LEMMA SessionThreadUnseen ==
    ASSUME SessionThread
    PROVE  UNCHANGED Seen
<1>1. CASE ConnectToServer
  BY <1>1 DEF ConnectToServer, main, Seen
<1>2. CASE WaitConnectedFailed
  BY <1>2 DEF WaitConnectedFailed, main, Seen
<1>3. CASE OnConnected
  BY <1>3 DEF OnConnected, main, Seen
<1>4. CASE WaitReceivedFailed
  BY <1>4 DEF WaitReceivedFailed, main, Seen
<1>5. CASE OnError
  BY <1>5 DEF OnError, main, Seen
<1>6. CASE OnKeyError
  BY <1>6 DEF OnKeyError, main, Seen
<1>7. CASE TryToSend
  BY <1>7, TryToSendUnseen
<1>8. CASE CheckSentRequests
  BY <1>8 DEF CheckSentRequests, main, Seen
<1>9. CASE ClearOldContainers
  BY <1>9 DEF ClearOldContainers, main, Seen
<1>10. CASE \E n \in down : ReceiveNotice(n)
  BY <1>10, HandledUnseen DEF ReceiveNotice
<1>11. CASE \E id \in MsgIds : ReceiveAck(id)
  BY <1>11, HandledUnseen DEF ReceiveAck
<1>12. CASE \E id \in MsgIds : ReceiveStateInfo(id)
  BY <1>12, HandledUnseen DEF ReceiveStateInfo
<1>13. CASE \E id \in MsgIds : ReceiveAnswer(id)
  BY <1>13, HandledUnseen DEF ReceiveAnswer
<1>14. CASE \E id \in MsgIds : ReceiveDetailedInfo(id)
  BY <1>14, HandledUnseen DEF ReceiveDetailedInfo
<1>15. CASE ReceiveNewSession
  BY <1>15, HandledUnseen DEF ReceiveNewSession
<1>16. CASE ReceiveUpdate
  BY <1>16, HandledUnseen DEF ReceiveUpdate
<1> QED
  BY <1>1, <1>2, <1>3, <1>4, <1>5, <1>6, <1>7, <1>8, <1>9, <1>10, <1>11,
     <1>12, <1>13, <1>14, <1>15, <1>16 DEF SessionThread

-----------------------------------------------------------------------------
(* The steps of the main thread, one lemma for what each does to Seen.     *)

(* Instance::processCallback either leaves the handlers alone or calls one *)
(* that waits and takes it away.                                           *)
Calls(r) ==
    /\ r \in callbacks
    /\ callbacks' = callbacks \ {r}
    /\ handled' = [handled EXCEPT ![r] = @ + 1]
    /\ UNCHANGED made

LEMMA TryToReceiveSeen ==
    ASSUME TryToReceive
    PROVE  UNCHANGED Seen \/ \E r : Calls(r)
<1> DEFINE m == Head(received)
<1>1. CASE m.req \in callbacks
  BY <1>1 DEF TryToReceive, Calls, Seen
<1>2. CASE m.req \notin callbacks
  BY <1>2 DEF TryToReceive, Seen
<1> QED
  BY <1>1, <1>2

(* Instance::sendRequest makes a request that was not made before.         *)
Makes(r) ==
    /\ r \in Requests /\ r \notin made
    /\ made' = made \cup {r}
    /\ callbacks' = callbacks \cup ({r} \cap WithCallback)
    /\ UNCHANGED handled

(* The last half of Instance::cancel takes a handler away.                 *)
Drops(r) ==
    /\ callbacks' = callbacks \ {r}
    /\ UNCHANGED <<made, handled>>

LEMMA StepSeen ==
    ASSUME [Next]_vars
    PROVE  UNCHANGED Seen \/ \E r : Calls(r) \/ Makes(r) \/ Drops(r)
<1>1. CASE \E r \in Requests : SendRequest(r)
  BY <1>1 DEF SendRequest, Makes
<1>2. CASE \E r \in Requests : CancelRead(r)
  BY <1>2 DEF CancelRead, Seen
<1>3. CASE \E r \in Requests : CheckDelayedRequest(r)
  BY <1>3 DEF CheckDelayedRequest, Seen
<1>4. CASE CancelToSend
  BY <1>4 DEF CancelToSend, Seen
<1>5. CASE CancelHaveSent
  BY <1>5 DEF CancelHaveSent, Drops
<1>6. CASE ResumeAndSend
  BY <1>6 DEF ResumeAndSend, main, Seen
<1>7. CASE TryToReceive
  BY <1>7, TryToReceiveSeen
<1>8. CASE Stop
  BY <1>8 DEF Stop, main, Seen
<1>9. CASE Server
  BY <1>9, ServerUnseen
<1>10. CASE SessionThread
  BY <1>10, SessionThreadUnseen
<1>11. CASE UNCHANGED vars
  BY <1>11 DEF vars, main, Seen
<1> QED
  BY <1>1, <1>2, <1>3, <1>4, <1>5, <1>6, <1>7, <1>8, <1>9, <1>10, <1>11
     DEF Next, MainThread

-----------------------------------------------------------------------------
LEMMA InitPInv ==
    ASSUME Init
    PROVE  PInv
  BY DEF Init, PInv

LEMMA NextPInv ==
    ASSUME PInv, [Next]_vars
    PROVE  PInv'
<1>1. CASE UNCHANGED Seen
  BY <1>1 DEF PInv, Seen
<1>2. ASSUME NEW r, Calls(r)
      PROVE  PInv'
  <2>1. r \in Requests /\ handled[r] = 0
    BY <1>2 DEF PInv, Calls
  <2>2. handled' = [handled EXCEPT ![r] = 1]
    BY <1>2, <2>1 DEF PInv, Calls
  <2> QED
    BY <1>2, <2>1, <2>2 DEF PInv, Calls
<1>3. ASSUME NEW r, Makes(r)
      PROVE  PInv'
  BY <1>3 DEF PInv, Makes
<1>4. ASSUME NEW r, Drops(r)
      PROVE  PInv'
  BY <1>4 DEF PInv, Drops
<1> QED
  BY <1>1, <1>2, <1>3, <1>4, StepSeen

(* PInv holds in every state.                                              *)
THEOREM AlwaysPInv == Spec => []PInv
<1>1. Init => PInv
  BY InitPInv
<1>2. PInv /\ [Next]_vars => PInv'
  BY NextPInv
<1> QED
  BY <1>1, <1>2, PTL DEF Spec

(* However a request is sent, answered, retried or cancelled, its handler  *)
(* is called at most once (Instance::processCallback).                     *)
THEOREM CalledOnce == Spec => []HandledOnce
<1>1. PInv => HandledOnce
  BY DEF PInv, HandledOnce
<1> QED
  BY <1>1, AlwaysPInv, PTL

-----------------------------------------------------------------------------
(* Refinement: the initial states map to initial states, every step to a   *)
(* step of RequestPromise or to a stutter.                                 *)

Finished == {r \in Requests : handled[r] > 0}

LEMMA InitPromise ==
    ASSUME Init
    PROVE  Promise!Init
  BY DEF Init, Promise!Init

LEMMA NextPromise ==
    ASSUME PInv, [Next]_vars
    PROVE  [Promise!Next]_(Promise!pvars)
<1>1. CASE UNCHANGED Seen
  BY <1>1 DEF Seen, Promise!pvars
<1>2. ASSUME NEW r, Calls(r)
      PROVE  Promise!Next
  <2>1. r \in Requests /\ r \in WithCallback /\ handled[r] = 0
    BY <1>2 DEF PInv, Calls
  <2>2. handled' = [handled EXCEPT ![r] = 1]
    BY <1>2, <2>1 DEF PInv, Calls
  <2>3. Finished' = Finished \cup {r} /\ r \notin Finished
    BY <2>1, <2>2 DEF PInv, Finished
  <2>4. Promise!Answer(r)
    BY <1>2, <2>3 DEF Calls, Finished, Promise!Answer
  <2> QED
    BY <2>1, <2>4 DEF Promise!Next
<1>3. ASSUME NEW r, Makes(r)
      PROVE  [Promise!Next]_(Promise!pvars)
  <2>1. CASE r \in WithCallback
    <3>1. Promise!Ask(r)
      BY <1>3, <2>1 DEF Makes, Promise!Ask
    <3> QED
      BY <2>1, <3>1 DEF Promise!Next
  <2>2. CASE r \notin WithCallback
    BY <1>3, <2>2 DEF Makes, Promise!pvars
  <2> QED
    BY <2>1, <2>2
<1>4. ASSUME NEW r, Drops(r)
      PROVE  [Promise!Next]_(Promise!pvars)
  <2>1. CASE r \in callbacks
    <3>1. Promise!Cancel(r) /\ r \in WithCallback
      BY <1>4, <2>1 DEF Drops, PInv, Promise!Cancel
    <3> QED
      BY <3>1 DEF Promise!Next
  <2>2. CASE r \notin callbacks
    BY <1>4, <2>2 DEF Drops, Promise!pvars
  <2> QED
    BY <2>1, <2>2
<1> QED
  BY <1>1, <1>2, <1>3, <1>4, StepSeen

(* The session with its two threads, its connections and the server's      *)
(* faults implements what the callers of MTP::Sender are promised: each    *)
(* request is made once, answered at most once and never after a cancel.   *)
THEOREM Implements == Spec => KeepsPromise
<1>1. Init => Promise!Init
  BY InitPromise
<1>2. PInv /\ [Next]_vars => [Promise!Next]_(Promise!pvars)
  BY NextPromise
<1> QED
  BY <1>1, <1>2, AlwaysPInv, PTL DEF Spec, KeepsPromise, Promise!Safe

-----------------------------------------------------------------------------
(* An answer reaches its own request.  N names the request (or Other, for  *)
(* the bind message) that a msg_id of I, the ids issued so far, was taken  *)
(* for.  Wherever msg_ids are kept, they are kept for what N says.         *)

Named(f, N, I) == \A i \in DOMAIN f : i \in I /\ f[i] = N[i]

IsMaps(x) ==
    x \in [toSend : {x.toSend}, msgId : {x.msgId}, boxed : {x.boxed},
           haveSent : {x.haveSent}, resending : {x.resending},
           acked : {x.acked}, containers : {x.containers}, states : {x.states}]

OfRequests(f) == \A i \in DOMAIN f : f[i] \in Requests

IdsNamed(m, N, I) ==
    /\ m \in [Requests -> Nat]
    /\ \A r \in Requests : m[r] # 0 => m[r] \in I /\ N[m[r]] = r

(* Containers and msgs_state_req messages have ids of their own.           *)
Others(f, N, I) == \A i \in DOMAIN f : i \in I /\ N[i] = Other

(* Of the requests of S there is one sending only: each is in one of the   *)
(* maps, under the id that is written into it, and acknowledged or in G,   *)
(* answered, it is neither queued nor kept as sent.                        *)
NotIn(r, f) == \A i \in DOMAIN f : f[i] # r

SentOnce(x, S, G) ==
    \A r \in S :
        /\ \A i \in DOMAIN x.haveSent : x.haveSent[i] = r =>
              i = x.msgId[r] /\ r \notin x.toSend /\ r \notin G
        /\ \A i \in DOMAIN x.resending : x.resending[i] = r =>
              i = x.msgId[r] /\ NotIn(r, x.haveSent)
        /\ ~NotIn(r, x.acked) => r \notin x.toSend /\ NotIn(r, x.haveSent)
        /\ r \in G => r \notin x.toSend

MapsNamed(x, N, I, S, G) ==
    /\ IsMaps(x)
    /\ Named(x.haveSent, N, I) /\ Named(x.resending, N, I) /\ Named(x.acked, N, I)
    /\ OfRequests(x.haveSent) /\ x.toSend \subseteq Requests
    /\ IdsNamed(x.msgId, N, I)
    /\ Others(x.containers, N, I) /\ Others(x.states, N, I)
    /\ SentOnce(x, S, G)

LEMMA MergeNamed ==
    ASSUME NEW f, NEW g, NEW N, NEW I, Named(f, N, I), Named(g, N, I)
    PROVE  Named(f @@ g, N, I)
  BY DEF Named, @@

LEMMA EraseNamed ==
    ASSUME NEW f, NEW ids, NEW N, NEW I, Named(f, N, I)
    PROVE  Named(Erase(f, ids), N, I) /\ Named(Keep(f, ids), N, I)
  BY DEF Named, Erase, Keep

LEMMA EraseOfRequests ==
    ASSUME NEW f, NEW ids, OfRequests(f)
    PROVE  OfRequests(Erase(f, ids)) /\ Values(Keep(f, ids)) \subseteq Requests
  BY DEF OfRequests, Erase, Keep, Values

LEMMA EmptyNamed ==
    ASSUME NEW N, NEW I
    PROVE  Named(NoIds, N, I) /\ Others(NoIds, N, I)
  BY DEF Named, Others, NoIds

LEMMA FewerOthers ==
    ASSUME NEW f, NEW ids, NEW N, NEW I, Others(f, N, I)
    PROVE  Others(Erase(f, ids), N, I)
  BY DEF Others, Erase

LEMMA FewerIn ==
    ASSUME NEW f, NEW ids, NEW r, NotIn(r, f)
    PROVE  NotIn(r, Erase(f, ids)) /\ NotIn(r, Keep(f, ids))
  BY DEF NotIn, Erase, Keep

LEMMA MergedIn ==
    ASSUME NEW f, NEW g, NEW r, NotIn(r, f), NotIn(r, g)
    PROVE  NotIn(r, f @@ g)
  BY DEF NotIn, @@

(* Fewer requests of which this is said.                                   *)
LEMMA FewerNamed ==
    ASSUME NEW x, NEW N, NEW I, NEW S, NEW G, NEW T, NEW H, MapsNamed(x, N, I, S, G),
           T \subseteq S, T \cap H \subseteq G
    PROVE  MapsNamed(x, N, I, T, H)
<1>1. SentOnce(x, T, H)
  BY DEF MapsNamed, SentOnce
<1> QED
  BY <1>1 DEF MapsNamed

-----------------------------------------------------------------------------
(* One lemma for each operation on the maps.                               *)

(* Of a request of S that is sent for the first time there is nothing yet. *)
LEMMA SendPreparedNamed ==
    ASSUME NEW x, NEW N, NEW I, NEW S, NEW G, NEW H, NEW r \in Requests,
           MapsNamed(x, N, I, S, G), S \cap H \subseteq G \ {r},
           r \in S => r \in G /\ \A i \in I : N[i] # r
    PROVE  MapsNamed(sendPrepared(x, r), N, I, S, H)
<1> DEFINE y == sendPrepared(x, r)
<1>1. /\ IsMaps(y) /\ y.haveSent = x.haveSent /\ y.resending = x.resending
      /\ y.acked = x.acked /\ y.containers = x.containers /\ y.states = x.states
      /\ y.toSend = x.toSend \cup {r} /\ y.msgId = [x.msgId EXCEPT ![r] = 0]
  BY DEF MapsNamed, IsMaps, sendPrepared
<1> HIDE DEF y
<1>2. IdsNamed(y.msgId, N, I)
  <2>1. IdsNamed(x.msgId, N, I)
    BY DEF MapsNamed
  <2> QED
    BY <1>1, <2>1 DEF IdsNamed
<1>3. \A s \in Requests : s # r => y.msgId[s] = x.msgId[s]
  BY <1>1 DEF MapsNamed, IdsNamed
<1>4. SentOnce(y, S, H)
  <2>1. SentOnce(x, S, G)
    BY DEF MapsNamed
  <2>2. r \in S => NotIn(r, x.haveSent) /\ NotIn(r, x.resending) /\ NotIn(r, x.acked)
    BY DEF MapsNamed, Named, NotIn
  <2>3. ASSUME NEW s \in S, s # r
        PROVE  \A i : (i \in DOMAIN x.haveSent /\ x.haveSent[i] = s)
                        \/ (i \in DOMAIN x.resending /\ x.resending[i] = s)
                      => y.msgId[s] = x.msgId[s]
    <3>1. x.msgId \in [Requests -> Nat]
      BY DEF MapsNamed, IdsNamed
    <3> QED
      BY <1>1, <2>3, <3>1
  <2> QED
    BY <1>1, <2>1, <2>2, <2>3 DEF SentOnce, NotIn
<1>9. MapsNamed(y, N, I, S, H)
  BY <1>1, <1>2, <1>4 DEF MapsNamed
<1> QED
  BY <1>9 DEF y

LEMMA CancelNamed ==
    ASSUME NEW x, NEW N, NEW I, NEW S, NEW G, NEW r, NEW id, MapsNamed(x, N, I, S, G)
    PROVE  /\ MapsNamed(cancelToSend(x, r), N, I, S, G)
           /\ MapsNamed(cancelHaveSent(x, id), N, I, S, G)
<1> DEFINE y == cancelToSend(x, r)
           z == cancelHaveSent(x, id)
<1>1. /\ IsMaps(y) /\ y.haveSent = x.haveSent /\ y.resending = x.resending
      /\ y.acked = x.acked /\ y.containers = x.containers /\ y.states = x.states
      /\ y.toSend = x.toSend \ {r} /\ y.msgId = x.msgId
  BY DEF MapsNamed, IsMaps, cancelToSend
<1>2. /\ IsMaps(z) /\ z.haveSent = Erase(x.haveSent, {id})
      /\ z.resending = x.resending /\ z.acked = x.acked
      /\ z.containers = x.containers /\ z.states = x.states
      /\ z.toSend = x.toSend /\ z.msgId = x.msgId
  BY DEF MapsNamed, IsMaps, cancelHaveSent
<1>3. Named(z.haveSent, N, I) /\ OfRequests(z.haveSent)
  BY <1>2, EraseNamed, EraseOfRequests DEF MapsNamed
<1> HIDE DEF y, z
<1>4. SentOnce(y, S, G)
  BY <1>1 DEF MapsNamed, SentOnce
<1>5. SentOnce(z, S, G)
  BY <1>2 DEF MapsNamed, SentOnce, NotIn, Erase
<1>9. MapsNamed(y, N, I, S, G) /\ MapsNamed(z, N, I, S, G)
  BY <1>1, <1>2, <1>3, <1>4, <1>5 DEF MapsNamed
<1> QED
  BY <1>9 DEF y, z

LEMMA DropNamed ==
    ASSUME NEW x, NEW N, NEW I, NEW S, NEW G, MapsNamed(x, N, I, S, G)
    PROVE  MapsNamed(dropPrivate(x), N, I, S, G)
<1> DEFINE y == dropPrivate(x)
<1>1. /\ IsMaps(y) /\ y.haveSent = x.haveSent /\ y.resending = NoIds
      /\ y.acked = NoIds /\ y.containers = NoIds /\ y.states = NoIds
      /\ y.toSend = x.toSend /\ y.msgId = x.msgId
  BY DEF MapsNamed, IsMaps, dropPrivate
<1> HIDE DEF y
<1>2. SentOnce(y, S, G)
  <2>1. DOMAIN NoIds = {}
    BY DEF NoIds
  <2> QED
    BY <1>1, <2>1 DEF MapsNamed, SentOnce, NotIn
<1>9. MapsNamed(y, N, I, S, G)
  BY <1>1, <1>2, EmptyNamed DEF MapsNamed
<1> QED
  BY <1>9 DEF y

LEMMA ContainersNamed ==
    ASSUME NEW x, NEW N, NEW I, NEW S, NEW G, NEW f, NEW y, MapsNamed(x, N, I, S, G),
           Others(f, N, I), y = [x EXCEPT !.containers = f]
    PROVE  MapsNamed(y, N, I, S, G)
<1>1. /\ IsMaps(y) /\ y.haveSent = x.haveSent /\ y.resending = x.resending
      /\ y.acked = x.acked /\ y.toSend = x.toSend /\ y.msgId = x.msgId
      /\ y.containers = f /\ y.states = x.states
  BY DEF MapsNamed, IsMaps
<1>2. SentOnce(y, S, G)
  BY <1>1 DEF MapsNamed, SentOnce
<1> QED
  BY <1>1, <1>2 DEF MapsNamed

LEMMA ResendSetNamed ==
    ASSUME NEW x, NEW N, NEW I, NEW S, NEW G, NEW ids, MapsNamed(x, N, I, S, G)
    PROVE  MapsNamed(resendSet(x, ids), N, I, S, G)
<1> DEFINE y == resendSet(x, ids)
           moved == Keep(x.haveSent, ids)
<1> HIDE DEF moved
<1>1. /\ IsMaps(y) /\ y.haveSent = Erase(x.haveSent, ids)
      /\ y.resending = x.resending @@ moved /\ y.acked = x.acked
      /\ y.toSend = x.toSend \cup Values(moved) /\ y.msgId = x.msgId
      /\ y.containers = x.containers /\ y.states = x.states
  BY DEF MapsNamed, IsMaps, resendSet, moved
<1> HIDE DEF y
<1>2. Named(moved, N, I) /\ Values(moved) \subseteq Requests
  BY EraseNamed, EraseOfRequests DEF MapsNamed, moved
<1>3. Named(y.haveSent, N, I) /\ OfRequests(y.haveSent)
  BY <1>1, EraseNamed, EraseOfRequests DEF MapsNamed
<1>4. Named(y.resending, N, I)
  BY <1>1, <1>2, MergeNamed DEF MapsNamed
<1>5. SentOnce(y, S, G)
  <2>1. SentOnce(x, S, G)
    BY DEF MapsNamed
  <2>2. ASSUME NEW i \in DOMAIN moved, NEW s \in S, moved[i] = s
        PROVE  /\ i = x.msgId[s] /\ s \notin G
               /\ NotIn(s, x.acked) /\ NotIn(s, y.haveSent)
    <3>1. i \in DOMAIN x.haveSent /\ x.haveSent[i] = s /\ i \in ids
      BY <2>2 DEF moved, Keep
    <3>2. i = x.msgId[s] /\ s \notin G /\ NotIn(s, x.acked)
      BY <2>1, <3>1 DEF SentOnce, NotIn
    <3>3. \A j \in DOMAIN x.haveSent : x.haveSent[j] = s => j = i
      BY <2>1, <3>1 DEF SentOnce
    <3>4. NotIn(s, y.haveSent)
      BY <1>1, <3>1, <3>3 DEF NotIn, Erase
    <3> QED
      BY <3>2, <3>4
  <2> SUFFICES ASSUME NEW s \in S
               PROVE  /\ \A i \in DOMAIN y.haveSent : y.haveSent[i] = s =>
                           i = y.msgId[s] /\ s \notin y.toSend /\ s \notin G
                      /\ \A i \in DOMAIN y.resending : y.resending[i] = s =>
                           i = y.msgId[s] /\ NotIn(s, y.haveSent)
                      /\ ~NotIn(s, y.acked) => s \notin y.toSend /\ NotIn(s, y.haveSent)
                      /\ s \in G => s \notin y.toSend
    BY DEF SentOnce
  <2>3. s \in Values(moved) => s \notin G /\ NotIn(s, x.acked) /\ NotIn(s, y.haveSent)
    BY <2>2 DEF Values
  <2>4. ASSUME NEW i \in DOMAIN y.haveSent, y.haveSent[i] = s
        PROVE  i = y.msgId[s] /\ s \notin y.toSend /\ s \notin G
    <3>1. i \in DOMAIN x.haveSent /\ x.haveSent[i] = s
      BY <1>1, <2>4 DEF Erase
    <3>2. s \notin Values(moved)
      BY <2>3, <2>4 DEF NotIn
    <3> QED
      BY <1>1, <2>1, <3>1, <3>2 DEF SentOnce
  <2>5. NotIn(s, x.haveSent) => NotIn(s, y.haveSent)
    BY <1>1, FewerIn
  <2>6. ASSUME NEW i \in DOMAIN y.resending, y.resending[i] = s
        PROVE  i = y.msgId[s] /\ NotIn(s, y.haveSent)
    <3>1. \/ i \in DOMAIN x.resending /\ x.resending[i] = s
          \/ i \in DOMAIN moved /\ moved[i] = s
      BY <1>1, <2>6 DEF @@
    <3> QED
      BY <1>1, <2>1, <2>2, <2>5, <3>1 DEF SentOnce
  <2>7. ~NotIn(s, y.acked) => s \notin y.toSend /\ NotIn(s, y.haveSent)
    BY <1>1, <2>1, <2>3, <2>5 DEF SentOnce
  <2>8. s \in G => s \notin y.toSend
    BY <1>1, <2>1, <2>3 DEF SentOnce
  <2> QED
    BY <2>4, <2>6, <2>7, <2>8
<1>9. MapsNamed(y, N, I, S, G)
  BY <1>1, <1>2, <1>3, <1>4, <1>5 DEF MapsNamed
<1> QED
  BY <1>9 DEF y

LEMMA ResendNamed ==
    ASSUME NEW x, NEW N, NEW I, NEW S, NEW G, NEW id, MapsNamed(x, N, I, S, G)
    PROVE  MapsNamed(resend(x, id), N, I, S, G) /\ MapsNamed(resendAll(x), N, I, S, G)
<1> DEFINE e == Erase(x.containers, {id})
           y == [x EXCEPT !.containers = e]
<1>1. \/ resend(x, id) = resendSet(y, x.containers[id])
      \/ resend(x, id) = resendSet(x, {id})
  BY DEF resend
<1>2. Others(e, N, I)
  BY FewerOthers DEF MapsNamed
<1> HIDE DEF e
<1>3. MapsNamed(y, N, I, S, G)
  BY <1>2, ContainersNamed, Zenon
<1> HIDE DEF y
<1> QED
  BY <1>1, <1>3, ResendSetNamed DEF resendAll

LEMMA ClearNamed ==
    ASSUME NEW x, NEW N, NEW I, NEW S, NEW G, NEW old, MapsNamed(x, N, I, S, G)
    PROVE  MapsNamed(clearOldContainers(x, old), N, I, S, G)
<1> DEFINE e == Erase(x.containers, old)
           y == [x EXCEPT !.containers = e]
           ids == UNION {x.containers[c] : c \in old}
<1>1. clearOldContainers(x, old) = resendSet(y, ids)
  BY DEF clearOldContainers
<1>2. Others(e, N, I)
  BY FewerOthers DEF MapsNamed
<1> HIDE DEF e, ids
<1>3. MapsNamed(y, N, I, S, G)
  BY <1>2, ContainersNamed, Zenon
<1> HIDE DEF y
<1> QED
  BY <1>1, <1>3, ResendSetNamed

LEMMA AckSentNamed ==
    ASSUME NEW x, NEW N, NEW I, NEW S, NEW G, NEW ids, NEW b, NEW c,
           MapsNamed(x, N, I, S, G)
    PROVE  MapsNamed(ackSent(x, ids, b, c), N, I, S, G)
<1> DEFINE y == ackSent(x, ids, b, c)
           gone == {i \in ids \cap DOMAIN x.haveSent :
                       Acknowledges(x.haveSent[i], b, c)}
           kept == Keep(x.haveSent, gone)
<1> HIDE DEF gone
<1>1. /\ IsMaps(y) /\ y.haveSent = Erase(x.haveSent, gone)
      /\ y.resending = x.resending /\ y.acked = x.acked @@ kept
      /\ y.toSend = x.toSend /\ y.msgId = x.msgId
      /\ y.containers = x.containers /\ y.states = x.states
  BY DEF MapsNamed, IsMaps, ackSent, gone
<1> HIDE DEF y
<1>2. Named(y.acked, N, I)
  BY <1>1, EraseNamed, MergeNamed DEF MapsNamed
<1>3. Named(y.haveSent, N, I) /\ OfRequests(y.haveSent)
  BY <1>1, EraseNamed, EraseOfRequests DEF MapsNamed
<1>4. SentOnce(y, S, G)
  <2>1. SentOnce(x, S, G)
    BY DEF MapsNamed
  <2>2. ASSUME NEW s \in S, ~NotIn(s, kept)
        PROVE  s \notin x.toSend /\ NotIn(s, y.haveSent)
    <3>1. PICK i \in DOMAIN x.haveSent : x.haveSent[i] = s /\ i \in gone
      BY <2>2 DEF NotIn, Keep
    <3>2. \A j \in DOMAIN x.haveSent : x.haveSent[j] = s => j = i
      BY <2>1, <3>1 DEF SentOnce
    <3>3. NotIn(s, y.haveSent)
      BY <1>1, <3>1, <3>2 DEF NotIn, Erase
    <3> QED
      BY <2>1, <3>1, <3>3 DEF SentOnce
  <2> HIDE DEF kept
  <2>3. ASSUME NEW s \in S, ~NotIn(s, y.acked)
        PROVE  s \notin y.toSend /\ NotIn(s, y.haveSent)
    <3>1. ~NotIn(s, x.acked) \/ ~NotIn(s, kept)
      BY <1>1, <2>3, MergedIn
    <3> QED
      BY <1>1, <2>1, <2>2, <3>1, FewerIn DEF SentOnce
  <2>4. \A i \in DOMAIN y.haveSent : i \in DOMAIN x.haveSent /\ y.haveSent[i] = x.haveSent[i]
    BY <1>1 DEF Erase
  <2> QED
    BY <1>1, <2>1, <2>3, <2>4, FewerIn DEF SentOnce
<1> HIDE DEF kept
<1>9. MapsNamed(y, N, I, S, G)
  BY <1>1, <1>2, <1>3, <1>4 DEF MapsNamed
<1> QED
  BY <1>9 DEF y

LEMMA AckResendingNamed ==
    ASSUME NEW x, NEW N, NEW I, NEW S, NEW G, NEW ids, NEW b, NEW c,
           MapsNamed(x, N, I, S, G)
    PROVE  MapsNamed(ackResending(x, ids, b, c), N, I, S, G)
<1> DEFINE y == ackResending(x, ids, b, c)
           gone == {i \in ids \cap DOMAIN x.resending :
                       Acknowledges(x.resending[i], b, c)}
           queued == {i \in gone : x.resending[i] \in x.toSend}
           left == x.toSend \ {x.resending[i] : i \in queued}
           kept == Keep(x.resending, queued)
           more == x.acked @@ kept
           less == Erase(x.resending, gone)
<1>0. y = [x EXCEPT !.resending = less, !.toSend = left, !.acked = more]
  BY DEF ackResending
<1> HIDE DEF y, gone, queued, left, more, less
<1>1. /\ IsMaps(y) /\ y.haveSent = x.haveSent
      /\ y.resending = less /\ y.acked = more
      /\ y.toSend = left /\ y.msgId = x.msgId
      /\ y.containers = x.containers /\ y.states = x.states
  BY <1>0 DEF MapsNamed, IsMaps
<1>2. Named(y.acked, N, I) /\ Named(y.resending, N, I)
  BY <1>1, EraseNamed, MergeNamed DEF MapsNamed, more, less
<1>3. left \subseteq Requests
  BY DEF left, MapsNamed
<1>4. SentOnce(y, S, G)
  <2>1. SentOnce(x, S, G)
    BY DEF MapsNamed
  <2>2. ASSUME NEW s \in S, ~NotIn(s, kept)
        PROVE  s \notin left /\ NotIn(s, x.haveSent)
    <3>1. PICK i \in DOMAIN x.resending : x.resending[i] = s /\ i \in queued
      BY <2>2 DEF NotIn, Keep
    <3> QED
      BY <2>1, <3>1 DEF SentOnce, left
  <2> HIDE DEF kept
  <2>3. ASSUME NEW s \in S, ~NotIn(s, y.acked)
        PROVE  s \notin y.toSend /\ NotIn(s, y.haveSent)
    <3>1. ~NotIn(s, x.acked) \/ ~NotIn(s, kept)
      BY <1>1, <2>3, MergedIn DEF more
    <3> QED
      BY <1>1, <2>1, <2>2, <3>1 DEF SentOnce, left
  <2>4. \A i \in DOMAIN y.resending : i \in DOMAIN x.resending /\ y.resending[i] = x.resending[i]
    BY <1>1 DEF Erase, less
  <2>5. y.toSend \subseteq x.toSend
    BY <1>1 DEF left
  <2> QED
    BY <1>1, <2>1, <2>3, <2>4, <2>5 DEF SentOnce
<1> HIDE DEF kept
<1>9. MapsNamed(y, N, I, S, G)
  BY <1>1, <1>2, <1>3, <1>4 DEF MapsNamed
<1> QED
  BY <1>9 DEF y

LEMMA TrimNamed ==
    ASSUME NEW x, NEW N, NEW I, NEW S, NEW G, MapsNamed(x, N, I, S, G)
    PROVE  MapsNamed([x EXCEPT !.acked = trimAcked(@)], N, I, S, G)
<1> DEFINE y == [x EXCEPT !.acked = trimAcked(@)]
<1>1. /\ IsMaps(y) /\ y.haveSent = x.haveSent /\ y.resending = x.resending
      /\ y.acked = Keep(x.acked, Newest(x.acked))
      /\ y.toSend = x.toSend /\ y.msgId = x.msgId
      /\ y.containers = x.containers /\ y.states = x.states
  BY DEF MapsNamed, IsMaps, trimAcked
<1> HIDE DEF y
<1>2. Named(y.acked, N, I)
  BY <1>1, EraseNamed DEF MapsNamed
<1>3. SentOnce(y, S, G)
  BY <1>1, FewerIn DEF MapsNamed, SentOnce
<1>9. MapsNamed(y, N, I, S, G)
  BY <1>1, <1>2, <1>3 DEF MapsNamed
<1> QED
  BY <1>9 DEF y

LEMMA AckOnceNamed ==
    ASSUME NEW x, NEW N, NEW I, NEW S, NEW G, NEW ids, NEW b, NEW c,
           MapsNamed(x, N, I, S, G)
    PROVE  MapsNamed(ackOnce(x, ids, b, c), N, I, S, G)
<1> DEFINE boxes == ids \cap DOMAIN x.containers
           asked == (ids \ boxes) \cap DOMAIN x.states
           sent == (ids \ (boxes \cup asked)) \cap DOMAIN x.haveSent
           other == ids \ (boxes \cup asked \cup sent)
           e == Erase(x.containers, boxes)
           f == Erase(x.states, asked)
           x1 == [x EXCEPT !.containers = e, !.states = f]
           x2 == ackSent(x1, sent, b, c)
           x3 == ackResending(x2, other, b, c)
           x4 == [x3 EXCEPT !.acked = trimAcked(@)]
<1>1. ackOnce(x, ids, b, c) = x4
  BY DEF ackOnce
<1>0. Others(e, N, I) /\ Others(f, N, I)
  BY FewerOthers DEF MapsNamed
<1> HIDE DEF e, f
<1>2. /\ IsMaps(x1) /\ x1.haveSent = x.haveSent /\ x1.resending = x.resending
      /\ x1.acked = x.acked /\ x1.toSend = x.toSend /\ x1.msgId = x.msgId
      /\ x1.containers = e /\ x1.states = f
  BY DEF MapsNamed, IsMaps
<1> HIDE DEF x1
<1>3. MapsNamed(x2, N, I, S, G)
  <2>1. SentOnce(x1, S, G)
    BY <1>2 DEF MapsNamed, SentOnce
  <2>2. MapsNamed(x1, N, I, S, G)
    BY <1>0, <1>2, <2>1 DEF MapsNamed
  <2> QED
    BY <2>2, AckSentNamed
<1> HIDE DEF x2
<1>4. MapsNamed(x3, N, I, S, G)
  BY <1>3, AckResendingNamed
<1> HIDE DEF x3
<1>5. MapsNamed(x4, N, I, S, G)
  BY <1>4, TrimNamed
<1> QED
  BY <1>1, <1>5

LEMMA AckedNamed ==
    ASSUME NEW x, NEW N, NEW I, NEW S, NEW G, NEW ids, NEW b, NEW c,
           MapsNamed(x, N, I, S, G)
    PROVE  MapsNamed(requestsAcked(x, ids, b, c), N, I, S, G)
<1> DEFINE once == ackOnce(x, ids, b, c)
           more == UNION {x.containers[d] : d \in ids \cap DOMAIN x.containers}
           twice == ackOnce(once, more, FALSE, c)
<1>1. \/ requestsAcked(x, ids, b, c) = once
      \/ requestsAcked(x, ids, b, c) = twice
  BY DEF requestsAcked
<1>2. MapsNamed(once, N, I, S, G) /\ MapsNamed(twice, N, I, S, G)
  BY AckOnceNamed
<1> HIDE DEF once, more, twice
<1> QED
  BY <1>1, <1>2

LEMMA StatesNamed ==
    ASSUME NEW x, NEW N, NEW I, NEW S, NEW G, NEW ids, NEW got, NEW c,
           MapsNamed(x, N, I, S, G)
    PROVE  MapsNamed(handleMsgsStates(x, ids, got, c), N, I, S, G)
  BY ResendSetNamed, AckedNamed DEF handleMsgsStates

LEMMA MergeAt ==
    ASSUME NEW f, NEW g, NEW i, i \in DOMAIN (f @@ g)
    PROVE  \/ i \in DOMAIN f /\ (f @@ g)[i] = f[i]
           \/ i \in DOMAIN g /\ (f @@ g)[i] = g[i]
  BY DEF @@

(* wasSent() returns the request that the id was taken for, or none.       *)
LEMMA WasSentNamed ==
    ASSUME NEW x, NEW N, NEW I, NEW S, NEW G, NEW id, NEW sp, MapsNamed(x, N, I, S, G)
    PROVE  \/ wasSent(x, id, sp) \in {Other, 0}
           \/ /\ id \in I /\ wasSent(x, id, sp) = N[id]
              /\ id \in DOMAIN x.resending \cup DOMAIN x.acked \cup DOMAIN x.haveSent
<1> DEFINE c == [d \in DOMAIN x.containers |-> Other]
           z == id :> 0
           f1 == x.resending @@ x.acked
           f2 == f1 @@ c
           f3 == f2 @@ x.haveSent
           f4 == f3 @@ z
<1>1. CASE id \in sp
  BY <1>1 DEF wasSent
<1>2. CASE id \notin sp
  <2>1. wasSent(x, id, sp) = f4[id]
    BY <1>2 DEF wasSent
  <2>2. DOMAIN z = {id} /\ z[id] = 0 /\ \A d \in DOMAIN c : c[d] = Other
    BY DEF :>
  <2> HIDE DEF c, z
  <2>3. id \in DOMAIN f4
    BY <2>2 DEF @@
  <2> HIDE DEF f1, f2, f3, f4
  <2>4. \/ id \in DOMAIN f3 /\ f4[id] = f3[id]
        \/ f4[id] = 0
    BY <2>2, <2>3, MergeAt DEF f4
  <2>5. id \in DOMAIN f3 => \/ id \in DOMAIN f2 /\ f3[id] = f2[id]
                            \/ id \in DOMAIN x.haveSent /\ f3[id] = x.haveSent[id]
    BY MergeAt DEF f3
  <2>6. id \in DOMAIN f2 => \/ id \in DOMAIN f1 /\ f2[id] = f1[id]
                            \/ f2[id] = Other
    BY <2>2, MergeAt DEF f2
  <2>7. id \in DOMAIN f1 => \/ id \in DOMAIN x.resending /\ f1[id] = x.resending[id]
                            \/ id \in DOMAIN x.acked /\ f1[id] = x.acked[id]
    BY MergeAt DEF f1
  <2> QED
    BY <2>1, <2>4, <2>5, <2>6, <2>7 DEF MapsNamed, Named
<1> QED
  BY <1>1, <1>2

-----------------------------------------------------------------------------
(* The handlers of what is received: they keep the names, and what they    *)
(* give to the main thread is for the request that was answered.           *)

Names == [Nat -> made \cup {Other}]

Owned ==
    {m \in [req : made \cup {Other}, ok : BOOLEAN, of : made \cup {Other}] :
        m.req = m.of}

Told(out) == {out[i].req : i \in 1 .. Len(out)}

IsHandler(h) ==
    h \in [q : {h.q}, p : {h.p}, send : {h.send}, out : {h.out},
           skew : {h.skew}, res : {h.res}]

HandlerNamed(h, N, I, S, G) ==
    /\ IsHandler(h) /\ h.out \in Seq(Owned)
    /\ MapsNamed(h.q, N, I, S, G \cup Told(h.out))

LEMMA ToldMore ==
    ASSUME NEW E, NEW o \in Seq(E), NEW o2 \in Seq(E), NEW m \in E
    PROVE  Told(Append(o, m)) = Told(o) \cup {m.req} /\ Told(o \o o2) = Told(o) \cup Told(o2)
<1>1. Told(Append(o, m)) = Told(o) \cup {m.req}
  <2> DEFINE a == Append(o, m)
  <2>1. /\ Len(a) = Len(o) + 1 /\ Len(o) \in Nat /\ a[Len(o) + 1] = m
        /\ \A i \in 1 .. Len(o) : a[i] = o[i]
    OBVIOUS
  <2> HIDE DEF a
  <2>2. 1 .. Len(a) = (1 .. Len(o)) \cup {Len(o) + 1}
    BY <2>1
  <2>3. Told(a) = Told(o) \cup {m.req}
    BY <2>1, <2>2 DEF Told
  <2> QED
    BY <2>3 DEF a
<1>2. Told(o \o o2) = Told(o) \cup Told(o2)
  <2> DEFINE a == o \o o2
  <2>1. /\ Len(a) = Len(o) + Len(o2) /\ Len(o) \in Nat /\ Len(o2) \in Nat
        /\ \A i \in 1 .. Len(o) : a[i] = o[i]
        /\ \A i \in 1 .. Len(o2) : a[Len(o) + i] = o2[i]
    OBVIOUS
  <2> HIDE DEF a
  <2>2. \A i \in 1 .. Len(a) : i \in 1 .. Len(o) \/ i - Len(o) \in 1 .. Len(o2)
    BY <2>1
  <2>3. \A i \in 1 .. Len(o2) : Len(o) + i \in 1 .. Len(a)
    BY <2>1
  <2>4. 1 .. Len(o) \subseteq 1 .. Len(a)
    BY <2>1
  <2>5. \A i \in 1 .. Len(a) : a[i] \in {o[k] : k \in 1 .. Len(o)} \cup {o2[k] : k \in 1 .. Len(o2)}
    <3> TAKE i \in 1 .. Len(a)
    <3>1. CASE i \in 1 .. Len(o)
      BY <2>1, <3>1
    <3>2. CASE i - Len(o) \in 1 .. Len(o2)
      <4>1. Len(o) + (i - Len(o)) = i
        BY <2>1
      <4> QED
        BY <2>1, <3>2, <4>1
    <3> QED
      BY <2>2, <3>1, <3>2
  <2>6. Told(a) \subseteq Told(o) \cup Told(o2)
    BY <2>5 DEF Told
  <2>7. Told(o) \subseteq Told(a)
    BY <2>1, <2>4 DEF Told
  <2>8. Told(o2) \subseteq Told(a)
    BY <2>1, <2>3 DEF Told
  <2> QED
    BY <2>6, <2>7, <2>8 DEF a
<1> QED
  BY <1>1, <1>2

AnswersNamed(V, N, I) ==
    /\ Named(V.acc, N, I)
    /\ DOMAIN V.answers \subseteq DOMAIN V.acc
    /\ \A i \in DOMAIN V.answers : V.answers[i].ok \in BOOLEAN

LEMMA Received0Named ==
    ASSUME NEW N, NEW I, NEW S, NEW G, MapsNamed(q, N, I, S, G)
    PROVE  HandlerNamed(received0, N, I, S, G)
<1> DEFINE up == (p.salt # srv.salt /\ clock.skew = "none") /\ p.state = "Connecting"
           x == IF up THEN resendAll(q) ELSE q
           h == received0
<1> HIDE DEF up
<1>1. MapsNamed(x, N, I, S, G)
  BY ResendNamed
<1> HIDE DEF x
<1>2. IsHandler(h) /\ h.q = x /\ h.out = <<>>
  BY DEF received0, IsHandler, x, up
<1> HIDE DEF h
<1>3. HandlerNamed(h, N, I, S, G)
  <2>1. Told(h.out) = {}
    BY <1>2 DEF Told
  <2>2. G \cup Told(h.out) = G
    BY <2>1
  <2>3. h.out \in Seq(Owned)
    BY <1>2
  <2> QED
    BY <1>1, <1>2, <2>2, <2>3 DEF HandlerNamed
<1> QED
  BY <1>3 DEF h

LEMMA FixNamed ==
    ASSUME NEW h, NEW N, NEW I, NEW S, NEW G, HandlerNamed(h, N, I, S, G)
    PROVE  HandlerNamed(fixTimeSalt(h), N, I, S, G) /\ HandlerNamed(fixTimeIfBad(h), N, I, S, G)
<1> DEFINE g == fixTimeSalt(h)
<1>1. IsHandler(g) /\ g.q = h.q /\ g.out = h.out
  BY DEF fixTimeSalt, HandlerNamed, IsHandler
<1> HIDE DEF g
<1>2. HandlerNamed(g, N, I, S, G)
  BY <1>1 DEF HandlerNamed
<1> QED
  BY <1>2 DEF g, fixTimeIfBad

LEMMA MapsStep ==
    ASSUME NEW h, NEW N, NEW I, NEW S, NEW G, NEW x, NEW g,
           HandlerNamed(h, N, I, S, G), MapsNamed(x, N, I, S, G \cup Told(h.out)),
           g = [h EXCEPT !.q = x]
    PROVE  HandlerNamed(g, N, I, S, G)
<1>1. IsHandler(g) /\ g.q = x /\ g.out = h.out
  BY DEF HandlerNamed, IsHandler
<1> QED
  BY <1>1 DEF HandlerNamed

LEMMA ResendInNamed ==
    ASSUME NEW h, NEW N, NEW I, NEW S, NEW G, NEW id, HandlerNamed(h, N, I, S, G)
    PROVE  HandlerNamed(resendIn(h, id), N, I, S, G)
<1> DEFINE x == resend(h.q, id)
           g == resendIn(h, id)
<1>1. MapsNamed(x, N, I, S, G \cup Told(h.out))
  BY ResendNamed DEF HandlerNamed
<1> HIDE DEF x
<1>2. IsHandler(g) /\ g.q = x /\ g.out = h.out
  BY DEF HandlerNamed, IsHandler, resendIn, x
<1> HIDE DEF g
<1>3. HandlerNamed(g, N, I, S, G)
  BY <1>1, <1>2 DEF HandlerNamed
<1> QED
  BY <1>3 DEF g

LEMMA OnAckNamed ==
    ASSUME NEW h, NEW N, NEW I, NEW S, NEW G, NEW id, HandlerNamed(h, N, I, S, G)
    PROVE  HandlerNamed(onAck(h, id), N, I, S, G) /\ HandlerNamed(onPong(h, id), N, I, S, G)
<1> DEFINE f == fixTimeIfBad(h)
           x == requestsAcked(f.q, {id}, FALSE, callbacks)
           y == requestsAcked(f.q, {id}, TRUE, callbacks)
           g == [f EXCEPT !.q = x]
           k == [f EXCEPT !.q = y]
<1>1. onAck(h, id) \in {h, g} /\ onPong(h, id) \in {h, k}
  BY DEF onAck, onPong
<1>2. HandlerNamed(f, N, I, S, G)
  BY FixNamed
<1> HIDE DEF f
<1>3. MapsNamed(x, N, I, S, G \cup Told(f.out)) /\ MapsNamed(y, N, I, S, G \cup Told(f.out))
  BY <1>2, AckedNamed DEF HandlerNamed
<1> HIDE DEF x, y
<1>4. HandlerNamed(g, N, I, S, G)
  BY <1>2, <1>3, MapsStep, Zenon
<1>5. HandlerNamed(k, N, I, S, G)
  BY <1>2, <1>3, MapsStep, Zenon
<1> HIDE DEF g, k
<1> QED
  BY <1>1, <1>4, <1>5

LEMMA OnBadIdNamed ==
    ASSUME NEW h, NEW N, NEW I, NEW S, NEW G, NEW id, HandlerNamed(h, N, I, S, G)
    PROVE  HandlerNamed(onBadId(h, id), N, I, S, G)
  BY FixNamed, ResendInNamed DEF onBadId

LEMMA ResultNamed ==
    ASSUME NEW h, NEW N, NEW I, NEW S, NEW G, NEW res, NEW g, HandlerNamed(h, N, I, S, G),
           g = [h EXCEPT !.res = res]
    PROVE  HandlerNamed(g, N, I, S, G)
<1>1. IsHandler(g) /\ g.q = h.q /\ g.out = h.out
  BY DEF HandlerNamed, IsHandler
<1> QED
  BY <1>1 DEF HandlerNamed

LEMMA OnBadSeqNamed ==
    ASSUME NEW h, NEW N, NEW I, NEW S, NEW G, NEW id, HandlerNamed(h, N, I, S, G)
    PROVE  HandlerNamed(onBadSeq(h, id), N, I, S, G) /\ HandlerNamed(onUpdate(h), N, I, S, G)
<1> DEFINE f == fixTimeIfBad(h)
           g == [f EXCEPT !.res = "ResetSession"]
           k == [h EXCEPT !.res = "ResetSession"]
<1>1. onBadSeq(h, id) \in {h, g} /\ onUpdate(h) \in {h, k}
  BY DEF onBadSeq, onUpdate
<1>2. HandlerNamed(f, N, I, S, G)
  BY FixNamed
<1> HIDE DEF f
<1>3. HandlerNamed(g, N, I, S, G)
  BY <1>2, ResultNamed, Zenon
<1>4. HandlerNamed(k, N, I, S, G)
  <2>1. IsHandler(k) /\ k.q = h.q /\ k.out = h.out
    BY DEF HandlerNamed, IsHandler
  <2> HIDE DEF k
  <2> QED
    BY <2>1 DEF HandlerNamed
<1> HIDE DEF g, k
<1> QED
  BY <1>1, <1>3, <1>4

(* A request that is told to the main thread is gone from the maps.        *)
LEMMA GivenNamed ==
    ASSUME NEW h, NEW N, NEW I, NEW S, NEW G, NEW m \in Owned, NEW g,
           HandlerNamed(h, N, I, S, G), IsHandler(g), g.q = h.q, g.out = Append(h.out, m),
           m.req \in S => m.req \notin h.q.toSend /\ NotIn(m.req, h.q.haveSent)
    PROVE  HandlerNamed(g, N, I, S, G)
<1>2. g.out \in Seq(Owned) /\ Told(g.out) = Told(h.out) \cup {m.req}
  BY ToldMore DEF HandlerNamed
<1>3. SentOnce(h.q, S, G \cup Told(g.out))
  <2>1. SentOnce(h.q, S, G \cup Told(h.out))
    BY DEF HandlerNamed, MapsNamed
  <2> QED
    BY <1>2, <2>1 DEF SentOnce, NotIn
<1>4. MapsNamed(h.q, N, I, S, G \cup Told(g.out))
  BY <1>3 DEF HandlerNamed, MapsNamed
<1> QED
  BY <1>2, <1>4 DEF HandlerNamed

LEMMA FewerHandled ==
    ASSUME NEW h, NEW N, NEW I, NEW S, NEW G, NEW T, HandlerNamed(h, N, I, S, G)
    PROVE  HandlerNamed(h, N, I, S \ T, G)
<1>1. MapsNamed(h.q, N, I, S \ T, G \cup Told(h.out))
  BY FewerNamed DEF HandlerNamed
<1> QED
  BY <1>1 DEF HandlerNamed

(* A request that is refused for good is told too, and stays in haveSent.  *)
LEMMA OnFatalNamed ==
    ASSUME NEW h, NEW N \in Names, NEW I \in SUBSET Nat, NEW S, NEW G, NEW id,
           HandlerNamed(h, N, I, S, G)
    PROVE  HandlerNamed(onFatal(h, id), N, I, S \ Told(onFatal(h, id).out), G)
<1> DEFINE r == wasSent(h.q, id, special(h.p))
           m == [req |-> r, ok |-> FALSE, of |-> r]
           g == [h EXCEPT !.out = Append(@, m)]
           k == onFatal(h, id)
           T == S \ Told(k.out)
<1>1. k = h \/ (r # 0 /\ k = g)
  BY DEF onFatal, known
<1>2. r \in {Other, 0} \/ (id \in I /\ r = N[id])
  BY WasSentNamed DEF HandlerNamed
<1> HIDE DEF r, k
<1>3. HandlerNamed(h, N, I, T, G)
  BY FewerHandled
<1>4. ASSUME r # 0, k = g
      PROVE  HandlerNamed(k, N, I, T, G)
  <2>1. r \in made \cup {Other}
    BY <1>2, <1>4 DEF Names
  <2>2. m \in Owned /\ m.req = r
    BY <2>1 DEF Owned
  <2> HIDE DEF m
  <2>3. IsHandler(k) /\ k.q = h.q /\ k.out = Append(h.out, m)
    BY <1>4 DEF HandlerNamed, IsHandler
  <2>4. m.req \notin T
    BY <2>2, <2>3, ToldMore DEF HandlerNamed
  <2> HIDE DEF T
  <2> QED
    BY <1>3, <2>2, <2>3, <2>4, GivenNamed
<1> QED
  BY <1>1, <1>3, <1>4 DEF k

LEMMA OnBadSaltNamed ==
    ASSUME NEW h, NEW N, NEW I, NEW S, NEW G, NEW id, HandlerNamed(h, N, I, S, G)
    PROVE  HandlerNamed(onBadSalt(h, id), N, I, S, G)
<1> DEFINE f == fixTimeSalt(h)
           x == IF h.p.state = "Connecting" THEN resendAll(f.q) ELSE f.q
           g == [f EXCEPT !.q = x, !.p.state = IF h.p.state = "Connecting"
                                               THEN "Connected" ELSE @]
<1>1. onBadSalt(h, id) = h \/ onBadSalt(h, id) = resendIn(g, id)
  BY DEF onBadSalt
<1>2. HandlerNamed(f, N, I, S, G)
  BY FixNamed
<1> HIDE DEF f
<1>3. MapsNamed(x, N, I, S, G \cup Told(f.out))
  BY <1>2, ResendNamed DEF HandlerNamed
<1> HIDE DEF x
<1>4. IsHandler(g) /\ g.q = x /\ g.out = f.out
  BY <1>2 DEF HandlerNamed, IsHandler
<1> HIDE DEF g
<1>5. HandlerNamed(g, N, I, S, G)
  BY <1>2, <1>3, <1>4 DEF HandlerNamed
<1> QED
  BY <1>1, <1>5, ResendInNamed

Notices == {"badId", "badSeq", "fatal", "badSalt", "pong"}

LEMMA OnNoticeNamed ==
    ASSUME NEW h, NEW N \in Names, NEW I \in SUBSET Nat, NEW S, NEW G, NEW n,
           n.kind \in Notices, HandlerNamed(h, N, I, S, G)
    PROVE  HandlerNamed(onNotice(h, n), N, I,
               IF n.kind = "fatal" THEN S \ Told(onNotice(h, n).out) ELSE S, G)
<1>1. CASE n.kind = "badId"
  BY <1>1, OnBadIdNamed DEF onNotice
<1>2. CASE n.kind = "badSeq"
  BY <1>2, OnBadSeqNamed DEF onNotice
<1>3. CASE n.kind = "fatal"
  BY <1>3, OnFatalNamed DEF onNotice
<1>4. CASE n.kind = "badSalt"
  BY <1>4, OnBadSaltNamed DEF onNotice
<1>5. CASE n.kind = "pong"
  BY <1>5, OnAckNamed DEF onNotice
<1> QED
  BY <1>1, <1>2, <1>3, <1>4, <1>5 DEF Notices

LEMMA OnStateInfoNamed ==
    ASSUME NEW h, NEW N, NEW I, NEW S, NEW G, NEW id, HandlerNamed(h, N, I, S, G)
    PROVE  HandlerNamed(onStateInfo(h, id), N, I, S, G)
<1> DEFINE f == fixTimeIfBad(h)
           ids == h.q.states[id]
           x == requestsAcked(f.q, {id}, TRUE, callbacks)
           y == handleMsgsStates(x, ids, DOMAIN srv.acc, callbacks)
           b == ~((ids \cap DOMAIN x.haveSent) \subseteq DOMAIN srv.acc)
           g == [f EXCEPT !.q = y, !.send = @ \/ b]
<1>1. onStateInfo(h, id) = h \/ onStateInfo(h, id) = g
  BY DEF onStateInfo
<1>2. HandlerNamed(f, N, I, S, G)
  BY FixNamed
<1> HIDE DEF f, b
<1>3. MapsNamed(x, N, I, S, G \cup Told(f.out))
  BY <1>2, AckedNamed DEF HandlerNamed
<1> HIDE DEF x, ids
<1>4. MapsNamed(y, N, I, S, G \cup Told(f.out))
  BY <1>3, StatesNamed
<1> HIDE DEF y
<1>5. IsHandler(g) /\ g.q = y /\ g.out = f.out
  BY <1>2 DEF HandlerNamed, IsHandler
<1> HIDE DEF g
<1>6. HandlerNamed(g, N, I, S, G)
  BY <1>2, <1>4, <1>5 DEF HandlerNamed
<1> QED
  BY <1>1, <1>6

LEMMA OnDetailedInfoNamed ==
    ASSUME NEW h, NEW N, NEW I, NEW S, NEW G, NEW id, HandlerNamed(h, N, I, S, G)
    PROVE  HandlerNamed(onDetailedInfo(h, id), N, I, S, G)
<1> DEFINE f == fixTimeIfBad(h)
           aid == srv.answers[id].aid
           x == requestsAcked(f.q, {id}, FALSE, callbacks)
           b == aid \in f.p.got
           g == [f EXCEPT !.q = x, !.p.acks = @ \/ b,
                          !.p.refetch = IF b THEN @ ELSE @ \cup {aid}]
<1>1. onDetailedInfo(h, id) = h \/ onDetailedInfo(h, id) = g
  BY DEF onDetailedInfo
<1>2. HandlerNamed(f, N, I, S, G)
  BY FixNamed
<1> HIDE DEF f, aid
<1>3. MapsNamed(x, N, I, S, G \cup Told(f.out))
  BY <1>2, AckedNamed DEF HandlerNamed
<1> HIDE DEF x, b
<1>5. IsHandler(g) /\ g.q = x /\ g.out = f.out
  BY <1>2 DEF HandlerNamed, IsHandler
<1> HIDE DEF g
<1>6. HandlerNamed(g, N, I, S, G)
  BY <1>2, <1>3, <1>5 DEF HandlerNamed
<1> QED
  BY <1>1, <1>6

LEMMA OnNewSessionNamed ==
    ASSUME NEW h, NEW N, NEW I, NEW S, NEW G, NEW first, HandlerNamed(h, N, I, S, G)
    PROVE  HandlerNamed(onNewSession(h, first), N, I, S, G)
<1> DEFINE f == fixTimeIfBad(h)
           again == {i \in DOMAIN f.q.haveSent : i < first}
           x == resendSet(f.q, again)
           g == [f EXCEPT !.p.salt = srv.salt, !.q = x, !.send = @ \/ again # {}]
<1>1. onNewSession(h, first) = h \/ onNewSession(h, first) = g
  BY DEF onNewSession
<1>2. HandlerNamed(f, N, I, S, G)
  BY FixNamed
<1> HIDE DEF f, again
<1>3. MapsNamed(x, N, I, S, G \cup Told(f.out))
  BY <1>2, ResendSetNamed DEF HandlerNamed
<1> HIDE DEF x
<1>5. IsHandler(g) /\ g.q = x /\ g.out = f.out
  BY <1>2 DEF HandlerNamed, IsHandler
<1> HIDE DEF g
<1>6. HandlerNamed(g, N, I, S, G)
  BY <1>2, <1>3, <1>5 DEF HandlerNamed
<1> QED
  BY <1>1, <1>6

LEMMA NoOther ==
    ASSUME NEW r \in Requests
    PROVE  r # Other /\ r # 0
  BY RequestsAreIds DEF Other

LEMMA FoundNamed ==
    ASSUME NEW x, NEW N, NEW I, NEW S, NEW G, NEW id, NEW sp, MapsNamed(x, N, I, S, G),
           NEW r \in Requests, r = wasSent(x, id, sp)
    PROVE  /\ id \in I /\ N[id] = r
           /\ id \in DOMAIN x.resending \cup DOMAIN x.acked \cup DOMAIN x.haveSent
<1>1. r # Other /\ r # 0
  BY NoOther
<1>2. \/ wasSent(x, id, sp) \in {Other, 0}
      \/ /\ id \in I /\ wasSent(x, id, sp) = N[id]
         /\ id \in DOMAIN x.resending \cup DOMAIN x.acked \cup DOMAIN x.haveSent
  BY WasSentNamed
<1> QED
  BY <1>1, <1>2

(* A request whose answer is found, by the msg_id that the server answers, *)
(* is gone from the maps: requestsAcked() has seen to it.                  *)
LEMMA AnsweredGone ==
    ASSUME NEW x, NEW N, NEW I, NEW S, NEW G, NEW id, NEW c, NEW sp,
           MapsNamed(x, N, I, S, G), NEW y, y = requestsAcked(x, {id}, TRUE, c),
           NEW r \in Requests, r = wasSent(y, id, sp), r \in S
    PROVE  r \notin y.toSend /\ NotIn(r, y.haveSent)
<1>1. MapsNamed(y, N, I, S, G)
  BY AckedNamed
<1>2. r # Other /\ r # 0
  BY NoOther
<1>3. /\ id \in I /\ N[id] = r
      /\ id \in DOMAIN y.resending \cup DOMAIN y.acked \cup DOMAIN y.haveSent
  BY <1>1, FoundNamed
<1>4. id \notin DOMAIN x.containers /\ id \notin DOMAIN x.states
  BY <1>2, <1>3 DEF MapsNamed, Others
<1> DEFINE boxes == {id} \cap DOMAIN x.containers
           asked == ({id} \ boxes) \cap DOMAIN x.states
           sent == ({id} \ (boxes \cup asked)) \cap DOMAIN x.haveSent
           other == {id} \ (boxes \cup asked \cup sent)
           e == Erase(x.containers, boxes)
           f == Erase(x.states, asked)
           x1 == [x EXCEPT !.containers = e, !.states = f]
           x2 == ackSent(x1, sent, TRUE, c)
           x3 == ackResending(x2, other, TRUE, c)
           x4 == [x3 EXCEPT !.acked = trimAcked(@)]
           more == UNION {x.containers[d] : d \in boxes}
<1>5. /\ sent = {id} \cap DOMAIN x.haveSent /\ other = {id} \ DOMAIN x.haveSent
      /\ more = {}
  BY <1>4
<1>6. y = x4
  <2>1. ackOnce(x, {id}, TRUE, c) = x4
    BY DEF ackOnce
  <2>2. y = ackOnce(x, {id}, TRUE, c)
    BY <1>5 DEF requestsAcked
  <2> QED
    BY <2>1, <2>2
<1> HIDE DEF e, f, sent, other
<1>7. /\ IsMaps(x1) /\ x1.haveSent = x.haveSent /\ x1.resending = x.resending
      /\ x1.toSend = x.toSend
  BY DEF MapsNamed, IsMaps
<1> HIDE DEF x1
<1>8. /\ IsMaps(x2) /\ x2.haveSent = Erase(x.haveSent, {id})
      /\ x2.resending = x.resending /\ x2.toSend = x.toSend
  <2> DEFINE gone == {i \in sent \cap DOMAIN x1.haveSent :
                         Acknowledges(x1.haveSent[i], TRUE, c)}
             h2 == Erase(x1.haveSent, gone)
             a2 == x1.acked @@ Keep(x1.haveSent, gone)
  <2>1. x2 = [x1 EXCEPT !.haveSent = h2, !.acked = a2]
    BY DEF ackSent
  <2>2. gone = {id} \cap DOMAIN x.haveSent
    BY <1>5, <1>7 DEF Acknowledges
  <2>3. h2 = Erase(x.haveSent, {id})
    <3>1. DOMAIN x.haveSent \ gone = DOMAIN x.haveSent \ {id}
      BY <2>2
    <3> QED
      BY <1>7, <3>1 DEF Erase
  <2> HIDE DEF h2, a2, x2
  <2> QED
    BY <1>7, <2>1, <2>3 DEF IsMaps
<1> HIDE DEF x2
<1> DEFINE gone == {i \in other \cap DOMAIN x2.resending :
                       Acknowledges(x2.resending[i], TRUE, c)}
           queued == {i \in gone : x2.resending[i] \in x2.toSend}
           left == x2.toSend \ {x2.resending[i] : i \in queued}
           kept == x2.acked @@ Keep(x2.resending, queued)
           less == Erase(x2.resending, gone)
<1>9. /\ IsMaps(x3) /\ x3.haveSent = x2.haveSent /\ x3.toSend = left
      /\ x3.resending = less
  <2>1. x3 = [x2 EXCEPT !.resending = less, !.toSend = left, !.acked = kept]
    BY DEF ackResending
  <2> HIDE DEF x3, less, left, kept
  <2> QED
    BY <1>8, <2>1 DEF IsMaps
<1> HIDE DEF x3
<1>10. /\ y.haveSent = Erase(x.haveSent, {id}) /\ y.toSend = left
       /\ y.resending = less
  BY <1>6, <1>8, <1>9 DEF IsMaps
<1>11. gone = other \cap DOMAIN x.resending /\ left \subseteq x.toSend
  BY <1>8 DEF Acknowledges
<1>12. SentOnce(x, S, G) /\ SentOnce(y, S, G)
  BY <1>1 DEF MapsNamed
<1>13. /\ id \in DOMAIN x.haveSent => x.haveSent[id] = r
       /\ id \in DOMAIN x.resending => x.resending[id] = r
       /\ id \in DOMAIN y.acked => y.acked[id] = r
  BY <1>1, <1>3 DEF MapsNamed, Named
<1>14. CASE id \in DOMAIN x.haveSent
  <2>1. r \notin x.toSend /\ \A j \in DOMAIN x.haveSent : x.haveSent[j] = r => j = id
    BY <1>12, <1>13, <1>14 DEF SentOnce
  <2>2. NotIn(r, y.haveSent)
    BY <1>10, <2>1 DEF NotIn, Erase
  <2> QED
    BY <1>10, <1>11, <2>1, <2>2
<1>15. CASE id \notin DOMAIN x.haveSent /\ id \in DOMAIN x.resending
  <2>1. NotIn(r, x.haveSent)
    BY <1>12, <1>13, <1>15 DEF SentOnce
  <2>2. NotIn(r, y.haveSent)
    <3>1. NotIn(r, Erase(x.haveSent, {id}))
      BY <2>1, FewerIn
    <3> QED
      BY <1>10, <3>1
  <2>3. id \in gone
    BY <1>5, <1>11, <1>15
  <2>4. r \notin left
    BY <1>8, <1>13, <1>15, <2>3
  <2> QED
    BY <1>10, <2>2, <2>4
<1>16. CASE id \notin DOMAIN x.haveSent /\ id \notin DOMAIN x.resending
  <2>1. id \notin DOMAIN y.haveSent /\ id \notin DOMAIN y.resending
    BY <1>8, <1>10, <1>16 DEF Erase
  <2>2. ~NotIn(r, y.acked)
    BY <1>3, <1>13, <2>1 DEF NotIn
  <2> QED
    BY <1>12, <2>2 DEF SentOnce
<1> QED
  BY <1>14, <1>15, <1>16

(* rpc_result: the request is found by the msg_id that the server answers. *)
LEMMA OnResultNamed ==
    ASSUME NEW h, NEW N \in Names, NEW I \in SUBSET Nat, NEW S, NEW G,
           NEW id \in DOMAIN srv.acc, NEW ok \in BOOLEAN,
           HandlerNamed(h, N, I, S, G), Named(srv.acc, N, I)
    PROVE  HandlerNamed(onResult(h, id, ok), N, I, S, G)
<1> DEFINE f == fixTimeIfBad(h)
           x == requestsAcked(f.q, {id}, TRUE, callbacks)
           r == wasSent(x, id, special(f.p))
           m == [req |-> r, ok |-> ok, of |-> srv.acc[id]]
           g == [f EXCEPT !.q = x]
           k == [g EXCEPT !.p.bind = 0, !.p.key = IF ok THEN "bound" ELSE @,
                          !.send = TRUE]
           l == [g EXCEPT !.out = Append(@, m)]
<1>1. \/ onResult(h, id, ok) = h \/ onResult(h, id, ok) = k
      \/ onResult(h, id, ok) = [f EXCEPT !.q = x, !.out = IF r \in Requests
                                                          THEN Append(@, m) ELSE @]
  BY DEF onResult, onBound
<1>2. HandlerNamed(f, N, I, S, G)
  BY FixNamed
<1> HIDE DEF f
<1>3. MapsNamed(x, N, I, S, G \cup Told(f.out))
  BY <1>2, AckedNamed DEF HandlerNamed
<1>4. r \in Requests /\ r \in S => r \notin x.toSend /\ NotIn(r, x.haveSent)
  BY <1>2, AnsweredGone DEF HandlerNamed
<1> HIDE DEF x
<1>5. r \in {Other, 0} \/ (id \in I /\ r = N[id])
  BY <1>3, WasSentNamed
<1> HIDE DEF r
<1>6. r \in Requests => m \in Owned /\ m.req = r
  <2>1. r \in Requests => r # Other /\ r # 0
    BY RequestsAreIds DEF Other
  <2>2. srv.acc[id] = N[id] /\ (id \in I => N[id] \in made \cup {Other})
    BY DEF Named, Names
  <2> QED
    BY <1>5, <2>1, <2>2 DEF Owned
<1> HIDE DEF m
<1>7. IsHandler(g) /\ g.q = x /\ g.out = f.out
  BY <1>2 DEF HandlerNamed, IsHandler
<1>8. HandlerNamed(g, N, I, S, G)
  BY <1>2, <1>3, <1>7 DEF HandlerNamed
<1>9. \/ onResult(h, id, ok) = h \/ onResult(h, id, ok) = k
      \/ onResult(h, id, ok) = g \/ (r \in Requests /\ onResult(h, id, ok) = l)
  <2>1. r \in Requests => [f EXCEPT !.q = x, !.out = IF r \in Requests
                                                     THEN Append(@, m) ELSE @] = l
    OBVIOUS
  <2>2. r \notin Requests => [f EXCEPT !.q = x, !.out = IF r \in Requests
                                                        THEN Append(@, m) ELSE @] = g
    <3> DEFINE n == [f EXCEPT !.q = x, !.out = IF r \in Requests THEN Append(@, m) ELSE @]
    <3> SUFFICES ASSUME r \notin Requests PROVE n = g
      OBVIOUS
    <3> QED
      BY <1>2 DEF HandlerNamed, IsHandler
  <2> QED
    BY <1>1, <2>1, <2>2
<1> HIDE DEF g
<1>10. HandlerNamed(k, N, I, S, G)
  <2>1. IsHandler(k) /\ k.q = g.q /\ k.out = g.out
    BY <1>7 DEF IsHandler
  <2> HIDE DEF k
  <2> QED
    BY <1>8, <2>1 DEF HandlerNamed
<1>11. r \in Requests => HandlerNamed(l, N, I, S, G)
  <2> SUFFICES ASSUME r \in Requests PROVE HandlerNamed(l, N, I, S, G)
    OBVIOUS
  <2>1. m.req \in S => m.req \notin g.q.toSend /\ NotIn(m.req, g.q.haveSent)
    BY <1>4, <1>6, <1>7
  <2>2. IsHandler(l) /\ l.q = g.q /\ l.out = Append(g.out, m)
    BY <1>7 DEF IsHandler
  <2> HIDE DEF l
  <2> QED
    BY <1>6, <1>8, <2>1, <2>2, GivenNamed
<1> HIDE DEF k, l
<1> QED
  BY <1>8, <1>9, <1>10, <1>11

LEMMA OnAnswerNamed ==
    ASSUME NEW h, NEW N \in Names, NEW I \in SUBSET Nat, NEW S, NEW G,
           NEW id \in DOMAIN srv.answers, NEW lost \in BOOLEAN,
           HandlerNamed(h, N, I, S, G), AnswersNamed(srv, N, I)
    PROVE  HandlerNamed(onAnswer(h, id, lost), N, I, S, G)
<1> DEFINE a == srv.answers[id]
           how == registerMsgId(h.p.got, a.aid)
           g == [h EXCEPT !.p.acks = TRUE,
                          !.p.got = IF how = "Success" THEN shrink(@ \cup {a.aid})
                                    ELSE @]
           j == [g EXCEPT !.res = "ResetSession"]
           k == [g EXCEPT !.res = "DestroyTemporaryKey"]
<1>1. how \in {"Duplicate", "TooOld", "Success"}
  BY DEF registerMsgId
<1>2. \/ onAnswer(h, id, lost) = g \/ onAnswer(h, id, lost) = j
      \/ onAnswer(h, id, lost) = k \/ onAnswer(h, id, lost) = onResult(g, id, a.ok)
  BY <1>1 DEF onAnswer
<1> HIDE DEF how
<1>3. IsHandler(g) /\ g.q = h.q /\ g.out = h.out
  BY DEF HandlerNamed, IsHandler
<1> HIDE DEF g
<1>4. HandlerNamed(g, N, I, S, G)
  BY <1>3 DEF HandlerNamed
<1>5. HandlerNamed(j, N, I, S, G)
  BY <1>4, ResultNamed, Zenon
<1>6. HandlerNamed(k, N, I, S, G)
  BY <1>4, ResultNamed, Zenon
<1>7. HandlerNamed(onResult(g, id, a.ok), N, I, S, G)
  BY <1>4, OnResultNamed DEF AnswersNamed
<1> HIDE DEF j, k
<1> QED
  BY <1>2, <1>4, <1>5, <1>6, <1>7

-----------------------------------------------------------------------------
(* tryToSend(): the msg_ids that it takes are new, and each is taken for   *)
(* one request.                                                            *)

LEMMA RankLemma ==
    ASSUME NEW R \in SUBSET Requests, NEW r \in R, NEW s \in R
    PROVE  /\ Cardinality({x \in R : x < r}) \in Nat
           /\ Cardinality(R) \in Nat
           /\ Cardinality({x \in R : x < r}) < Cardinality(R)
           /\ r # s => Cardinality({x \in R : x < r}) # Cardinality({x \in R : x < s})
<1>1. IsFiniteSet(R)
  BY RequestsAreIds, FS_Subset
<1>2. \A a \in R : a \in Nat
  BY RequestsAreIds
<1> DEFINE L(a) == {x \in R : x < a}
<1>3. \A a \in R : L(a) \in SUBSET R /\ a \notin L(a)
  BY <1>2
<1>4. \A a, b \in R : a < b => L(a) \in SUBSET L(b) /\ a \in L(b)
  BY <1>2
<1>5. r < s \/ s < r \/ r = s
  BY <1>2
<1> HIDE DEF L
<1>6. \A a \in R : IsFiniteSet(L(a)) /\ Cardinality(L(a)) \in Nat
  BY <1>1, <1>3, FS_Subset, FS_CardinalityType
<1>7. \A a, b \in R : a < b => Cardinality(L(a)) # Cardinality(L(b))
  <2> SUFFICES ASSUME NEW a \in R, NEW b \in R, a < b
               PROVE  Cardinality(L(a)) # Cardinality(L(b))
    OBVIOUS
  <2>1. L(a) \in SUBSET L(b) /\ a \in L(b) /\ a \notin L(a)
    BY <1>3, <1>4
  <2> QED
    BY <1>6, <2>1, FS_Subset
<1>8. Cardinality(R) \in Nat /\ Cardinality(L(r)) <= Cardinality(R)
      /\ Cardinality(L(r)) # Cardinality(R)
  BY <1>1, <1>3, FS_Subset, FS_CardinalityType
<1>9. Cardinality(L(r)) < Cardinality(R)
  BY <1>6, <1>8
<1>10. r # s => Cardinality(L(r)) # Cardinality(L(s))
  BY <1>5, <1>7
<1> QED
  BY <1>6, <1>8, <1>9, <1>10 DEF L

LEMMA NewIds ==
    ASSUME NEW x, NEW next \in Nat \ {0}, NEW force, x.toSend \in SUBSET Requests,
           NEW r \in renamed(x, next, force), NEW s \in renamed(x, next, force)
    PROVE  /\ Cardinality(renamed(x, next, force)) \in Nat
           /\ newMsgId(x, next, force, r) \in Nat
           /\ next <= newMsgId(x, next, force, r)
           /\ newMsgId(x, next, force, r)
                < next + Cardinality(renamed(x, next, force))
           /\ r # s => newMsgId(x, next, force, r) # newMsgId(x, next, force, s)
<1> DEFINE R == renamed(x, next, force)
           c(a) == Cardinality({y \in R : y < a})
<1>1. R \in SUBSET Requests
  BY DEF renamed
<1>2. newMsgId(x, next, force, r) = next + c(r) /\ newMsgId(x, next, force, s) = next + c(s)
  BY DEF newMsgId
<1> HIDE DEF R
<1>3. c(r) \in Nat /\ c(s) \in Nat /\ Cardinality(R) \in Nat /\ c(r) < Cardinality(R)
      /\ (r # s => c(r) # c(s))
  <2>1. r \in R /\ s \in R
    BY DEF R
  <2> QED
    BY <1>1, <2>1, RankLemma
<1> HIDE DEF c
<1>4. next + c(r) \in Nat /\ next <= next + c(r) /\ next + c(r) < next + Cardinality(R)
      /\ (r # s => next + c(r) # next + c(s))
  BY <1>3
<1> QED
  BY <1>2, <1>3, <1>4 DEF R

(* More ids are issued, and the requests of old take new ones.             *)
Extends(N, I, M, J) == I \subseteq J /\ \A i \in I : M[i] = N[i]

Renames(old, new, N, I, M, J) ==
    \A r \in DOMAIN old : /\ old[r] \in I /\ N[old[r]] = r
                          /\ new[r] \in J /\ M[new[r]] = r

LEMMA RenameAt ==
    ASSUME NEW f, NEW old, NEW new, NEW i \in DOMAIN rename(f, old, new)
    PROVE  \/ i \in DOMAIN f /\ rename(f, old, new)[i] = f[i]
           \/ \E r \in DOMAIN old : /\ old[r] \in DOMAIN f /\ new[r] = i
                                    /\ rename(f, old, new)[i] = f[old[r]]
<1> DEFINE moved == {r \in DOMAIN old : old[r] \in DOMAIN f}
           D == (DOMAIN f \ {old[r] : r \in moved}) \cup {new[r] : r \in moved}
           g == rename(f, old, new)
<1>1. g = [j \in D |-> IF \E r \in moved : new[r] = j
                       THEN f[old[CHOOSE r \in moved : new[r] = j]]
                       ELSE f[j]]
  BY DEF rename
<1> HIDE DEF g
<1>2. i \in D
  BY <1>1 DEF g
<1>3. CASE \E r \in moved : new[r] = i
  <2> DEFINE s == CHOOSE r \in moved : new[r] = i
  <2>1. s \in moved /\ new[s] = i
    BY <1>3
  <2>2. g[i] = f[old[s]]
    BY <1>1, <1>2, <1>3
  <2> QED
    BY <2>1, <2>2 DEF g
<1>4. CASE ~\E r \in moved : new[r] = i
  <2>1. i \in DOMAIN f
    BY <1>2, <1>4
  <2>2. g[i] = f[i]
    BY <1>1, <1>2, <1>4
  <2> QED
    BY <2>1, <2>2 DEF g
<1> QED
  BY <1>3, <1>4

LEMMA RenameNamed ==
    ASSUME NEW f, NEW old, NEW new, NEW N, NEW I, NEW M, NEW J,
           Named(f, N, I), Extends(N, I, M, J), Renames(old, new, N, I, M, J)
    PROVE  /\ Named(rename(f, old, new), M, J)
           /\ OfRequests(f) => OfRequests(rename(f, old, new))
<1> DEFINE g == rename(f, old, new)
<1>1. ASSUME NEW i \in DOMAIN g
      PROVE  /\ i \in J /\ g[i] = M[i]
             /\ OfRequests(f) => g[i] \in Requests
  <2>1. \/ i \in DOMAIN f /\ g[i] = f[i]
        \/ \E r \in DOMAIN old : old[r] \in DOMAIN f /\ new[r] = i /\ g[i] = f[old[r]]
    BY RenameAt
  <2> HIDE DEF g
  <2>2. CASE i \in DOMAIN f /\ g[i] = f[i]
    BY <2>2 DEF Named, Extends, OfRequests
  <2>3. ASSUME NEW r \in DOMAIN old, old[r] \in DOMAIN f, new[r] = i, g[i] = f[old[r]]
        PROVE  /\ i \in J /\ g[i] = M[i]
               /\ OfRequests(f) => g[i] \in Requests
    BY <2>3 DEF Named, Renames, OfRequests
  <2> QED
    BY <2>1, <2>2, <2>3
<1> HIDE DEF g
<1>2. Named(g, M, J) /\ (OfRequests(f) => OfRequests(g))
  BY <1>1 DEF Named, OfRequests
<1> QED
  BY <1>2 DEF g

LEMMA Widen ==
    ASSUME NEW f, NEW N, NEW I, NEW M, NEW J,
           Named(f, N, I), Extends(N, I, M, J)
    PROVE  Named(f, M, J)
  BY DEF Named, Extends

LEMMA WidenMaps ==
    ASSUME NEW x, NEW N, NEW I, NEW S, NEW G, NEW M, NEW J,
           MapsNamed(x, N, I, S, G), Extends(N, I, M, J)
    PROVE  MapsNamed(x, M, J, S, G)
<1>1. Named(x.haveSent, M, J) /\ Named(x.resending, M, J) /\ Named(x.acked, M, J)
  BY Widen DEF MapsNamed
<1>2. IdsNamed(x.msgId, M, J)
  BY DEF MapsNamed, IdsNamed, Extends
<1>3. Others(x.containers, M, J) /\ Others(x.states, M, J)
  BY DEF MapsNamed, Others, Extends
<1> QED
  BY <1>1, <1>2, <1>3 DEF MapsNamed

NewNamed(x, next, force, N, I) ==
    \A r \in renamed(x, next, force) : /\ newMsgId(x, next, force, r) \in I
                                       /\ N[newMsgId(x, next, force, r)] = r

SentNamed(T, m, N, I) == \A r \in T : m[r] \in I /\ N[m[r]] = r

(* M extends the names by the ids that are taken for renamed requests.     *)
LEMMA SendAllNamed ==
    ASSUME NEW x, NEW next, NEW force, NEW N, NEW I, NEW S, S \subseteq Requests, NEW G,
           NEW M, NEW J, J \subseteq Nat,
           MapsNamed(x, N, I, S, G), Extends(N, I, M, J), NewNamed(x, next, force, M, J)
    PROVE  /\ MapsNamed(sendAll(x, next, force), M, J, S, G)
           /\ SentNamed(x.toSend, sendAll(x, next, force).msgId, M, J)
<1> DEFINE T == x.toSend
           new == [r \in T |-> newMsgId(x, next, force, r)]
           old == [r \in {a \in T : x.msgId[a] # 0 /\ new[a] # x.msgId[a]}
                       |-> x.msgId[r]]
           was == {x.msgId[r] : r \in T}
           ids == {new[r] : r \in T}
           took == [i \in ids |-> CHOOSE r \in T : new[r] = i]
           sent == rename(x.haveSent, old, new) @@ took
           left == Erase(x.resending, was)
           ackd == rename(x.acked, old, new)
           msgs == [r \in Requests |-> IF r \in T THEN new[r] ELSE x.msgId[r]]
           cont == [c \in DOMAIN x.containers |-> replaceIds(x.containers[c], old, new)]
           y == sendAll(x, next, force)
<1>1. y = [x EXCEPT !.toSend = {}, !.msgId = msgs, !.haveSent = sent,
                    !.resending = left, !.acked = ackd, !.containers = cont]
  BY DEF sendAll
<1>2. T \subseteq Requests /\ IdsNamed(x.msgId, N, I)
  BY DEF MapsNamed
<1>3. ASSUME NEW r \in T
      PROVE  new[r] \in J /\ M[new[r]] = r
  <2>1. CASE r \in renamed(x, next, force)
    BY <2>1 DEF NewNamed
  <2>2. CASE r \notin renamed(x, next, force)
    <3>1. x.msgId[r] # 0 /\ new[r] = x.msgId[r]
      BY <2>2 DEF renamed, newMsgId
    <3> QED
      BY <1>2, <3>1 DEF IdsNamed, Extends
  <2> QED
    BY <2>1, <2>2
<1>4. ASSUME NEW r \in DOMAIN old
      PROVE  /\ old[r] \in I /\ N[old[r]] = r
             /\ new[r] \in J /\ M[new[r]] = r
  <2>1. r \in T /\ x.msgId[r] # 0 /\ old[r] = x.msgId[r]
    OBVIOUS
  <2> QED
    BY <1>2, <1>3, <2>1 DEF IdsNamed
<1>5. Named(took, M, J) /\ OfRequests(took)
  <2> SUFFICES ASSUME NEW i \in ids
               PROVE  took[i] \in Requests /\ i \in J /\ took[i] = M[i]
    BY DEF Named, OfRequests
  <2> DEFINE s == CHOOSE r \in T : new[r] = i
  <2>1. s \in T /\ new[s] = i
    OBVIOUS
  <2>2. took[i] = s
    OBVIOUS
  <2> HIDE DEF s, took, new
  <2> QED
    BY <1>2, <1>3, <2>1, <2>2
<1>6. /\ IdsNamed(msgs, M, J)
      /\ \A r \in T : msgs[r] \in J /\ M[msgs[r]] = r
  <2>1. \A r \in Requests : msgs[r] = IF r \in T THEN new[r] ELSE x.msgId[r]
    OBVIOUS
  <2>2. DOMAIN msgs = Requests /\ msgs = [r \in Requests |-> msgs[r]]
    OBVIOUS
  <2> HIDE DEF msgs, new
  <2>3. \A r \in Requests : msgs[r] \in Nat
    BY <1>2, <1>3, <2>1 DEF IdsNamed
  <2>4. msgs \in [Requests -> Nat]
    BY <2>2, <2>3
  <2>5. \A r \in T : msgs[r] \in J /\ M[msgs[r]] = r
    BY <1>2, <1>3, <2>1
  <2>6. \A r \in Requests : msgs[r] # 0 => msgs[r] \in J /\ M[msgs[r]] = r
    BY <1>2, <2>1, <2>5 DEF IdsNamed, Extends
  <2> QED
    BY <2>4, <2>5, <2>6 DEF IdsNamed
<1>13. SentOnce(x, S, G) /\ OfRequests(x.haveSent)
       /\ Named(x.haveSent, N, I) /\ Named(x.acked, N, I)
  BY DEF MapsNamed
<1>14. ASSUME NEW s, NEW i \in DOMAIN sent, sent[i] = s
       PROVE  \/ s \in T /\ new[s] = i
              \/ i \in DOMAIN x.haveSent /\ x.haveSent[i] = s
              \/ s \in T /\ ~NotIn(s, x.haveSent)
  <2> DEFINE ren == rename(x.haveSent, old, new)
  <2>1. ASSUME NEW k \in ids
        PROVE  took[k] \in T /\ new[took[k]] = k
    <3> DEFINE t == CHOOSE r \in T : new[r] = k
    <3>1. t \in T /\ new[t] = k
      OBVIOUS
    <3> QED
      BY <3>1
  <2>2. DOMAIN took = ids /\ DOMAIN old \subseteq T
    OBVIOUS
  <2> HIDE DEF took, new, old, ids, T
  <2>3. \/ i \in DOMAIN ren /\ ren[i] = s
        \/ i \in DOMAIN took /\ took[i] = s
    BY <1>14, MergeAt
  <2>4. CASE i \in DOMAIN took /\ took[i] = s
    BY <2>1, <2>2, <2>4
  <2>5. CASE i \in DOMAIN ren /\ ren[i] = s
    <3>1. \/ i \in DOMAIN x.haveSent /\ ren[i] = x.haveSent[i]
          \/ \E r \in DOMAIN old : /\ old[r] \in DOMAIN x.haveSent
                                  /\ new[r] = i /\ ren[i] = x.haveSent[old[r]]
      BY <2>5, RenameAt
    <3>2. ASSUME NEW r \in DOMAIN old, old[r] \in DOMAIN x.haveSent,
                 ren[i] = x.haveSent[old[r]]
          PROVE  s \in T /\ ~NotIn(s, x.haveSent)
      <4>1. x.haveSent[old[r]] = r
        BY <1>4, <1>13, <3>2 DEF Named
      <4> QED
        BY <2>2, <2>5, <3>2, <4>1 DEF NotIn
    <3> QED
      BY <2>5, <3>1, <3>2
  <2> QED
    BY <2>3, <2>4, <2>5
<1>15. ASSUME NEW s \in S, ~NotIn(s, ackd)
       PROVE  s \notin T /\ NotIn(s, x.haveSent)
  <2>1. PICK i \in DOMAIN ackd : ackd[i] = s
    BY <1>15 DEF NotIn
  <2>2. DOMAIN old \subseteq T
    OBVIOUS
  <2> HIDE DEF new, old, T
  <2>3. \/ i \in DOMAIN x.acked /\ ackd[i] = x.acked[i]
        \/ \E r \in DOMAIN old : /\ old[r] \in DOMAIN x.acked
                                /\ new[r] = i /\ ackd[i] = x.acked[old[r]]
    BY RenameAt
  <2>4. ~NotIn(s, x.acked)
    BY <2>1, <2>3 DEF NotIn
  <2>5. s \notin x.toSend /\ NotIn(s, x.haveSent)
    BY <1>13, <2>4 DEF SentOnce
  <2> QED
    BY <2>5 DEF T
<1>16. ASSUME NEW s \in S, NEW i \in DOMAIN left, left[i] = s
       PROVE  i = msgs[s] /\ s \notin T /\ NotIn(s, x.haveSent)
  <2>1. i \in DOMAIN x.resending /\ x.resending[i] = s /\ i \notin was
    BY <1>16 DEF Erase
  <2>2. i = x.msgId[s] /\ NotIn(s, x.haveSent)
    BY <1>13, <2>1 DEF SentOnce
  <2>3. s \notin T
    BY <2>1, <2>2
  <2> QED
    BY <2>2, <2>3
<1>17. \A s \in S : msgs[s] = IF s \in T THEN new[s] ELSE x.msgId[s]
  OBVIOUS
<1> HIDE DEF new, old, took, msgs, was, cont
<1>7. /\ Named(rename(x.haveSent, old, new), M, J)
      /\ OfRequests(rename(x.haveSent, old, new))
      /\ Named(ackd, M, J)
  <2>1. Named(x.haveSent, N, I) /\ OfRequests(x.haveSent) /\ Named(x.acked, N, I)
    BY DEF MapsNamed
  <2>2. Renames(old, new, N, I, M, J)
    BY <1>4 DEF Renames
  <2>3. Named(rename(x.haveSent, old, new), M, J)
    BY <2>1, <2>2, RenameNamed
  <2>4. OfRequests(rename(x.haveSent, old, new))
    BY <2>1, <2>2, RenameNamed
  <2>5. Named(rename(x.acked, old, new), M, J)
    BY <2>1, <2>2, RenameNamed
  <2> QED
    BY <2>3, <2>4, <2>5
<1>8. Named(sent, M, J) /\ OfRequests(sent)
  <2>1. Named(sent, M, J)
    BY <1>5, <1>7, MergeNamed
  <2>2. OfRequests(sent)
    BY <1>5, <1>7 DEF OfRequests, @@
  <2> QED
    BY <2>1, <2>2
<1>9. Named(left, M, J)
  <2>1. Named(x.resending, N, I)
    BY DEF MapsNamed
  <2>2. Named(left, N, I)
    BY <2>1, EraseNamed
  <2> QED
    BY <2>2, Widen
<1> HIDE DEF sent, left, ackd, y
<1>10. /\ IsMaps(y) /\ y.haveSent = sent /\ y.resending = left /\ y.acked = ackd
       /\ y.toSend = {} /\ y.msgId = msgs /\ y.containers = cont
       /\ y.states = x.states
  BY <1>1 DEF MapsNamed, IsMaps
<1>18. Others(y.containers, M, J) /\ Others(y.states, M, J)
  <2>1. DOMAIN cont = DOMAIN x.containers
    BY DEF cont
  <2> QED
    BY <1>10, <2>1 DEF MapsNamed, Others, Extends
<1>19. SentOnce(y, S, G)
  <2>1. ASSUME NEW s \in S, s \notin T, NotIn(s, x.haveSent)
        PROVE  NotIn(s, sent)
    BY <1>14, <2>1 DEF NotIn
  <2>2. ASSUME NEW s \in S, NEW i \in DOMAIN sent, sent[i] = s
        PROVE  i = msgs[s] /\ s \notin G
    <3>1. CASE s \in T /\ new[s] = i
      BY <1>13, <1>17, <3>1 DEF SentOnce
    <3>2. CASE i \in DOMAIN x.haveSent /\ x.haveSent[i] = s
      BY <1>13, <1>17, <3>2 DEF SentOnce
    <3>3. CASE s \in T /\ ~NotIn(s, x.haveSent)
      BY <1>13, <3>3 DEF SentOnce, NotIn
    <3> QED
      BY <1>14, <2>2, <3>1, <3>2, <3>3
  <2>3. ASSUME NEW s \in S, NEW i \in DOMAIN left, left[i] = s
        PROVE  i = msgs[s] /\ NotIn(s, sent)
    BY <1>16, <2>1, <2>3
  <2>4. ASSUME NEW s \in S, ~NotIn(s, ackd)
        PROVE  NotIn(s, sent)
    BY <1>15, <2>1, <2>4
  <2> QED
    BY <1>10, <2>2, <2>3, <2>4 DEF SentOnce
<1>11. MapsNamed(y, M, J, S, G)
  BY <1>6, <1>7, <1>8, <1>9, <1>10, <1>18, <1>19 DEF MapsNamed
<1>12. SentNamed(T, y.msgId, M, J)
  BY <1>6, <1>10 DEF SentNamed
<1> HIDE DEF T
<1> QED
  BY <1>11, <1>12 DEF y, T

-----------------------------------------------------------------------------
(* The ids issued so far: while the clock is ahead those above MaxId, and  *)
(* after the correction these and the ones from 1 on.                      *)
Issued(c) ==
    {i \in Nat : IF c.skew = "ahead" THEN MaxId < i /\ i < c.next
                 ELSE (0 < i /\ i < c.next) \/ MaxId < i}

ClockOK(c) ==
    /\ c \in [skew : {"none", "behind", "ahead"}, next : Nat]
    /\ c.next > 0 /\ (c.skew = "ahead" => c.next > MaxId)

LEMMA SyncedIssues ==
    ASSUME NEW c, ClockOK(c)
    PROVE  ClockOK(synced(c)) /\ Issued(c) \subseteq Issued(synced(c))
<1> DEFINE d == synced(c)
<1>1. d.skew = "none" /\ d.next = IF c.skew = "ahead" THEN 1 ELSE c.next
  BY DEF synced
<1>2. ClockOK(d)
  BY DEF ClockOK, synced
<1> HIDE DEF d
<1>3. Issued(c) \subseteq Issued(d)
  BY <1>1, MaxIdAssumption DEF Issued, ClockOK
<1> QED
  BY <1>2, <1>3 DEF d

(* M names what is sent when the clock goes from c to d: the requests      *)
(* renamed from the id from on if all, and the other messages.             *)
NamesSent(M, N, c, d, x, from, force, all) ==
    /\ Extends(N, Issued(c), M, Issued(d))
    /\ \A i \in Nat :
          /\ c.next <= i /\ i < d.next
          /\ ~all \/ i < from \/ from + Cardinality(renamed(x, from, force)) <= i
          => i \in Issued(d) /\ M[i] = Other
    /\ all => \A r \in renamed(x, from, force) :
                 /\ newMsgId(x, from, force, r) \in Issued(d)
                 /\ M[newMsgId(x, from, force, r)] = r

(* The ids from c's next one up to d's are new, so names can be given to   *)
(* them.                                                                   *)
LEMMA FreshNames ==
    ASSUME NEW x, NEW N \in Names, NEW c, NEW d, ClockOK(c), ClockOK(d),
           x.toSend \subseteq made, made \subseteq Requests, NEW force, NEW all,
           NEW from \in Nat, c.next <= from, from <= d.next,
           all => from + Cardinality(renamed(x, from, force)) <= d.next,
           d.next <= LastId(c) + 1, d.skew = c.skew
    PROVE  \E M \in Names : NamesSent(M, N, c, d, x, from, force, all)
<1> DEFINE R == renamed(x, from, force)
           id(r) == newMsgId(x, from, force, r)
           Takes(i) == all /\ \E r \in R : id(r) = i
           M == [i \in Nat |-> IF Takes(i) THEN CHOOSE r \in R : id(r) = i
                               ELSE IF c.next <= i /\ i < d.next THEN Other ELSE N[i]]
<1>1. c.next \in Nat /\ d.next \in Nat /\ MaxId \in Nat /\ c.next > 0
  BY MaxIdAssumption DEF ClockOK
<1>2. x.toSend \in SUBSET Requests /\ R \in SUBSET made /\ from \in Nat \ {0}
  BY <1>1 DEF renamed
<1>3. \A r, s \in R : /\ Cardinality(R) \in Nat /\ id(r) \in Nat
                      /\ from <= id(r) /\ id(r) < from + Cardinality(R)
                      /\ (r # s => id(r) # id(s))
  BY <1>2, NewIds
<1>31. all => from + Cardinality(R) <= d.next
  OBVIOUS
<1> HIDE DEF R, id
<1>4. ASSUME all, NEW r \in R
      PROVE  /\ id(r) \in Nat /\ from <= id(r) /\ id(r) < d.next
             /\ id(r) < from + Cardinality(R) /\ Cardinality(R) \in Nat
  <2>1. from + Cardinality(R) <= d.next
    BY <1>4, <1>31
  <2> QED
    BY <1>1, <1>3, <2>1
<1>5. ASSUME NEW i \in Nat, c.next <= i, i < d.next
      PROVE  i \in Issued(d) /\ i \notin Issued(c)
  <2>1. CASE c.skew = "ahead"
    BY <1>1, <1>5, <2>1 DEF Issued, ClockOK, LastId
  <2>2. CASE c.skew # "ahead"
    BY <1>1, <1>5, <2>2 DEF Issued, ClockOK, LastId
  <2> QED
    BY <2>1, <2>2
<1>6. M \in Names
  <2>1. ASSUME NEW i \in Nat PROVE M[i] \in made \cup {Other}
    <3>1. CASE Takes(i)
      <4>1. (CHOOSE r \in R : id(r) = i) \in R
        BY <3>1
      <4> QED
        BY <1>2, <3>1, <4>1
    <3>2. CASE ~Takes(i)
      BY <3>2 DEF Names
    <3> QED
      BY <3>1, <3>2
  <2> HIDE DEF Takes
  <2> QED
    BY <2>1 DEF Names
<1>7. ASSUME all, NEW r \in R
      PROVE  id(r) \in Issued(d) /\ M[id(r)] = r
  <2> DEFINE s == CHOOSE t \in R : id(t) = id(r)
  <2>1. s \in R /\ id(s) = id(r)
    OBVIOUS
  <2>2. s = r
    BY <1>3, <2>1
  <2>3. Takes(id(r)) /\ id(r) \in Nat
    BY <1>4, <1>7
  <2>4. M[id(r)] = s
    BY <2>3
  <2>5. id(r) \in Issued(d)
    BY <1>1, <1>4, <1>5, <1>7
  <2> QED
    BY <2>2, <2>4, <2>5
<1>8. ASSUME NEW i \in Nat, c.next <= i, i < d.next,
             ~all \/ i < from \/ from + Cardinality(R) <= i
      PROVE  i \in Issued(d) /\ M[i] = Other
  <2>1. ~Takes(i)
    BY <1>1, <1>4, <1>8
  <2> HIDE DEF Takes
  <2>2. M[i] = Other
    BY <1>8, <2>1
  <2> QED
    BY <1>5, <1>8, <2>2
<1>9. ASSUME NEW i \in Issued(c)
      PROVE  i \in Issued(d) /\ M[i] = N[i]
  <2>1. i \in Nat /\ i \in Issued(d)
    <3>1. i \in Nat
      BY DEF Issued
    <3>2. c.next <= d.next
      BY <1>1
    <3> QED
      BY <1>1, <3>1, <3>2 DEF Issued
  <2>2. ~(c.next <= i /\ i < d.next)
    BY <1>5, <2>1
  <2>3. ~Takes(i)
    BY <1>1, <1>4, <2>1, <2>2
  <2> HIDE DEF Takes
  <2> QED
    BY <2>1, <2>2, <2>3
<1> HIDE DEF M, Takes
<1>10. Extends(N, Issued(c), M, Issued(d))
  BY <1>9 DEF Extends
<1> QED
  BY <1>6, <1>7, <1>8, <1>10 DEF NamesSent, R, id

PacketNamed(pk, N, I) ==
    /\ Named(pk.reqs, N, I)
    /\ pk.bind # 0 => pk.bind \in I /\ N[pk.bind] = Other

AllNamed(x, V, W, N, I, S, G) ==
    /\ MapsNamed(x, N, I, S, G) /\ AnswersNamed(V, N, I)
    /\ \A pk \in W : PacketNamed(pk, N, I)

IsServer(V) ==
    V \in [salt : {V.salt}, sess : {V.sess}, acc : {V.acc}, answers : {V.answers},
           created : {V.created}, asked : {V.asked}, seen : {V.seen},
           next : {V.next}]

(* The requests of which there is one sending at most, and those of which  *)
(* there is none in the maps: those that were not made yet, and those that *)
(* were answered.                                                          *)
Sole == {r \in Requests : r \notin made \/ Settled(r)}

Gone == {r \in Requests : r \notin made \/ handled[r] > 0 \/ r \in Told(received)}

(* Every msg_id is kept for one request, whoever keeps it, and every       *)
(* request of Sole is in one place.                                        *)
NamesInv ==
    /\ ClockOK(clock) /\ IsServer(srv) /\ received \in Seq(Owned)
    /\ registered \subseteq made /\ unsettled \in Seq(Requests \cup {Other})
    /\ \A n \in down : n.kind \in Notices
    /\ \E N \in Names : AllNamed(q, srv, wire, N, Issued(clock), Sole, Gone)

LEMMA WidenAll ==
    ASSUME NEW x, NEW V, NEW W, NEW N, NEW I, NEW S, NEW G, NEW M, NEW J,
           AllNamed(x, V, W, N, I, S, G), Extends(N, I, M, J)
    PROVE  AllNamed(x, V, W, M, J, S, G)
<1>1. MapsNamed(x, M, J, S, G)
  BY WidenMaps DEF AllNamed
<1>2. AnswersNamed(V, M, J)
  BY Widen DEF AllNamed, AnswersNamed
<1>3. ASSUME NEW pk \in W PROVE PacketNamed(pk, M, J)
  <2>1. PacketNamed(pk, N, I)
    BY DEF AllNamed
  <2>2. Named(pk.reqs, M, J)
    BY <2>1, Widen DEF PacketNamed
  <2> QED
    BY <2>1, <2>2 DEF PacketNamed, Extends
<1> QED
  BY <1>1, <1>2, <1>3 DEF AllNamed

(* The part of the state that Sole, Gone and what is owned depend on.      *)
Past == <<made, handled, received, unsettled>>

LEMMA SamePast ==
    ASSUME UNCHANGED Past
    PROVE  Sole' = Sole /\ Gone' = Gone /\ Names' = Names /\ Owned' = Owned
  BY DEF Past, Sole, Gone, Names, Owned, Settled, Told

LEMMA OneNat == \A b : One(b) \in {0, 1} /\ (b => One(b) = 1)
  BY DEF One

LEMMA TryToSendNames ==
    ASSUME PInv, NamesInv, TryToSend
    PROVE  NamesInv'
<1> DEFINE first == p.state # "Connected"
           all == ~first /\ p.key = "bound"
           force == all /\ ~p.started
           ping == p.pingToSend
           bind == ~first /\ p.key = "unbound" /\ p.bind = 0
           ask == ~first /\ p.ask # {}
           refetch == ~first /\ p.refetch # {}
           acks == ~first /\ p.acks
           now == IF all THEN q.toSend ELSE {}
           count == One(ping) + One(bind) + One(ask) + One(refetch) + One(acks)
                        + Cardinality(now)
           box == count > 1 \/ now \cap q.boxed # {}
           bindId == clock.next
           pingId == bindId + One(bind)
           from == pingId + One(ping)
           x == IF all THEN sendAll(q, from, force) ELSE q
           n == IF all THEN Cardinality(renamed(q, from, force)) ELSE 0
           askId == from + n
           fetchId == askId + One(ask)
           boxId == fetchId + One(refetch)
           ids == {x.msgId[r] : r \in now}
           states == (IF ask THEN askId :> p.ask ELSE NoIds)
                        @@ (IF refetch THEN fetchId :> {} ELSE NoIds)
           outer == IF box THEN boxId
                    ELSE CHOOSE i \in ids \cup {Only(ping, pingId), Only(bind, bindId),
                                  Only(ask, askId), Only(refetch, fetchId), 0} :
                            i # 0 \/ (count = One(acks))
           pk == [outer |-> outer, sess |-> p.sess, salt |-> p.salt,
                  skew |-> clock.skew,
                  reqs |-> [i \in ids |-> CHOOSE r \in now : x.msgId[r] = i],
                  ping |-> Only(ping, pingId), bind |-> Only(bind, bindId),
                  asked |-> states]
           f == x.states @@ states
           y == [x EXCEPT !.states = f]
           g == IF box THEN y.containers @@ (boxId :> ids) ELSE y.containers
           others == IF box THEN boxId :> ids ELSE NoIds
           idle == ~p.conn \/ (first /\ ~ping) \/ count = 0
<1>1. UNCHANGED main /\ down' = down /\ srv' = srv
  BY Zenon DEF TryToSend
<1>2. IF idle
      THEN /\ p' = [p EXCEPT !.started = @ \/ (p.conn /\ force)]
           /\ UNCHANGED <<q, clock, wire>>
      ELSE /\ boxId <= LastId(clock)
           /\ clock' = [clock EXCEPT !.next = boxId + One(box)]
           /\ q' = [x EXCEPT !.states = @ @@ states,
                             !.containers = IF box THEN @ @@ (boxId :> ids)
                                            ELSE @]
           /\ p' = [p EXCEPT
                       !.started = @ \/ force,
                       !.pingToSend = FALSE,
                       !.pingMsg = IF ping THEN pingId ELSE @,
                       !.bind = IF bind THEN bindId ELSE @,
                       !.ask = IF first THEN @ ELSE {},
                       !.refetch = IF first THEN @ ELSE {},
                       !.acks = first /\ @,
                       !.fresh = @ \cup now,
                       !.checkTimer = @ \/ (box /\ now # {})]
           /\ wire' = IF outer = 0 THEN wire ELSE wire \cup {pk}
  BY Zenon DEF TryToSend
<1>3. pk.reqs = [i \in {x.msgId[r] : r \in now} |-> CHOOSE r \in now : x.msgId[r] = i]
      /\ pk.bind = Only(bind, clock.next)
  OBVIOUS
<1>4. One(box) \in Nat /\ One(ask) + One(refetch) \in Nat
  BY OneNat
<1>5. now = IF all THEN q.toSend ELSE {}
  OBVIOUS
<1>6. x = IF all THEN sendAll(q, from, force) ELSE q
  OBVIOUS
<1>7. from = clock.next + One(bind) + One(ping)
  OBVIOUS
<1>8. boxId = from + n + One(ask) + One(refetch)
  OBVIOUS
<1>9. \/ idle
      \/ q' = [x EXCEPT !.states = @ @@ states,
                        !.containers = IF box THEN @ @@ (boxId :> ids) ELSE @]
  BY <1>2, Zenon
<1>10. (clock' = [clock EXCEPT !.next = boxId + One(box)] /\ boxId <= LastId(clock)) \/ idle
  BY <1>2, Zenon
<1>11. wire' = wire \/ wire' = wire \cup {pk} \/ idle
  BY <1>2, Zenon
<1>12. idle => UNCHANGED <<q, clock, wire>>
  BY <1>2, Zenon
<1>13. n = IF all THEN Cardinality(renamed(q, from, force)) ELSE 0
  OBVIOUS
<1>17. askId = from + n /\ fetchId = from + n + One(ask)
  OBVIOUS
<1> HIDE DEF states, outer, ids, g, y, f, count, box, pk, x, now, force, from, n,
             boxId, idle, all, bind, ping, ask, refetch, others
<1>16. UNCHANGED Past /\ registered' = registered
  BY <1>1 DEF Past, main
<1>14. CASE idle
  BY <1>1, <1>12, <1>14, <1>16, SamePast DEF NamesInv, main
<1>15. CASE ~idle
  <2>1. PICK N \in Names : AllNamed(q, srv, wire, N, Issued(clock), Sole, Gone)
    BY DEF NamesInv
  <2>2. /\ clock.next \in Nat /\ clock.next > 0 /\ ClockOK(clock)
        /\ MapsNamed(q, N, Issued(clock), Sole, Gone)
    BY <2>1 DEF NamesInv, ClockOK, AllNamed
  <2>3. from \in Nat /\ clock.next <= from /\ (bind => clock.next < from)
    BY <1>7, <2>2, OneNat
  <2>20. q.toSend \subseteq made /\ made \subseteq Requests /\ Sole \in SUBSET Requests
    <3>1. ASSUME NEW r \in q.toSend PROVE r \in made
      <4>1. r \in Requests /\ (r \in Sole /\ r \in Gone => r \notin q.toSend)
        BY <2>2 DEF MapsNamed, SentOnce
      <4> QED
        BY <4>1 DEF Sole, Gone
    <3> QED
      BY <3>1 DEF PInv, Sole
  <2> DEFINE R == renamed(q, from, force)
  <2>4. n \in Nat
    <3>1. R \in SUBSET Requests
      BY <2>2 DEF MapsNamed, renamed
    <3>2. IsFiniteSet(R)
      BY <3>1, RequestsAreIds, FS_Subset
    <3> QED
      BY <1>13, <3>2, FS_CardinalityType
  <2>5. boxId \in Nat /\ from <= boxId /\ from + n <= boxId
    BY <1>8, <2>3, <2>4, OneNat
  <2>6. all => from + Cardinality(renamed(q, from, force)) <= boxId
    BY <1>13, <2>5
  <2> DEFINE d == clock'
  <2>7. d = [clock EXCEPT !.next = boxId + One(box)] /\ boxId <= LastId(clock)
    BY <1>10, <1>15
  <2>8. d.skew = clock.skew /\ d.next = boxId + One(box)
    BY <2>2, <2>7 DEF ClockOK
  <2>9. boxId <= d.next /\ d.next \in Nat /\ clock.next <= d.next
    BY <1>4, <2>2, <2>3, <2>5, <2>8
  <2>10. ClockOK(d)
    <3>1. d \in [skew : {"none", "behind", "ahead"}, next : Nat]
      BY <2>2, <2>7, <2>8, <2>9 DEF ClockOK
    <3> QED
      BY <2>2, <2>8, <2>9, <3>1, MaxIdAssumption DEF ClockOK
  <2> HIDE DEF d
  <2>21. /\ from <= d.next /\ d.next <= LastId(clock) + 1
         /\ all => from + Cardinality(renamed(q, from, force)) <= d.next
    <3>1. LastId(clock) \in Nat
      BY MaxIdAssumption DEF LastId
    <3>2. from + n <= d.next
      BY <2>3, <2>4, <2>5, <2>9
    <3> QED
      BY <1>13, <2>3, <2>5, <2>7, <2>8, <2>9, <3>1, <3>2, OneNat
  <2>11. PICK M \in Names : NamesSent(M, N, clock, d, q, from, force, all)
    BY <2>2, <2>3, <2>8, <2>10, <2>20, <2>21, FreshNames
  <2> DEFINE J == Issued(d)
  <2>12. Extends(N, Issued(clock), M, J)
    BY <2>11 DEF NamesSent
  <2>13. J \in SUBSET Nat
    BY DEF Issued
  <2>14. MapsNamed(x, M, J, Sole, Gone) /\ \A r \in now : x.msgId[r] \in J /\ M[x.msgId[r]] = r
    <3>1. CASE all
      <4>1. NewNamed(q, from, force, M, J)
        BY <2>11, <3>1 DEF NamesSent, NewNamed
      <4> HIDE DEF J
      <4>2. x = sendAll(q, from, force) /\ now = q.toSend
        BY <1>5, <1>6, <3>1
      <4>3. /\ MapsNamed(sendAll(q, from, force), M, J, Sole, Gone)
            /\ SentNamed(q.toSend, sendAll(q, from, force).msgId, M, J)
        BY <2>2, <2>12, <2>13, <2>20, <4>1, SendAllNamed
      <4> QED
        BY <4>2, <4>3 DEF SentNamed
    <3>2. CASE ~all
      BY <1>5, <1>6, <2>2, <2>12, <3>2, WidenMaps
    <3> QED
      BY <3>1, <3>2
  <2>22. ASSUME NEW i \in Nat, clock.next <= i, i < d.next, i < from \/ from + n <= i
         PROVE  i \in J /\ M[i] = Other
    BY <1>13, <2>11, <2>22 DEF NamesSent
  <2>15. bind => clock.next \in J /\ M[clock.next] = Other
    BY <2>2, <2>3, <2>21, <2>22, <2>9
  <2>23. Others(states, M, J) /\ Others(others, M, J)
    <3>1. DOMAIN states \subseteq {i \in {askId, fetchId} : i < boxId}
          /\ DOMAIN others \subseteq {i \in {boxId} : i < d.next}
      <4>1. DOMAIN states \subseteq (IF ask THEN {askId} ELSE {})
                                       \cup (IF refetch THEN {fetchId} ELSE {})
        BY DEF states, @@, :>, NoIds
      <4>2. DOMAIN others \subseteq (IF box THEN {boxId} ELSE {})
        BY DEF others, :>, NoIds
      <4>3. /\ ask => askId < boxId
            /\ refetch => fetchId < boxId
        BY <1>8, <1>17, <2>3, <2>4, OneNat
      <4>4. box => boxId < d.next
        <5>1. box => One(box) = 1
          BY OneNat
        <5>2. box => d.next = boxId + 1
          BY <2>8, <5>1
        <5> QED
          BY <2>5, <5>2
      <4> HIDE DEF askId, fetchId
      <4> QED
        BY <4>1, <4>2, <4>3, <4>4
    <3>2. askId \in Nat /\ fetchId \in Nat /\ from + n <= askId /\ from + n <= fetchId
      BY <1>17, <2>3, <2>4, OneNat
    <3> HIDE DEF askId, fetchId, states, others
    <3>3. ASSUME NEW i \in DOMAIN states \cup DOMAIN others
          PROVE  i \in J /\ M[i] = Other
      <4>1. i \in Nat /\ from + n <= i /\ i < d.next
        BY <2>5, <2>9, <3>1, <3>2
      <4>2. clock.next <= i
        BY <2>2, <2>3, <2>4, <4>1
      <4> QED
        BY <2>22, <4>1, <4>2
    <3> QED
      BY <3>3 DEF Others
  <2> HIDE DEF J
  <2>16. MapsNamed(q', M, J, Sole, Gone)
    <3> DEFINE z == q'
    <3>0. z = [x EXCEPT !.states = f, !.containers = g]
      BY <1>9, <1>15, Zenon DEF f, g, y
    <3> HIDE DEF z
    <3>1. /\ IsMaps(z) /\ z.haveSent = x.haveSent /\ z.resending = x.resending
          /\ z.acked = x.acked /\ z.toSend = x.toSend /\ z.msgId = x.msgId
          /\ z.containers = g /\ z.states = f
      BY <2>14, <3>0 DEF MapsNamed, IsMaps
    <3>2. SentOnce(z, Sole, Gone)
      BY <2>14, <3>1 DEF MapsNamed, SentOnce
    <3>3. Others(f, M, J)
      BY <2>14, <2>23 DEF MapsNamed, Others, f, @@
    <3>4. Others(g, M, J)
      <4>1. y.containers = x.containers
        BY <2>14 DEF MapsNamed, IsMaps, y
      <4>2. g = x.containers \/ g = x.containers @@ others
        BY <4>1 DEF g, others
      <4>3. Others(x.containers, M, J)
        BY <2>14 DEF MapsNamed
      <4> QED
        BY <2>23, <4>2, <4>3 DEF Others, @@
    <3>5. MapsNamed(z, M, J, Sole, Gone)
      BY <2>14, <3>1, <3>2, <3>3, <3>4 DEF MapsNamed
    <3> QED
      BY <3>5 DEF z
  <2>17. PacketNamed(pk, M, J)
    <3>1. ASSUME NEW i \in DOMAIN pk.reqs
          PROVE  i \in J /\ pk.reqs[i] = M[i]
      <4> DEFINE s == CHOOSE r \in now : x.msgId[r] = i
      <4>1. s \in now /\ x.msgId[s] = i
        BY <1>3
      <4>2. pk.reqs[i] = s
        BY <1>3
      <4> HIDE DEF s
      <4> QED
        BY <2>14, <4>1, <4>2
    <3>2. pk.bind # 0 => pk.bind \in J /\ M[pk.bind] = Other
      BY <1>3, <2>15 DEF Only
    <3> QED
      BY <3>1, <3>2 DEF PacketNamed, Named
  <2>18. AllNamed(q, srv, wire, M, J, Sole, Gone)
    BY <2>1, <2>12, WidenAll
  <2>19. AllNamed(q', srv', wire', M, J, Sole, Gone)
    BY <1>1, <1>11, <1>15, <2>16, <2>17, <2>18 DEF AllNamed
  <2> QED
    BY <1>1, <1>16, <2>10, <2>19, SamePast DEF NamesInv, main, J, d
<1> QED
  BY <1>14, <1>15

-----------------------------------------------------------------------------
(* The other steps leave the names alone.                                  *)

LEMMA HandledNames ==
    ASSUME NEW h, NEW N \in Names, NamesInv, Handled(h), IsServer(srv'),
           srv'.acc = srv.acc, srv'.answers = srv.answers, NEW S, Sole' \subseteq S,
           AllNamed(q, srv, wire, N, Issued(clock), Sole, Gone),
           HandlerNamed(h, N, Issued(clock), S, Gone),
           unsettled' \in Seq(Requests \cup {Other}),
           \A n \in down' : n.kind \in Notices
    PROVE  NamesInv'
<1>1. q' = h.q /\ received' = received \o h.out /\ wire' \in {wire, {}}
      /\ clock' \in {clock, synced(clock)}
  BY DEF Handled
<1>6. made' = made /\ handled' = handled /\ registered' = registered
  BY DEF Handled
<1>7. Names' = Names /\ Owned' = Owned
  BY <1>6 DEF Names, Owned
<1>2. received' \in Seq(Owned) /\ Told(received') = Told(received) \cup Told(h.out)
  <2>1. received \in Seq(Owned) /\ h.out \in Seq(Owned)
    BY DEF NamesInv, HandlerNamed
  <2>2. received \o h.out \in Seq(Owned)
    BY <2>1
  <2>3. Told(received \o h.out) = Told(received) \cup Told(h.out)
    <3>1. CASE Owned = {}
      BY <2>1, <3>1 DEF Told
    <3>2. CASE Owned # {}
      BY <2>1, <3>2, ToldMore
    <3> QED
      BY <3>1, <3>2
  <2> QED
    BY <1>1, <2>2, <2>3
<1>8. Gone' \subseteq Gone \cup Told(h.out)
  <2>1. Gone' = {r \in Requests : r \notin made' \/ handled'[r] > 0 \/ r \in Told(received')}
    BY DEF Gone
  <2> QED
    BY <1>2, <1>6, <2>1 DEF Gone
<1>9. MapsNamed(q', N, Issued(clock), Sole', Gone')
  <2>1. MapsNamed(h.q, N, Issued(clock), S, Gone \cup Told(h.out))
    BY DEF HandlerNamed
  <2> QED
    BY <1>1, <1>8, <2>1, FewerNamed
<1>3. ClockOK(clock') /\ Issued(clock) \subseteq Issued(clock')
  BY <1>1, SyncedIssues DEF NamesInv
<1>4. AllNamed(q', srv', wire', N, Issued(clock), Sole', Gone')
  BY <1>1, <1>9 DEF AllNamed, AnswersNamed
<1>5. AllNamed(q', srv', wire', N, Issued(clock'), Sole', Gone')
  <2>1. Extends(N, Issued(clock), N, Issued(clock'))
    BY <1>3 DEF Extends
  <2> QED
    BY <1>4, <2>1, WidenAll
<1> QED
  BY <1>2, <1>3, <1>5, <1>6, <1>7 DEF NamesInv

LEMMA IssuedNat == \A c : Issued(c) \in SUBSET Nat
  BY DEF Issued

(* What becomes unsettled leaves Sole, if it was made.                     *)
LEMMA NowUnsettled ==
    ASSUME NEW E, unsettled \in Seq(E), NEW o \in Seq(E), unsettled' = unsettled \o o,
           PInv, made' = made,
           \A i \in 1 .. Len(o) : o[i] \in made \cup {Other}
    PROVE  /\ Sole' \subseteq Sole \ {o[i] : i \in 1 .. Len(o)}
           /\ unsettled' \in Seq(E)
<1> DEFINE u == unsettled
           v == unsettled'
<1>1. /\ v \in Seq(E) /\ Len(v) = Len(u) + Len(o) /\ Len(u) \in Nat /\ Len(o) \in Nat
      /\ \A i \in 1 .. Len(u) : v[i] = u[i]
      /\ \A i \in 1 .. Len(o) : v[Len(u) + i] = o[i]
  OBVIOUS
<1>2. Sole' = {r \in Requests : r \notin made \/ \A i \in 1 .. Len(v) : v[i] # r}
  BY DEF Sole, Settled
<1> HIDE DEF v
<1>3. /\ 1 .. Len(u) \subseteq 1 .. Len(v)
      /\ \A i \in 1 .. Len(o) : Len(u) + i \in 1 .. Len(v)
  BY <1>1
<1>4. ASSUME NEW r \in Sole'
      PROVE  r \in Sole /\ \A i \in 1 .. Len(o) : o[i] # r
  <2>1. CASE r \notin made
    <3>1. r \in Requests /\ r # Other
      BY <1>2, <1>4, NoOther
    <3> QED
      BY <2>1, <3>1 DEF Sole
  <2>2. CASE r \in made
    <3>1. r \in Requests /\ \A i \in 1 .. Len(v) : v[i] # r
      BY <1>2, <1>4, <2>2
    <3>2. \A i \in 1 .. Len(o) : v[Len(u) + i] # r
      BY <1>3, <3>1
    <3>3. \A i \in 1 .. Len(u) : v[i] # r
      BY <1>3, <3>1
    <3> QED
      BY <1>1, <3>1, <3>2, <3>3 DEF Sole, Settled
  <2> QED
    BY <2>1, <2>2
<1> QED
  BY <1>1, <1>4 DEF v

LEMMA ReceiveNames ==
    ASSUME PInv, NamesInv,
           \/ \E n \in down : ReceiveNotice(n)
           \/ \E id \in MsgIds : ReceiveAck(id) \/ ReceiveAnswer(id)
                                   \/ ReceiveDetailedInfo(id)
           \/ \E id \in MsgIds : ReceiveStateInfo(id)
           \/ ReceiveNewSession \/ ReceiveUpdate
    PROVE  NamesInv'
<1> PICK N \in Names : AllNamed(q, srv, wire, N, Issued(clock), Sole, Gone)
  BY DEF NamesInv
<1> DEFINE I == Issued(clock)
<1>1. HandlerNamed(received0, N, I, Sole, Gone) /\ I \in SUBSET Nat
      /\ AnswersNamed(srv, N, I) /\ IsServer(srv)
  BY Received0Named, IssuedNat DEF AllNamed, NamesInv
<1>2. ASSUME NEW h, Handled(h), HandlerNamed(h, N, I, Sole, Gone), IsServer(srv'),
             srv'.acc = srv.acc, srv'.answers = srv.answers, unsettled' = unsettled,
             down' = down \/ down' = {}
      PROVE  NamesInv'
  <2>1. \A n \in down' : n.kind \in Notices
    BY <1>2 DEF NamesInv
  <2>2. Sole' \subseteq Sole /\ unsettled' \in Seq(Requests \cup {Other})
    BY <1>2 DEF Sole, Settled, Handled, NamesInv
  <2> QED
    BY <1>2, <2>1, <2>2, HandledNames
<1> HIDE DEF I
<1>3. ASSUME NEW n \in down, ReceiveNotice(n)
      PROVE  NamesInv'
  <2> DEFINE h == onNotice(received0, n)
             S == IF n.kind = "fatal" THEN Sole \ Told(h.out) ELSE Sole
             reqs == [i \in 1 .. Len(h.out) |-> h.out[i].req]
  <2>1. HandlerNamed(h, N, I, S, Gone)
    BY <1>1, OnNoticeNamed DEF NamesInv
  <2>2. /\ Handled(h) /\ srv' = srv /\ (down' = {} \/ down' = down \ {n})
        /\ unsettled' = IF n.kind = "fatal" THEN unsettled \o reqs ELSE unsettled
    BY <1>3 DEF ReceiveNotice
  <2> HIDE DEF h
  <2>3. Sole' \subseteq S /\ unsettled' \in Seq(Requests \cup {Other})
    <3>1. h.out \in Seq(Owned) /\ unsettled \in Seq(Requests \cup {Other}) /\ made' = made
      BY <2>1, <2>2 DEF HandlerNamed, NamesInv, Handled
    <3>2. CASE n.kind # "fatal"
      BY <2>2, <3>1, <3>2 DEF Sole, Settled
    <3>3. CASE n.kind = "fatal"
      <4>1. /\ reqs \in Seq(Requests \cup {Other})
            /\ \A i \in 1 .. Len(reqs) : reqs[i] \in made \cup {Other}
            /\ Told(h.out) = {reqs[i] : i \in 1 .. Len(reqs)}
        <5>1. \A m \in Owned : m.req \in made \cup {Other}
          BY DEF Owned
        <5>2. \A i \in 1 .. Len(h.out) : h.out[i].req \in made \cup {Other}
          BY <3>1, <5>1
        <5>3. Len(h.out) \in Nat /\ made \subseteq Requests
          BY <3>1 DEF PInv
        <5>4. reqs \in Seq(Requests \cup {Other}) /\ Len(reqs) = Len(h.out)
          BY <5>2, <5>3
        <5> QED
          BY <5>2, <5>4 DEF Told
      <4> HIDE DEF reqs
      <4>2. unsettled' = unsettled \o reqs
        BY <2>2, <3>3
      <4> QED
        BY <3>1, <3>3, <4>1, <4>2, NowUnsettled
    <3> QED
      BY <3>2, <3>3
  <2> HIDE DEF S
  <2>4. \A m \in down' : m.kind \in Notices
    BY <2>2 DEF NamesInv
  <2> QED
    BY <1>1, <2>1, <2>2, <2>3, <2>4, HandledNames DEF I
<1>4. ASSUME NEW id, ReceiveAck(id)
      PROVE  NamesInv'
  <2> DEFINE h == onAck(received0, id)
  <2>1. HandlerNamed(h, N, I, Sole, Gone)
    BY <1>1, OnAckNamed
  <2>2. Handled(h) /\ srv' = srv /\ down' = down /\ unsettled' = unsettled
    BY <1>4 DEF ReceiveAck
  <2> HIDE DEF h
  <2> QED
    BY <1>1, <1>2, <2>1, <2>2
<1>5. ASSUME NEW id, ReceiveAnswer(id)
      PROVE  NamesInv'
  <2>1. PICK lost \in BOOLEAN :
          LET h == onAnswer(received0, id, lost) IN
          Handled(h) /\ (down' = IF h.res = "Success" THEN down ELSE {})
    BY <1>5 DEF ReceiveAnswer
  <2> DEFINE h == onAnswer(received0, id, lost)
  <2>2. id \in DOMAIN srv.answers /\ srv' = srv /\ unsettled' = unsettled
    BY <1>5 DEF ReceiveAnswer
  <2>3. HandlerNamed(h, N, I, Sole, Gone)
    BY <1>1, <2>2, OnAnswerNamed
  <2>4. Handled(h) /\ (down' = {} \/ down' = down)
    BY <2>1
  <2> HIDE DEF h
  <2> QED
    BY <1>1, <1>2, <2>2, <2>3, <2>4
<1>6. ASSUME NEW id, ReceiveDetailedInfo(id)
      PROVE  NamesInv'
  <2> DEFINE h == onDetailedInfo(received0, id)
  <2>1. HandlerNamed(h, N, I, Sole, Gone)
    BY <1>1, OnDetailedInfoNamed
  <2>2. Handled(h) /\ srv' = srv /\ down' = down /\ unsettled' = unsettled
    BY <1>6 DEF ReceiveDetailedInfo
  <2> HIDE DEF h
  <2> QED
    BY <1>1, <1>2, <2>1, <2>2
<1>7. ASSUME ReceiveUpdate
      PROVE  NamesInv'
  <2> DEFINE h == onUpdate(received0)
  <2>1. HandlerNamed(h, N, I, Sole, Gone)
    BY <1>1, OnBadSeqNamed
  <2>2. Handled(h) /\ srv' = srv /\ (down' = {} \/ down' = down) /\ unsettled' = unsettled
    BY <1>7 DEF ReceiveUpdate
  <2> HIDE DEF h
  <2> QED
    BY <1>1, <1>2, <2>1, <2>2
<1>8. ASSUME NEW id, ReceiveStateInfo(id)
      PROVE  NamesInv'
  <2> DEFINE h == onStateInfo(received0, id)
             e == Erase(srv.asked, {id})
  <2>1. HandlerNamed(h, N, I, Sole, Gone)
    BY <1>1, OnStateInfoNamed
  <2>2. Handled(h) /\ srv' = [srv EXCEPT !.asked = e] /\ down' = down
        /\ unsettled' = unsettled
    BY <1>8 DEF ReceiveStateInfo
  <2> HIDE DEF h, e
  <2>3. IsServer(srv') /\ srv'.acc = srv.acc /\ srv'.answers = srv.answers
    BY <1>1, <2>2 DEF IsServer
  <2> QED
    BY <1>2, <2>1, <2>2, <2>3
<1>9. ASSUME ReceiveNewSession
      PROVE  NamesInv'
  <2> DEFINE h == onNewSession(received0, srv.created)
  <2>1. HandlerNamed(h, N, I, Sole, Gone)
    BY <1>1, OnNewSessionNamed
  <2>2. Handled(h) /\ srv' = [srv EXCEPT !.created = 0] /\ down' = down
        /\ unsettled' = unsettled
    BY <1>9 DEF ReceiveNewSession
  <2> HIDE DEF h
  <2>3. IsServer(srv') /\ srv'.acc = srv.acc /\ srv'.answers = srv.answers
    BY <1>1, <2>2 DEF IsServer
  <2> QED
    BY <1>2, <2>1, <2>2, <2>3
<1> QED
  BY <1>3, <1>4, <1>5, <1>6, <1>7, <1>8, <1>9

(* The steps of the main thread and of the connection.                     *)
LEMMA QuietNames ==
    ASSUME NamesInv, srv' = srv, wire' = wire \/ wire' = {}, down' = down \/ down' = {},
           clock' = clock \/ clock' = synced(clock), received' \in Seq(Owned'),
           made \subseteq made', registered' \subseteq made',
           unsettled' \in Seq(Requests \cup {Other}),
           \A N \in Names : MapsNamed(q, N, Issued(clock), Sole, Gone) =>
                              MapsNamed(q', N, Issued(clock), Sole', Gone')
    PROVE  NamesInv'
<1>1. PICK N \in Names : AllNamed(q, srv, wire, N, Issued(clock), Sole, Gone)
  BY DEF NamesInv
<1>2. AllNamed(q', srv', wire', N, Issued(clock), Sole', Gone')
  BY <1>1 DEF AllNamed
<1>3. ClockOK(clock') /\ Extends(N, Issued(clock), N, Issued(clock'))
  BY SyncedIssues DEF NamesInv, Extends
<1>4. AllNamed(q', srv', wire', N, Issued(clock'), Sole', Gone')
  BY <1>2, <1>3, WidenAll
<1>5. N \in Names'
  BY DEF Names
<1> QED
  BY <1>3, <1>4, <1>5 DEF NamesInv

(* The same for a step that leaves the past alone.                         *)
LEMMA PastNames ==
    ASSUME NamesInv, srv' = srv, wire' = wire \/ wire' = {}, down' = down \/ down' = {},
           clock' = clock \/ clock' = synced(clock), UNCHANGED Past,
           registered' \subseteq registered,
           \A N \in Names : MapsNamed(q, N, Issued(clock), Sole, Gone) =>
                              MapsNamed(q', N, Issued(clock), Sole, Gone)
    PROVE  NamesInv'
<1>1. /\ received' \in Seq(Owned') /\ made' = made /\ registered' \subseteq made'
      /\ unsettled' \in Seq(Requests \cup {Other})
  BY SamePast DEF NamesInv, Past
<1> QED
  BY <1>1, SamePast, QuietNames

LEMMA SendRequestNames ==
    ASSUME PInv, NamesInv, NEW r \in Requests, SendRequest(r)
    PROVE  NamesInv'
<1>1. /\ q' = sendPrepared(q, r) /\ UNCHANGED <<received, clock, wire, down, srv>>
      /\ r \notin made /\ made' = made \cup {r} /\ registered' = registered \cup {r}
      /\ UNCHANGED <<handled, unsettled>>
  BY DEF SendRequest, net
<1>2. /\ received \in Seq(Owned) /\ registered \subseteq made
      /\ unsettled \in Seq(Requests \cup {Other})
  BY DEF NamesInv
<1>3. r # Other
  BY RequestsAreIds DEF Other
<1>4. \A m \in Owned : m.req # r
  BY <1>1, <1>3 DEF Owned
<1>5. r \notin Told(received)
  BY <1>2, <1>4 DEF Told
<1>6. Sole' \subseteq Sole
  BY <1>1 DEF Sole, Settled
<1>7. Gone' \subseteq Gone \ {r}
  <2>1. Gone' = {s \in Requests : s \notin made' \/ handled'[s] > 0 \/ s \in Told(received')}
    BY DEF Gone
  <2>2. handled[r] = 0
    BY <1>1 DEF PInv
  <2> QED
    BY <1>1, <1>5, <2>1, <2>2 DEF Gone
<1>8. ASSUME NEW N \in Names, MapsNamed(q, N, Issued(clock), Sole, Gone)
      PROVE  MapsNamed(q', N, Issued(clock), Sole', Gone')
  <2>1. MapsNamed(q, N, Issued(clock), Sole', Gone)
    BY <1>6, <1>8, FewerNamed
  <2>2. \A i \in Issued(clock) : N[i] # r
    BY <1>1, <1>3, IssuedNat DEF Names
  <2>3. r \in Gone
    BY <1>1 DEF Gone
  <2> QED
    BY <1>1, <1>7, <2>1, <2>2, <2>3, SendPreparedNamed
<1>9. received' \in Seq(Owned')
  <2>1. Owned \subseteq Owned'
    BY <1>1 DEF Owned
  <2> QED
    BY <1>1, <1>2, <2>1
<1> QED
  BY <1>1, <1>2, <1>8, <1>9, QuietNames

(* A request that is sent anew is in Sole no more.                         *)
LEMMA RetryNames ==
    ASSUME PInv, NamesInv, NEW r \in Requests, CheckDelayedRequest(r)
    PROVE  NamesInv'
<1>1. /\ UNCHANGED <<received, clock, wire, down, srv, registered, made, handled>>
      /\ \/ q' = q /\ unsettled' = unsettled
         \/ /\ q' = sendPrepared(q, r) /\ unsettled' = Append(unsettled, r)
            /\ r \in registered
  BY DEF CheckDelayedRequest, net
<1>2. CASE q' = q /\ unsettled' = unsettled
  <2>1. UNCHANGED Past
    BY <1>1, <1>2 DEF Past
  <2> QED
    BY <1>1, <1>2, <2>1, PastNames
<1>3. CASE q' = sendPrepared(q, r) /\ unsettled' = Append(unsettled, r) /\ r \in registered
  <2>1. received' \in Seq(Owned') /\ registered' \subseteq made' /\ r \in made
    BY <1>1, <1>3 DEF NamesInv, Owned
  <2>2. Sole' \subseteq Sole \ {r} /\ unsettled' \in Seq(Requests \cup {Other})
    <3> DEFINE E == Requests \cup {Other}
               o == <<r>>
    <3>1. unsettled \in Seq(E) /\ o \in Seq(E) /\ Len(o) = 1 /\ o[1] = r
      BY DEF NamesInv
    <3>2. unsettled' = unsettled \o o
      BY <1>3, <3>1
    <3>3. \A i \in 1 .. Len(o) : o[i] \in made \cup {Other}
      BY <2>1, <3>1
    <3>4. made' = made /\ 1 \in 1 .. Len(o)
      BY <1>1, <3>1
    <3> HIDE DEF E, o
    <3>5. Sole' \subseteq Sole \ {o[i] : i \in 1 .. Len(o)} /\ unsettled' \in Seq(E)
      BY <3>1, <3>2, <3>3, <3>4, NowUnsettled
    <3> QED
      BY <3>1, <3>4, <3>5 DEF E
  <2>3. Gone' = Gone
    BY <1>1 DEF Gone, Told
  <2>4. ASSUME NEW N \in Names, MapsNamed(q, N, Issued(clock), Sole, Gone)
        PROVE  MapsNamed(q', N, Issued(clock), Sole', Gone')
    <3>1. MapsNamed(q, N, Issued(clock), Sole', Gone)
      BY <2>2, <2>4, FewerNamed
    <3>2. Sole' \cap Gone \subseteq Gone \ {r} /\ r \notin Sole'
      BY <2>2
    <3> QED
      BY <1>3, <2>3, <3>1, <3>2, SendPreparedNamed
  <2> QED
    BY <1>1, <2>1, <2>2, <2>4, QuietNames
<1> QED
  BY <1>1, <1>2, <1>3

(* What is handled was told before.                                        *)
LEMMA TryToReceiveNames ==
    ASSUME PInv, NamesInv, TryToReceive
    PROVE  NamesInv'
<1>1. /\ received # <<>> /\ received' = Tail(received)
      /\ UNCHANGED <<q, clock, wire, down, srv, made, unsettled>>
      /\ registered' \subseteq registered
      /\ handled' = handled \/ handled' = [handled EXCEPT ![Head(received).req] = @ + 1]
  BY DEF TryToReceive, net
<1>2. /\ received \in Seq(Owned) /\ registered \subseteq made
      /\ handled \in [Requests -> {0, 1}] /\ unsettled \in Seq(Requests \cup {Other})
  BY DEF NamesInv, PInv
<1>3. received' \in Seq(Owned')
  BY <1>1, <1>2 DEF Owned
<1>4. Told(received') \subseteq Told(received) /\ Head(received).req \in Told(received)
  <2> DEFINE t == Tail(received)
  <2>1. /\ Len(received) \in Nat \ {0} /\ Len(t) = Len(received) - 1
        /\ \A i \in 1 .. Len(t) : t[i] = received[i + 1]
        /\ Head(received) = received[1]
    BY <1>1, <1>2
  <2> HIDE DEF t
  <2>2. 1 \in 1 .. Len(received) /\ \A i \in 1 .. Len(t) : i + 1 \in 1 .. Len(received)
    BY <2>1
  <2>3. Told(t) \subseteq Told(received) /\ Head(received).req \in Told(received)
    BY <2>1, <2>2 DEF Told
  <2> QED
    BY <1>1, <2>3 DEF t
<1>5. Sole' = Sole
  BY <1>1 DEF Sole, Settled
<1>6. Gone' \subseteq Gone
  <2>1. Gone' = {s \in Requests : s \notin made' \/ handled'[s] > 0 \/ s \in Told(received')}
    BY DEF Gone
  <2>2. \A s \in Requests : handled'[s] > 0 => handled[s] > 0 \/ s = Head(received).req
    BY <1>1, <1>2
  <2> QED
    BY <1>1, <1>4, <2>1, <2>2 DEF Gone
<1>7. ASSUME NEW N \in Names, MapsNamed(q, N, Issued(clock), Sole, Gone)
      PROVE  MapsNamed(q', N, Issued(clock), Sole', Gone')
  BY <1>1, <1>5, <1>6, <1>7, FewerNamed
<1> QED
  BY <1>1, <1>2, <1>3, <1>7, QuietNames

LEMMA MainThreadNames ==
    ASSUME PInv, NamesInv, MainThread
    PROVE  NamesInv'
<1>2. ASSUME NEW r \in Requests, CancelRead(r)
      PROVE  NamesInv'
  <2>1. UNCHANGED <<q, clock, wire, down, srv, Past>> /\ registered' \subseteq registered
    BY <1>2 DEF CancelRead, net, Past
  <2> QED
    BY <2>1, PastNames
<1>4. CASE CancelToSend
  <2>1. q' = cancelToSend(q, cancelling.req)
        /\ UNCHANGED <<clock, wire, down, srv, registered, Past>>
    BY <1>4 DEF CancelToSend, net, Past
  <2> QED
    BY <2>1, CancelNamed, PastNames
<1>5. CASE CancelHaveSent
  <2>1. q' = cancelHaveSent(q, cancelling.id)
        /\ UNCHANGED <<clock, wire, down, srv, registered, Past>>
    BY <1>5 DEF CancelHaveSent, net, Past
  <2> QED
    BY <2>1, CancelNamed, PastNames
<1>6. CASE ResumeAndSend
  <2>1. UNCHANGED <<q, clock, wire, down, srv, registered, Past>>
    BY <1>6 DEF ResumeAndSend, net, main, Past
  <2> QED
    BY <2>1, PastNames
<1>8. CASE Stop
  <2>1. q' = dropPrivate(q) /\ wire' = {} /\ down' = {}
        /\ UNCHANGED <<clock, srv, registered, Past>>
    BY <1>8 DEF Stop, main, Past
  <2> QED
    BY <2>1, DropNamed, PastNames
<1> QED
  BY <1>2, <1>4, <1>5, <1>6, <1>8, SendRequestNames, RetryNames, TryToReceiveNames
     DEF MainThread

LEMMA ConnectionNames ==
    ASSUME NamesInv,
           \/ ConnectToServer \/ WaitConnectedFailed \/ OnConnected
           \/ WaitReceivedFailed \/ OnError \/ OnKeyError
           \/ CheckSentRequests \/ ClearOldContainers
    PROVE  NamesInv'
<1>1. CASE ConnectToServer \/ WaitConnectedFailed \/ WaitReceivedFailed \/ OnError
             \/ OnKeyError \/ CheckSentRequests
  <2>1. /\ UNCHANGED <<q, registered, clock, srv, Past>>
        /\ wire' = wire \/ wire' = {}
        /\ down' = down \/ down' = {}
    BY <1>1 DEF ConnectToServer, WaitConnectedFailed, WaitReceivedFailed, OnError,
                OnKeyError, CheckSentRequests, Lost, net, main, Past
  <2> QED
    BY <2>1, PastNames
<1>2. CASE OnConnected
  <2>1. UNCHANGED <<main, net>>
    BY <1>2, Zenon DEF OnConnected
  <2>2. \E up, new : /\ q' = IF up THEN resendAll(q) ELSE q
                     /\ clock' = IF new THEN synced(clock) ELSE clock
    BY <1>2, Zenon DEF OnConnected
  <2>3. UNCHANGED <<registered, wire, down, srv, Past>>
    BY <2>1 DEF main, net, Past
  <2> QED
    BY <2>2, <2>3, ResendNamed, PastNames
<1>3. CASE ClearOldContainers
  <2>1. /\ \E old : q' = clearOldContainers(q, old)
        /\ UNCHANGED <<registered, clock, wire, down, srv, Past>>
    BY <1>3 DEF ClearOldContainers, net, main, Past
  <2> QED
    BY <2>1, ClearNamed, PastNames
<1> QED
  BY <1>1, <1>2, <1>3

LEMMA ServerNames ==
    ASSUME NamesInv, Server
    PROVE  NamesInv'
<1> PICK N \in Names : AllNamed(q, srv, wire, N, Issued(clock), Sole, Gone)
  BY DEF NamesInv
<1> DEFINE I == Issued(clock)
<1>1. /\ MapsNamed(q, N, I, Sole, Gone) /\ AnswersNamed(srv, N, I) /\ IsServer(srv)
      /\ \A pk \in wire : PacketNamed(pk, N, I)
      /\ \A n \in down : n.kind \in Notices
  BY DEF AllNamed, NamesInv
<1> HIDE DEF I
<1>2. ASSUME UNCHANGED <<q, main, clock>>, wire' \subseteq wire,
             IsServer(srv'), AnswersNamed(srv', N, I),
             \A n \in down' : n.kind \in Notices
      PROVE  NamesInv'
  <2>1. AllNamed(q', srv', wire', N, Issued(clock'), Sole, Gone)
    BY <1>1, <1>2 DEF AllNamed, I
  <2>2. UNCHANGED Past /\ registered' = registered
    BY <1>2 DEF main, Past
  <2> QED
    BY <1>2, <2>1, <2>2, SamePast DEF NamesInv, main
<1>3. ASSUME NEW pk \in wire, ServerTakes(pk)
      PROVE  NamesInv'
  <2>1. wire' \subseteq wire /\ UNCHANGED <<q, main, clock>>
    BY <1>3 DEF ServerTakes
  <2>2. CASE \E kind \in Notices : Refused(pk, kind)
    <3>1. srv' = srv /\ \A n \in down' : n.kind \in Notices
      BY <1>1, <2>2 DEF Refused, Notice
    <3> QED
      BY <1>1, <1>2, <2>1, <3>1
  <2>3. CASE Taken(pk)
    <3> DEFINE b == IF pk.bind # 0 THEN pk.bind :> Other ELSE NoIds
               acc == pk.reqs @@ b
               both == srv.acc @@ acc
               ids == DOMAIN pk.reqs \cup DOMAIN pk.asked
                        \cup ({pk.outer, pk.ping, pk.bind} \ {0})
               least == Least(ids)
               asked == srv.asked @@ pk.asked
               seen == srv.seen \cup {pk.outer}
    <3>1. \A n \in down' : n.kind \in Notices
      BY <1>1, <2>3 DEF Taken, Notice, Notices
    <3>2. Named(acc, N, I)
      <4>1. Named(b, N, I)
        BY <1>1, EmptyNamed DEF PacketNamed, Named, :>
      <4> HIDE DEF b
      <4> QED
        BY <1>1, <4>1, MergeNamed DEF PacketNamed
    <3>3. \/ srv' = [srv EXCEPT !.sess = pk.sess, !.acc = acc, !.answers = NoIds,
                               !.asked = pk.asked, !.seen = {pk.outer},
                               !.created = least]
          \/ srv' = [srv EXCEPT !.acc = both, !.seen = seen, !.asked = asked]
      BY <2>3, Zenon DEF Taken
    <3>4. Named(both, N, I) /\ DOMAIN srv.acc \subseteq DOMAIN both
      <4>1. Named(srv.acc, N, I)
        BY <1>1 DEF AnswersNamed
      <4> HIDE DEF acc
      <4> QED
        BY <3>2, <4>1, MergeNamed DEF @@
    <3> HIDE DEF acc, both, least, asked, seen
    <3>5. CASE srv' = [srv EXCEPT !.sess = pk.sess, !.acc = acc, !.answers = NoIds,
                                  !.asked = pk.asked, !.seen = {pk.outer},
                                  !.created = least]
      <4>1. IsServer(srv') /\ srv'.acc = acc /\ srv'.answers = NoIds
        BY <1>1, <3>5 DEF IsServer
      <4>2. DOMAIN NoIds = {}
        BY DEF NoIds
      <4>3. AnswersNamed(srv', N, I)
        BY <3>2, <4>1, <4>2 DEF AnswersNamed
      <4> QED
        BY <1>2, <2>1, <3>1, <4>1, <4>3
    <3>6. CASE srv' = [srv EXCEPT !.acc = both, !.seen = seen, !.asked = asked]
      <4>1. IsServer(srv') /\ srv'.acc = both /\ srv'.answers = srv.answers
        BY <1>1, <3>6 DEF IsServer
      <4>2. AnswersNamed(srv', N, I)
        BY <1>1, <3>4, <4>1 DEF AnswersNamed
      <4> QED
        BY <1>2, <2>1, <3>1, <4>1, <4>2
    <3> QED
      BY <3>3, <3>5, <3>6
  <2> QED
    BY <1>3, <2>2, <2>3 DEF ServerTakes, Notices
<1>4. ASSUME NEW id, ServerAnswers(id)
      PROVE  NamesInv'
  <2>1. PICK ok \in BOOLEAN :
          srv' = [srv EXCEPT !.answers = @ @@ (id :> [aid |-> srv.next, ok |-> ok]),
                             !.next = @ + 1]
    BY <1>4, Zenon DEF ServerAnswers
  <2>2. id \in DOMAIN srv.acc /\ UNCHANGED <<q, main, clock, wire, down>>
    BY <1>4 DEF ServerAnswers
  <2> DEFINE one == id :> [aid |-> srv.next, ok |-> ok]
             a == srv.answers @@ one
             t == [srv EXCEPT !.answers = a]
             n == t.next + 1
  <2>3. srv' = [srv EXCEPT !.answers = a, !.next = n]
    BY <2>1, Zenon
  <2>4. DOMAIN one = {id} /\ one[id].ok = ok
    BY DEF :>
  <2> HIDE DEF one
  <2>5. /\ DOMAIN a \subseteq DOMAIN srv.acc
        /\ \A i \in DOMAIN a : a[i].ok \in BOOLEAN
    <3>1. DOMAIN a = DOMAIN srv.answers \cup {id}
      BY <2>4 DEF @@
    <3>2. ASSUME NEW i \in DOMAIN a PROVE a[i].ok \in BOOLEAN
      <4>1. \/ i \in DOMAIN srv.answers /\ a[i] = srv.answers[i]
            \/ i \in DOMAIN one /\ a[i] = one[i]
        BY MergeAt
      <4> QED
        BY <1>1, <2>4, <4>1 DEF AnswersNamed
    <3> QED
      BY <1>1, <2>2, <3>1, <3>2 DEF AnswersNamed
  <2> HIDE DEF a, n, t
  <2>6. IsServer(srv') /\ srv'.acc = srv.acc /\ srv'.answers = a
    BY <1>1, <2>3 DEF IsServer
  <2>7. AnswersNamed(srv', N, I)
    BY <1>1, <2>5, <2>6 DEF AnswersNamed
  <2> QED
    BY <1>1, <1>2, <2>2, <2>6, <2>7
<1>5. CASE ServerForgets
  <2>1. IsServer(srv') /\ srv'.acc = NoIds /\ srv'.answers = NoIds
    BY <1>1, <1>5 DEF ServerForgets, IsServer
  <2>2. DOMAIN NoIds = {}
    BY DEF NoIds
  <2>3. AnswersNamed(srv', N, I)
    BY <2>1, <2>2, EmptyNamed DEF AnswersNamed
  <2>4. UNCHANGED <<q, main, clock, wire, down>>
    BY <1>5 DEF ServerForgets
  <2> QED
    BY <1>1, <1>2, <2>1, <2>3, <2>4
<1>6. CASE ServerChangesSalt
  <2>1. IsServer(srv') /\ srv'.acc = srv.acc /\ srv'.answers = srv.answers
    BY <1>1, <1>6 DEF ServerChangesSalt, IsServer
  <2>2. AnswersNamed(srv', N, I)
    BY <1>1, <2>1 DEF AnswersNamed
  <2>3. UNCHANGED <<q, main, clock, wire, down>>
    BY <1>6 DEF ServerChangesSalt
  <2> QED
    BY <1>1, <1>2, <2>1, <2>2, <2>3
<1> QED
  BY <1>3, <1>4, <1>5, <1>6 DEF Server

LEMMA InitNames ==
    ASSUME Init
    PROVE  NamesInv
<1> DEFINE N == [i \in Nat |-> Other]
           I == Issued(clock)
<1>1. N \in Names
  BY DEF Names
<1>2. ClockOK(clock)
  BY SkewAssumption, MaxIdAssumption DEF Init, ClockOK
<1> HIDE DEF N, I
<1>3. MapsNamed(q, N, I, Sole, Gone)
  <2>1. IsMaps(q) /\ q.haveSent = NoIds /\ q.resending = NoIds /\ q.acked = NoIds
        /\ q.toSend = {} /\ q.msgId = [r \in Requests |-> 0]
        /\ q.containers = NoIds /\ q.states = NoIds
    BY DEF Init, Empty, IsMaps
  <2>2. DOMAIN NoIds = {}
    BY DEF NoIds
  <2>3. OfRequests(NoIds) /\ IdsNamed([r \in Requests |-> 0], N, I)
    BY <2>2 DEF OfRequests, IdsNamed
  <2>4. SentOnce(q, Sole, Gone)
    BY <2>1, <2>2 DEF SentOnce, NotIn
  <2> QED
    BY <2>1, <2>3, <2>4, EmptyNamed DEF MapsNamed
<1>4. AnswersNamed(srv, N, I) /\ IsServer(srv)
  <2>1. IsServer(srv) /\ srv.acc = NoIds /\ srv.answers = NoIds
    BY DEF Init, IsServer
  <2>2. DOMAIN NoIds = {}
    BY DEF NoIds
  <2> QED
    BY <2>1, <2>2, EmptyNamed DEF AnswersNamed
<1>5. /\ wire = {} /\ down = {} /\ received \in Seq(Owned) /\ registered = {}
      /\ unsettled \in Seq(Requests \cup {Other})
  BY DEF Init
<1>6. AllNamed(q, srv, wire, N, Issued(clock), Sole, Gone)
  BY <1>3, <1>4, <1>5 DEF AllNamed, I
<1> QED
  BY <1>1, <1>2, <1>4, <1>5, <1>6 DEF NamesInv

(* For any requests, faults and msg_ids, and however the clock is wrong at *)
(* first, every msg_id is kept for one request on both sides, and a        *)
(* request that was sent once is in one place.                             *)
THEOREM AlwaysNamed == Spec => []NamesInv
<1>1. Init => NamesInv
  BY InitNames
<1>2. PInv /\ NamesInv /\ [Next]_vars => NamesInv'
  <2> SUFFICES ASSUME PInv, NamesInv, [Next]_vars PROVE NamesInv'
    OBVIOUS
  <2>1. CASE MainThread
    BY <2>1, MainThreadNames
  <2>2. CASE Server
    BY <2>2, ServerNames
  <2>3. CASE SessionThread
    BY <2>3, ConnectionNames, TryToSendNames, ReceiveNames DEF SessionThread
  <2>4. CASE UNCHANGED vars
    <3>1. UNCHANGED <<q, srv, wire, down, clock, registered, Past>>
      BY <2>4 DEF vars, main, net, Past
    <3> QED
      BY <3>1, PastNames
  <2> QED
    BY <2>1, <2>2, <2>3, <2>4 DEF Next
<1> QED
  BY <1>1, <1>2, AlwaysPInv, PTL DEF Spec

(* An answer is always given to the request that the server has answered,  *)
(* whatever was resent, renamed, forgotten or taken for another session:   *)
(* replaceMsgId, resend and wasSent agree on what a msg_id stands for.     *)
THEOREM AnswerIsAlwaysItsOwn == Spec => []AnswerIsItsOwn
<1>1. NamesInv => AnswerIsItsOwn
  <2> SUFFICES ASSUME NamesInv, NEW i \in 1 .. Len(received)
               PROVE  received[i].req = received[i].of
    BY DEF AnswerIsItsOwn
  <2>1. received \in Seq(Owned)
    BY DEF NamesInv
  <2>2. received[i] \in Owned
    BY <2>1
  <2> QED
    BY <2>2 DEF Owned
<1> QED
  BY <1>1, AlwaysNamed, PTL

(* A request that was answered, and neither sent anew after an error nor   *)
(* refused for good, is neither queued nor kept as sent: requestsAcked     *)
(* finds it in haveSent or among those to resend, under whatever msg_id.   *)
THEOREM AnsweredIsAlwaysGone == Spec => []AnsweredIsGone
<1>1. NamesInv => AnsweredIsGone
  <2> SUFFICES ASSUME NamesInv, NEW r \in Requests, handled[r] > 0, Settled(r)
               PROVE  r \notin q.toSend /\ r \notin Values(q.haveSent)
    BY DEF AnsweredIsGone
  <2>1. SentOnce(q, Sole, Gone)
    BY DEF NamesInv, AllNamed, MapsNamed
  <2>2. r \in Sole /\ r \in Gone
    BY DEF Sole, Gone
  <2> QED
    BY <2>1, <2>2 DEF SentOnce, Values
<1> QED
  BY <1>1, AlwaysNamed, PTL
=============================================================================
