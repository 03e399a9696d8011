------------------------------- MODULE DcKeys -------------------------------
(***************************************************************************)
(* The keys of one data center and the sessions that share them: Dcenter,  *)
(* Session and the part of SessionPrivate that finds, creates and binds a  *)
(* temporary key.                                                          *)
(*                                                                         *)
(* A Dcenter holds a persistent key, a regular and a media temporary key,  *)
(* and one flag for each temporary key that says whether some session is   *)
(* creating it. The sessions run in threads of their own and meet only in  *)
(* the Dcenter, under its lock, and through the main thread, where the     *)
(* change of a key is announced and from where it is posted to every       *)
(* session. A stopped session's private is deleted in its thread: it goes  *)
(* on until then, and one that is resumed takes its place after that.      *)
(*                                                                         *)
(* The server (external) creates keys, answers the bind request, and may   *)
(* forget a key; a temporary key is known only where it was created, at    *)
(* the regular or at the media endpoints. Keys are numbered in the order   *)
(* of their creation.                                                      *)
(***************************************************************************)
EXTENDS Naturals, Sequences

CONSTANTS
    Sessions,   \* the sessions of the data center
    DcType,     \* each one's _realDcType: "Regular", "MediaCluster" or "Cdn"
    FaultKinds, \* the faults of the instance
    MaxFaults,  \* how many of them happen
    MaxKeys     \* how many keys are created

ASSUME SessionsAssumption ==
    /\ DcType \in [Sessions -> {"Regular", "MediaCluster", "Cdn"}]
    /\ \/ \A s \in Sessions : DcType[s] = "Cdn"
       \/ \A s \in Sessions : DcType[s] # "Cdn"
ASSUME BoundsAssumption == MaxFaults \in Nat /\ MaxKeys \in Nat

VARIABLES
    dc,      \* Dcenter: [persistent, temporary, creating]
    my,      \* Session::_myKeyCreation of each session
    priv,    \* SessionPrivate of each session
    doomed,  \* sessions whose private waits to be deleted
    resumed, \* doomed sessions that have started another one
    ghosts,  \* what the killed sessions that are not destroyed yet create
    calls,   \* what is posted to each private: "update", "restart"
    posted,  \* what is posted to the main thread
    written, \* the data center's key of _keysForWrite
    known,   \* the temporary keys that the server knows at its endpoints
    last,    \* the last key that was created
    faults   \* the faults so far

vars == <<dc, my, priv, doomed, resumed, ghosts, calls, posted, written, known,
          last, faults>>

NoKey == 0
KeyTypes == {"Regular", "MediaCluster"}
CreatingTypes == {"Persistent", "TemporaryRegular", "TemporaryMediaCluster"}

TemporaryKeyTypeByDcType(type) ==
    IF type = "MediaCluster" THEN "MediaCluster" ELSE "Regular"

IndexByType(creating) ==
    IF creating = "TemporaryMediaCluster" THEN "MediaCluster" ELSE "Regular"

Fault(kind) ==
    /\ kind \in FaultKinds /\ faults < MaxFaults
    /\ faults' = faults + 1

-----------------------------------------------------------------------------
(* Dcenter.                                                                *)

(* Mutant of acquireKeyCreation: the flag of the key is not looked at.     *)
AcquireWithoutFlag(d, type) ==
    LET keyType == TemporaryKeyTypeByDcType(type) IN
    IF d.temporary[keyType] # NoKey THEN "None"
    ELSE IF keyType = "MediaCluster" /\ d.temporary["Regular"] # NoKey
    THEN "TemporaryMediaCluster"
    ELSE IF type # "Cdn" /\ d.persistent = NoKey THEN "Persistent"
    ELSE "TemporaryRegular"

(* acquireKeyCreation: the creation that the session may begin, "None" if  *)
(* the key is there or another one is creating it.                         *)
acquireKeyCreation(d, type) ==
    LET keyType == TemporaryKeyTypeByDcType(type)
        media == keyType = "MediaCluster" /\ d.temporary["Regular"] # NoKey
        index == IF media THEN "MediaCluster" ELSE "Regular"
    IN  IF d.temporary[keyType] # NoKey \/ d.creating[index] THEN "None"
        ELSE IF media THEN "TemporaryMediaCluster"
        ELSE IF type # "Cdn" /\ d.persistent = NoKey THEN "Persistent"
        ELSE "TemporaryRegular"

acquired(d, creating) ==
    IF creating = "None" THEN d
    ELSE [d EXCEPT !.creating[IndexByType(creating)] = TRUE]

mayRelease(d, creating, used) ==
    creating = "Persistent" \/ d.persistent = used

(* releaseKeyCreationOnDone. When the persistent key is another one by now *)
(* nothing is released.                                                    *)
releaseKeyCreationOnDone(d, creating, key, used) ==
    IF ~mayRelease(d, creating, used) THEN d
    ELSE [d EXCEPT !.persistent = IF creating = "Persistent" THEN used ELSE @,
                   !.temporary[IndexByType(creating)] = key,
                   !.creating[IndexByType(creating)] = FALSE]

releaseKeyCreationOnFail(d, creating) ==
    IF creating = "None" THEN d
    ELSE [d EXCEPT !.creating[IndexByType(creating)] = FALSE]

hasTemporaryKey(d, key) == key # NoKey /\ \E t \in KeyTypes : d.temporary[t] = key

destroyTemporaryKey(d, key) ==
    [d EXCEPT !.temporary =
        [t \in KeyTypes |-> IF @[t] = key THEN NoKey ELSE @[t]]]

(* Mutant of destroyConfirmedForgottenKey: a newer key is dropped, too.    *)
DestroyAnyKey(d, key) ==
    [d EXCEPT !.persistent = NoKey, !.temporary = [t \in KeyTypes |-> NoKey]]

destroyConfirmedForgottenKey(d, key) ==
    IF d.persistent # key THEN d
    ELSE [d EXCEPT !.persistent = NoKey,
                   !.temporary = [t \in KeyTypes |-> NoKey]]

-----------------------------------------------------------------------------
(* SessionPrivate. conn is "none" after stop, "wait" until connectToServer *)
(* is called, "test" while connecting and "up" with a connection; creator  *)
(* says how far _keyCreator is: "no", "ready" to start, "running" or       *)
(* "binding" key to used.                                                  *)

NewPrivate(s) ==
    [conn |-> "wait", cur |-> DcType[s], key |-> NoKey, creator |-> "no",
     used |-> NoKey]
NoPrivate(s) == [NewPrivate(s) EXCEPT !.conn = "none"]

(* restart(): destroyAllConnections() stops a creator that is running.     *)
stopped(c) == IF c = "running" THEN "ready" ELSE c
restart(x) == [x EXCEPT !.conn = "wait", !.creator = stopped(@)]

(* releaseKeyCreationOnFail() and what it does to the session and the dc.  *)
released(x) == [x EXCEPT !.creator = "no", !.used = NoKey]
Released(s) ==
    IF priv[s].creator = "no" THEN dc ELSE releaseKeyCreationOnFail(dc, my[s])
MyReleased(s) ==
    IF priv[s].creator = "no" THEN my ELSE [my EXCEPT ![s] = "None"]

Live(s) == priv[s].conn # "none"

Init ==
    /\ dc = [persistent |-> NoKey, temporary |-> [t \in KeyTypes |-> NoKey],
             creating |-> [t \in KeyTypes |-> FALSE]]
    /\ my = [s \in Sessions |-> "None"]
    /\ priv = [s \in Sessions |-> NewPrivate(s)]
    /\ doomed = {} /\ resumed = {} /\ ghosts = {} /\ posted = <<>>
    /\ calls = [s \in Sessions |-> {}]
    /\ written = NoKey /\ known = [t \in KeyTypes |-> {}]
    /\ last = NoKey /\ faults = 0

(* tryAcquireKeyCreation() with what it returns as cur.                    *)
acquiring(s, creating) ==
    [priv[s] EXCEPT
        !.creator = IF creating = "None" THEN @ ELSE "ready",
        !.cur = IF DcType[s] = "MediaCluster"
                     /\ creating \notin {"None", "TemporaryMediaCluster"}
                THEN "Regular" ELSE DcType[s]]

ConnectToServer(s) ==
    /\ priv[s].conn = "wait"
    /\ LET creating == IF priv[s].creator # "no" THEN "None"
                       ELSE acquireKeyCreation(dc, DcType[s])
           x == IF priv[s].creator # "no" THEN priv[s] ELSE acquiring(s, creating)
       IN  /\ dc' = acquired(dc, creating)
           /\ my' = IF creating = "None" THEN my ELSE [my EXCEPT ![s] = creating]
           /\ priv' = [priv EXCEPT ![s] = [x EXCEPT !.conn = "test"]]
    /\ UNCHANGED <<doomed, resumed, ghosts, calls, posted, written, known,
                   last, faults>>

(* applyAuthKey() with a key, or with none when there was one.             *)
appliedKey(x, key) ==
    IF x.key = key THEN x
    ELSE IF x.key # NoKey
    THEN [(IF x.conn = "up" THEN restart(x) ELSE x) EXCEPT !.key = NoKey]
    ELSE [x EXCEPT !.key = key]

(* applyAuthKey() without a key when there was none: the creator starts if *)
(* there is one. A session for media that sees a regular key will look     *)
(* once more whether it may create one (conn = "probe").                   *)
started(c) == IF c = "ready" THEN "running" ELSE c

noKeyYet(x) ==
    IF x.cur = "MediaCluster" /\ dc.temporary["Regular"] # NoKey /\ x.creator = "no"
    THEN [x EXCEPT !.conn = "probe"]
    ELSE [x EXCEPT !.creator = started(@)]

applyAuthKey(x, key) ==
    IF key = NoKey /\ x.key = NoKey THEN noKeyYet(x) ELSE appliedKey(x, key)

Endpoint(x) == TemporaryKeyTypeByDcType(x.cur)
CurrentKey(x) == dc.temporary[Endpoint(x)]

(* The rest of applyAuthKey(), by when the regular key may be gone again.  *)
AcquireForMedia(s) ==
    /\ priv[s].conn = "probe"
    /\ LET creating == acquireKeyCreation(dc, DcType[s])
           x == [priv[s] EXCEPT !.conn = "up"]
       IN  /\ dc' = acquired(dc, creating)
           /\ my' = IF creating = "None" THEN my ELSE [my EXCEPT ![s] = creating]
           /\ priv' = [priv EXCEPT ![s] =
                CASE creating = "None" -> x
                  [] creating = "TemporaryMediaCluster" ->
                        [x EXCEPT !.creator = "running"]
                  [] OTHER -> restart([x EXCEPT !.creator = "ready"])]
    /\ UNCHANGED <<doomed, resumed, ghosts, calls, posted, written, known,
                   last, faults>>

(* onConnected() and checkAuthKey()                                        *)
OnConnected(s) ==
    LET x == [priv[s] EXCEPT !.conn = "up"] IN
    /\ priv[s].conn = "test"
    /\ IF x.key # NoKey
       THEN priv' = [priv EXCEPT ![s] = x]
       ELSE priv' = [priv EXCEPT ![s] = applyAuthKey(x, CurrentKey(x))]
    /\ UNCHANGED <<dc, my, doomed, resumed, ghosts, calls, posted, written,
                   known, last, faults>>

UpdateAuthKey(s) ==
    /\ "update" \in calls[s] /\ priv[s].conn # "probe"
    /\ calls' = [calls EXCEPT ![s] = @ \ {"update"}]
    /\ priv' = IF priv[s].conn = "up" /\ priv[s].creator = "no"
               THEN [priv EXCEPT ![s] = applyAuthKey(@, CurrentKey(@))]
               ELSE priv
    /\ UNCHANGED <<dc, my, doomed, resumed, ghosts, posted, written, known,
                   last, faults>>

RestartNow(s) ==
    /\ "restart" \in calls[s] /\ priv[s].conn # "probe"
    /\ calls' = [calls EXCEPT ![s] = @ \ {"restart"}]
    /\ priv' = [priv EXCEPT ![s] = restart(@)]
    /\ UNCHANGED <<dc, my, doomed, resumed, ghosts, posted, written, known,
                   last, faults>>

(* releaseGenericKeyCreationOnDone() announces the new key.                *)
Announce(creating, used) ==
    IF creating = "Persistent" THEN [kind |-> "persistent", key |-> used]
    ELSE [kind |-> "temporary", key |-> NoKey]

(* The delegate's unboundReady of tryAcquireKeyCreation(), with a key, to  *)
(* be bound unless the data center is a CDN.                               *)
UnboundReady(s) ==
    LET own == my[s] = "Persistent"
        key == last + 1
        used == IF own THEN last + 2 ELSE dc.persistent
        x == priv[s]
    IN  /\ x.conn = "up" /\ x.creator = "running"
        /\ last' = IF own THEN last + 2 ELSE last + 1
        /\ last' <= MaxKeys
        /\ IF DcType[s] = "Cdn"
           THEN /\ dc' = releaseKeyCreationOnDone(dc, my[s], key, NoKey)
                /\ my' = [my EXCEPT ![s] = "None"]
                /\ priv' = [priv EXCEPT ![s] = [released(x) EXCEPT !.key = key]]
                /\ posted' = Append(posted, Announce(my[s], NoKey))
           ELSE IF used = NoKey
           THEN /\ dc' = Released(s) /\ my' = MyReleased(s)
                /\ priv' = [priv EXCEPT ![s] = restart(released(x))]
                /\ UNCHANGED posted
           ELSE /\ priv' = [priv EXCEPT ![s] =
                      [x EXCEPT !.key = key, !.creator = "binding", !.used = used]]
                /\ UNCHANGED <<dc, my, posted>>
        /\ known' = [known EXCEPT ![Endpoint(x)] = @ \cup {key}]
        /\ UNCHANGED <<doomed, resumed, ghosts, calls, written, faults>>

UnboundFailed(s) ==
    /\ priv[s].conn = "up" /\ priv[s].creator = "running"
    /\ Fault("create")
    /\ dc' = Released(s) /\ my' = MyReleased(s)
    /\ priv' = [priv EXCEPT ![s] = restart(released(@))]
    /\ UNCHANGED <<doomed, resumed, ghosts, calls, posted, written, known,
                   last>>

(* handleBindResponse() with success. The key creator is given away before *)
(* the Dcenter says whether the key may be used.                           *)
BindDone(s) ==
    LET x == priv[s]
        done == mayRelease(dc, my[s], x.used)
    IN  /\ x.conn = "up" /\ x.creator = "binding" /\ x.key \in known[Endpoint(x)]
        /\ dc' = releaseKeyCreationOnDone(dc, my[s], x.key, x.used)
        /\ my' = [my EXCEPT ![s] = "None"]
        /\ priv' = [priv EXCEPT ![s] =
                      IF done THEN released(x)
                      ELSE restart([released(x) EXCEPT !.key = NoKey])]
        /\ posted' = IF done THEN Append(posted, Announce(my[s], x.used)) ELSE posted
        /\ UNCHANGED <<doomed, resumed, ghosts, calls, written, known, last,
                       faults>>

(* handleBindResponse() with ENCRYPTED_MESSAGE_INVALID for a persistent    *)
(* key that is old enough; with other errors the bind request is repeated. *)
BindRefused(s) ==
    LET x == priv[s] IN
    /\ x.conn = "up" /\ x.creator = "binding" /\ x.key \in known[Endpoint(x)]
    /\ Fault("destroyed")
    /\ posted' = Append(posted, [kind |-> "destroyed", key |-> x.used])
    /\ dc' = Released(s) /\ my' = MyReleased(s)
    /\ priv' = [priv EXCEPT ![s] = restart([released(x) EXCEPT !.key = NoKey])]
    /\ UNCHANGED <<doomed, resumed, ghosts, calls, written, known, last>>

(* destroyTemporaryKey() after the error -404: the server does not know    *)
(* the key of what it has received.                                        *)
KeyError(s) ==
    LET x == priv[s] IN
    /\ x.conn = "up" /\ x.key # NoKey /\ x.key \notin known[Endpoint(x)]
    /\ dc' = destroyTemporaryKey(Released(s), x.key)
    /\ my' = MyReleased(s)
    /\ posted' = IF hasTemporaryKey(dc, x.key)
                 THEN Append(posted, [kind |-> "temporary", key |-> NoKey])
                 ELSE posted
    /\ priv' = [priv EXCEPT ![s] = restart([released(x) EXCEPT !.key = NoKey])]
    /\ UNCHANGED <<doomed, resumed, ghosts, calls, written, known, last,
                   faults>>

(* onDisconnected, onError, the timeouts                                   *)
OnError(s) ==
    /\ priv[s].conn \in {"test", "up"}
    /\ Fault("error")
    /\ priv' = [priv EXCEPT ![s] = restart(@)]
    /\ UNCHANGED <<dc, my, doomed, resumed, ghosts, calls, posted, written,
                   known, last>>

(* ~SessionPrivate in the thread of the session                            *)
DeletePrivate(s) ==
    /\ s \in doomed /\ priv[s].conn # "probe"
    /\ dc' = Released(s) /\ my' = MyReleased(s)
    /\ priv' = [priv EXCEPT ![s] = IF s \in resumed THEN NewPrivate(s)
                                   ELSE NoPrivate(s)]
    /\ doomed' = doomed \ {s} /\ resumed' = resumed \ {s}
    /\ calls' = [calls EXCEPT ![s] = {}]
    /\ UNCHANGED <<ghosts, posted, written, known, last, faults>>

-----------------------------------------------------------------------------
(* The main thread.                                                        *)

Running == {s \in Sessions : Live(s) /\ s \notin doomed}

(* What is posted to the private of every session that has one.            *)
told(more) ==
    [s \in Sessions |-> IF s \in Running THEN calls[s] \cup more ELSE calls[s]]

(* dcTemporaryKeyChanged() and dcPersistentKeyChanged()                    *)
KeyChanged ==
    /\ posted # <<>> /\ Head(posted).kind # "destroyed"
    /\ posted' = Tail(posted)
    /\ calls' = told({"update"})
    /\ written' = IF Head(posted).kind = "persistent" THEN Head(posted).key
                  ELSE written
    /\ UNCHANGED <<dc, my, priv, doomed, resumed, ghosts, known, last, faults>>

(* keyDestroyedOnServer(): the persistent key is dropped if it is that one *)
(* and every session is restarted.                                         *)
KeyDestroyedOnServer ==
    /\ posted # <<>> /\ Head(posted).kind = "destroyed"
    /\ posted' = Tail(posted)
    /\ LET same == dc.persistent = Head(posted).key
           more == IF same THEN {"update", "restart"} ELSE {"restart"}
       IN  /\ dc' = destroyConfirmedForgottenKey(dc, Head(posted).key)
           /\ written' = IF same THEN NoKey ELSE written
           /\ calls' = told(more)
    /\ UNCHANGED <<my, priv, doomed, resumed, ghosts, known, last, faults>>

(* Session::stop                                                           *)
Stop(s) ==
    /\ s \in Running
    /\ Fault("stop")
    /\ doomed' = doomed \cup {s}
    /\ UNCHANGED <<dc, my, priv, resumed, ghosts, calls, posted, written,
                   known, last>>

(* needToResumeAndSend() of a session that was stopped, getSession() for   *)
(* one that was killed                                                     *)
Resume(s) ==
    /\ s \notin Running /\ s \notin resumed
    /\ \/ /\ s \in doomed
          /\ resumed' = resumed \cup {s}
          /\ UNCHANGED priv
       \/ /\ s \notin doomed
          /\ priv' = [priv EXCEPT ![s] = NewPrivate(s)]
          /\ UNCHANGED resumed
    /\ UNCHANGED <<dc, my, doomed, ghosts, calls, posted, written, known, last,
                   faults>>

(* Session::kill: the private has lost its owner and cannot release        *)
(* anything; the session does when it is destroyed.                        *)
Kill(s) ==
    /\ priv[s].conn \notin {"none", "probe"}
    /\ Fault("kill")
    /\ ghosts' = ghosts \cup ({my[s]} \ {"None"})
    /\ my' = [my EXCEPT ![s] = "None"]
    /\ priv' = [priv EXCEPT ![s] = NoPrivate(s)]
    /\ calls' = [calls EXCEPT ![s] = {}]
    /\ doomed' = doomed \ {s} /\ resumed' = resumed \ {s}
    /\ UNCHANGED <<dc, posted, written, known, last>>

(* scheduleSessionDestroy() posted this.                                   *)
DestroySession ==
    /\ \E creating \in ghosts :
         /\ ghosts' = ghosts \ {creating}
         /\ dc' = releaseKeyCreationOnFail(dc, creating)
    /\ UNCHANGED <<my, priv, doomed, resumed, calls, posted, written, known,
                   last, faults>>

(* The server forgets a temporary key (external).                          *)
Forget ==
    /\ Fault("key")
    /\ \E t \in KeyTypes, key \in 1 .. last :
         /\ key \in known[t]
         /\ known' = [known EXCEPT ![t] = @ \ {key}]
    /\ UNCHANGED <<dc, my, priv, doomed, resumed, ghosts, calls, posted,
                   written, last>>

-----------------------------------------------------------------------------
Thread(s) ==
    \/ ConnectToServer(s) \/ OnConnected(s) \/ AcquireForMedia(s)
    \/ UpdateAuthKey(s) \/ RestartNow(s)
    \/ UnboundReady(s) \/ BindDone(s) \/ KeyError(s) \/ DeletePrivate(s)

Faulty(s) ==
    \/ UnboundFailed(s) \/ BindRefused(s) \/ OnError(s)
    \/ Stop(s) \/ Kill(s)

Main == KeyChanged \/ KeyDestroyedOnServer \/ DestroySession

Next ==
    \/ Main \/ Forget
    \/ \E s \in Sessions : Thread(s) \/ Faulty(s) \/ Resume(s)

Spec == Init /\ [][Next]_vars

-----------------------------------------------------------------------------
Keys == 0 .. MaxKeys

TypeOK ==
    /\ dc \in [persistent : Keys, temporary : [KeyTypes -> Keys],
               creating : [KeyTypes -> BOOLEAN]]
    /\ my \in [Sessions -> CreatingTypes \cup {"None"}]
    /\ priv \in [Sessions -> [conn : {"none", "wait", "test", "probe", "up"},
                              cur : {"Regular", "MediaCluster", "Cdn"},
                              key : Keys, used : Keys,
                              creator : {"no", "ready", "running", "binding"}]]
    /\ doomed \subseteq Sessions /\ resumed \subseteq doomed
    /\ ghosts \subseteq CreatingTypes
    /\ calls \in [Sessions -> SUBSET {"update", "restart"}]
    /\ posted \in Seq([kind : {"persistent", "temporary", "destroyed"}, key : Keys])
    /\ known \in [KeyTypes -> SUBSET Keys]
    /\ written \in Keys /\ last \in Keys /\ faults \in 0 .. MaxFaults

(* The assertions of Dcenter and Session: who creates a key holds its flag *)
(* and the key is not there; the private with the creator belongs to the   *)
(* session that acquired the creation.                                     *)
Creates(creating) ==
    /\ dc.creating[IndexByType(creating)]
    /\ dc.temporary[IndexByType(creating)] = NoKey

CreatorHoldsFlag ==
    /\ \A s \in Sessions : my[s] # "None" => Creates(my[s])
    /\ \A creating \in ghosts : Creates(creating)
    /\ \A s \in Sessions : (priv[s].creator # "no") = (my[s] # "None")

(* No two sessions create the same key.                                    *)
OneCreator ==
    \A s, t \in Sessions : my[s] # "None" /\ my[t] # "None" /\ s # t =>
        IndexByType(my[s]) # IndexByType(my[t])

(* When the main thread has nothing left to do, the key that will be       *)
(* written to disk is the one that is used.                                *)
WrittenIsUsed == posted = <<>> => written = dc.persistent
=============================================================================
