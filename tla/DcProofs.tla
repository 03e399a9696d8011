------------------------------ MODULE DcProofs ------------------------------
(***************************************************************************)
(* Proofs about the data centers: DcKeys, for any number of sessions,      *)
(* faults and keys, and MtpInstance, for any number of requests, data      *)
(* centers and errors.                                                     *)
(*                                                                         *)
(* DcKeys. Excl is the strengthening: whoever creates a key, a session or  *)
(* the remains of a killed one, holds the flag of that key, the key is not *)
(* there, and no two of them create the same key. It is stated for any     *)
(* data center, so that each operation of Dcenter has one lemma, and every *)
(* action is a use of these.                                               *)
(*                                                                         *)
(* KeyInv is a second invariant, about the persistent key and the queue of *)
(* the main thread: what is written down after the queue is worked off is  *)
(* the key that is used. It needs that no key is announced after it was    *)
(* found destroyed, which in turn needs that a key that a session has      *)
(* created is known to no other session until it is announced.             *)
(*                                                                         *)
(* MtpInstance. InstanceInv says of every known request that it is at one  *)
(* place, and of every other one that it is nowhere, so that the next use  *)
(* of its id cannot find it. Handlers take a request out, hand it to a few *)
(* functions and put it somewhere: PlacesOk is therefore stated for any    *)
(* state of the instance, with the set X of the requests that are in a     *)
(* handler's hands, and each function has one lemma that says which of     *)
(* them it has put down. AuthOk ties the lists of waiters to the export    *)
(* and the import that will empty them.                                    *)
(***************************************************************************)
EXTENDS DcKeys, MtpInstance, FiniteSetTheorems, WellFoundedInduction, TLAPS

Creations == CreatingTypes \cup {"None"}
DcSet ==
    [persistent : Keys, temporary : [KeyTypes -> Keys],
     creating : [KeyTypes -> BOOLEAN]]

Holds(d, creating) ==
    /\ d.creating[IndexByType(creating)] = TRUE
    /\ d.temporary[IndexByType(creating)] = NoKey

Excl(d, y, g) ==
    /\ \A s \in Sessions : y[s] # "None" => Holds(d, y[s])
    /\ \A c \in g : Holds(d, c)
    /\ \A s, t \in Sessions : y[s] # "None" /\ y[t] # "None" /\ s # t =>
           IndexByType(y[s]) # IndexByType(y[t])
    /\ \A s \in Sessions, c \in g : y[s] # "None" =>
           IndexByType(y[s]) # IndexByType(c)
    /\ \A c, e \in g : c # e => IndexByType(c) # IndexByType(e)

Owns == \A s \in Sessions : (priv[s].creator # "no") <=> (my[s] # "None")

(* A private that is in the middle of applyAuthKey() or gone has none.     *)
Idle == \A s \in Sessions : priv[s].conn \in {"none", "probe"} =>
            priv[s].creator = "no"

Inv == TypeOK /\ Excl(dc, my, ghosts) /\ Owns /\ Idle

(* What will be written down when the main thread has worked off the queue *)
(* q: the key of the last announcement, or what is written now.            *)
Latest(q, w, key) ==
    \/ w = key /\ \A i \in DOMAIN q : q[i].kind # "persistent"
    \/ \E i \in DOMAIN q :
         /\ q[i].kind = "persistent" /\ q[i].key = key
         /\ \A j \in DOMAIN q : i < j => q[j].kind # "persistent"

(* A key is not announced after the server was found to have destroyed it. *)
NotRevived(q) ==
    \A i, j \in DOMAIN q :
        i < j /\ q[i].kind = "destroyed" /\ q[j].kind = "persistent" =>
            q[i].key # q[j].key

Numbered(q, n) == \A i \in DOMAIN q : q[i].key <= n

(* The persistent key that a session has created and is binding is its     *)
(* own: nobody uses it, binds to it or was told that it is gone.           *)
Binds(s) == priv[s].creator = "binding"
BindsOwn(s) == Binds(s) /\ my[s] = "Persistent"
OwnKey(s) ==
    /\ priv[s].used # dc.persistent
    /\ \A t \in Sessions \ {s} : Binds(t) => priv[t].used # priv[s].used
    /\ \A i \in DOMAIN posted :
         posted[i].kind = "destroyed" => posted[i].key # priv[s].used

QueueInv ==
    /\ Latest(posted, written, dc.persistent) /\ NotRevived(posted)
    /\ dc.persistent <= last /\ Numbered(posted, last)

BindInv ==
    /\ \A s \in Sessions : Binds(s) => priv[s].used # NoKey /\ priv[s].used <= last
    /\ \A s \in Sessions : BindsOwn(s) => OwnKey(s)
    /\ \A s \in Sessions : DcType[s] = "Cdn" => my[s] # "Persistent"

KeyInv == QueueInv /\ BindInv

-----------------------------------------------------------------------------
(* Creation may begin only while nobody holds the flag.                    *)
LEMMA AcquireExcl ==
    ASSUME NEW d \in DcSet, NEW y \in [Sessions -> Creations],
           NEW g \in SUBSET CreatingTypes, NEW s \in Sessions,
           y[s] = "None", Excl(d, y, g),
           NEW type \in {"Regular", "MediaCluster", "Cdn"},
           NEW c, c = acquireKeyCreation(d, type)
    PROVE  /\ c \in Creations
           /\ acquired(d, c) \in DcSet
           /\ Excl(acquired(d, c), IF c = "None" THEN y ELSE [y EXCEPT ![s] = c], g)
<1>1. c \in Creations
  BY DEF acquireKeyCreation, Creations, CreatingTypes
<1>2. CASE c = "None"
  BY <1>1, <1>2 DEF acquired
<1>3. CASE c # "None"
  <2>1. c \in CreatingTypes
    BY <1>1, <1>3 DEF Creations
  <2>2. d.creating[IndexByType(c)] = FALSE /\ d.temporary[IndexByType(c)] = NoKey
    BY <1>3 DEF acquireKeyCreation, IndexByType, TemporaryKeyTypeByDcType, DcSet, KeyTypes
  <2>3. IndexByType(c) \in KeyTypes
    BY DEF IndexByType, KeyTypes
  <2> DEFINE k == IndexByType(c)
             e == [d EXCEPT !.creating[k] = TRUE]
             z == [y EXCEPT ![s] = c]
  <2>4. e \in DcSet /\ e.temporary = d.temporary /\ e.creating[k] = TRUE
        /\ \A t \in KeyTypes : t # k => e.creating[t] = d.creating[t]
    BY <2>3 DEF DcSet
  <2>5. acquired(d, c) = e
    BY <1>3 DEF acquired
  <2>6. \A t \in Sessions : z[t] = IF t = s THEN c ELSE y[t]
    OBVIOUS
  <2>7. /\ \A t \in Sessions : t # s /\ y[t] # "None" => IndexByType(y[t]) # k
        /\ \A h \in g : IndexByType(h) # k
    BY <2>2 DEF Excl, Holds
  <2>8. \A h : IndexByType(h) \in KeyTypes
    BY DEF IndexByType, KeyTypes
  <2> HIDE DEF e, z
  <2>9. \A h : Holds(d, h) /\ IndexByType(h) # k => Holds(e, h)
    BY <2>4, <2>8 DEF Holds
  <2>10. Holds(e, c)
    BY <2>2, <2>4 DEF Holds
  <2> HIDE DEF k
  <2>11. \A t \in Sessions : z[t] # "None" => Holds(e, z[t])
    BY <2>6, <2>7, <2>9, <2>10 DEF Excl
  <2>12. \A h \in g : Holds(e, h)
    BY <2>7, <2>9 DEF Excl
  <2>13. \A t, u \in Sessions : z[t] # "None" /\ z[u] # "None" /\ t # u =>
             IndexByType(z[t]) # IndexByType(z[u])
    BY <2>6, <2>7 DEF Excl, k
  <2>14. \A t \in Sessions, h \in g : z[t] # "None" =>
             IndexByType(z[t]) # IndexByType(h)
    BY <2>6, <2>7 DEF Excl, k
  <2>15. Excl(e, z, g)
    BY <2>11, <2>12, <2>13, <2>14 DEF Excl
  <2> QED
    BY <1>1, <1>3, <2>4, <2>5, <2>15 DEF z
<1> QED
  BY <1>2, <1>3

(* A creation that ends frees the flag that only it holds.                 *)
LEMMA DropExcl ==
    ASSUME NEW d \in DcSet, NEW e \in DcSet, NEW y \in [Sessions -> Creations],
           NEW g, NEW s \in Sessions, y[s] # "None", Excl(d, y, g),
           \A t \in KeyTypes : t # IndexByType(y[s]) =>
               e.creating[t] = d.creating[t] /\ e.temporary[t] = d.temporary[t]
    PROVE  Excl(e, [y EXCEPT ![s] = "None"], g)
<1> DEFINE k == IndexByType(y[s])
           z == [y EXCEPT ![s] = "None"]
<1>1. \A t \in Sessions : z[t] = IF t = s THEN "None" ELSE y[t]
  OBVIOUS
<1>2. \A h : IndexByType(h) \in KeyTypes
  BY DEF IndexByType, KeyTypes
<1>3. \A h : Holds(d, h) /\ IndexByType(h) # k => Holds(e, h)
  BY <1>2 DEF Holds
<1>4. /\ \A t \in Sessions : t # s /\ y[t] # "None" => IndexByType(y[t]) # k
      /\ \A h \in g : IndexByType(h) # k
  BY DEF Excl
<1> HIDE DEF k, z
<1>5. \A t \in Sessions : z[t] # "None" => Holds(e, z[t])
  BY <1>1, <1>3, <1>4 DEF Excl
<1>6. \A h \in g : Holds(e, h)
  BY <1>3, <1>4 DEF Excl
<1>7. Excl(e, z, g)
  BY <1>1, <1>5, <1>6 DEF Excl
<1> QED
  BY <1>7 DEF z

LEMMA FailExcl ==
    ASSUME NEW d \in DcSet, NEW y \in [Sessions -> Creations],
           NEW g, NEW s \in Sessions, y[s] # "None", Excl(d, y, g)
    PROVE  /\ releaseKeyCreationOnFail(d, y[s]) \in DcSet
           /\ Excl(releaseKeyCreationOnFail(d, y[s]), [y EXCEPT ![s] = "None"], g)
<1> DEFINE e == releaseKeyCreationOnFail(d, y[s])
<1>1. IndexByType(y[s]) \in KeyTypes
  BY DEF IndexByType, KeyTypes
<1>2. e \in DcSet
  BY <1>1 DEF releaseKeyCreationOnFail, DcSet
<1>3. \A t \in KeyTypes : t # IndexByType(y[s]) =>
          e.creating[t] = d.creating[t] /\ e.temporary[t] = d.temporary[t]
  BY <1>1 DEF releaseKeyCreationOnFail, DcSet
<1> HIDE DEF e
<1>4. Excl(e, [y EXCEPT ![s] = "None"], g)
  BY <1>2, <1>3, DropExcl
<1> QED
  BY <1>2, <1>4 DEF e

LEMMA DoneExcl ==
    ASSUME NEW d \in DcSet, NEW y \in [Sessions -> Creations],
           NEW g, NEW s \in Sessions, y[s] # "None", Excl(d, y, g),
           NEW key \in Keys, NEW used \in Keys
    PROVE  /\ releaseKeyCreationOnDone(d, y[s], key, used) \in DcSet
           /\ Excl(releaseKeyCreationOnDone(d, y[s], key, used),
                   [y EXCEPT ![s] = "None"], g)
<1> DEFINE e == releaseKeyCreationOnDone(d, y[s], key, used)
<1>1. IndexByType(y[s]) \in KeyTypes
  BY DEF IndexByType, KeyTypes
<1>2. e \in DcSet
  BY <1>1 DEF releaseKeyCreationOnDone, DcSet
<1>3. \A t \in KeyTypes : t # IndexByType(y[s]) =>
          e.creating[t] = d.creating[t] /\ e.temporary[t] = d.temporary[t]
  BY <1>1 DEF releaseKeyCreationOnDone, DcSet
<1> HIDE DEF e
<1>4. Excl(e, [y EXCEPT ![s] = "None"], g)
  BY <1>2, <1>3, DropExcl
<1> QED
  BY <1>2, <1>4 DEF e

(* Keys that are dropped disturb nobody.                                   *)
LEMMA LostExcl ==
    ASSUME NEW d \in DcSet, NEW y, NEW g, Excl(d, y, g), NEW e \in DcSet,
           e.creating = d.creating,
           \A t \in KeyTypes : e.temporary[t] \in {d.temporary[t], NoKey}
    PROVE  Excl(e, y, g)
<1>1. \A h : IndexByType(h) \in KeyTypes
  BY DEF IndexByType, KeyTypes
<1>2. \A h : Holds(d, h) => Holds(e, h)
  BY <1>1 DEF Holds
<1> QED
  BY <1>2 DEF Excl

LEMMA DestroyExcl ==
    ASSUME NEW d \in DcSet, NEW y, NEW g, Excl(d, y, g), NEW key
    PROVE  /\ destroyTemporaryKey(d, key) \in DcSet
           /\ Excl(destroyTemporaryKey(d, key), y, g)
           /\ destroyConfirmedForgottenKey(d, key) \in DcSet
           /\ Excl(destroyConfirmedForgottenKey(d, key), y, g)
<1>0. NoKey \in Keys
  BY BoundsAssumption DEF NoKey, Keys
<1> DEFINE e == destroyTemporaryKey(d, key)
           f == destroyConfirmedForgottenKey(d, key)
<1>1. e \in DcSet /\ e.creating = d.creating
      /\ \A t \in KeyTypes : e.temporary[t] \in {d.temporary[t], NoKey}
  BY <1>0 DEF destroyTemporaryKey, DcSet
<1>2. f \in DcSet /\ f.creating = d.creating
      /\ \A t \in KeyTypes : f.temporary[t] \in {d.temporary[t], NoKey}
  BY <1>0 DEF destroyConfirmedForgottenKey, DcSet
<1> HIDE DEF e, f
<1>3. Excl(e, y, g)
  BY <1>1, LostExcl
<1>4. Excl(f, y, g)
  BY <1>2, LostExcl
<1> QED
  BY <1>1, <1>2, <1>3, <1>4 DEF e, f

(* A killed session leaves its creation to a ghost.                        *)
LEMMA KillExcl ==
    ASSUME NEW d, NEW y \in [Sessions -> Creations],
           NEW g, NEW s \in Sessions, Excl(d, y, g)
    PROVE  Excl(d, [y EXCEPT ![s] = "None"], g \cup ({y[s]} \ {"None"}))
<1> DEFINE z == [y EXCEPT ![s] = "None"]
           h == g \cup ({y[s]} \ {"None"})
<1>1. \A t \in Sessions : z[t] = IF t = s THEN "None" ELSE y[t]
  OBVIOUS
<1>2. \A c : c \in h <=> c \in g \/ (c = y[s] /\ y[s] # "None")
  OBVIOUS
<1> HIDE DEF z, h
<1>3. \A t \in Sessions : z[t] # "None" => Holds(d, z[t])
  BY <1>1 DEF Excl
<1>4. \A c \in h : Holds(d, c)
  BY <1>2 DEF Excl
<1>5. \A t, u \in Sessions : z[t] # "None" /\ z[u] # "None" /\ t # u =>
          IndexByType(z[t]) # IndexByType(z[u])
  BY <1>1 DEF Excl
<1>6. \A t \in Sessions, c \in h : z[t] # "None" =>
          IndexByType(z[t]) # IndexByType(c)
  BY <1>1, <1>2 DEF Excl
<1>7. \A c, e \in h : c # e => IndexByType(c) # IndexByType(e)
  BY <1>2 DEF Excl
<1>8. Excl(d, z, h)
  BY <1>3, <1>4, <1>5, <1>6, <1>7 DEF Excl
<1> QED
  BY <1>8 DEF z, h

(* The destructor of a killed session frees the flag that its ghost holds. *)
LEMMA GhostExcl ==
    ASSUME NEW d \in DcSet, NEW y \in [Sessions -> Creations],
           NEW g \in SUBSET CreatingTypes, Excl(d, y, g), NEW c \in g
    PROVE  /\ releaseKeyCreationOnFail(d, c) \in DcSet
           /\ Excl(releaseKeyCreationOnFail(d, c), y, g \ {c})
<1> DEFINE e == releaseKeyCreationOnFail(d, c)
           k == IndexByType(c)
<1>1. k \in KeyTypes
  BY DEF IndexByType, KeyTypes
<1>2. e \in DcSet
  BY <1>1 DEF releaseKeyCreationOnFail, DcSet
<1>3. \A t \in KeyTypes : t # k =>
          e.creating[t] = d.creating[t] /\ e.temporary[t] = d.temporary[t]
  BY <1>1 DEF releaseKeyCreationOnFail, DcSet
<1>4. \A h : IndexByType(h) \in KeyTypes
  BY DEF IndexByType, KeyTypes
<1> HIDE DEF e
<1>5. \A h : Holds(d, h) /\ IndexByType(h) # k => Holds(e, h)
  BY <1>3, <1>4 DEF Holds
<1>6. /\ \A t \in Sessions : y[t] # "None" => IndexByType(y[t]) # k
      /\ \A h \in g \ {c} : IndexByType(h) # k
  BY DEF Excl
<1> HIDE DEF k
<1>7. /\ \A t \in Sessions : y[t] # "None" => Holds(e, y[t])
      /\ \A h \in g \ {c} : Holds(e, h)
  BY <1>5, <1>6 DEF Excl
<1>8. Excl(e, y, g \ {c})
  BY <1>7 DEF Excl
<1> QED
  BY <1>2, <1>8 DEF e

-----------------------------------------------------------------------------
(* What the operators on privates return.                                  *)

PrivSet ==
    [conn : {"none", "wait", "test", "probe", "up"},
     cur : {"Regular", "MediaCluster", "Cdn"}, key : Keys, used : Keys,
     creator : {"no", "ready", "running", "binding"}]
Messages == [kind : {"persistent", "temporary", "destroyed"}, key : Keys]

LEMMA KeysFacts == NoKey \in Keys /\ Keys \subseteq Nat
  BY BoundsAssumption DEF NoKey, Keys

LEMMA RestartType ==
    ASSUME NEW x \in PrivSet
    PROVE  /\ restart(x) \in PrivSet
           /\ (restart(x).creator = "no") <=> (x.creator = "no")
           /\ restart(x).conn = "wait"
           /\ restart(x).key = x.key
  BY DEF restart, stopped, PrivSet

LEMMA ReleasedType ==
    ASSUME NEW x \in PrivSet
    PROVE  /\ released(x) \in PrivSet
           /\ released(x).creator = "no"
           /\ released(x).conn = x.conn
  BY KeysFacts DEF released, PrivSet

LEMMA NewType ==
    ASSUME NEW s \in Sessions
    PROVE  /\ NewPrivate(s) \in PrivSet /\ NewPrivate(s).creator = "no"
           /\ NoPrivate(s) \in PrivSet /\ NoPrivate(s).creator = "no"
  BY KeysFacts, SessionsAssumption DEF NewPrivate, NoPrivate, PrivSet

LEMMA ApplyType ==
    ASSUME NEW x \in PrivSet, NEW key \in Keys, x.conn = "up"
    PROVE  /\ applyAuthKey(x, key) \in PrivSet
           /\ (applyAuthKey(x, key).creator = "no") <=> (x.creator = "no")
           /\ applyAuthKey(x, key).conn \in {"none", "probe"} => x.creator = "no"
<1>1. /\ noKeyYet(x) \in PrivSet
      /\ (noKeyYet(x).creator = "no") <=> (x.creator = "no")
  BY DEF noKeyYet, started, PrivSet
<1>2. noKeyYet(x).conn \in {"none", "probe"} => x.creator = "no"
  BY DEF noKeyYet, started, PrivSet
<1>3. /\ restart(x) \in PrivSet /\ restart(x).conn = "wait"
      /\ (restart(x).creator = "no") <=> (x.creator = "no")
  BY RestartType
<1>4. appliedKey(x, key) \in PrivSet
  BY <1>3, KeysFacts DEF appliedKey, PrivSet
<1>5. (appliedKey(x, key).creator = "no") <=> (x.creator = "no")
  BY <1>3 DEF appliedKey, PrivSet
<1>6. appliedKey(x, key).conn \in {"wait", "up"}
  BY <1>3 DEF appliedKey, PrivSet
<1> QED
  BY <1>1, <1>2, <1>4, <1>5, <1>6 DEF applyAuthKey

LEMMA ReleasedExcl ==
    ASSUME Inv, NEW s \in Sessions
    PROVE  /\ Released(s) \in DcSet
           /\ MyReleased(s) \in [Sessions -> Creations]
           /\ MyReleased(s) = [my EXCEPT ![s] = "None"]
           /\ Excl(Released(s), MyReleased(s), ghosts)
<1>1. dc \in DcSet /\ my \in [Sessions -> Creations] /\ Excl(dc, my, ghosts)
  BY DEF Inv, TypeOK, DcSet, Creations
<1>2. (priv[s].creator # "no") <=> (my[s] # "None")
  BY DEF Inv, Owns
<1>3. CASE priv[s].creator = "no"
  <2>1. my = [my EXCEPT ![s] = "None"]
    BY <1>1, <1>2, <1>3
  <2> QED
    BY <1>1, <1>3, <2>1 DEF Released, MyReleased
<1>4. CASE priv[s].creator # "no"
  BY <1>1, <1>2, <1>4, FailExcl DEF Released, MyReleased, Creations
<1> QED
  BY <1>3, <1>4

(* One private and the creation of its session change together.            *)
LEMMA OneChanges ==
    ASSUME Inv, NEW s \in Sessions, NEW x \in PrivSet, NEW c \in Creations,
           priv' = [priv EXCEPT ![s] = x], my' = [my EXCEPT ![s] = c],
           (x.creator # "no") <=> (c # "None"),
           x.conn \in {"none", "probe"} => x.creator = "no"
    PROVE  /\ priv' \in [Sessions -> PrivSet]
           /\ my' \in [Sessions -> Creations]
           /\ Owns' /\ Idle'
<1>1. priv \in [Sessions -> PrivSet] /\ my \in [Sessions -> Creations]
  BY DEF Inv, TypeOK, PrivSet, Creations
<1>2. priv' \in [Sessions -> PrivSet] /\ my' \in [Sessions -> Creations]
  BY <1>1
<1>3. \A t \in Sessions : /\ priv'[t] = IF t = s THEN x ELSE priv[t]
                          /\ my'[t] = IF t = s THEN c ELSE my[t]
  BY <1>1
<1>4. Owns'
  BY <1>3 DEF Inv, Owns
<1>5. Idle'
  BY <1>3 DEF Inv, Idle
<1> QED
  BY <1>2, <1>4, <1>5

(* The same when the session keeps its creation.                           *)
LEMMA PrivChanges ==
    ASSUME Inv, NEW s \in Sessions, NEW x \in PrivSet,
           priv' = [priv EXCEPT ![s] = x], my' = my,
           (x.creator = "no") <=> (priv[s].creator = "no"),
           x.conn \in {"none", "probe"} => x.creator = "no"
    PROVE  /\ priv' \in [Sessions -> PrivSet]
           /\ my' \in [Sessions -> Creations]
           /\ Owns' /\ Idle'
<1>1. my \in [Sessions -> Creations] /\ my[s] \in Creations
  BY DEF Inv, TypeOK, Creations
<1>2. my' = [my EXCEPT ![s] = my[s]]
  BY <1>1
<1>3. (x.creator # "no") <=> (my[s] # "None")
  BY DEF Inv, Owns
<1> QED
  BY <1>1, <1>2, <1>3, OneChanges

(* The types, split by what an action changes.                             *)
Rest ==
    /\ doomed \subseteq Sessions /\ resumed \subseteq doomed
    /\ ghosts \subseteq CreatingTypes
    /\ calls \in [Sessions -> SUBSET {"update", "restart"}]
    /\ posted \in Seq(Messages)
    /\ known \in [KeyTypes -> SUBSET Keys]
    /\ written \in Keys /\ last \in Keys /\ faults \in 0 .. MaxFaults

LEMMA TypeParts ==
    TypeOK <=> /\ dc \in DcSet /\ my \in [Sessions -> Creations]
               /\ priv \in [Sessions -> PrivSet] /\ Rest
  BY DEF TypeOK, Rest, DcSet, Creations, PrivSet, Messages

-----------------------------------------------------------------------------
(* The invariant holds in the beginning.                                   *)
THEOREM InitInv == Init => Inv
<1> SUFFICES ASSUME Init PROVE Inv
  OBVIOUS
<1>1. dc \in DcSet /\ my \in [Sessions -> Creations]
  BY KeysFacts DEF Init, DcSet, Creations
<1>2. priv \in [Sessions -> PrivSet]
  BY NewType DEF Init
<1>3. Rest
  BY KeysFacts, BoundsAssumption DEF Init, Rest, Keys
<1>4. Excl(dc, my, ghosts)
  BY DEF Init, Excl
<1>5. Owns /\ Idle
  BY NewType DEF Init, Owns, Idle
<1> QED
  BY <1>1, <1>2, <1>3, <1>4, <1>5, TypeParts DEF Inv

(* What every action needs to know of the state before it.                 *)
LEMMA Facts ==
    ASSUME Inv
    PROVE  /\ dc \in DcSet /\ my \in [Sessions -> Creations]
           /\ priv \in [Sessions -> PrivSet]
           /\ doomed \subseteq Sessions /\ resumed \subseteq doomed
           /\ ghosts \in SUBSET CreatingTypes
           /\ calls \in [Sessions -> SUBSET {"update", "restart"}]
           /\ posted \in Seq(Messages)
           /\ known \in [KeyTypes -> SUBSET Keys]
           /\ written \in Keys /\ last \in Keys /\ faults \in 0 .. MaxFaults
           /\ Excl(dc, my, ghosts) /\ Owns /\ Idle
  BY TypeParts DEF Inv, Rest

(* And what has to be shown after it.                                      *)
LEMMA Goal ==
    ASSUME dc' \in DcSet, my' \in [Sessions -> Creations],
           priv' \in [Sessions -> PrivSet], Rest', Excl(dc, my, ghosts)',
           Owns', Idle'
    PROVE  Inv'
<1>1. TypeOK' <=> /\ dc' \in DcSet /\ my' \in [Sessions -> Creations]
                  /\ priv' \in [Sessions -> PrivSet] /\ Rest'
  BY DEF TypeOK, Rest, DcSet, Creations, PrivSet, Messages
<1> QED
  BY <1>1 DEF Inv

LEMMA FaultType ==
    ASSUME Inv, NEW kind, Fault(kind)
    PROVE  faults' \in 0 .. MaxFaults
  BY Facts, BoundsAssumption DEF Fault

LEMMA KeyOf ==
    ASSUME Inv, NEW x \in PrivSet
    PROVE  Endpoint(x) \in KeyTypes /\ CurrentKey(x) \in Keys
  BY Facts DEF Endpoint, CurrentKey, TemporaryKeyTypeByDcType, KeyTypes, DcSet

LEMMA StepConnectToServer ==
    ASSUME Inv, NEW s \in Sessions, ConnectToServer(s)
    PROVE  Inv'
<1> DEFINE c == IF priv[s].creator # "no" THEN "None"
                ELSE acquireKeyCreation(dc, DcType[s])
           x == IF priv[s].creator # "no" THEN priv[s] ELSE acquiring(s, c)
           z == [x EXCEPT !.conn = "test"]
<1>1. /\ dc' = acquired(dc, c)
      /\ my' = IF c = "None" THEN my ELSE [my EXCEPT ![s] = c]
      /\ priv' = [priv EXCEPT ![s] = z]
  BY DEF ConnectToServer
<1>2. Rest'
  BY Facts DEF ConnectToServer, Rest
<1>3. priv[s] \in PrivSet /\ DcType[s] \in {"Regular", "MediaCluster", "Cdn"}
  BY Facts, SessionsAssumption
<1>4. CASE priv[s].creator # "no"
  <2>1. c = "None" /\ x = priv[s]
    BY <1>4
  <2> HIDE DEF c, x
  <2>2. dc' = dc /\ my' = my
    BY <1>1, <2>1 DEF acquired
  <2>3. z \in PrivSet /\ z.creator = priv[s].creator /\ z.conn = "test"
    BY <1>3, <2>1 DEF PrivSet
  <2> HIDE DEF z
  <2>4. priv' \in [Sessions -> PrivSet] /\ Owns' /\ Idle'
    BY <1>1, <2>2, <2>3, PrivChanges
  <2>5. Excl(dc, my, ghosts)'
    BY <2>2, Facts DEF ConnectToServer
  <2> QED
    BY <1>2, <2>2, <2>4, <2>5, Facts, Goal
<1>5. CASE priv[s].creator = "no"
  <2>1. my[s] = "None"
    BY <1>5, Facts DEF Owns
  <2>2. c = acquireKeyCreation(dc, DcType[s]) /\ x = acquiring(s, c)
    BY <1>5
  <2> HIDE DEF c, x
  <2>3. c \in Creations /\ dc' \in DcSet /\ Excl(dc', my', ghosts)
    BY <1>1, <1>3, <2>1, <2>2, Facts, AcquireExcl
  <2>4. /\ z \in PrivSet /\ z.conn = "test"
        /\ (z.creator # "no") <=> (c # "None")
    BY <1>3, <1>5, <2>2 DEF acquiring, PrivSet
  <2> HIDE DEF z
  <2>5. my' = [my EXCEPT ![s] = c]
    BY <1>1, <2>1, Facts
  <2>6. /\ priv' \in [Sessions -> PrivSet] /\ my' \in [Sessions -> Creations]
        /\ Owns' /\ Idle'
    BY <1>1, <2>3, <2>4, <2>5, OneChanges
  <2>7. Excl(dc, my, ghosts)'
    BY <2>3 DEF ConnectToServer
  <2> QED
    BY <1>2, <2>3, <2>6, <2>7, Goal
<1> QED
  BY <1>4, <1>5

LEMMA StepAcquireForMedia ==
    ASSUME Inv, NEW s \in Sessions, AcquireForMedia(s)
    PROVE  Inv'
<1> DEFINE c == acquireKeyCreation(dc, DcType[s])
           x == [priv[s] EXCEPT !.conn = "up"]
           r == [x EXCEPT !.creator = "ready"]
           z == CASE c = "None" -> x
                  [] c = "TemporaryMediaCluster" -> [x EXCEPT !.creator = "running"]
                  [] OTHER -> restart(r)
<1>1. /\ dc' = acquired(dc, c)
      /\ my' = IF c = "None" THEN my ELSE [my EXCEPT ![s] = c]
      /\ priv' = [priv EXCEPT ![s] = z]
      /\ priv[s].conn = "probe"
  BY DEF AcquireForMedia
<1>2. Rest'
  BY Facts DEF AcquireForMedia, Rest
<1>3. priv[s] \in PrivSet /\ DcType[s] \in {"Regular", "MediaCluster", "Cdn"}
  BY Facts, SessionsAssumption
<1>4. priv[s].creator = "no" /\ my[s] = "None"
  BY <1>1, Facts DEF Owns, Idle
<1>5. /\ x \in PrivSet /\ x.creator = "no" /\ x.conn = "up"
      /\ r \in PrivSet /\ r.creator = "ready"
      /\ [x EXCEPT !.creator = "running"] \in PrivSet
      /\ [x EXCEPT !.creator = "running"].creator = "running"
      /\ [x EXCEPT !.creator = "running"].conn = "up"
  BY <1>3, <1>4 DEF PrivSet
<1>6. /\ restart(r) \in PrivSet /\ restart(r).conn = "wait"
      /\ restart(r).creator # "no"
  BY <1>5, RestartType
<1> HIDE DEF x, r, c
<1>7. /\ z \in PrivSet /\ z.conn \notin {"none", "probe"}
      /\ (z.creator # "no") <=> (c # "None")
  BY <1>5, <1>6
<1> HIDE DEF z
<1>8. c \in Creations /\ dc' \in DcSet /\ Excl(dc', my', ghosts)
  BY <1>1, <1>3, <1>4, Facts, AcquireExcl DEF c
<1>9. my' = [my EXCEPT ![s] = c]
  BY <1>1, <1>4, Facts
<1>10. /\ priv' \in [Sessions -> PrivSet] /\ my' \in [Sessions -> Creations]
       /\ Owns' /\ Idle'
  BY <1>1, <1>7, <1>8, <1>9, OneChanges
<1>11. Excl(dc, my, ghosts)'
  BY <1>8 DEF AcquireForMedia
<1> QED
  BY <1>2, <1>8, <1>10, <1>11, Goal

(* The steps of a private that leave the data center alone.                *)
LEMMA StepPrivate ==
    ASSUME Inv, NEW s \in Sessions,
           OnConnected(s) \/ UpdateAuthKey(s) \/ RestartNow(s) \/ OnError(s)
    PROVE  Inv'
<1>1. priv[s] \in PrivSet
  BY Facts
<1>2. dc' = dc /\ my' = my /\ ghosts' = ghosts
  BY DEF OnConnected, UpdateAuthKey, RestartNow, OnError
<1>3. Rest'
  <2>1. faults' \in 0 .. MaxFaults
    BY Facts, FaultType DEF OnConnected, UpdateAuthKey, RestartNow, OnError
  <2>2. calls' \in [Sessions -> SUBSET {"update", "restart"}]
    BY Facts DEF OnConnected, UpdateAuthKey, RestartNow, OnError
  <2> QED
    BY <2>1, <2>2, Facts DEF OnConnected, UpdateAuthKey, RestartNow, OnError, Rest
<1>4. priv' = priv \/ \E x \in PrivSet :
          /\ priv' = [priv EXCEPT ![s] = x]
          /\ (x.creator = "no") <=> (priv[s].creator = "no")
          /\ x.conn \in {"none", "probe"} => x.creator = "no"
  <2>1. CASE OnConnected(s)
    <3> DEFINE x == [priv[s] EXCEPT !.conn = "up"]
    <3>1. x \in PrivSet /\ x.creator = priv[s].creator /\ x.conn = "up"
      BY <1>1 DEF PrivSet
    <3>2. \/ priv' = [priv EXCEPT ![s] = x]
          \/ priv' = [priv EXCEPT ![s] = applyAuthKey(x, CurrentKey(x))]
      BY <2>1 DEF OnConnected
    <3> HIDE DEF x
    <3> QED
      BY <3>1, <3>2, ApplyType, KeyOf
  <2>2. CASE UpdateAuthKey(s)
    <3>1. \/ priv' = priv
          \/ /\ priv[s].conn = "up"
             /\ priv' = [priv EXCEPT ![s] = applyAuthKey(priv[s], CurrentKey(priv[s]))]
      BY <2>2, Facts DEF UpdateAuthKey
    <3> QED
      BY <1>1, <3>1, ApplyType, KeyOf
  <2>3. CASE RestartNow(s) \/ OnError(s)
    <3>1. priv' = [priv EXCEPT ![s] = restart(priv[s])]
      BY <2>3, Facts DEF RestartNow, OnError
    <3> QED
      BY <1>1, <3>1, RestartType
  <2> QED
    BY <2>1, <2>2, <2>3
<1>5. priv' \in [Sessions -> PrivSet] /\ Owns' /\ Idle'
  <2>1. CASE priv' = priv
    BY <1>2, <2>1, Facts DEF Owns, Idle
  <2> QED
    BY <1>2, <1>4, <2>1, PrivChanges
<1> QED
  BY <1>2, <1>3, <1>5, Facts, Goal

(* The steps that give up a creation, if there is one.                     *)
LEMMA StepGivesUp ==
    ASSUME Inv, NEW s \in Sessions, NEW x \in PrivSet, NEW d \in DcSet,
           dc' = d, Excl(d, MyReleased(s), ghosts), my' = MyReleased(s),
           priv' = [priv EXCEPT ![s] = x], x.creator = "no",
           ghosts' = ghosts, Rest'
    PROVE  Inv'
<1>1. my' = [my EXCEPT ![s] = "None"]
  BY ReleasedExcl
<1>2. /\ priv' \in [Sessions -> PrivSet] /\ my' \in [Sessions -> Creations]
      /\ Owns' /\ Idle'
  BY <1>1, OneChanges DEF Creations
<1>3. Excl(dc, my, ghosts)'
  OBVIOUS
<1> QED
  BY <1>2, <1>3, Goal

LEMMA StepFails ==
    ASSUME Inv, NEW s \in Sessions, UnboundFailed(s) \/ BindRefused(s)
    PROVE  Inv'
<1> DEFINE y == IF UnboundFailed(s) THEN released(priv[s])
                ELSE [released(priv[s]) EXCEPT !.key = NoKey]
<1>1. priv[s] \in PrivSet
  BY Facts
<1>2. released(priv[s]) \in PrivSet /\ released(priv[s]).creator = "no"
  BY <1>1, ReleasedType
<1>3. y \in PrivSet /\ y.creator = "no"
  BY <1>2, KeysFacts DEF PrivSet
<1>4. priv' = [priv EXCEPT ![s] = restart(y)]
  BY Facts DEF UnboundFailed, BindRefused
<1> HIDE DEF y
<1>5. restart(y) \in PrivSet /\ restart(y).creator = "no"
  BY <1>3, RestartType
<1>6. dc' = Released(s) /\ my' = MyReleased(s) /\ ghosts' = ghosts
  BY DEF UnboundFailed, BindRefused
<1>7. posted' \in Seq(Messages)
  <2>1. [kind |-> "destroyed", key |-> priv[s].used] \in Messages
    BY <1>1 DEF PrivSet, Messages
  <2>2. \/ posted' = posted
        \/ posted' = Append(posted, [kind |-> "destroyed", key |-> priv[s].used])
    BY DEF UnboundFailed, BindRefused
  <2> QED
    BY <2>1, <2>2, Facts
<1>8. Rest'
  <2>1. faults' \in 0 .. MaxFaults
    BY FaultType DEF UnboundFailed, BindRefused
  <2> QED
    BY <1>7, <2>1, Facts DEF UnboundFailed, BindRefused, Rest
<1> QED
  BY <1>4, <1>5, <1>6, <1>8, ReleasedExcl, StepGivesUp

LEMMA StepKeyError ==
    ASSUME Inv, NEW s \in Sessions, KeyError(s)
    PROVE  Inv'
<1> DEFINE y == [released(priv[s]) EXCEPT !.key = NoKey]
           d == destroyTemporaryKey(Released(s), priv[s].key)
<1>1. priv[s] \in PrivSet
  BY Facts
<1>2. released(priv[s]) \in PrivSet /\ released(priv[s]).creator = "no"
  BY <1>1, ReleasedType
<1>3. y \in PrivSet /\ y.creator = "no"
  BY <1>2, KeysFacts DEF PrivSet
<1>4. /\ priv' = [priv EXCEPT ![s] = restart(y)]
      /\ dc' = d /\ my' = MyReleased(s) /\ ghosts' = ghosts
  BY DEF KeyError
<1>5. d \in DcSet /\ Excl(d, MyReleased(s), ghosts)
  BY ReleasedExcl, DestroyExcl
<1> HIDE DEF y, d
<1>6. restart(y) \in PrivSet /\ restart(y).creator = "no"
  BY <1>3, RestartType
<1>7. posted' \in Seq(Messages)
  <2>1. [kind |-> "temporary", key |-> NoKey] \in Messages
    BY KeysFacts DEF Messages
  <2> QED
    BY <2>1, Facts DEF KeyError
<1>8. Rest'
  BY <1>7, Facts DEF KeyError, Rest
<1> QED
  BY <1>4, <1>5, <1>6, <1>8, StepGivesUp

LEMMA StepDeletePrivate ==
    ASSUME Inv, NEW s \in Sessions, DeletePrivate(s)
    PROVE  Inv'
<1> DEFINE x == IF s \in resumed THEN NewPrivate(s) ELSE NoPrivate(s)
<1>1. x \in PrivSet /\ x.creator = "no"
  BY NewType
<1>2. priv' = [priv EXCEPT ![s] = x]
  BY DEF DeletePrivate
<1> HIDE DEF x
<1>3. dc' = Released(s) /\ my' = MyReleased(s) /\ ghosts' = ghosts
  BY DEF DeletePrivate
<1>4. calls' \in [Sessions -> SUBSET {"update", "restart"}]
  BY Facts DEF DeletePrivate
<1>5. Rest'
  BY <1>4, Facts DEF DeletePrivate, Rest
<1> QED
  BY <1>1, <1>2, <1>3, <1>5, ReleasedExcl, StepGivesUp

LEMMA AnnounceType ==
    ASSUME NEW creating, NEW used \in Keys
    PROVE  Announce(creating, used) \in Messages
  BY KeysFacts DEF Announce, Messages

LEMMA StepBindDone ==
    ASSUME Inv, NEW s \in Sessions, BindDone(s)
    PROVE  Inv'
<1> DEFINE x == priv[s]
           k == [released(x) EXCEPT !.key = NoKey]
           z == IF mayRelease(dc, my[s], x.used) THEN released(x) ELSE restart(k)
<1>1. x \in PrivSet /\ x.creator = "binding" /\ x.conn = "up"
  BY Facts DEF BindDone
<1>2. released(x) \in PrivSet /\ released(x).creator = "no"
  BY <1>1, ReleasedType
<1>3. k \in PrivSet /\ k.creator = "no"
  BY <1>2, KeysFacts DEF PrivSet
<1>4. z \in PrivSet /\ z.creator = "no"
  <2> HIDE DEF k
  <2>1. restart(k) \in PrivSet /\ restart(k).creator = "no"
    BY <1>3, RestartType
  <2> QED
    BY <1>2, <2>1
<1>5. priv' = [priv EXCEPT ![s] = z]
  BY DEF BindDone
<1>6. my[s] # "None" /\ x.key \in Keys /\ x.used \in Keys
  BY <1>1, Facts DEF Owns, PrivSet
<1>7. dc' = releaseKeyCreationOnDone(dc, my[s], x.key, x.used)
  BY DEF BindDone
<1>8. my' = [my EXCEPT ![s] = "None"] /\ ghosts' = ghosts
  BY DEF BindDone
<1>9. posted' \in Seq(Messages)
  BY <1>6, AnnounceType, Facts DEF BindDone
<1>10. Rest'
  BY <1>9, Facts DEF BindDone, Rest
<1> HIDE DEF z, x
<1>11. dc' \in DcSet /\ Excl(dc', my', ghosts)
  BY <1>6, <1>7, <1>8, Facts, DoneExcl
<1>12. /\ priv' \in [Sessions -> PrivSet] /\ my' \in [Sessions -> Creations]
       /\ Owns' /\ Idle'
  BY <1>4, <1>5, <1>8, OneChanges DEF Creations
<1>13. Excl(dc, my, ghosts)'
  BY <1>8, <1>11
<1> QED
  BY <1>10, <1>11, <1>12, <1>13, Goal

LEMMA StepUnboundReady ==
    ASSUME Inv, NEW s \in Sessions, UnboundReady(s)
    PROVE  Inv'
<1> DEFINE x == priv[s]
           key == last + 1
           used == IF my[s] = "Persistent" THEN last + 2 ELSE dc.persistent
<1>1. x \in PrivSet /\ x.creator = "running" /\ x.conn = "up"
  BY Facts DEF UnboundReady
<1>2. my[s] # "None"
  BY <1>1, Facts DEF Owns
<1>3. key \in Keys /\ last' \in Keys
  BY Facts, BoundsAssumption DEF UnboundReady, Keys
<1>4. used \in Keys
  BY Facts, BoundsAssumption DEF UnboundReady, Keys, DcSet
<1>5. Endpoint(x) \in KeyTypes
  BY <1>1, KeyOf
<1>6. known' \in [KeyTypes -> SUBSET Keys]
  BY <1>3, <1>5, Facts DEF UnboundReady
<1>7. /\ doomed' = doomed /\ resumed' = resumed /\ ghosts' = ghosts
      /\ calls' = calls /\ written' = written /\ faults' = faults
  BY DEF UnboundReady
<1>8. ASSUME posted' \in Seq(Messages) PROVE Rest'
  BY <1>3, <1>6, <1>7, <1>8, Facts DEF Rest
<1>9. /\ released(x) \in PrivSet /\ released(x).creator = "no"
      /\ released(x).conn = "up"
  BY <1>1, ReleasedType
<1>10. CASE DcType[s] = "Cdn"
  <2> DEFINE z == [released(x) EXCEPT !.key = key]
  <2>1. /\ dc' = releaseKeyCreationOnDone(dc, my[s], key, NoKey)
        /\ my' = [my EXCEPT ![s] = "None"]
        /\ priv' = [priv EXCEPT ![s] = z]
        /\ posted' = Append(posted, Announce(my[s], NoKey))
    BY <1>10 DEF UnboundReady
  <2>2. z \in PrivSet /\ z.creator = "no"
    BY <1>3, <1>9 DEF PrivSet
  <2> HIDE DEF z, key
  <2>3. dc' \in DcSet /\ Excl(dc', my', ghosts)
    BY <1>2, <1>3, <2>1, Facts, DoneExcl, KeysFacts
  <2>4. posted' \in Seq(Messages)
    BY <2>1, AnnounceType, KeysFacts, Facts
  <2>5. /\ priv' \in [Sessions -> PrivSet] /\ my' \in [Sessions -> Creations]
        /\ Owns' /\ Idle'
    BY <2>1, <2>2, OneChanges DEF Creations
  <2>6. Excl(dc, my, ghosts)'
    BY <1>7, <2>3
  <2> QED
    BY <1>8, <2>3, <2>4, <2>5, <2>6, Goal
<1>11. CASE DcType[s] # "Cdn" /\ used = NoKey
  <2>1. /\ dc' = Released(s) /\ my' = MyReleased(s)
        /\ priv' = [priv EXCEPT ![s] = restart(released(x))]
        /\ posted' = posted
    BY <1>11 DEF UnboundReady
  <2>2. restart(released(x)) \in PrivSet /\ restart(released(x)).creator = "no"
    BY <1>9, RestartType
  <2>3. Rest'
    BY <1>8, <2>1, Facts
  <2> QED
    BY <1>7, <2>1, <2>2, <2>3, ReleasedExcl, StepGivesUp
<1>12. CASE DcType[s] # "Cdn" /\ used # NoKey
  <2> DEFINE z == [x EXCEPT !.key = key, !.creator = "binding", !.used = used]
  <2>1. dc' = dc /\ my' = my /\ posted' = posted /\ priv' = [priv EXCEPT ![s] = z]
    BY <1>12 DEF UnboundReady
  <2> HIDE DEF key, used
  <2>2. z \in PrivSet /\ z.creator = "binding" /\ z.conn = "up"
    BY <1>1, <1>3, <1>4 DEF PrivSet
  <2> HIDE DEF z
  <2>3. priv' \in [Sessions -> PrivSet] /\ Owns' /\ Idle'
    BY <1>1, <2>1, <2>2, PrivChanges
  <2>4. Excl(dc, my, ghosts)'
    BY <1>7, <2>1, Facts
  <2> QED
    BY <1>8, <2>1, <2>3, <2>4, Facts, Goal
<1> QED
  BY <1>10, <1>11, <1>12

LEMMA StepMain ==
    ASSUME Inv, KeyChanged \/ KeyDestroyedOnServer
    PROVE  Inv'
<1>1. /\ posted # <<>> /\ posted' = Tail(posted) /\ my' = my /\ priv' = priv
      /\ doomed' = doomed /\ resumed' = resumed /\ ghosts' = ghosts
      /\ known' = known /\ last' = last /\ faults' = faults
  BY DEF KeyChanged, KeyDestroyedOnServer
<1>2. Head(posted) \in Messages /\ posted' \in Seq(Messages)
  BY <1>1, Facts
<1>3. written' \in Keys
  BY <1>2, Facts, KeysFacts DEF KeyChanged, KeyDestroyedOnServer, Messages
<1>4. \A more \in SUBSET {"update", "restart"} :
          told(more) \in [Sessions -> SUBSET {"update", "restart"}]
  BY Facts DEF told
<1>5. calls' \in [Sessions -> SUBSET {"update", "restart"}]
  <2>1. CASE KeyChanged
    BY <2>1, <1>4 DEF KeyChanged
  <2>2. CASE KeyDestroyedOnServer
    <3>1. calls' = told({"update", "restart"}) \/ calls' = told({"restart"})
      BY <2>2 DEF KeyDestroyedOnServer
    <3> QED
      BY <1>4, <3>1
  <2> QED
    BY <2>1, <2>2
<1>6. Rest'
  BY <1>1, <1>2, <1>3, <1>5, Facts DEF Rest
<1>7. dc' = dc \/ dc' = destroyConfirmedForgottenKey(dc, Head(posted).key)
  BY DEF KeyChanged, KeyDestroyedOnServer
<1>8. dc' \in DcSet /\ Excl(dc', my, ghosts)
  BY <1>7, Facts, DestroyExcl
<1>9. Excl(dc, my, ghosts)' /\ Owns' /\ Idle'
  BY <1>1, <1>8, Facts DEF Owns, Idle
<1> QED
  BY <1>1, <1>6, <1>8, <1>9, Facts, Goal

LEMMA StepResume ==
    ASSUME Inv, NEW s \in Sessions, Resume(s)
    PROVE  Inv'
<1>1. dc' = dc /\ my' = my /\ ghosts' = ghosts
  BY DEF Resume
<1>2. Rest'
  BY Facts DEF Resume, Rest
<1>3. \/ priv' = priv
      \/ /\ priv[s].conn = "none"
         /\ priv' = [priv EXCEPT ![s] = NewPrivate(s)]
  BY DEF Resume, Running, Live
<1>4. priv' \in [Sessions -> PrivSet] /\ Owns' /\ Idle'
  <2>1. CASE priv' = priv
    BY <1>1, <2>1, Facts DEF Owns, Idle
  <2>2. CASE priv[s].conn = "none" /\ priv' = [priv EXCEPT ![s] = NewPrivate(s)]
    <3>1. priv[s].creator = "no"
      BY <2>2, Facts DEF Idle
    <3> QED
      BY <1>1, <2>2, <3>1, NewType, PrivChanges
  <2> QED
    BY <1>3, <2>1, <2>2
<1>5. Excl(dc, my, ghosts)'
  BY <1>1, Facts
<1> QED
  BY <1>1, <1>2, <1>4, <1>5, Facts, Goal

LEMMA StepKill ==
    ASSUME Inv, NEW s \in Sessions, Kill(s)
    PROVE  Inv'
<1>1. /\ ghosts' = ghosts \cup ({my[s]} \ {"None"})
      /\ my' = [my EXCEPT ![s] = "None"] /\ dc' = dc
      /\ priv' = [priv EXCEPT ![s] = NoPrivate(s)]
  BY DEF Kill
<1>2. Excl(dc, my, ghosts)'
  BY <1>1, Facts, KillExcl
<1>3. /\ priv' \in [Sessions -> PrivSet] /\ my' \in [Sessions -> Creations]
      /\ Owns' /\ Idle'
  BY <1>1, NewType, OneChanges DEF Creations
<1>4. ghosts' \subseteq CreatingTypes
  BY <1>1, Facts DEF Creations
<1>5. faults' \in 0 .. MaxFaults
  BY FaultType DEF Kill
<1>6. calls' \in [Sessions -> SUBSET {"update", "restart"}]
  BY Facts DEF Kill
<1>7. doomed' \subseteq Sessions /\ resumed' \subseteq doomed'
  BY Facts DEF Kill
<1>8. Rest'
  BY <1>4, <1>5, <1>6, <1>7, Facts DEF Kill, Rest
<1> QED
  BY <1>1, <1>2, <1>3, <1>8, Facts, Goal

LEMMA StepDestroySession ==
    ASSUME Inv, DestroySession
    PROVE  Inv'
<1>1. PICK c \in ghosts : /\ ghosts' = ghosts \ {c}
                          /\ dc' = releaseKeyCreationOnFail(dc, c)
  BY DEF DestroySession
<1>2. my' = my /\ priv' = priv
  BY DEF DestroySession
<1>3. dc' \in DcSet /\ Excl(dc', my, ghosts')
  BY <1>1, Facts, GhostExcl
<1>4. Rest'
  BY <1>1, Facts DEF DestroySession, Rest
<1>5. Excl(dc, my, ghosts)' /\ Owns' /\ Idle'
  BY <1>2, <1>3, Facts DEF Owns, Idle
<1> QED
  BY <1>2, <1>3, <1>4, <1>5, Facts, Goal

LEMMA StepStopForget ==
    ASSUME Inv, Forget \/ \E s \in Sessions : Stop(s)
    PROVE  Inv'
<1>1. dc' = dc /\ my' = my /\ priv' = priv /\ ghosts' = ghosts
  BY DEF Forget, Stop
<1>2. faults' \in 0 .. MaxFaults
  BY FaultType DEF Forget, Stop
<1>3. known' \in [KeyTypes -> SUBSET Keys]
  BY Facts DEF Forget, Stop
<1>4. doomed' \subseteq Sessions /\ resumed' \subseteq doomed'
  BY Facts DEF Forget, Stop, Running
<1>5. Rest'
  BY <1>1, <1>2, <1>3, <1>4, Facts DEF Forget, Stop, Rest
<1>6. Excl(dc, my, ghosts)' /\ Owns' /\ Idle'
  BY <1>1, Facts DEF Owns, Idle
<1> QED
  BY <1>1, <1>5, <1>6, Facts, Goal

(* Every action preserves the invariant.                                   *)
THEOREM NextInv == Inv /\ [Next]_vars => Inv'
<1> SUFFICES ASSUME Inv, [Next]_vars PROVE Inv'
  OBVIOUS
<1>1. CASE UNCHANGED vars
  <2>1. dc' = dc /\ my' = my /\ priv' = priv /\ ghosts' = ghosts
    BY <1>1 DEF vars
  <2>2. Rest'
    BY <1>1, Facts DEF vars, Rest
  <2>3. Excl(dc, my, ghosts)' /\ Owns' /\ Idle'
    BY <2>1, Facts DEF Owns, Idle
  <2> QED
    BY <2>1, <2>2, <2>3, Facts, Goal
<1>2. CASE Main \/ Forget
  BY <1>2, StepMain, StepDestroySession, StepStopForget DEF Main
<1>3. ASSUME NEW s \in Sessions, Thread(s) PROVE Inv'
  BY <1>3, StepConnectToServer, StepAcquireForMedia, StepPrivate,
     StepUnboundReady, StepBindDone, StepKeyError, StepDeletePrivate DEF Thread
<1>4. ASSUME NEW s \in Sessions, Faulty(s) PROVE Inv'
  BY <1>4, StepFails, StepPrivate, StepStopForget, StepKill DEF Faulty
<1>5. ASSUME NEW s \in Sessions, Resume(s) PROVE Inv'
  BY <1>5, StepResume
<1> QED
  BY <1>1, <1>2, <1>3, <1>4, <1>5 DEF Next

(* The invariant holds always.                                             *)
THEOREM AlwaysInv == Spec => []Inv
  BY InitInv, NextInv, PTL DEF Spec

-----------------------------------------------------------------------------
(* The queue of the main thread.                                           *)
LEMMA AppendQueue ==
    ASSUME NEW q \in Seq(Messages), NEW m \in Messages, NEW w, NEW key, NEW n,
           Latest(q, w, key), NotRevived(q), Numbered(q, n), m.key <= n,
           m.kind = "persistent" =>
               \A i \in DOMAIN q : q[i].kind = "destroyed" => q[i].key # m.key
    PROVE  /\ Latest(Append(q, m), w,
                     IF m.kind = "persistent" THEN m.key ELSE key)
           /\ NotRevived(Append(q, m)) /\ Numbered(Append(q, m), n)
<1> DEFINE p == Append(q, m)
<1>1. Len(q) \in Nat /\ DOMAIN q = 1 .. Len(q) /\ DOMAIN p = 1 .. Len(q) + 1
  OBVIOUS
<1>2. /\ \A i \in DOMAIN q : i \in DOMAIN p /\ p[i] = q[i] /\ i < Len(q) + 1
      /\ p[Len(q) + 1] = m /\ Len(q) + 1 \in DOMAIN p
      /\ \A i \in DOMAIN p : i \in DOMAIN q \/ i = Len(q) + 1
      /\ \A i \in DOMAIN p : i <= Len(q) + 1 /\ i \in Nat
  BY <1>1
<1> HIDE DEF p
<1>3. NotRevived(p)
  BY <1>1, <1>2 DEF NotRevived
<1>4. Numbered(p, n)
  BY <1>2 DEF Numbered
<1>5. CASE m.kind = "persistent"
  <2>1. Latest(p, w, m.key)
    BY <1>1, <1>2, <1>5 DEF Latest
  <2> QED
    BY <1>3, <1>4, <1>5, <2>1 DEF p
<1>6. CASE m.kind # "persistent"
  <2>1. Latest(p, w, key)
    <3>1. CASE w = key /\ \A i \in DOMAIN q : q[i].kind # "persistent"
      BY <1>2, <1>6, <3>1 DEF Latest
    <3>2. CASE \E i \in DOMAIN q :
                  /\ q[i].kind = "persistent" /\ q[i].key = key
                  /\ \A j \in DOMAIN q : i < j => q[j].kind # "persistent"
      BY <1>2, <1>6, <3>2 DEF Latest
    <3> QED
      BY <3>1, <3>2 DEF Latest
  <2> QED
    BY <1>3, <1>4, <1>6, <2>1 DEF p
<1> QED
  BY <1>5, <1>6

LEMMA TailQueue ==
    ASSUME NEW q \in Seq(Messages), q # <<>>, NEW w, NEW key, NEW n,
           Latest(q, w, key), NotRevived(q), Numbered(q, n)
    PROVE  /\ Latest(Tail(q), IF Head(q).kind = "persistent" THEN Head(q).key
                              ELSE w, key)
           /\ NotRevived(Tail(q)) /\ Numbered(Tail(q), n)
           /\ Head(q).kind = "destroyed" /\ Head(q).key = key =>
                  Latest(Tail(q), NoKey, NoKey)
           /\ \A i \in DOMAIN Tail(q) : i + 1 \in DOMAIN q /\ Tail(q)[i] = q[i + 1]
<1> DEFINE p == Tail(q)
<1>1. /\ Len(q) \in Nat /\ Len(q) > 0 /\ DOMAIN q = 1 .. Len(q)
      /\ DOMAIN p = 1 .. Len(q) - 1 /\ Head(q) = q[1] /\ 1 \in DOMAIN q
  OBVIOUS
<1>2. \A i \in DOMAIN p : i + 1 \in DOMAIN q /\ p[i] = q[i + 1]
  OBVIOUS
<1>3. \A i \in DOMAIN q : i \in Nat /\ (i = 1 \/ (i - 1 \in DOMAIN p /\ p[i - 1] = q[i] /\ 1 < i))
  BY <1>1, <1>2
<1>4. \A i \in DOMAIN p : i \in Nat
  BY <1>1
<1> HIDE DEF p
<1>5. NotRevived(p)
  <2> SUFFICES ASSUME NEW i \in DOMAIN p, NEW j \in DOMAIN p, i < j,
                      p[i].kind = "destroyed", p[j].kind = "persistent"
               PROVE  p[i].key # p[j].key
    BY DEF NotRevived
  <2>1. i + 1 < j + 1
    BY <1>4
  <2> QED
    BY <1>2, <2>1 DEF NotRevived
<1>6. Numbered(p, n)
  BY <1>2 DEF Numbered
<1>7. Latest(p, IF Head(q).kind = "persistent" THEN Head(q).key ELSE w, key)
  <2>1. CASE w = key /\ \A i \in DOMAIN q : q[i].kind # "persistent"
    BY <1>1, <1>2, <2>1 DEF Latest
  <2>2. ASSUME NEW i \in DOMAIN q, q[i].kind = "persistent", q[i].key = key,
               \A j \in DOMAIN q : i < j => q[j].kind # "persistent"
        PROVE  Latest(p, IF Head(q).kind = "persistent" THEN Head(q).key ELSE w, key)
    <3>1. CASE i = 1
      <4>1. \A j \in DOMAIN p : p[j].kind # "persistent"
        BY <1>2, <1>4, <2>2, <3>1
      <4> QED
        BY <1>1, <2>2, <3>1, <4>1 DEF Latest
    <3>2. CASE i # 1
      <4>1. i - 1 \in DOMAIN p /\ p[i - 1] = q[i]
        BY <1>3, <3>2
      <4>2. ASSUME NEW j \in DOMAIN p, i - 1 < j PROVE p[j].kind # "persistent"
        BY <1>2, <1>3, <1>4, <2>2, <4>2
      <4> QED
        BY <2>2, <4>1, <4>2 DEF Latest
    <3> QED
      BY <3>1, <3>2
  <2> QED
    BY <2>1, <2>2 DEF Latest
<1>8. ASSUME Head(q).kind = "destroyed", Head(q).key = key
      PROVE  Latest(p, NoKey, NoKey)
  <2>1. ASSUME NEW j \in DOMAIN q, q[j].kind = "persistent" PROVE q[j].key # key
    <3>1. 1 < j
      BY <1>1, <1>3, <1>8, <2>1
    <3> QED
      BY <1>1, <1>8, <2>1, <3>1 DEF NotRevived
  <2>2. \A j \in DOMAIN q : q[j].kind # "persistent"
    BY <2>1 DEF Latest
  <2> QED
    BY <1>2, <2>2 DEF Latest
<1> QED
  BY <1>2, <1>5, <1>6, <1>7, <1>8 DEF p

-----------------------------------------------------------------------------
(* The keys that are bound, when no session begins to bind one.            *)
LEMMA KeepsBinding ==
    ASSUME Inv, KeyInv, last' \in Nat, last <= last',
           \/ dc'.persistent \in {dc.persistent, NoKey}
           \/ \A t \in Sessions : BindsOwn(t)' => priv[t].used # dc'.persistent,
           \A t \in Sessions : Binds(t)' => Binds(t) /\ priv'[t].used = priv[t].used,
           \A t \in Sessions : BindsOwn(t)' => BindsOwn(t),
           \A t \in Sessions : DcType[t] = "Cdn" => my'[t] # "Persistent",
           \A i \in DOMAIN posted' : posted'[i].kind = "destroyed" =>
               \/ \E j \in DOMAIN posted : posted[j] = posted'[i]
               \/ \A t \in Sessions : BindsOwn(t)' => posted'[i].key # priv[t].used
    PROVE  BindInv'
<1>1. last \in Nat
  BY Facts, KeysFacts
<1>2. \A t \in Sessions : Binds(t) => priv[t].used \in Nat
  BY Facts, KeysFacts DEF PrivSet
<1>3. ASSUME NEW s \in Sessions, Binds(s)'
      PROVE  priv'[s].used # NoKey /\ priv'[s].used <= last'
  BY <1>1, <1>2, <1>3 DEF KeyInv, BindInv
<1>4. ASSUME NEW s \in Sessions, BindsOwn(s)'
      PROVE  OwnKey(s)'
  <2>1. BindsOwn(s) /\ OwnKey(s) /\ priv'[s].used = priv[s].used
    BY <1>4 DEF KeyInv, BindInv, BindsOwn
  <2>2. priv'[s].used # dc'.persistent
    BY <1>4, <2>1 DEF OwnKey, KeyInv, BindInv, BindsOwn
  <2>3. \A t \in Sessions \ {s} : Binds(t)' => priv'[t].used # priv'[s].used
    BY <2>1 DEF OwnKey
  <2>4. \A i \in DOMAIN posted' :
            posted'[i].kind = "destroyed" => posted'[i].key # priv'[s].used
    BY <1>4, <2>1 DEF OwnKey
  <2> QED
    BY <2>2, <2>3, <2>4 DEF OwnKey
<1> QED
  BY <1>3, <1>4 DEF BindInv

(* When the queue and the persistent key stay, too.                        *)
LEMMA Quiet ==
    ASSUME Inv, KeyInv, NEW s \in Sessions, posted' = posted, written' = written,
           last' = last, dc'.persistent = dc.persistent,
           \A t \in Sessions \ {s} : priv'[t] = priv[t] /\ my'[t] = my[t],
           Binds(s)' => /\ Binds(s) /\ priv'[s].used = priv[s].used
                        /\ my'[s] = my[s],
           DcType[s] = "Cdn" => my'[s] # "Persistent"
    PROVE  KeyInv'
<1>1. last \in Nat
  BY Facts, KeysFacts
<1>2. /\ \A t \in Sessions : Binds(t)' => Binds(t) /\ priv'[t].used = priv[t].used
      /\ \A t \in Sessions : BindsOwn(t)' => BindsOwn(t)
      /\ \A t \in Sessions : DcType[t] = "Cdn" => my'[t] # "Persistent"
  BY DEF Binds, BindsOwn, KeyInv, BindInv
<1>3. BindInv'
  BY <1>1, <1>2, KeepsBinding
<1>4. QueueInv'
  BY DEF KeyInv, QueueInv
<1> QED
  BY <1>3, <1>4 DEF KeyInv

LEMMA KeepPersistent ==
    ASSUME Inv
    PROVE  /\ \A c \in Creations : acquired(dc, c).persistent = dc.persistent
           /\ \A s \in Sessions : Released(s).persistent = dc.persistent
           /\ \A s \in Sessions, key \in Keys :
                 destroyTemporaryKey(Released(s), key).persistent = dc.persistent
           /\ \A c \in Creations :
                 releaseKeyCreationOnFail(dc, c).persistent = dc.persistent
<1>1. dc \in DcSet
  BY Facts
<1>2. /\ \A c \in Creations : acquired(dc, c).persistent = dc.persistent
      /\ \A c \in Creations :
            releaseKeyCreationOnFail(dc, c).persistent = dc.persistent
  BY <1>1 DEF acquired, releaseKeyCreationOnFail, DcSet
<1>3. \A s \in Sessions : /\ Released(s).persistent = dc.persistent
                          /\ Released(s) = dc \/ my[s] \in Creations
  BY <1>1, <1>2, Facts DEF Released
<1>4. \A d, key : (\E c \in Creations : d = releaseKeyCreationOnFail(dc, c))
                    \/ d = dc =>
          destroyTemporaryKey(d, key).persistent = d.persistent
  BY <1>1 DEF destroyTemporaryKey, releaseKeyCreationOnFail, DcSet
<1>5. \A s \in Sessions : \/ Released(s) = dc
                          \/ \E c \in Creations :
                                Released(s) = releaseKeyCreationOnFail(dc, c)
  BY Facts DEF Released
<1> QED
  BY <1>2, <1>3, <1>4, <1>5

-----------------------------------------------------------------------------
LEMMA KeysQuiet ==
    ASSUME Inv, KeyInv, NEW s \in Sessions,
           \/ ConnectToServer(s) \/ AcquireForMedia(s) \/ OnConnected(s)
           \/ UpdateAuthKey(s) \/ RestartNow(s) \/ OnError(s)
           \/ UnboundFailed(s) \/ DeletePrivate(s) \/ Stop(s) \/ Resume(s)
           \/ Kill(s)
    PROVE  KeyInv'
<1>1. /\ priv \in [Sessions -> PrivSet] /\ my \in [Sessions -> Creations]
      /\ priv[s] \in PrivSet /\ my[s] \in Creations /\ dc \in DcSet
  BY Facts
<1>2. DcType[s] = "Cdn" => my[s] # "Persistent"
  BY DEF KeyInv, BindInv
<1>3. CASE ConnectToServer(s) \/ AcquireForMedia(s)
  <2> DEFINE may == acquireKeyCreation(dc, DcType[s])
  <2>0. /\ may \in Creations /\ "None" \in Creations
        /\ DcType[s] = "Cdn" => may # "Persistent"
    BY DEF acquireKeyCreation, Creations, CreatingTypes
  <2> HIDE DEF may
  <2>1. PICK c \in {may, "None"} :
          /\ dc' = acquired(dc, c)
          /\ my' = IF c = "None" THEN my ELSE [my EXCEPT ![s] = c]
          /\ ConnectToServer(s) /\ priv[s].creator # "no" => c = "None"
    <3>1. CASE ConnectToServer(s)
      BY <1>3, <3>1 DEF ConnectToServer, may
    <3>2. CASE AcquireForMedia(s)
      <4>1. dc' = acquired(dc, may)
        BY <3>2 DEF AcquireForMedia, may
      <4>2. my' = IF may = "None" THEN my ELSE [my EXCEPT ![s] = may]
        BY <3>2 DEF AcquireForMedia, may
      <4>3. ~ConnectToServer(s)
        BY <3>2 DEF AcquireForMedia, ConnectToServer
      <4> QED
        BY <4>1, <4>2, <4>3
    <3> QED
      BY <1>3, <3>1, <3>2
  <2>2. /\ \A t \in Sessions \ {s} : priv'[t] = priv[t] /\ my'[t] = my[t]
        /\ DcType[s] = "Cdn" => my'[s] # "Persistent"
    BY <1>1, <1>2, <1>3, <2>0, <2>1 DEF ConnectToServer, AcquireForMedia
  <2>3. Binds(s)' => Binds(s) /\ priv'[s].used = priv[s].used /\ my'[s] = my[s]
    <3>1. CASE ConnectToServer(s)
      BY <1>1, <2>1, <3>1 DEF ConnectToServer, acquiring, Binds, PrivSet
    <3>2. CASE AcquireForMedia(s)
      <4>1. priv[s].creator = "no"
        BY <3>2, Facts DEF Idle, AcquireForMedia
      <4> QED
        BY <1>1, <3>2, <4>1 DEF AcquireForMedia, restart, stopped, Binds, PrivSet
    <3> QED
      BY <1>3, <3>1, <3>2
  <2>4. dc'.persistent = dc.persistent
    BY <2>0, <2>1, KeepPersistent
  <2> QED
    BY <1>3, <2>2, <2>3, <2>4, Quiet DEF ConnectToServer, AcquireForMedia
<1>4. CASE OnConnected(s) \/ UpdateAuthKey(s) \/ RestartNow(s) \/ OnError(s)
  <2>1. /\ my' = my /\ dc' = dc /\ posted' = posted /\ written' = written
        /\ last' = last
    BY <1>4 DEF OnConnected, UpdateAuthKey, RestartNow, OnError
  <2>2. \A x \in PrivSet, key \in Keys :
           /\ restart(x).used = x.used
           /\ restart(x).creator = "binding" <=> x.creator = "binding"
           /\ applyAuthKey(x, key).used = x.used
           /\ applyAuthKey(x, key).creator = "binding" <=> x.creator = "binding"
    BY DEF restart, stopped, applyAuthKey, appliedKey, noKeyYet, started, PrivSet
  <2>3. /\ \A t \in Sessions \ {s} : priv'[t] = priv[t]
        /\ Binds(s)' => Binds(s) /\ priv'[s].used = priv[s].used
    <3>1. CASE OnConnected(s)
      <4> DEFINE x == [priv[s] EXCEPT !.conn = "up"]
      <4>1. x \in PrivSet /\ x.used = priv[s].used /\ x.creator = priv[s].creator
        BY <1>1 DEF PrivSet
      <4>2. CurrentKey(x) \in Keys
        BY <4>1, KeyOf
      <4>3. \/ priv' = [priv EXCEPT ![s] = x]
            \/ priv' = [priv EXCEPT ![s] = applyAuthKey(x, CurrentKey(x))]
        BY <3>1 DEF OnConnected
      <4> HIDE DEF x
      <4> QED
        BY <1>1, <2>2, <4>1, <4>2, <4>3 DEF Binds
    <3>2. CASE UpdateAuthKey(s)
      <4>1. CurrentKey(priv[s]) \in Keys
        BY <1>1, KeyOf
      <4>2. \/ priv' = priv
            \/ priv' = [priv EXCEPT ![s] = applyAuthKey(priv[s], CurrentKey(priv[s]))]
        BY <1>1, <3>2 DEF UpdateAuthKey
      <4> QED
        BY <1>1, <2>2, <4>1, <4>2 DEF Binds
    <3>3. CASE RestartNow(s) \/ OnError(s)
      <4>1. priv' = [priv EXCEPT ![s] = restart(priv[s])]
        BY <1>1, <3>3 DEF RestartNow, OnError
      <4> QED
        BY <1>1, <2>2, <4>1, KeysFacts DEF Binds
    <3> QED
      BY <1>4, <3>1, <3>2, <3>3
  <2> QED
    BY <1>2, <2>1, <2>3, Quiet
<1>5. CASE UnboundFailed(s) \/ DeletePrivate(s)
  <2>1. dc' = Released(s) /\ my' = MyReleased(s)
    BY <1>5 DEF UnboundFailed, DeletePrivate
  <2>2. dc'.persistent = dc.persistent
    BY <2>1, KeepPersistent
  <2>3. PICK x : priv' = [priv EXCEPT ![s] = x] /\ x.creator = "no"
    <3>1. CASE UnboundFailed(s)
      <4>1. priv' = [priv EXCEPT ![s] = restart(released(priv[s]))]
        BY <1>1, <3>1 DEF UnboundFailed
      <4>2. restart(released(priv[s])).creator = "no"
        BY <1>1 DEF restart, released, stopped, PrivSet
      <4> QED
        BY <4>1, <4>2
    <3>2. CASE DeletePrivate(s)
      BY <3>2, NewType DEF DeletePrivate
    <3> QED
      BY <1>5, <3>1, <3>2
  <2>4. /\ \A t \in Sessions \ {s} : priv'[t] = priv[t] /\ my'[t] = my[t]
        /\ ~Binds(s)' /\ (DcType[s] = "Cdn" => my'[s] # "Persistent")
    BY <1>1, <1>2, <2>1, <2>3 DEF MyReleased, Binds
  <2> QED
    BY <1>5, <2>2, <2>4, Quiet DEF UnboundFailed, DeletePrivate
<1>6. CASE Stop(s)
  <2>1. /\ my' = my /\ dc' = dc /\ posted' = posted /\ written' = written
        /\ last' = last /\ priv' = priv
    BY <1>6 DEF Stop
  <2> QED
    BY <1>2, <2>1, Quiet DEF Binds
<1>7. CASE Resume(s)
  <2>1. /\ my' = my /\ dc' = dc /\ posted' = posted /\ written' = written
        /\ last' = last
    BY <1>7 DEF Resume
  <2>2. \/ priv' = priv
        \/ priv' = [priv EXCEPT ![s] = NewPrivate(s)]
    BY <1>7 DEF Resume
  <2>3. /\ \A t \in Sessions \ {s} : priv'[t] = priv[t]
        /\ Binds(s)' => Binds(s) /\ priv'[s].used = priv[s].used
    BY <1>1, <2>2, NewType DEF Binds
  <2> QED
    BY <1>2, <2>1, <2>3, Quiet
<1>8. CASE Kill(s)
  <2>1. /\ my' = [my EXCEPT ![s] = "None"] /\ dc' = dc /\ posted' = posted
        /\ written' = written /\ last' = last
        /\ priv' = [priv EXCEPT ![s] = NoPrivate(s)]
    BY <1>8 DEF Kill
  <2>2. /\ \A t \in Sessions \ {s} : priv'[t] = priv[t] /\ my'[t] = my[t]
        /\ ~Binds(s)' /\ my'[s] # "Persistent"
    BY <1>1, <2>1, NewType DEF Binds
  <2> QED
    BY <2>1, <2>2, Quiet
<1> QED
  BY <1>3, <1>4, <1>5, <1>6, <1>7, <1>8

(* A creation ends, and the main thread is told m or nothing.              *)
LEMMA Ends ==
    ASSUME Inv, KeyInv, NEW s \in Sessions, ~Binds(s)', my'[s] # "Persistent",
           \A t \in Sessions \ {s} : priv'[t] = priv[t] /\ my'[t] = my[t],
           written' = written, last' \in Nat, last <= last',
           NEW m \in Messages, m.key <= last,
           m.kind = "persistent" => \A i \in DOMAIN posted :
               posted[i].kind = "destroyed" => posted[i].key # m.key,
           m.kind # "temporary" => \A t \in Sessions \ {s} :
               BindsOwn(t) => priv[t].used # m.key,
           \/ posted' = posted /\ dc'.persistent = dc.persistent
           \/ /\ posted' = Append(posted, m)
              /\ dc'.persistent = IF m.kind = "persistent" THEN m.key
                                  ELSE dc.persistent
    PROVE  KeyInv'
<1>1. /\ last \in Nat /\ posted \in Seq(Messages) /\ m.key \in Nat
      /\ dc.persistent \in Nat /\ \A i \in DOMAIN posted : posted[i].key \in Nat
  <2>1. last \in Nat /\ posted \in Seq(Messages) /\ dc \in DcSet
    BY Facts, KeysFacts
  <2>2. \A i \in DOMAIN posted : posted[i] \in Messages
    BY <2>1
  <2> QED
    BY <2>1, <2>2, KeysFacts DEF Messages, DcSet
<1>2. /\ \A t \in Sessions : Binds(t)' => Binds(t) /\ priv'[t].used = priv[t].used
      /\ \A t \in Sessions : BindsOwn(t)' => BindsOwn(t) /\ t # s
      /\ \A t \in Sessions : DcType[t] = "Cdn" => my'[t] # "Persistent"
  BY DEF Binds, BindsOwn, KeyInv, BindInv
<1>3. CASE posted' = posted /\ dc'.persistent = dc.persistent
  <2>1. BindInv'
    BY <1>2, <1>3, KeepsBinding
  <2>2. Numbered(posted, last')
    BY <1>1 DEF KeyInv, QueueInv, Numbered
  <2>3. QueueInv'
    BY <1>1, <1>3, <2>2 DEF KeyInv, QueueInv
  <2> QED
    BY <2>1, <2>3 DEF KeyInv
<1>4. CASE /\ posted' = Append(posted, m)
           /\ dc'.persistent = IF m.kind = "persistent" THEN m.key
                               ELSE dc.persistent
  <2>1. \A i \in DOMAIN posted' : posted'[i] = m \/ \E j \in DOMAIN posted : posted[j] = posted'[i]
    BY <1>1, <1>4
  <2>2. \A i \in DOMAIN posted' : posted'[i].kind = "destroyed" =>
               \/ \E j \in DOMAIN posted : posted[j] = posted'[i]
               \/ \A t \in Sessions : BindsOwn(t)' => posted'[i].key # priv[t].used
    BY <1>2, <2>1
  <2>3. \/ dc'.persistent \in {dc.persistent, NoKey}
        \/ \A t \in Sessions : BindsOwn(t)' => priv[t].used # dc'.persistent
    BY <1>2, <1>4
  <2>4. BindInv'
    BY <1>2, <2>2, <2>3, KeepsBinding
  <2>5. /\ Latest(posted', written', dc'.persistent) /\ NotRevived(posted')
        /\ Numbered(posted', last)
    BY <1>1, <1>4, AppendQueue DEF KeyInv, QueueInv
  <2>6. Numbered(posted', last')
    <3>1. \A i \in DOMAIN posted' : posted'[i].key \in Nat
      BY <1>1, <2>1
    <3> QED
      BY <1>1, <2>5, <3>1 DEF Numbered
  <2>7. dc'.persistent <= last'
    BY <1>1, <1>4 DEF KeyInv, QueueInv
  <2> QED
    BY <2>4, <2>5, <2>6, <2>7 DEF KeyInv, QueueInv
<1> QED
  BY <1>3, <1>4

LEMMA KeysDone ==
    ASSUME Inv, KeyInv, NEW s \in Sessions, BindDone(s)
    PROVE  KeyInv'
<1> DEFINE x == priv[s]
           done == mayRelease(dc, my[s], x.used)
           m == Announce(my[s], x.used)
<1>1. /\ x \in PrivSet /\ x.creator = "binding" /\ x.used \in Keys /\ dc \in DcSet
      /\ priv \in [Sessions -> PrivSet] /\ my \in [Sessions -> Creations]
      /\ last \in Nat /\ Binds(s)
  BY Facts, KeysFacts DEF BindDone, PrivSet, Binds
<1>2. /\ dc' = releaseKeyCreationOnDone(dc, my[s], x.key, x.used)
      /\ posted' = IF done THEN Append(posted, m) ELSE posted
      /\ my' = [my EXCEPT ![s] = "None"] /\ written' = written /\ last' = last
  BY DEF BindDone
<1>3. m \in Messages
  BY <1>1, AnnounceType
<1>4. m.key <= last /\ (m.kind = "persistent" => my[s] = "Persistent")
      /\ (m.kind # "temporary" => m.kind = "persistent" /\ m.key = x.used)
  BY <1>1 DEF Announce, KeyInv, BindInv, NoKey
<1>5. /\ ~Binds(s)' /\ my'[s] # "Persistent"
      /\ \A t \in Sessions \ {s} : priv'[t] = priv[t] /\ my'[t] = my[t]
  <2>1. released(x).creator = "no" /\ released(x) \in PrivSet
    BY <1>1, ReleasedType
  <2>2. restart([released(x) EXCEPT !.key = NoKey]).creator = "no"
    BY <2>1 DEF restart, stopped, PrivSet
  <2>3. PICK z : priv' = [priv EXCEPT ![s] = z] /\ z.creator = "no"
    BY <2>1, <2>2 DEF BindDone
  <2> QED
    BY <1>1, <1>2, <2>3 DEF Binds
<1>6. m.kind = "persistent" =>
          \A i \in DOMAIN posted : posted[i].kind = "destroyed" => posted[i].key # m.key
  BY <1>1, <1>4 DEF KeyInv, BindInv, BindsOwn, OwnKey
<1>7. m.kind # "temporary" =>
          \A t \in Sessions \ {s} : BindsOwn(t) => priv[t].used # m.key
  BY <1>1, <1>4 DEF KeyInv, BindInv, OwnKey
<1>8. \/ posted' = posted /\ dc'.persistent = dc.persistent
      \/ /\ posted' = Append(posted, m)
         /\ dc'.persistent = IF m.kind = "persistent" THEN m.key ELSE dc.persistent
  <2>1. CASE done
    <3>1. dc'.persistent = IF my[s] = "Persistent" THEN x.used ELSE dc.persistent
      BY <1>1, <1>2, <2>1 DEF releaseKeyCreationOnDone, DcSet
    <3>2. IF my[s] = "Persistent" THEN m.kind = "persistent" /\ m.key = x.used
          ELSE m.kind = "temporary"
      BY DEF Announce
    <3> QED
      BY <1>2, <2>1, <3>1, <3>2
  <2>2. CASE ~done
    BY <1>2, <2>2 DEF releaseKeyCreationOnDone
  <2> QED
    BY <2>1, <2>2
<1> HIDE DEF m, x, done
<1> QED
  BY <1>1, <1>2, <1>3, <1>4, <1>5, <1>6, <1>7, <1>8, Ends

LEMMA KeysEnd ==
    ASSUME Inv, KeyInv, NEW s \in Sessions, BindRefused(s) \/ KeyError(s)
    PROVE  KeyInv'
<1> DEFINE x == priv[s]
           y == restart([released(x) EXCEPT !.key = NoKey])
           m == IF BindRefused(s) THEN [kind |-> "destroyed", key |-> x.used]
                ELSE [kind |-> "temporary", key |-> NoKey]
<1>1. /\ x \in PrivSet /\ x.used \in Keys /\ x.key \in Keys /\ NoKey \in Keys
      /\ priv \in [Sessions -> PrivSet] /\ my \in [Sessions -> Creations]
      /\ last \in Nat
  BY Facts, KeysFacts DEF PrivSet
<1>2. y.creator = "no"
  BY <1>1 DEF restart, released, stopped, PrivSet
<1>3. /\ priv' = [priv EXCEPT ![s] = y] /\ my' = MyReleased(s)
      /\ written' = written /\ last' = last
  BY DEF BindRefused, KeyError
<1>4. /\ ~Binds(s)' /\ my'[s] # "Persistent"
      /\ \A t \in Sessions \ {s} : priv'[t] = priv[t] /\ my'[t] = my[t]
  <2>1. my' = [my EXCEPT ![s] = "None"]
    BY <1>3, ReleasedExcl
  <2> QED
    BY <1>1, <1>2, <1>3, <2>1 DEF Binds
<1>5. m \in Messages /\ m.kind # "persistent"
  BY <1>1 DEF Messages
<1>6. /\ m.key <= last
      /\ m.kind # "temporary" =>
           \A t \in Sessions \ {s} : BindsOwn(t) => priv[t].used # m.key
  <2>1. CASE BindRefused(s)
    <3>1. Binds(s)
      BY <2>1 DEF BindRefused, Binds
    <3> QED
      BY <2>1, <3>1 DEF KeyInv, BindInv, OwnKey
  <2>2. CASE ~BindRefused(s)
    BY <1>1, <2>2 DEF NoKey
  <2> QED
    BY <2>1, <2>2
<1>7. dc'.persistent = dc.persistent
  BY <1>1, KeepPersistent DEF BindRefused, KeyError
<1>8. posted' = posted \/ posted' = Append(posted, m)
  <2>1. CASE BindRefused(s)
    BY <2>1 DEF BindRefused
  <2>2. CASE ~BindRefused(s)
    BY <2>2 DEF KeyError
  <2> QED
    BY <2>1, <2>2
<1> HIDE DEF x, y, m
<1> QED
  BY <1>1, <1>3, <1>4, <1>5, <1>6, <1>7, <1>8, Ends

(* The key that a session begins to bind is new, or the one of the dc.     *)
LEMMA KeysReady ==
    ASSUME Inv, KeyInv, NEW s \in Sessions, UnboundReady(s)
    PROVE  KeyInv'
<1> DEFINE x == priv[s]
           key == last + 1
           used == IF my[s] = "Persistent" THEN last + 2 ELSE dc.persistent
           none == [kind |-> "temporary", key |-> NoKey]
<1>1. /\ x \in PrivSet /\ dc \in DcSet /\ priv \in [Sessions -> PrivSet]
      /\ my \in [Sessions -> Creations] /\ last \in Nat /\ dc.persistent \in Nat
      /\ posted \in Seq(Messages)
  BY Facts, KeysFacts DEF DcSet
<1>2. /\ last' = IF my[s] = "Persistent" THEN last + 2 ELSE last + 1
      /\ written' = written
  BY DEF UnboundReady
<1>3. last' \in Nat /\ last <= last' /\ last' <= MaxKeys
  BY <1>1, <1>2 DEF UnboundReady
<1>4. none \in Messages /\ none.key <= last /\ none.kind = "temporary"
  BY <1>1, KeysFacts DEF Messages, NoKey
<1>5. released(x) \in PrivSet /\ released(x).creator = "no"
  BY <1>1, ReleasedType
<1>6. CASE DcType[s] = "Cdn"
  <2> DEFINE z == [released(x) EXCEPT !.key = key]
  <2>1. my[s] # "Persistent"
    BY <1>6 DEF KeyInv, BindInv
  <2>2. /\ dc' = releaseKeyCreationOnDone(dc, my[s], key, NoKey)
        /\ my' = [my EXCEPT ![s] = "None"] /\ priv' = [priv EXCEPT ![s] = z]
        /\ posted' = Append(posted, Announce(my[s], NoKey))
    BY <1>6 DEF UnboundReady
  <2>3. Announce(my[s], NoKey) = none
    BY <2>1 DEF Announce
  <2>4. dc'.persistent = dc.persistent
    BY <1>1, <2>1, <2>2 DEF releaseKeyCreationOnDone, DcSet
  <2>5. z.creator = "no"
    BY <1>5 DEF PrivSet
  <2> HIDE DEF z, none
  <2>6. /\ ~Binds(s)' /\ my'[s] # "Persistent"
        /\ \A t \in Sessions \ {s} : priv'[t] = priv[t] /\ my'[t] = my[t]
    BY <1>1, <2>2, <2>5 DEF Binds
  <2> QED
    BY <1>2, <1>3, <1>4, <2>2, <2>3, <2>4, <2>6, Ends
<1>7. CASE DcType[s] # "Cdn" /\ used = NoKey
  <2>1. /\ dc' = Released(s) /\ my' = MyReleased(s) /\ posted' = posted
        /\ priv' = [priv EXCEPT ![s] = restart(released(x))]
    BY <1>7 DEF UnboundReady
  <2>2. restart(released(x)).creator = "no"
    BY <1>5, RestartType
  <2>3. my' = [my EXCEPT ![s] = "None"]
    BY <2>1, ReleasedExcl
  <2>4. dc'.persistent = dc.persistent
    BY <2>1, KeepPersistent
  <2> HIDE DEF none
  <2>5. /\ ~Binds(s)' /\ my'[s] # "Persistent"
        /\ \A t \in Sessions \ {s} : priv'[t] = priv[t] /\ my'[t] = my[t]
    BY <1>1, <2>1, <2>2, <2>3 DEF Binds
  <2> QED
    BY <1>2, <1>3, <1>4, <2>1, <2>4, <2>5, Ends
<1>8. CASE DcType[s] # "Cdn" /\ used # NoKey
  <2> DEFINE z == [x EXCEPT !.key = key, !.creator = "binding", !.used = used]
  <2>1. dc' = dc /\ my' = my /\ posted' = posted /\ priv' = [priv EXCEPT ![s] = z]
    BY <1>8 DEF UnboundReady
  <2>2. z.creator = "binding" /\ z.used = used
    BY <1>1 DEF PrivSet
  <2>3. used <= last' /\ (my[s] = "Persistent" => last < used) /\ used \in Nat
    BY <1>1, <1>2 DEF KeyInv, QueueInv
  <2>4. my[s] # "Persistent" => used = dc.persistent
    OBVIOUS
  <2> HIDE DEF z, used
  <2>5. \A t \in Sessions : priv'[t] = IF t = s THEN z ELSE priv[t]
    BY <1>1, <2>1
  <2>6. \A i \in DOMAIN posted : posted[i].key \in Nat
    <3>1. \A i \in DOMAIN posted : posted[i] \in Messages
      BY <1>1
    <3> QED
      BY <3>1, KeysFacts DEF Messages
  <2>7. \A t \in Sessions : priv[t].used \in Nat
    BY <1>1, KeysFacts DEF PrivSet
  <2>8. QueueInv'
    BY <1>1, <1>2, <1>3, <2>1, <2>6 DEF KeyInv, QueueInv, Numbered
  <2>9. ASSUME NEW t \in Sessions, Binds(t)'
        PROVE  priv'[t].used # NoKey /\ priv'[t].used <= last'
    <3>1. CASE t = s
      BY <1>8, <2>2, <2>3, <2>5, <3>1
    <3>2. CASE t # s
      BY <1>1, <1>3, <2>5, <2>7, <2>9, <3>2 DEF KeyInv, BindInv, Binds
    <3> QED
      BY <3>1, <3>2
  <2>10. ASSUME NEW t \in Sessions, BindsOwn(t)'
         PROVE  OwnKey(t)'
    <3>1. my[t] = "Persistent" /\ (t # s => BindsOwn(t))
      BY <2>1, <2>5, <2>10 DEF BindsOwn, Binds
    <3>2. CASE t = s
      <4>1. last < used /\ priv'[t].used = used
        BY <2>2, <2>3, <2>5, <3>1, <3>2
      <4>2. used # dc.persistent
        BY <1>1, <2>3, <4>1 DEF KeyInv, QueueInv
      <4>3. \A u \in Sessions \ {s} : Binds(u)' => priv'[u].used # used
        BY <1>1, <2>3, <2>5, <2>7, <4>1 DEF KeyInv, BindInv, Binds
      <4>4. \A i \in DOMAIN posted : posted[i].key # used
        BY <1>1, <2>3, <2>6, <4>1 DEF KeyInv, QueueInv, Numbered
      <4> QED
        BY <2>1, <3>2, <4>1, <4>2, <4>3, <4>4 DEF OwnKey
    <3>3. CASE t # s
      <4>1. BindsOwn(t) /\ OwnKey(t) /\ priv'[t].used = priv[t].used
        BY <2>5, <3>1, <3>3 DEF KeyInv, BindInv
      <4>2. priv[t].used # used
        <5>1. CASE my[s] = "Persistent"
          BY <1>1, <2>3, <2>7, <4>1, <5>1 DEF KeyInv, BindInv, BindsOwn
        <5>2. CASE my[s] # "Persistent"
          BY <2>4, <4>1, <5>2 DEF OwnKey
        <5> QED
          BY <5>1, <5>2
      <4>3. \A u \in Sessions \ {t} : Binds(u)' => priv'[u].used # priv'[t].used
        BY <2>2, <2>5, <4>1, <4>2 DEF OwnKey, Binds
      <4> QED
        BY <2>1, <4>1, <4>3 DEF OwnKey
    <3> QED
      BY <3>2, <3>3
  <2>11. BindInv'
    BY <2>1, <2>9, <2>10 DEF KeyInv, BindInv
  <2> QED
    BY <2>8, <2>11 DEF KeyInv
<1> QED
  BY <1>6, <1>7, <1>8

(* The main thread takes the first of its queue.                           *)
LEMMA KeysMain ==
    ASSUME Inv, KeyInv, KeyChanged \/ KeyDestroyedOnServer
    PROVE  KeyInv'
<1> DEFINE h == Head(posted)
<1>1. /\ posted \in Seq(Messages) /\ posted # <<>> /\ last \in Nat /\ dc \in DcSet
      /\ posted' = Tail(posted) /\ priv' = priv /\ my' = my /\ last' = last
  BY Facts, KeysFacts DEF KeyChanged, KeyDestroyedOnServer
<1>2. /\ Latest(Tail(posted), IF h.kind = "persistent" THEN h.key ELSE written,
                dc.persistent)
      /\ NotRevived(posted') /\ Numbered(posted', last')
      /\ h.kind = "destroyed" /\ h.key = dc.persistent =>
             Latest(Tail(posted), NoKey, NoKey)
      /\ \A i \in DOMAIN posted' : \E j \in DOMAIN posted : posted[j] = posted'[i]
  BY <1>1, TailQueue DEF KeyInv, QueueInv
<1>3. /\ Latest(posted', written', dc'.persistent)
      /\ dc'.persistent \in {dc.persistent, NoKey}
  <2>1. CASE KeyChanged
    BY <1>1, <1>2, <2>1 DEF KeyChanged
  <2>2. CASE KeyDestroyedOnServer /\ dc.persistent = h.key
    <3>1. h.kind = "destroyed" /\ written' = NoKey
      BY <2>2 DEF KeyDestroyedOnServer
    <3>2. dc'.persistent = NoKey
      BY <1>1, <2>2 DEF KeyDestroyedOnServer, destroyConfirmedForgottenKey, DcSet
    <3> QED
      BY <1>1, <1>2, <2>2, <3>1, <3>2
  <2>3. CASE KeyDestroyedOnServer /\ dc.persistent # h.key
    BY <1>1, <1>2, <2>3 DEF KeyDestroyedOnServer, destroyConfirmedForgottenKey
  <2> QED
    BY <2>1, <2>2, <2>3
<1>4. dc'.persistent <= last'
  BY <1>1, <1>3 DEF KeyInv, QueueInv, NoKey
<1>5. BindInv'
  BY <1>1, <1>2, <1>3, KeepsBinding DEF Binds, BindsOwn, KeyInv, BindInv
<1> QED
  BY <1>2, <1>3, <1>4, <1>5 DEF KeyInv, QueueInv

LEMMA KeysRest ==
    ASSUME Inv, KeyInv, DestroySession \/ Forget \/ UNCHANGED vars
    PROVE  KeyInv'
<1>1. /\ posted' = posted /\ written' = written /\ last' = last
      /\ priv' = priv /\ my' = my
  BY DEF DestroySession, Forget, vars
<1>2. dc'.persistent = dc.persistent
  <2>1. CASE DestroySession
    <3>1. PICK c \in ghosts : dc' = releaseKeyCreationOnFail(dc, c)
      BY <2>1 DEF DestroySession
    <3>2. c \in Creations
      BY Facts DEF Creations
    <3> QED
      BY <3>1, <3>2, KeepPersistent
  <2>2. CASE Forget \/ UNCHANGED vars
    BY <2>2 DEF Forget, vars
  <2> QED
    BY <2>1, <2>2
<1>3. last \in Nat /\ last <= last' /\ last' \in Nat
  <2>1. last \in Nat
    BY Facts, KeysFacts
  <2> QED
    BY <1>1, <2>1
<1>4. BindInv'
  BY <1>1, <1>2, <1>3, KeepsBinding DEF Binds, BindsOwn, KeyInv, BindInv
<1>5. QueueInv'
  BY <1>1, <1>2 DEF KeyInv, QueueInv
<1> QED
  BY <1>4, <1>5 DEF KeyInv

(* What the main thread will write down is always the key that is used.    *)
THEOREM AlwaysKeyInv == Spec => []KeyInv
<1>1. Init => KeyInv
  <2> SUFFICES ASSUME Init PROVE KeyInv
    OBVIOUS
  <2>1. ASSUME NEW s \in Sessions PROVE ~Binds(s) /\ my[s] = "None"
    <3>1. priv[s] = NewPrivate(s) /\ my[s] = "None"
      BY DEF Init
    <3> QED
      BY <3>1, NewType DEF Binds
  <2>2. DOMAIN posted = {} /\ written = NoKey /\ dc.persistent = NoKey /\ last = NoKey
    BY DEF Init
  <2>3. QueueInv
    BY <2>2 DEF QueueInv, Latest, NotRevived, Numbered, NoKey
  <2>4. BindInv
    BY <2>1 DEF BindInv, BindsOwn
  <2> QED
    BY <2>3, <2>4 DEF KeyInv
<1>2. Inv /\ KeyInv /\ [Next]_vars => KeyInv'
  <2> SUFFICES ASSUME Inv, KeyInv, [Next]_vars PROVE KeyInv'
    OBVIOUS
  <2>1. CASE Main \/ Forget \/ UNCHANGED vars
    BY <2>1, KeysMain, KeysRest DEF Main
  <2>2. ASSUME NEW s \in Sessions, Thread(s) \/ Faulty(s) \/ Resume(s)
        PROVE  KeyInv'
    BY <2>2, KeysQuiet, KeysReady, KeysDone, KeysEnd DEF Thread, Faulty
  <2> QED
    BY <2>1, <2>2 DEF Next
<1> QED
  BY <1>1, <1>2, AlwaysInv, PTL DEF Spec

(* For any number of sessions, keys and faults the persistent key that     *)
(* goes to disk is the one that is used, once the main thread has handled  *)
(* what the sessions have posted to it: dcPersistentKeyChanged() and       *)
(* keyDestroyedOnServer() never write down an older key after a newer one. *)
THEOREM WrittenIsAlwaysUsed == Spec => []WrittenIsUsed
<1>1. KeyInv => WrittenIsUsed
  <2> SUFFICES ASSUME KeyInv, posted = <<>> PROVE written = dc.persistent
    BY DEF WrittenIsUsed
  <2>1. DOMAIN posted = {}
    OBVIOUS
  <2> QED
    BY <2>1 DEF KeyInv, QueueInv, Latest
<1> QED
  BY <1>1, AlwaysKeyInv, PTL

(* For any number of sessions the variables keep their types.              *)
THEOREM Typed == Spec => []TypeOK
<1>1. Inv => TypeOK
  BY DEF Inv
<1> QED
  BY <1>1, AlwaysInv, PTL

(* For any number of sessions the assertions of Dcenter and Session hold:  *)
(* whoever creates a key holds its flag and the key is not there.          *)
THEOREM CreatorAlwaysHoldsFlag == Spec => []CreatorHoldsFlag
<1>1. Inv => CreatorHoldsFlag
  BY DEF Inv, Excl, Owns, Holds, CreatorHoldsFlag, Creates
<1> QED
  BY <1>1, AlwaysInv, PTL

(* For any number of sessions no two create the same key.                  *)
THEOREM AlwaysOneCreator == Spec => []OneCreator
<1>1. Inv => OneCreator
  BY DEF Inv, Excl, OneCreator
<1> QED
  BY <1>1, AlwaysInv, PTL

-----------------------------------------------------------------------------
(* MtpInstance: where a request is.                                        *)
IsHeld(i, x) == \E s \in AllSessions : x \in i.held[s]
IsDelayed(i, x) == \E n \in DOMAIN i.delayed : i.delayed[n].id = x
IsWaiter(i, x) ==
    \E d \in Dcs : \E n \in DOMAIN i.waiters[d] : i.waiters[d][n] = x

Nowhere(i, x) ==
    /\ ~IsHeld(i, x) /\ ~IsDelayed(i, x) /\ ~IsWaiter(i, x)
    /\ x \notin DOMAIN i.dependent

Once(i, x) ==
    /\ \A s, t \in AllSessions : x \in i.held[s] /\ x \in i.held[t] => s = t
    /\ \A m, n \in DOMAIN i.delayed :
         i.delayed[m].id = x /\ i.delayed[n].id = x => m = n
    /\ \A d, e \in Dcs :
         \A m \in DOMAIN i.waiters[d], n \in DOMAIN i.waiters[e] :
           i.waiters[d][m] = x /\ i.waiters[e][n] = x => d = e /\ m = n
    /\ IsHeld(i, x) => ~IsDelayed(i, x) /\ ~IsWaiter(i, x)
    /\ IsDelayed(i, x) => ~IsWaiter(i, x)
    /\ x \in DOMAIN i.dependent =>
         ~IsHeld(i, x) /\ ~IsDelayed(i, x) /\ ~IsWaiter(i, x)

Kept(i, x) ==
    /\ Once(i, x)
    /\ x \notin i.lost =>
         /\ ~Nowhere(i, x)
         /\ x \in DOMAIN i.dependent => i.dependent[x] \in DOMAIN i.byDc

(* The requests in X are in the hands of a handler, those in Z are never   *)
(* sent again.                                                             *)
PlacesOk(i, X, Z) ==
    /\ \A x \in DOMAIN i.byDc \ X : Kept(i, x)
    /\ \A x \in Ids \ (DOMAIN i.byDc \cup Z) : Nowhere(i, x)

Place == [main : BOOLEAN, dc : Dcs, shift : Shifts]
Delay == [id : Ids, left : Int]

IsInst(i) ==
    i = [byDc |-> i.byDc, parser |-> i.parser, after |-> i.after,
         dependent |-> i.dependent, delays |-> i.delays,
         delayed |-> i.delayed, waiters |-> i.waiters,
         exports |-> i.exports, badGuest |-> i.badGuest, main |-> i.main,
         held |-> i.held, lost |-> i.lost]

InstOk(i) ==
    /\ IsInst(i)
    /\ DOMAIN i.byDc \subseteq Ids
    /\ \A x \in DOMAIN i.byDc : i.byDc[x] \in Place
    /\ i.held \in [AllSessions -> SUBSET Ids]
    /\ i.delayed \in Seq(Delay)
    /\ i.waiters \in [Dcs -> Seq(User)]
    /\ i.main \in Dcs
    /\ \A x \in DOMAIN i.delays : i.delays[x] \in Int

(* One authorization is exported and then imported for all that wait.      *)
AuthOk(i) ==
    \A d \in Dcs :
      /\ i.waiters[d] # <<>> <=>
           Export(d) \in DOMAIN i.byDc \/ Import(d) \in DOMAIN i.byDc
      /\ Export(d) \in DOMAIN i.byDc =>
           /\ Import(d) \notin DOMAIN i.byDc
           /\ Export(d) \in DOMAIN i.exports
           /\ i.exports[Export(d)] \in DcSessions
           /\ Bare(i.exports[Export(d)]) = d
      /\ Import(d) \in DOMAIN i.byDc => i.byDc[Import(d)].dc = d

Spent == {x \in User : answered[x[2]] # 0 \/ x[2] \in gone}

InstanceInv ==
    /\ InstOk(inst) /\ PlacesOk(inst, {}, Spent) /\ AuthOk(inst)
    /\ answered \in [Requests -> Nat]

-----------------------------------------------------------------------------
LEMMA SessionOf ==
    ASSUME NEW p \in Place
    PROVE  qAbs(p) \in AllSessions
  BY DEF qAbs, Place, AllSessions, DcSessions

LEMMA ChangedPlace ==
    ASSUME NEW p \in Place, NEW d \in Dcs
    PROVE  changed(p, d) \in Place
  BY InstanceAssumption DEF changed, Place

(* The places of a request depend on four fields.                          *)
LEMMA NowhereFact ==
    ASSUME NEW i, NEW j, NEW x,
           \A s \in AllSessions : x \in j.held[s] => x \in i.held[s],
           j.delayed = i.delayed, j.waiters = i.waiters,
           j.dependent = i.dependent, Nowhere(i, x)
    PROVE  Nowhere(j, x)
  BY DEF Nowhere, IsHeld, IsDelayed, IsWaiter

(* Requests that were nowhere are given to sessions.                       *)
LEMMA PutHeld ==
    ASSUME NEW i, NEW j, NEW X, NEW Z, NEW S, NEW at \in [S -> AllSessions],
           PlacesOk(i, X, Z), S \subseteq X, S \subseteq DOMAIN i.byDc,
           \A x \in S : Nowhere(i, x),
           DOMAIN j.byDc = DOMAIN i.byDc, j.delayed = i.delayed,
           j.waiters = i.waiters, j.dependent = i.dependent, j.lost = i.lost,
           \A s \in AllSessions : j.held[s] = i.held[s] \cup {x \in S : at[x] = s}
    PROVE  /\ PlacesOk(j, X \ S, Z)
           /\ \A x : x \notin S /\ Nowhere(i, x) => Nowhere(j, x)
<1>1. ASSUME NEW x, x \notin S
      PROVE  /\ Nowhere(j, x) <=> Nowhere(i, x)
             /\ Once(j, x) <=> Once(i, x)
  <2>1. \A s \in AllSessions : x \in j.held[s] <=> x \in i.held[s]
    BY <1>1
  <2>2. /\ IsHeld(j, x) <=> IsHeld(i, x)
        /\ IsDelayed(j, x) <=> IsDelayed(i, x)
        /\ IsWaiter(j, x) <=> IsWaiter(i, x)
    BY <2>1 DEF IsHeld, IsDelayed, IsWaiter
  <2>3. Nowhere(j, x) <=> Nowhere(i, x)
    BY <2>2 DEF Nowhere
  <2> QED
    BY <2>1, <2>2, <2>3 DEF Once
<1>2. ASSUME NEW x \in S
      PROVE  Kept(j, x)
  <2>1. \A s \in AllSessions : x \in j.held[s] <=> s = at[x]
    BY <1>2 DEF Nowhere, IsHeld
  <2>2. at[x] \in AllSessions
    BY <1>2
  <2>3. /\ IsHeld(j, x) /\ ~IsDelayed(j, x) /\ ~IsWaiter(j, x)
        /\ x \notin DOMAIN j.dependent
    BY <1>2, <2>1, <2>2 DEF Nowhere, IsHeld, IsDelayed, IsWaiter
  <2> QED
    BY <2>1, <2>3 DEF Kept, Once, Nowhere, IsDelayed, IsWaiter
<1>3. \A x \in DOMAIN j.byDc \ (X \ S) : Kept(j, x)
  BY <1>1, <1>2 DEF PlacesOk, Kept
<1>4. \A x \in Ids \ (DOMAIN j.byDc \cup Z) : Nowhere(j, x)
  BY <1>1 DEF PlacesOk
<1> QED
  BY <1>1, <1>3, <1>4 DEF PlacesOk

(* The fields that say where requests are, but for the sessions.           *)
SameQueues(i, j) ==
    /\ j.delayed = i.delayed /\ j.waiters = i.waiters
    /\ j.dependent = i.dependent /\ j.exports = i.exports
    /\ j.delays = i.delays

LEMMA SameAuth ==
    ASSUME NEW i, NEW j, AuthOk(i), j.waiters = i.waiters,
           j.exports = i.exports, DOMAIN j.byDc = DOMAIN i.byDc,
           \A d \in Dcs : Import(d) \in DOMAIN i.byDc =>
                            j.byDc[Import(d)].dc = i.byDc[Import(d)].dc
    PROVE  AuthOk(j)
  BY DEF AuthOk

LEMMA HeldFields ==
    ASSUME NEW i, IsInst(i), NEW h
    PROVE  LET j == [i EXCEPT !.held = h] IN
           /\ IsInst(j) /\ j.held = h /\ j.byDc = i.byDc /\ j.lost = i.lost
           /\ j.main = i.main /\ j.parser = i.parser /\ SameQueues(i, j)
  BY DEF IsInst, SameQueues

LEMMA SendFact ==
    ASSUME NEW i, InstOk(i), NEW s \in AllSessions, NEW id \in Ids
    PROVE  LET j == sendPrepared(i, s, id) IN
           /\ InstOk(j) /\ j.byDc = i.byDc /\ j.lost = i.lost
           /\ j.main = i.main /\ SameQueues(i, j)
           /\ \A t \in AllSessions :
                j.held[t] = i.held[t] \cup {x \in {id} : t = s}
<1> DEFINE h == [i.held EXCEPT ![s] = @ \cup {id}]
           j == sendPrepared(i, s, id)
<1>1. j = [i EXCEPT !.held = h]
  BY DEF sendPrepared
<1>2. /\ h \in [AllSessions -> SUBSET Ids]
      /\ \A t \in AllSessions : h[t] = i.held[t] \cup {x \in {id} : t = s}
  BY DEF InstOk
<1> HIDE DEF h
<1>3. IsInst(i)
  BY DEF InstOk
<1>4. /\ IsInst(j) /\ j.held = h /\ j.byDc = i.byDc /\ j.lost = i.lost
      /\ j.main = i.main /\ SameQueues(i, j)
  BY <1>1, <1>3, HeldFields
<1> HIDE DEF j
<1>5. InstOk(j)
  BY <1>2, <1>4 DEF InstOk, SameQueues
<1> QED
  BY <1>2, <1>4, <1>5 DEF j

LEMMA SendOk ==
    ASSUME NEW i, InstOk(i), NEW X, NEW Z, PlacesOk(i, X, Z),
           NEW id \in X, id \in DOMAIN i.byDc, Nowhere(i, id),
           NEW s \in AllSessions
    PROVE  LET j == sendPrepared(i, s, id) IN
           /\ InstOk(j) /\ PlacesOk(j, X \ {id}, Z)
           /\ j.byDc = i.byDc /\ j.main = i.main /\ SameQueues(i, j)
<1> DEFINE j == sendPrepared(i, s, id)
           at == [x \in {id} |-> s]
<1>1. id \in Ids
  BY DEF InstOk
<1>2. /\ InstOk(j) /\ j.byDc = i.byDc /\ j.lost = i.lost
      /\ j.main = i.main /\ SameQueues(i, j)
      /\ \A t \in AllSessions : j.held[t] = i.held[t] \cup {x \in {id} : t = s}
  BY <1>1, SendFact
<1> HIDE DEF j
<1>3. /\ at \in [{id} -> AllSessions]
      /\ \A t \in AllSessions :
           j.held[t] = i.held[t] \cup {x \in {id} : at[x] = t}
  BY <1>2
<1> HIDE DEF at
<1>4. PlacesOk(j, X \ {id}, Z)
  BY <1>2, <1>3, PutHeld DEF SameQueues
<1> QED
  BY <1>2, <1>4 DEF j

LEMMA ResendOk ==
    ASSUME NEW i, InstOk(i), NEW X, NEW Z, PlacesOk(i, X, Z),
           NEW id \in X, id \in DOMAIN i.byDc, Nowhere(i, id)
    PROVE  LET j == resend(i, id) IN
           /\ InstOk(j) /\ PlacesOk(j, X \ {id}, Z)
           /\ j.byDc = i.byDc /\ j.main = i.main /\ SameQueues(i, j)
<1>1. qAbs(i.byDc[id]) \in AllSessions
  BY SessionOf DEF InstOk
<1> QED
  BY <1>1, SendOk DEF resend

(* Fields that do not say where a request is.                              *)
LEMMA SamePlaces ==
    ASSUME NEW i, NEW j, NEW X, NEW Z, PlacesOk(i, X, Z), SameQueues(i, j),
           j.held = i.held, j.lost = i.lost, DOMAIN j.byDc = DOMAIN i.byDc
    PROVE  PlacesOk(j, X, Z) /\ \A x : Nowhere(j, x) <=> Nowhere(i, x)
  BY DEF PlacesOk, Kept, Once, Nowhere, IsHeld, IsDelayed, IsWaiter, SameQueues

LEMMA TakenOk ==
    ASSUME InstanceInv, NEW session, NEW id \in Ids, Answers(session, id)
    PROVE  LET i == Taken(session, id) IN
           /\ InstOk(i) /\ PlacesOk(i, {id}, Spent) /\ Nowhere(i, id)
           /\ AuthOk(i) /\ i.byDc = inst.byDc /\ i.main = inst.main
           /\ SameQueues(inst, i) /\ id \in DOMAIN i.byDc
<1> DEFINE h == [inst.held EXCEPT ![session] = @ \ {id}]
           i == Taken(session, id)
<1>0. InstOk(inst) /\ IsInst(inst) /\ session \in AllSessions
  BY DEF InstanceInv, InstOk, Answers, AllSessions
<1>1. /\ h \in [AllSessions -> SUBSET Ids]
      /\ \A t \in AllSessions :
           h[t] = IF t = session THEN inst.held[t] \ {id} ELSE inst.held[t]
  BY <1>0 DEF InstOk
<1>2. i = [inst EXCEPT !.held = h, !.parser = inst.parser \ {id}]
  BY DEF Taken
<1> HIDE DEF h
<1>3. /\ IsInst(i) /\ i.held = h /\ i.byDc = inst.byDc /\ i.lost = inst.lost
      /\ i.main = inst.main /\ SameQueues(inst, i)
  BY <1>0, <1>2 DEF IsInst, SameQueues
<1> HIDE DEF i
<1>4. Kept(inst, id) /\ IsHeld(inst, id)
  BY <1>0 DEF InstanceInv, PlacesOk, Answers, IsHeld
<1>5. Nowhere(i, id)
  <2>1. ~IsHeld(i, id)
    BY <1>0, <1>1, <1>3, <1>4 DEF IsHeld, Kept, Once, Answers
  <2> QED
    BY <2>1, <1>3, <1>4
       DEF Nowhere, Kept, Once, IsDelayed, IsWaiter, SameQueues
<1>6. ASSUME NEW x, x # id
      PROVE  /\ Nowhere(i, x) <=> Nowhere(inst, x)
             /\ Once(i, x) <=> Once(inst, x)
  <2>1. \A s \in AllSessions : x \in i.held[s] <=> x \in inst.held[s]
    BY <1>1, <1>3, <1>6
  <2> QED
    BY <2>1, <1>3 DEF Once, Nowhere, IsHeld, IsDelayed, IsWaiter, SameQueues
<1>7. PlacesOk(i, {id}, Spent)
  BY <1>3, <1>5, <1>6 DEF InstanceInv, PlacesOk, Kept, SameQueues
<1>8. AuthOk(i)
  BY <1>3, SameAuth DEF InstanceInv, SameQueues
<1>9. InstOk(i)
  BY <1>0, <1>1, <1>3 DEF InstOk, SameQueues
<1> QED
  BY <1>3, <1>5, <1>7, <1>8, <1>9 DEF i, Answers

-----------------------------------------------------------------------------
(* unregisterRequest()                                                     *)
LEMMA DependentsFact ==
    ASSUME NEW i, NEW id
    PROVE  /\ id \in dependents(i, id)
           /\ dependents(i, id) \subseteq {id} \cup DOMAIN i.dependent
           /\ \A x \in DOMAIN i.dependent :
                i.dependent[x] \in dependents(i, id) => x \in dependents(i, id)
  BY DEF dependents

LEMMA WithoutFact ==
    ASSUME NEW f, NEW S
    PROVE  /\ DOMAIN Without(f, S) = DOMAIN f \ S
           /\ \A x \in DOMAIN f \ S : Without(f, S)[x] = f[x]
  BY DEF Without

LEMMA WithFact ==
    ASSUME NEW f, NEW a, NEW v
    PROVE  /\ DOMAIN With(f, a, v) = DOMAIN f \cup {a}
           /\ With(f, a, v)[a] = v
           /\ \A x \in DOMAIN f \ {a} : With(f, a, v)[x] = f[x]
  BY DEF With

LEMMA ResendAllFact ==
    ASSUME NEW i, InstOk(i), NEW S, S \subseteq DOMAIN i.byDc
    PROVE  LET j == resendAll(i, S) IN
           /\ InstOk(j) /\ j.byDc = i.byDc /\ j.lost = i.lost
           /\ j.main = i.main /\ SameQueues(i, j)
           /\ \A s \in AllSessions : j.held[s] =
                i.held[s] \cup {x \in S : qAbs(i.byDc[x]) = s}
<1> DEFINE h == [s \in AllSessions |->
                    i.held[s] \cup {x \in S : qAbs(i.byDc[x]) = s}]
           j == resendAll(i, S)
<1>1. j = [i EXCEPT !.held = h]
  BY DEF resendAll
<1>2. h \in [AllSessions -> SUBSET Ids]
  BY DEF InstOk
<1>3. \A s \in AllSessions :
        h[s] = i.held[s] \cup {x \in S : qAbs(i.byDc[x]) = s}
  OBVIOUS
<1> HIDE DEF h
<1>4. IsInst(i)
  BY DEF InstOk
<1>5. /\ IsInst(j) /\ j.held = h /\ j.byDc = i.byDc /\ j.lost = i.lost
      /\ j.main = i.main /\ SameQueues(i, j)
  BY <1>1, <1>4, HeldFields
<1> HIDE DEF j
<1>6. InstOk(j)
  BY <1>2, <1>5 DEF InstOk, SameQueues
<1> QED
  BY <1>3, <1>5, <1>6 DEF j

LEMMA UnregFact ==
    ASSUME NEW i, InstOk(i), NEW id
    PROVE  LET j == unregisterRequest(i, id)
               R == dependents(i, id)
               T == (R \ {id}) \cap DOMAIN i.byDc
           IN  /\ InstOk(j) /\ j.lost = i.lost /\ j.main = i.main
               /\ j.delayed = i.delayed /\ j.waiters = i.waiters
               /\ j.exports = i.exports
               /\ DOMAIN j.byDc = DOMAIN i.byDc \ {id}
               /\ \A x \in DOMAIN j.byDc : j.byDc[x] = i.byDc[x]
               /\ DOMAIN j.dependent = DOMAIN i.dependent \ R
               /\ \A x \in DOMAIN j.dependent : j.dependent[x] = i.dependent[x]
               /\ \A s \in AllSessions : j.held[s] =
                    i.held[s] \cup {x \in T : qAbs(i.byDc[x]) = s}
<1> DEFINE R == dependents(i, id)
           T == (R \ {id}) \cap DOMAIN i.byDc
           k == resendAll(i, T)
           j == unregisterRequest(i, id)
<1>1. /\ InstOk(k) /\ IsInst(k) /\ k.byDc = i.byDc /\ k.lost = i.lost
      /\ k.main = i.main /\ SameQueues(i, k)
      /\ \A s \in AllSessions : k.held[s] =
           i.held[s] \cup {x \in T : qAbs(i.byDc[x]) = s}
  <2>1. T \subseteq DOMAIN i.byDc
    OBVIOUS
  <2> HIDE DEF T
  <2> QED
    BY <2>1, ResendAllFact DEF InstOk
<1> DEFINE b == Without(k.byDc, {id})
           y == Without(k.delays, {id})
           e == Without(k.dependent, R)
<1>2. j = [k EXCEPT !.byDc = b, !.delays = y, !.dependent = e]
  BY DEF unregisterRequest
<1> HIDE DEF k, R
<1>a. DOMAIN b = DOMAIN k.byDc \ {id} /\ \A x \in DOMAIN b : b[x] = k.byDc[x]
  BY DEF Without
<1>b. /\ DOMAIN e = DOMAIN k.dependent \ R
      /\ \A x \in DOMAIN e : e[x] = k.dependent[x]
  BY DEF Without
<1>c. DOMAIN y = DOMAIN k.delays \ {id} /\ \A x \in DOMAIN y : y[x] = k.delays[x]
  BY DEF Without
<1> HIDE DEF b, y, e, j
<1>3. /\ IsInst(j) /\ j.byDc = b /\ j.held = k.held
      /\ j.dependent = e /\ j.lost = k.lost
      /\ j.main = k.main /\ j.delayed = k.delayed /\ j.waiters = k.waiters
      /\ j.exports = k.exports /\ j.delays = y
  BY <1>1, <1>2 DEF IsInst
<1> HIDE DEF T
<1>4. /\ DOMAIN j.byDc = DOMAIN i.byDc \ {id}
      /\ \A x \in DOMAIN j.byDc : j.byDc[x] = i.byDc[x]
      /\ DOMAIN j.dependent = DOMAIN i.dependent \ R
      /\ \A x \in DOMAIN j.dependent : j.dependent[x] = i.dependent[x]
  BY <1>1, <1>3, <1>a, <1>b DEF SameQueues
<1>5. InstOk(j)
  BY <1>1, <1>3, <1>4, <1>c DEF InstOk, SameQueues
<1> QED
  BY <1>1, <1>3, <1>4, <1>5 DEF j, R, T, SameQueues

(* What waited for the request is given to a session; the request itself   *)
(* is known no more.                                                       *)
LEMMA UnregOk ==
    ASSUME NEW i, InstOk(i), NEW Z, NEW id \in Ids, PlacesOk(i, {id}, Z)
    PROVE  LET j == unregisterRequest(i, id) IN
           /\ InstOk(j) /\ PlacesOk(j, {}, Z \cup {id})
           /\ Nowhere(i, id) => PlacesOk(j, {}, Z)
<1> DEFINE R == dependents(i, id)
           T == (R \ {id}) \cap DOMAIN i.byDc
           j == unregisterRequest(i, id)
<1>1. /\ InstOk(j) /\ j.lost = i.lost /\ j.main = i.main
      /\ j.delayed = i.delayed /\ j.waiters = i.waiters
      /\ DOMAIN j.byDc = DOMAIN i.byDc \ {id}
      /\ DOMAIN j.dependent = DOMAIN i.dependent \ R
      /\ \A x \in DOMAIN j.dependent : j.dependent[x] = i.dependent[x]
      /\ \A s \in AllSessions : j.held[s] =
           i.held[s] \cup {x \in T : qAbs(i.byDc[x]) = s}
  BY UnregFact
<1>2. /\ id \in R /\ R \subseteq {id} \cup DOMAIN i.dependent
      /\ \A x \in DOMAIN i.dependent : i.dependent[x] \in R => x \in R
  BY DependentsFact
<1>3. \A x \in T : qAbs(i.byDc[x]) \in AllSessions
  BY SessionOf DEF InstOk
<1>4. T \subseteq (DOMAIN i.byDc \cap DOMAIN i.dependent) \ {id}
  BY <1>2
<1>5. \A x : x \in R => x = id \/ x \in DOMAIN i.dependent
  BY <1>2
<1>6. \A x \in DOMAIN i.byDc \ {id} : x \in R => x \in T
  OBVIOUS
<1> HIDE DEF j, R, T
<1>7. ASSUME NEW x, x \notin T
      PROVE  /\ IsHeld(j, x) <=> IsHeld(i, x)
             /\ IsDelayed(j, x) <=> IsDelayed(i, x)
             /\ IsWaiter(j, x) <=> IsWaiter(i, x)
             /\ \A s \in AllSessions : x \in j.held[s] <=> x \in i.held[s]
  BY <1>1, <1>7 DEF IsHeld, IsDelayed, IsWaiter
<1>8. ASSUME NEW x \in T
      PROVE  Kept(j, x)
  <2>1. Kept(i, x) /\ x \in DOMAIN i.dependent
    BY <1>4 DEF PlacesOk
  <2>2. \A s \in AllSessions : x \in j.held[s] <=> s = qAbs(i.byDc[x])
    BY <1>1, <2>1 DEF Kept, Once, IsHeld
  <2>3. IsHeld(j, x) /\ x \notin DOMAIN j.dependent
    BY <1>1, <1>3, <2>2 DEF IsHeld, T
  <2>4. ~IsDelayed(j, x) /\ ~IsWaiter(j, x)
    BY <1>1, <2>1 DEF Kept, Once, IsDelayed, IsWaiter
  <2> QED
    BY <2>2, <2>3, <2>4 DEF Kept, Once, Nowhere, IsDelayed, IsWaiter
<1>9. ASSUME NEW x \in DOMAIN i.byDc \ {id}, x \notin T
      PROVE  Kept(j, x)
  <2>1. Kept(i, x) /\ x \notin R
    BY <1>6, <1>9 DEF PlacesOk
  <2>2. x \in DOMAIN j.dependent <=> x \in DOMAIN i.dependent
    BY <1>1, <2>1
  <2>3. x \in DOMAIN i.dependent => i.dependent[x] # id
    BY <1>2, <2>1
  <2>4. Once(j, x)
    BY <1>1, <1>7, <1>9, <2>1, <2>2 DEF Once, Kept
  <2>5. Nowhere(j, x) <=> Nowhere(i, x)
    BY <1>7, <1>9, <2>2 DEF Nowhere
  <2> QED
    BY <1>1, <2>1, <2>2, <2>3, <2>4, <2>5 DEF Kept
<1>10. ASSUME NEW x, x \notin DOMAIN i.byDc \/ x = id, Nowhere(i, x)
       PROVE  Nowhere(j, x)
  <2>1. x \notin T
    BY <1>4, <1>10
  <2> QED
    BY <1>1, <1>7, <1>10, <2>1 DEF Nowhere
<1>11. \A x \in DOMAIN j.byDc : Kept(j, x)
  BY <1>1, <1>8, <1>9
<1>12. \A x \in Ids \ (DOMAIN j.byDc \cup Z \cup {id}) : Nowhere(j, x)
  BY <1>1, <1>10 DEF PlacesOk
<1>13. Nowhere(i, id) => \A x \in Ids \ (DOMAIN j.byDc \cup Z) : Nowhere(j, x)
  BY <1>10, <1>12
<1> QED
  BY <1>1, <1>11, <1>12, <1>13 DEF PlacesOk, j

-----------------------------------------------------------------------------
LEMMA PlacesMore ==
    ASSUME NEW i, NEW X, NEW Z, PlacesOk(i, X, Z), NEW Y, NEW V,
           X \subseteq Y, Z \subseteq V
    PROVE  PlacesOk(i, Y, V)
  BY DEF PlacesOk

(* setMainDcId(): the requests of killed sessions are lost.                *)
LEMMA SetMainOk ==
    ASSUME NEW i, InstOk(i), NEW X, NEW Z, PlacesOk(i, X, Z), NEW d \in Dcs
    PROVE  LET j == setMainDcId(i, d) IN
           /\ InstOk(j) /\ PlacesOk(j, X, Z) /\ j.byDc = i.byDc
           /\ SameQueues(i, j)
           /\ \A x : Nowhere(i, x) => Nowhere(j, x)
<1> DEFINE killed == IF i.main = d THEN {} ELSE {<<i.main, 0>>, <<d, 0>>}
           h == [s \in AllSessions |->
                    IF s \in killed THEN {} ELSE i.held[s]]
           l == i.lost \cup UNION {i.held[s] : s \in killed}
           j == setMainDcId(i, d)
<1>1. j = [i EXCEPT !.main = d, !.held = h, !.lost = l]
  BY DEF setMainDcId
<1>2. h \in [AllSessions -> SUBSET Ids]
  BY DEF InstOk
<1>3. \A s \in AllSessions : h[s] = IF s \in killed THEN {} ELSE i.held[s]
  OBVIOUS
<1>4. \A x : x \notin l => x \notin i.lost /\ \A s \in killed : x \notin i.held[s]
  OBVIOUS
<1> HIDE DEF killed, h, l, j
<1>5. /\ IsInst(j) /\ j.held = h /\ j.byDc = i.byDc /\ j.lost = l
      /\ j.main = d /\ SameQueues(i, j)
  BY <1>1 DEF InstOk, IsInst, SameQueues
<1>6. InstOk(j)
  BY <1>2, <1>5 DEF InstOk, SameQueues
<1>7. \A x : \A s \in AllSessions : x \in j.held[s] => x \in i.held[s]
  BY <1>3, <1>5
<1>8. \A x : Nowhere(i, x) => Nowhere(j, x)
  BY <1>5, <1>7, NowhereFact DEF SameQueues
<1>9. ASSUME NEW x \in DOMAIN i.byDc \ X
      PROVE  Kept(j, x)
  <2>1. Kept(i, x)
    BY DEF PlacesOk
  <2>2. /\ IsHeld(j, x) => IsHeld(i, x)
        /\ IsDelayed(j, x) <=> IsDelayed(i, x)
        /\ IsWaiter(j, x) <=> IsWaiter(i, x)
    BY <1>5, <1>7 DEF IsHeld, IsDelayed, IsWaiter, SameQueues
  <2>3. Once(j, x)
    BY <1>5, <1>7, <2>1, <2>2 DEF Once, Kept, SameQueues
  <2>4. ASSUME x \notin j.lost
        PROVE  x \notin i.lost /\ (IsHeld(i, x) => IsHeld(j, x))
    BY <1>3, <1>4, <1>5, <2>4 DEF IsHeld
  <2> QED
    BY <1>5, <2>1, <2>2, <2>3, <2>4 DEF Kept, Nowhere, SameQueues
<1>10. PlacesOk(j, X, Z)
  BY <1>5, <1>8, <1>9 DEF PlacesOk
<1> QED
  BY <1>5, <1>6, <1>8, <1>10 DEF j

(* changeRequestByDc()                                                     *)
LEMMA ChangeOk ==
    ASSUME NEW i, InstOk(i), NEW X, NEW Z, PlacesOk(i, X, Z),
           NEW id \in DOMAIN i.byDc, NEW p \in Place
    PROVE  LET j == [i EXCEPT !.byDc[id] = p] IN
           /\ InstOk(j) /\ PlacesOk(j, X, Z) /\ SameQueues(i, j)
           /\ DOMAIN j.byDc = DOMAIN i.byDc /\ j.byDc[id] = p
           /\ \A x \in DOMAIN i.byDc \ {id} : j.byDc[x] = i.byDc[x]
           /\ \A x : Nowhere(i, x) => Nowhere(j, x)
<1> DEFINE b == [i.byDc EXCEPT ![id] = p]
           j == [i EXCEPT !.byDc[id] = p]
<1>1. j = [i EXCEPT !.byDc = b]
  OBVIOUS
<1>2. /\ DOMAIN b = DOMAIN i.byDc /\ b[id] = p
      /\ \A x \in DOMAIN i.byDc \ {id} : b[x] = i.byDc[x]
  OBVIOUS
<1> HIDE DEF b, j
<1>3. /\ IsInst(j) /\ j.byDc = b /\ j.held = i.held /\ j.lost = i.lost
      /\ j.main = i.main /\ SameQueues(i, j)
  BY <1>1 DEF InstOk, IsInst, SameQueues
<1>4. InstOk(j)
  BY <1>2, <1>3 DEF InstOk, SameQueues
<1>5. PlacesOk(j, X, Z) /\ \A x : Nowhere(j, x) <=> Nowhere(i, x)
  BY <1>2, <1>3, SamePlaces
<1> QED
  BY <1>2, <1>3, <1>4, <1>5 DEF j

(* sendRequest() of a request that is new.                                 *)
LEMMA SendRequestOk ==
    ASSUME NEW i, InstOk(i), NEW X, NEW Z, PlacesOk(i, X, Z),
           NEW id \in Ids, id \notin DOMAIN i.byDc, Nowhere(i, id),
           NEW place \in Place, NEW after
    PROVE  LET j == sendRequest(i, id, place, after) IN
           /\ InstOk(j) /\ PlacesOk(j, X, Z) /\ SameQueues(i, j)
           /\ j.main = i.main
           /\ DOMAIN j.byDc = DOMAIN i.byDc \cup {id} /\ j.byDc[id] = place
           /\ \A x \in DOMAIN i.byDc : j.byDc[x] = i.byDc[x]
           /\ \A x : x # id /\ Nowhere(i, x) => Nowhere(j, x)
<1> DEFINE b == With(i.byDc, id, place)
           p == i.parser \cup {id}
           l == i.lost \ {id}
           a == IF after \in DOMAIN i.byDc
                  THEN With(i.after, id, after) ELSE Without(i.after, {id})
           k == [i EXCEPT !.byDc = b, !.parser = p, !.lost = l, !.after = a]
           j == sendRequest(i, id, place, after)
<1>1. j = sendPrepared(k, qAbs(place), id)
  BY DEF sendRequest
<1>2. /\ DOMAIN b = DOMAIN i.byDc \cup {id} /\ b[id] = place
      /\ \A x \in DOMAIN i.byDc : b[x] = i.byDc[x]
  BY DEF With
<1>3. \A x : x # id => (x \in l <=> x \in i.lost)
  OBVIOUS
<1>a. k = [i EXCEPT !.byDc = b, !.parser = p, !.lost = l, !.after = a]
  OBVIOUS
<1> HIDE DEF b, p, l, a, k, j
<1>4. /\ IsInst(k) /\ k.byDc = b /\ k.held = i.held /\ k.lost = l
      /\ k.main = i.main /\ SameQueues(i, k)
  BY <1>a DEF InstOk, IsInst, SameQueues
<1>5. InstOk(k)
  BY <1>2, <1>4 DEF InstOk, SameQueues
<1>6. \A x : /\ Nowhere(k, x) <=> Nowhere(i, x)
             /\ Once(k, x) <=> Once(i, x)
  BY <1>4 DEF Once, Nowhere, IsHeld, IsDelayed, IsWaiter, SameQueues
<1>7. PlacesOk(k, X \cup {id}, Z)
  <2>1. ASSUME NEW x \in DOMAIN i.byDc \ (X \cup {id})
        PROVE  Kept(k, x)
    BY <1>2, <1>3, <1>4, <1>6 DEF PlacesOk, Kept, SameQueues
  <2> QED
    BY <1>2, <1>4, <1>6, <2>1 DEF PlacesOk
<1>8. qAbs(place) \in AllSessions /\ id \in DOMAIN k.byDc /\ Nowhere(k, id)
  BY <1>2, <1>4, <1>6, SessionOf
<1>9. /\ InstOk(j) /\ PlacesOk(j, (X \cup {id}) \ {id}, Z)
      /\ j.byDc = k.byDc /\ j.main = k.main /\ SameQueues(k, j)
  BY <1>1, <1>5, <1>7, <1>8, SendOk
<1>10. \A t \in AllSessions : j.held[t] = k.held[t] \cup {x \in {id} : t = qAbs(place)}
  BY <1>1, <1>5, <1>8, SendFact
<1>11. ASSUME NEW x, x # id, Nowhere(i, x)
       PROVE  Nowhere(j, x)
  BY <1>4, <1>9, <1>10, <1>11, NowhereFact DEF SameQueues
<1>12. PlacesOk(j, X, Z)
  BY <1>9, PlacesMore
<1> QED
  BY <1>2, <1>4, <1>9, <1>11, <1>12 DEF SameQueues, j

-----------------------------------------------------------------------------
(* insertDelayed()                                                         *)
LEMMA LeastOf ==
    ASSUME NEW S \in SUBSET Nat, S # {}
    PROVE  \E i \in S : \A j \in S : i <= j
<1> DEFINE R == {p \in Nat \X Nat : p[1] < p[2]}
<1>1. IsWellFoundedOn(R, Nat)
  BY NatLessThanWellFounded DEF OpToRel
<1> HIDE DEF R
<1>2. PICK i \in S : \A j \in S : ~(<<j, i>> \in R)
  BY <1>1, WFMin
<1>3. ASSUME NEW j \in S PROVE i <= j
  <2>1. ~(<<j, i>> \in R)
    BY <1>2
  <2>2. i \in Nat /\ j \in Nat
    OBVIOUS
  <2>3. ~(j < i)
    BY <2>1, <2>2 DEF R
  <2> QED
    BY <2>2, <2>3
<1> QED
  BY <1>3

Inserted(q, i, v, w) ==
    /\ Len(w) = Len(q) + 1
    /\ \A k \in 1 .. Len(q) + 1 :
         w[k] = IF k < i THEN q[k] ELSE IF k = i THEN v ELSE q[k - 1]

LEMMA InsertFact ==
    ASSUME NEW S, NEW q \in Seq(S), NEW i \in 1 .. Len(q) + 1, NEW v \in S
    PROVE  /\ InsertAt(q, i, v) \in Seq(S)
           /\ Inserted(q, i, v, InsertAt(q, i, v))
<1> DEFINE a == SubSeq(q, 1, i - 1)
           b == SubSeq(q, i, Len(q))
           c == a \o <<v>>
<1>0. Len(q) \in Nat /\ i \in Nat /\ i >= 1 /\ i <= Len(q) + 1
  OBVIOUS
<1>1. a \in Seq(S) /\ Len(a) = i - 1 /\ \A k \in 1 .. i - 1 : a[k] = q[k]
  BY <1>0
<1>2. /\ b \in Seq(S) /\ Len(b) = Len(q) - i + 1
      /\ \A k \in 1 .. Len(q) - i + 1 : b[k] = q[k + i - 1]
  BY <1>0
<1> HIDE DEF a, b
<1>3. /\ c \in Seq(S) /\ Len(c) = i
      /\ \A k \in 1 .. i : c[k] = IF k < i THEN q[k] ELSE v
  BY <1>0, <1>1
<1> HIDE DEF c
<1>4. /\ c \o b \in Seq(S) /\ Len(c \o b) = Len(q) + 1
      /\ \A k \in 1 .. Len(q) + 1 :
           (c \o b)[k] = IF k <= i THEN c[k] ELSE b[k - i]
  <2>1. c \o b \in Seq(S)
    BY <1>2, <1>3
  <2>2. /\ Len(c \o b) = Len(c) + Len(b)
        /\ \A k \in 1 .. Len(c) + Len(b) :
             (c \o b)[k] = IF k <= Len(c) THEN c[k] ELSE b[k - Len(c)]
    <3>1. c \in Seq(S) /\ b \in Seq(S)
      BY <1>2, <1>3
    <3> QED
      BY <3>1
  <2>3. Len(c) + Len(b) = Len(q) + 1
    BY <1>0, <1>2, <1>3
  <2> QED
    BY <1>3, <2>1, <2>2, <2>3
<1>5. ASSUME NEW k \in 1 .. Len(q) + 1
      PROVE  (c \o b)[k] = IF k < i THEN q[k] ELSE IF k = i THEN v ELSE q[k - 1]
  <2>1. CASE k <= i
    BY <1>0, <1>3, <1>4, <2>1
  <2>2. CASE k > i
    <3>1. (c \o b)[k] = b[k - i] /\ k - i \in 1 .. Len(q) - i + 1
      BY <1>0, <1>4, <2>2
    <3>2. b[k - i] = q[(k - i) + i - 1] /\ (k - i) + i - 1 = k - 1
      BY <1>0, <1>2, <3>1
    <3>3. ~(k < i) /\ k # i
      BY <1>0, <2>2
    <3>4. (c \o b)[k] = q[k - 1]
      BY <3>1, <3>2
    <3> QED
      BY <3>3, <3>4
  <2>3. k <= i \/ k > i
    BY <1>0
  <2> QED
    BY <2>1, <2>2, <2>3
<1>6. InsertAt(q, i, v) = c \o b
  BY DEF InsertAt, a, b, c
<1> QED
  BY <1>4, <1>5, <1>6 DEF Inserted

LEMMA InsertDelayedFact ==
    ASSUME NEW q \in Seq(Delay), NEW id \in Ids, NEW secs \in Int,
           \A n \in DOMAIN q : q[n].id # id
    PROVE  LET w == insertDelayed(q, id, secs) IN
           /\ w \in Seq(Delay)
           /\ \E m \in DOMAIN w : \A n \in DOMAIN w : w[n].id = id <=> n = m
           /\ \A n \in DOMAIN q : \E m \in DOMAIN w : w[m] = q[n]
           /\ \A m \in DOMAIN w : w[m].id # id => \E n \in DOMAIN q : w[m] = q[n]
           /\ \A x : /\ x # id
                     /\ \A m, n \in DOMAIN q : q[m].id = x /\ q[n].id = x => m = n
                     => \A m, n \in DOMAIN w : w[m].id = x /\ w[n].id = x => m = n
<1> DEFINE I == {n \in 1 .. Len(q) : q[n].left > secs}
           before == SelectInSeq(q, LAMBDA x : x.left > secs)
           at == IF before = 0 THEN Len(q) + 1 ELSE before
           v == [id |-> id, left |-> secs]
           w == InsertAt(q, at, v)
<1>0. Len(q) \in Nat /\ DOMAIN q = 1 .. Len(q)
  OBVIOUS
<1>1. before = IF I # {} THEN Min(I) ELSE 0
  BY DEF SelectInSeq
<1>2. I # {} => Min(I) \in 1 .. Len(q)
  <2>1. ASSUME I # {} PROVE \E n \in I : \A m \in I : n <= m
    <3>1. I \subseteq Nat
      BY <1>0
    <3> QED
      BY <2>1, <3>1, LeastOf
  <2> HIDE DEF I
  <2>2. I # {} => Min(I) \in I
    BY <2>1 DEF Min
  <2> QED
    BY <2>2 DEF I
<1> HIDE DEF I, before
<1>3. at \in 1 .. Len(q) + 1
  BY <1>0, <1>1, <1>2
<1>4. v \in Delay /\ v.id = id
  BY DEF Delay
<1>5. insertDelayed(q, id, secs) = w
  <2>1. ~ \E n \in 1 .. at - 1 : q[n].id = id
    BY <1>0, <1>3
  <2> HIDE DEF at
  <2>2. insertDelayed(q, id, secs) =
          IF \E n \in 1 .. at - 1 : q[n].id = id THEN q ELSE w
    BY DEF insertDelayed, at, before
  <2> QED
    BY <2>1, <2>2
<1> HIDE DEF at, v
<1>6. w \in Seq(Delay) /\ Inserted(q, at, v, w)
  BY <1>3, <1>4, InsertFact
<1> HIDE DEF w
<1>7. /\ Len(w) = Len(q) + 1 /\ DOMAIN w = 1 .. Len(q) + 1 /\ w[at] = v
      /\ \A n \in DOMAIN w : n < at => n \in DOMAIN q /\ w[n] = q[n]
      /\ \A n \in DOMAIN w : n > at => n - 1 \in DOMAIN q /\ w[n] = q[n - 1]
  <2>1. Len(w) = Len(q) + 1 /\ DOMAIN w = 1 .. Len(q) + 1
    BY <1>0, <1>6 DEF Inserted
  <2>2. \A k \in DOMAIN w :
          w[k] = IF k < at THEN q[k] ELSE IF k = at THEN v ELSE q[k - 1]
    BY <1>6, <2>1 DEF Inserted
  <2>3. w[at] = v
    BY <1>0, <1>3, <2>1, <2>2
  <2>4. ASSUME NEW n \in DOMAIN w, n < at PROVE n \in DOMAIN q /\ w[n] = q[n]
    BY <1>0, <1>3, <2>1, <2>2, <2>4
  <2>5. ASSUME NEW n \in DOMAIN w, n > at
        PROVE  n - 1 \in DOMAIN q /\ w[n] = q[n - 1]
    BY <1>0, <1>3, <2>1, <2>2, <2>5
  <2> QED
    BY <2>1, <2>3, <2>4, <2>5
<1>8. at \in DOMAIN w /\ \A n \in DOMAIN w : n < at \/ n = at \/ n > at
  BY <1>0, <1>3, <1>7
<1>9. \A n \in DOMAIN w : w[n].id = id <=> n = at
  BY <1>4, <1>7, <1>8
<1>10. ASSUME NEW n \in DOMAIN q PROVE \E m \in DOMAIN w : w[m] = q[n]
  <2>1. CASE n < at
    <3>1. n \in DOMAIN w
      BY <1>0, <1>7
    <3> QED
      BY <1>7, <2>1, <3>1
  <2>2. CASE n >= at
    <3>1. n + 1 \in DOMAIN w /\ n + 1 > at /\ (n + 1) - 1 = n
      BY <1>0, <1>3, <1>7, <2>2
    <3> QED
      BY <1>7, <3>1
  <2> QED
    BY <1>0, <1>3, <2>1, <2>2
<1>11. \A m \in DOMAIN w : w[m].id # id => \E n \in DOMAIN q : w[m] = q[n]
  BY <1>7, <1>8, <1>9
<1>12. ASSUME NEW x, x # id,
              \A m, n \in DOMAIN q : q[m].id = x /\ q[n].id = x => m = n,
              NEW m \in DOMAIN w, NEW n \in DOMAIN w, w[m].id = x, w[n].id = x
       PROVE  m = n
  <2> DEFINE b(c) == IF c < at THEN c ELSE c - 1
  <2>1. m # at /\ n # at
    BY <1>9, <1>12
  <2>2. b(m) \in DOMAIN q /\ w[m] = q[b(m)] /\ b(n) \in DOMAIN q /\ w[n] = q[b(n)]
    BY <1>7, <1>8, <2>1
  <2>3. b(m) = b(n)
    BY <1>12, <2>2
  <2> QED
    BY <1>0, <1>3, <1>7, <2>1, <2>3
<1>13. \A x : /\ x # id
              /\ \A m, n \in DOMAIN q : q[m].id = x /\ q[n].id = x => m = n
              => \A m, n \in DOMAIN w : w[m].id = x /\ w[n].id = x => m = n
  BY <1>12
<1> QED
  BY <1>5, <1>6, <1>8, <1>9, <1>10, <1>11, <1>13

(* A request that was nowhere is delayed.                                  *)
LEMMA DelayOk ==
    ASSUME NEW i, InstOk(i), NEW X, NEW Z, PlacesOk(i, X, Z), NEW id \in X,
           id \in DOMAIN i.byDc, Nowhere(i, id), NEW secs \in Int, NEW j,
           j.byDc = i.byDc, j.held = i.held, j.waiters = i.waiters,
           j.dependent = i.dependent, j.lost = i.lost,
           j.delayed = insertDelayed(i.delayed, id, secs)
    PROVE  PlacesOk(j, X \ {id}, Z) /\ j.delayed \in Seq(Delay)
<1> DEFINE q == i.delayed
           w == insertDelayed(q, id, secs)
<1>1. id \in Ids /\ q \in Seq(Delay) /\ \A n \in DOMAIN q : q[n].id # id
  BY DEF InstOk, Nowhere, IsDelayed
<1>2. /\ w \in Seq(Delay)
      /\ \E m \in DOMAIN w : \A n \in DOMAIN w : w[n].id = id <=> n = m
      /\ \A n \in DOMAIN q : \E m \in DOMAIN w : w[m] = q[n]
      /\ \A m \in DOMAIN w : w[m].id # id => \E n \in DOMAIN q : w[m] = q[n]
      /\ \A x : /\ x # id
                /\ \A m, n \in DOMAIN q : q[m].id = x /\ q[n].id = x => m = n
                => \A m, n \in DOMAIN w : w[m].id = x /\ w[n].id = x => m = n
  <2> HIDE DEF q
  <2> QED
    BY <1>1, InsertDelayedFact
<1> HIDE DEF w
<1>3. ASSUME NEW x, x # id
      PROVE  /\ IsDelayed(j, x) <=> IsDelayed(i, x)
             /\ IsHeld(j, x) <=> IsHeld(i, x)
             /\ IsWaiter(j, x) <=> IsWaiter(i, x)
  <2>1. IsDelayed(j, x) <=> IsDelayed(i, x)
    BY <1>2, <1>3 DEF IsDelayed, w
  <2> QED
    BY <2>1 DEF IsHeld, IsWaiter
<1>4. ASSUME NEW x, x # id
      PROVE  Nowhere(j, x) <=> Nowhere(i, x)
  BY <1>3, <1>4 DEF Nowhere
<1>5. ASSUME NEW x \in DOMAIN i.byDc \ X
      PROVE  Kept(j, x)
  <2>1. Kept(i, x) /\ x # id
    BY DEF PlacesOk
  <2>2. \A m, n \in DOMAIN j.delayed :
          j.delayed[m].id = x /\ j.delayed[n].id = x => m = n
    <3>1. \A m, n \in DOMAIN q : q[m].id = x /\ q[n].id = x => m = n
      BY <2>1 DEF Kept, Once
    <3>2. \A m, n \in DOMAIN w : w[m].id = x /\ w[n].id = x => m = n
      <4> HIDE DEF q
      <4> QED
        BY <1>2, <2>1, <3>1
    <3>3. j.delayed = w
      BY DEF w
    <3> QED
      BY <3>2, <3>3
  <2>3. Once(j, x)
    BY <1>3, <2>1, <2>2 DEF Once, Kept
  <2> QED
    BY <1>4, <2>1, <2>3 DEF Kept
<1>6. Kept(j, id)
  <2>1. IsDelayed(j, id) /\ \A m, n \in DOMAIN j.delayed :
          j.delayed[m].id = id /\ j.delayed[n].id = id => m = n
    BY <1>2 DEF IsDelayed, w
  <2>2. ~IsHeld(j, id) /\ ~IsWaiter(j, id) /\ id \notin DOMAIN j.dependent
    BY DEF Nowhere, IsHeld, IsWaiter
  <2> QED
    BY <2>1, <2>2 DEF Kept, Once, Nowhere, IsHeld, IsWaiter
<1> QED
  BY <1>2, <1>4, <1>5, <1>6 DEF PlacesOk, w

-----------------------------------------------------------------------------
(* MSG_WAIT: a request that was nowhere waits for another one.             *)
LEMMA DependOk ==
    ASSUME NEW i, NEW X, NEW Z, PlacesOk(i, X, Z), NEW id \in X,
           id \in DOMAIN i.byDc, Nowhere(i, id),
           NEW after \in DOMAIN i.byDc, NEW j,
           j.byDc = i.byDc, j.held = i.held, j.waiters = i.waiters,
           j.delayed = i.delayed, j.lost = i.lost,
           j.dependent = With(i.dependent, id, after)
    PROVE  PlacesOk(j, X \ {id}, Z)
<1>1. /\ DOMAIN j.dependent = DOMAIN i.dependent \cup {id}
      /\ j.dependent[id] = after
      /\ \A x \in DOMAIN i.dependent \ {id} : j.dependent[x] = i.dependent[x]
  BY DEF With
<1>2. \A x : /\ IsHeld(j, x) <=> IsHeld(i, x)
             /\ IsDelayed(j, x) <=> IsDelayed(i, x)
             /\ IsWaiter(j, x) <=> IsWaiter(i, x)
  BY DEF IsHeld, IsDelayed, IsWaiter
<1>3. ASSUME NEW x, x # id
      PROVE  /\ Nowhere(j, x) <=> Nowhere(i, x)
             /\ Once(j, x) <=> Once(i, x)
  BY <1>1, <1>2, <1>3 DEF Nowhere, Once
<1>4. ASSUME NEW x \in DOMAIN i.byDc \ X
      PROVE  Kept(j, x)
  BY <1>1, <1>3 DEF PlacesOk, Kept
<1>5. Kept(j, id)
  <2>1. ~IsHeld(j, id) /\ ~IsDelayed(j, id) /\ ~IsWaiter(j, id)
    BY <1>2 DEF Nowhere
  <2> QED
    BY <1>1, <2>1 DEF Kept, Once, Nowhere, IsHeld, IsDelayed, IsWaiter
<1> QED
  BY <1>3, <1>4, <1>5 DEF PlacesOk

LEMMA AppendFact ==
    ASSUME NEW S, NEW q \in Seq(S), NEW v \in S
    PROVE  LET w == Append(q, v) IN
           /\ w \in Seq(S) /\ Len(w) = Len(q) + 1 /\ w # <<>>
           /\ DOMAIN q = 1 .. Len(q) /\ DOMAIN w = 1 .. Len(q) + 1
           /\ w[Len(q) + 1] = v /\ \A n \in 1 .. Len(q) : w[n] = q[n]
           /\ Len(q) \in Nat
  OBVIOUS

(* 401: a request that was nowhere waits for an authorization.             *)
LEMMA WaitOk ==
    ASSUME NEW i, InstOk(i), NEW X, NEW Z, PlacesOk(i, X, Z), NEW id \in X,
           id \in DOMAIN i.byDc, id \in User, Nowhere(i, id), NEW d \in Dcs,
           NEW j, j.byDc = i.byDc, j.held = i.held, j.delayed = i.delayed,
           j.dependent = i.dependent, j.lost = i.lost,
           j.waiters[d] = Append(i.waiters[d], id),
           \A e \in Dcs \ {d} : j.waiters[e] = i.waiters[e]
    PROVE  PlacesOk(j, X \ {id}, Z)
<1> DEFINE q == i.waiters[d]
           w == Append(q, id)
<1>0. i.waiters \in [Dcs -> Seq(User)] /\ q \in Seq(User)
  BY DEF InstOk
<1>1. /\ w \in Seq(User) /\ Len(w) = Len(q) + 1 /\ w # <<>>
      /\ DOMAIN q = 1 .. Len(q) /\ DOMAIN w = 1 .. Len(q) + 1
      /\ w[Len(q) + 1] = id /\ \A n \in 1 .. Len(q) : w[n] = q[n]
      /\ Len(q) \in Nat
  <2> HIDE DEF q
  <2> QED
    BY <1>0, AppendFact
<1>2. j.waiters[d] = w /\ \A e \in Dcs \ {d} : j.waiters[e] = i.waiters[e]
  OBVIOUS
<1>3. \A n \in DOMAIN q : q[n] # id
  BY DEF Nowhere, IsWaiter
<1>4. /\ \A n \in DOMAIN q : n \in DOMAIN w /\ w[n] = q[n]
      /\ \A n \in DOMAIN w : n \in DOMAIN q \/ n = Len(q) + 1
      /\ Len(q) + 1 \in DOMAIN w
  BY <1>1
<1> DEFINE at == Len(q) + 1
<1> HIDE DEF at, w
<1>5. /\ \A n \in DOMAIN q : n \in DOMAIN w /\ w[n] = q[n]
      /\ \A n \in DOMAIN w : n \in DOMAIN q \/ n = at
      /\ at \in DOMAIN w /\ w[at] = id
  BY <1>1, <1>4 DEF at
<1>6. ASSUME NEW x, x # id, NEW e \in Dcs
      PROVE  /\ \A n \in DOMAIN i.waiters[e] : i.waiters[e][n] = x =>
                  n \in DOMAIN j.waiters[e] /\ j.waiters[e][n] = x
             /\ \A n \in DOMAIN j.waiters[e] : j.waiters[e][n] = x =>
                  n \in DOMAIN i.waiters[e] /\ i.waiters[e][n] = x
  BY <1>2, <1>5, <1>6
<1>7. ASSUME NEW x, x # id
      PROVE  /\ IsHeld(j, x) <=> IsHeld(i, x)
             /\ IsDelayed(j, x) <=> IsDelayed(i, x)
             /\ IsWaiter(j, x) <=> IsWaiter(i, x)
  <2>1. IsWaiter(j, x) <=> IsWaiter(i, x)
    BY <1>6, <1>7 DEF IsWaiter
  <2> QED
    BY <2>1 DEF IsHeld, IsDelayed
<1>8. ASSUME NEW x, x # id
      PROVE  /\ Nowhere(j, x) <=> Nowhere(i, x)
             /\ Once(i, x) => Once(j, x)
  <2>1. Nowhere(j, x) <=> Nowhere(i, x)
    BY <1>7, <1>8 DEF Nowhere
  <2>2. ASSUME Once(i, x)
        PROVE  Once(j, x)
    <3>1. ASSUME NEW e \in Dcs, NEW f \in Dcs,
                 NEW m \in DOMAIN j.waiters[e], NEW n \in DOMAIN j.waiters[f],
                 j.waiters[e][m] = x, j.waiters[f][n] = x
          PROVE  e = f /\ m = n
      <4>1. /\ m \in DOMAIN i.waiters[e] /\ i.waiters[e][m] = x
            /\ n \in DOMAIN i.waiters[f] /\ i.waiters[f][n] = x
        BY <1>6, <1>8, <3>1
      <4> QED
        BY <2>2, <4>1 DEF Once
    <3> QED
      BY <1>7, <1>8, <2>2, <3>1 DEF Once
  <2> QED
    BY <2>1, <2>2
<1>9. ASSUME NEW x \in DOMAIN i.byDc \ X
      PROVE  Kept(j, x)
  BY <1>8 DEF PlacesOk, Kept
<1>10. Kept(j, id)
  <2>1. ~IsHeld(j, id) /\ ~IsDelayed(j, id) /\ id \notin DOMAIN j.dependent
    BY DEF Nowhere, IsHeld, IsDelayed
  <2>2. \A e \in Dcs : \A n \in DOMAIN j.waiters[e] :
          j.waiters[e][n] = id <=> e = d /\ n = at
    <3>1. \A e \in Dcs : \A n \in DOMAIN i.waiters[e] : i.waiters[e][n] # id
      BY DEF Nowhere, IsWaiter
    <3> QED
      BY <1>2, <1>5, <3>1
  <2>3. IsWaiter(j, id)
    BY <1>2, <1>5 DEF IsWaiter
  <2> QED
    BY <2>1, <2>2, <2>3 DEF Kept, Once, Nowhere, IsHeld, IsDelayed
<1> QED
  BY <1>8, <1>9, <1>10 DEF PlacesOk

-----------------------------------------------------------------------------
LEMMA AuthIds ==
    /\ \A d \in Dcs : Export(d) \in Ids \ User /\ Import(d) \in Ids \ User
    /\ \A d, e \in Dcs : /\ Export(d) # Import(e)
                         /\ Export(d) = Export(e) => d = e
                         /\ Import(d) = Import(e) => d = e
    /\ \A d \in Dcs : Export(d)[1] = "export" /\ Import(d)[1] = "import"
    /\ \A x \in User : x[1] = "user" /\ x \in Ids
    /\ \A x \in Ids : \/ x \in User
                      \/ x[1] = "export" /\ \E d \in Dcs : x = Export(d)
                      \/ x[1] = "import" /\ \E d \in Dcs : x = Import(d)
  BY DEF Ids, User, Export, Import

(* onErrorDefault() for an authorization that is missing.                  *)
LEMMA WaitForAuthOk ==
    ASSUME NEW i, InstOk(i), AuthOk(i), NEW Z \in SUBSET User, NEW id \in User,
           PlacesOk(i, {id}, Z), id \in DOMAIN i.byDc, Nowhere(i, id)
    PROVE  LET j == waitForAuth(i, id) IN
           InstOk(j) /\ PlacesOk(j, {}, Z) /\ AuthOk(j)
<1> DEFINE d == i.byDc[id].dc
           x == Export(d)
           k == IF i.waiters[d] # <<>> THEN i
                ELSE [sendRequest(i, Export(d), ToMain(i), <<>>) EXCEPT
                        !.exports = With(@, Export(d), qAbs(i.byDc[id]))]
           j == waitForAuth(i, id)
<1>0. d \in Dcs /\ x \in Ids \ User /\ x # id /\ i.waiters[d] \in Seq(User)
  BY AuthIds DEF InstOk, Place
<1>1. j = [k EXCEPT !.waiters = [k.waiters EXCEPT ![d] = Append(@, id)]]
  BY DEF waitForAuth
<1>2. /\ InstOk(k) /\ PlacesOk(k, {id}, Z) /\ Nowhere(k, id)
      /\ k.waiters = i.waiters /\ k.dependent = i.dependent
      /\ id \in DOMAIN k.byDc
      /\ \A y \in DOMAIN i.byDc : k.byDc[y] = i.byDc[y]
      /\ i.waiters[d] # <<>> => k = i
      /\ i.waiters[d] = <<>> =>
           /\ DOMAIN k.byDc = DOMAIN i.byDc \cup {x} /\ x \notin DOMAIN i.byDc
           /\ x \in DOMAIN k.exports /\ k.exports[x] = qAbs(i.byDc[id])
           /\ \A y \in DOMAIN i.exports \ {x} :
                y \in DOMAIN k.exports /\ k.exports[y] = i.exports[y]
  <2>1. CASE i.waiters[d] # <<>>
    BY <2>1
  <2>2. CASE i.waiters[d] = <<>>
    <3>0. x \notin DOMAIN i.byDc /\ Nowhere(i, x) /\ ToMain(i) \in Place
      <4>1. x \notin DOMAIN i.byDc
        BY <1>0, <2>2 DEF AuthOk
      <4>2. x \notin DOMAIN i.byDc \cup Z
        BY <1>0, <4>1
      <4>3. Nowhere(i, x)
        BY <1>0, <4>2 DEF PlacesOk
      <4> QED
        BY <4>1, <4>3, InstanceAssumption DEF ToMain, Place, InstOk
    <3> DEFINE m == sendRequest(i, x, ToMain(i), <<>>)
               v == qAbs(i.byDc[id])
               f == With(m.exports, x, v)
    <3>1. /\ InstOk(m) /\ PlacesOk(m, {id}, Z) /\ SameQueues(i, m)
          /\ DOMAIN m.byDc = DOMAIN i.byDc \cup {x}
          /\ \A y \in DOMAIN i.byDc : m.byDc[y] = i.byDc[y]
          /\ Nowhere(m, id)
      <4> HIDE DEF x
      <4> QED
        BY <1>0, <3>0, SendRequestOk
    <3>2. k = [m EXCEPT !.exports = f]
      BY <2>2
    <3> HIDE DEF m
    <3>3. /\ x \in DOMAIN f /\ f[x] = v
          /\ \A y \in DOMAIN m.exports \ {x} : y \in DOMAIN f /\ f[y] = m.exports[y]
      BY DEF With
    <3> HIDE DEF f, v, k, x
    <3>4. /\ IsInst(k) /\ k.byDc = m.byDc /\ k.held = m.held /\ k.lost = m.lost
          /\ k.main = m.main /\ k.exports = f /\ k.delayed = m.delayed
          /\ k.waiters = m.waiters /\ k.dependent = m.dependent
          /\ k.delays = m.delays
      BY <3>1, <3>2 DEF InstOk, IsInst
    <3>5. InstOk(k)
      BY <3>1, <3>4 DEF InstOk
    <3>6. PlacesOk(k, {id}, Z) /\ Nowhere(k, id)
      BY <3>1, <3>4 DEF PlacesOk, Kept, Once, Nowhere, IsHeld, IsDelayed, IsWaiter
    <3> QED
      BY <1>0, <2>2, <3>0, <3>1, <3>3, <3>4, <3>5, <3>6 DEF SameQueues, v
  <2> QED
    BY <2>1, <2>2
<1> DEFINE u == [k.waiters EXCEPT ![d] = Append(@, id)]
<1> HIDE DEF k, j
<1>u. j = [k EXCEPT !.waiters = u]
  BY <1>1
<1>3. /\ IsInst(j) /\ j.byDc = k.byDc /\ j.held = k.held /\ j.lost = k.lost
      /\ j.main = k.main /\ j.exports = k.exports /\ j.delayed = k.delayed
      /\ j.waiters = u
      /\ j.dependent = k.dependent /\ j.delays = k.delays
  <2> HIDE DEF u
  <2> QED
    BY <1>u, <1>2 DEF InstOk, IsInst
<1> HIDE DEF x
<1>4. /\ PlacesOk(j, {id} \ {id}, Z) /\ j.waiters \in [Dcs -> Seq(User)]
      /\ j.waiters[d] # <<>>
      /\ \A e \in Dcs \ {d} : j.waiters[e] = k.waiters[e]
  <2>0. d \in Dcs /\ k.waiters \in [Dcs -> Seq(User)] /\ id \in User
    BY <1>0, <1>2 DEF InstOk
  <2> HIDE DEF d
  <2> DEFINE q == k.waiters[d]
             w == Append(q, id)
  <2>1. w \in Seq(User) /\ w # <<>>
    <3>1. q \in Seq(User)
      BY <2>0
    <3> HIDE DEF q
    <3> QED
      BY <2>0, <3>1, AppendFact
  <2>2. /\ u \in [Dcs -> Seq(User)] /\ u[d] = w
        /\ \A e \in Dcs \ {d} : u[e] = k.waiters[e]
    <3> HIDE DEF w
    <3>1. u = [k.waiters EXCEPT ![d] = w]
      BY DEF w
    <3> HIDE DEF u
    <3> QED
      BY <2>0, <2>1, <3>1
  <2> HIDE DEF u
  <2>3. /\ j.waiters[d] = Append(k.waiters[d], id)
        /\ \A e \in Dcs \ {d} : j.waiters[e] = k.waiters[e]
    BY <1>3, <2>2
  <2>4. /\ j.byDc = k.byDc /\ j.held = k.held /\ j.delayed = k.delayed
        /\ j.dependent = k.dependent /\ j.lost = k.lost
    BY <1>3
  <2>5. /\ InstOk(k) /\ PlacesOk(k, {id}, Z) /\ id \in DOMAIN k.byDc
        /\ Nowhere(k, id) /\ id \in {id}
    BY <1>2
  <2>6. PlacesOk(j, {id} \ {id}, Z)
    BY <2>0, <2>3, <2>4, <2>5, WaitOk, Zenon
  <2> QED
    BY <1>3, <2>1, <2>2, <2>6
<1>5. InstOk(j)
  BY <1>2, <1>3, <1>4 DEF InstOk
<1>6. PlacesOk(j, {}, Z)
  BY <1>4, PlacesMore
<1>7. ASSUME NEW e \in Dcs, e # d
      PROVE  /\ Export(e) \in DOMAIN j.byDc <=> Export(e) \in DOMAIN i.byDc
             /\ Import(e) \in DOMAIN j.byDc <=> Import(e) \in DOMAIN i.byDc
             /\ Import(e) \in DOMAIN i.byDc =>
                  j.byDc[Import(e)] = i.byDc[Import(e)]
             /\ j.waiters[e] = i.waiters[e]
             /\ Export(e) \in DOMAIN i.exports =>
                  /\ Export(e) \in DOMAIN j.exports
                  /\ j.exports[Export(e)] = i.exports[Export(e)]
  BY <1>0, <1>2, <1>3, <1>4, <1>7, AuthIds DEF x
<1>8. ASSUME NEW e \in Dcs, e = d, i.waiters[d] # <<>>
      PROVE  /\ Export(e) \in DOMAIN j.byDc <=> Export(e) \in DOMAIN i.byDc
             /\ Import(e) \in DOMAIN j.byDc <=> Import(e) \in DOMAIN i.byDc
             /\ j.byDc = i.byDc /\ j.exports = i.exports
             /\ j.waiters[e] # <<>> /\ i.waiters[e] # <<>>
  BY <1>2, <1>3, <1>4, <1>8
<1>9. ASSUME NEW e \in Dcs, e = d, i.waiters[d] = <<>>
      PROVE  /\ Export(e) \in DOMAIN j.byDc /\ Import(e) \notin DOMAIN j.byDc
             /\ j.waiters[e] # <<>>
             /\ Export(e) \in DOMAIN j.exports
             /\ j.exports[Export(e)] \in DcSessions
             /\ Bare(j.exports[Export(e)]) = e
  <2>1. Import(e) \notin DOMAIN i.byDc
    BY <1>9 DEF AuthOk
  <2>2. qAbs(i.byDc[id]) \in DcSessions /\ Bare(qAbs(i.byDc[id])) = e
    BY <1>9 DEF InstOk, Place, qAbs, DcSessions, Bare
  <2>3. Import(e) \notin DOMAIN j.byDc
    BY <1>2, <1>3, <1>9, <2>1, AuthIds DEF x
  <2> QED
    BY <1>2, <1>3, <1>4, <1>9, <2>2, <2>3 DEF x
<1>10. AuthOk(j)
  BY <1>7, <1>8, <1>9 DEF AuthOk
<1> QED
  BY <1>5, <1>6, <1>10 DEF j

(* exportDone(): the authorization is imported by the other data center.   *)
LEMMA ExportDoneOk ==
    ASSUME NEW i, InstOk(i), AuthOk(i), NEW Z \in SUBSET User, NEW d \in Dcs,
           PlacesOk(i, {Export(d)}, Z), Export(d) \in DOMAIN i.byDc,
           Nowhere(i, Export(d))
    PROVE  LET j == unregisterRequest(exportDone(i, Export(d)), Export(d)) IN
           InstOk(j) /\ PlacesOk(j, {}, Z) /\ AuthOk(j)
<1> DEFINE id == Export(d)
           x == Import(d)
           p == To(i.exports[id])
           m == sendRequest(i, x, p, <<>>)
           f == Without(m.exports, {id})
           k == exportDone(i, id)
           j == unregisterRequest(k, id)
<1>0. /\ id \in DOMAIN i.exports /\ Bare(i.exports[id]) = d
      /\ i.exports[id] \in DcSessions /\ x \notin DOMAIN i.byDc
  BY DEF AuthOk
<1>1. id \in Ids \ User /\ x \in Ids \ User /\ x # id
  BY AuthIds
<1>2. p \in Place /\ p.dc = d
  BY <1>0 DEF To, Place, DcSessions, Bare
<1>3. k = [m EXCEPT !.exports = f]
  BY <1>0 DEF exportDone
<1>4. \A y \in DOMAIN m.exports \ {id} : y \in DOMAIN f /\ f[y] = m.exports[y]
  BY DEF Without
<1> HIDE DEF p
<1>5. Nowhere(i, x)
  BY <1>0, <1>1 DEF PlacesOk
<1>6. /\ InstOk(m) /\ PlacesOk(m, {id}, Z) /\ SameQueues(i, m)
      /\ DOMAIN m.byDc = DOMAIN i.byDc \cup {x} /\ m.byDc[x] = p
      /\ \A y \in DOMAIN i.byDc : m.byDc[y] = i.byDc[y]
      /\ Nowhere(m, id)
  <2> HIDE DEF x, id
  <2> QED
    BY <1>0, <1>1, <1>2, <1>5, SendRequestOk DEF id
<1> HIDE DEF m, f, k, j
<1>7. /\ IsInst(k) /\ k.byDc = m.byDc /\ k.held = m.held /\ k.lost = m.lost
      /\ k.main = m.main /\ k.exports = f /\ k.delayed = m.delayed
      /\ k.waiters = m.waiters /\ k.dependent = m.dependent
      /\ k.delays = m.delays
  BY <1>3, <1>6 DEF InstOk, IsInst
<1>8. InstOk(k)
  BY <1>6, <1>7 DEF InstOk
<1>9. PlacesOk(k, {id}, Z) /\ Nowhere(k, id)
  BY <1>6, <1>7 DEF PlacesOk, Kept, Once, Nowhere, IsHeld, IsDelayed, IsWaiter
<1>10. InstOk(j) /\ PlacesOk(j, {}, Z)
  BY <1>1, <1>8, <1>9, UnregOk DEF j
<1>11. /\ j.waiters = k.waiters /\ j.exports = k.exports
       /\ DOMAIN j.byDc = DOMAIN k.byDc \ {id}
       /\ \A y \in DOMAIN j.byDc : j.byDc[y] = k.byDc[y]
  BY <1>8, UnregFact DEF j
<1>12. /\ j.waiters = i.waiters /\ j.exports = f
       /\ DOMAIN j.byDc = (DOMAIN i.byDc \cup {x}) \ {id}
       /\ x \in DOMAIN j.byDc /\ j.byDc[x] = p
       /\ \A y \in DOMAIN i.byDc \ {id} : y \in DOMAIN j.byDc /\ j.byDc[y] = i.byDc[y]
  BY <1>1, <1>6, <1>7, <1>11 DEF SameQueues
<1>13. ASSUME NEW e \in Dcs, e # d
       PROVE  /\ Export(e) \in DOMAIN j.byDc <=> Export(e) \in DOMAIN i.byDc
              /\ Import(e) \in DOMAIN j.byDc <=> Import(e) \in DOMAIN i.byDc
              /\ Import(e) \in DOMAIN i.byDc =>
                   j.byDc[Import(e)] = i.byDc[Import(e)]
              /\ Export(e) \in DOMAIN i.exports =>
                   /\ Export(e) \in DOMAIN j.exports
                   /\ j.exports[Export(e)] = i.exports[Export(e)]
  BY <1>4, <1>6, <1>12, <1>13, AuthIds DEF SameQueues
<1>14. AuthOk(j)
  <2>1. id \notin DOMAIN j.byDc /\ i.waiters[d] # <<>>
    BY <1>12 DEF AuthOk
  <2> QED
    BY <1>2, <1>12, <1>13, <2>1 DEF AuthOk
<1> QED
  BY <1>10, <1>14 DEF j, k

-----------------------------------------------------------------------------
(* importDone()                                                            *)
LEMMA ResendWaitersFact ==
    ASSUME NEW i, InstOk(i), NEW d \in Dcs, NEW S, S \subseteq DOMAIN i.byDc
    PROVE  LET j == resendWaiters(i, d, S) IN
           /\ InstOk(j) /\ j.lost = i.lost /\ j.main = i.main
           /\ SameQueues(i, j) /\ DOMAIN j.byDc = DOMAIN i.byDc
           /\ \A x \in DOMAIN i.byDc \ S : j.byDc[x] = i.byDc[x]
           /\ \E at \in [S -> AllSessions] : \A s \in AllSessions :
                j.held[s] = i.held[s] \cup {x \in S : at[x] = s}
<1> DEFINE to(x) == IF i.byDc[x].main THEN Bogus(d)
                    ELSE qAbs(changed(i.byDc[x], d))
           b == [x \in DOMAIN i.byDc |->
                    IF x \in S THEN changed(i.byDc[x], d) ELSE i.byDc[x]]
           h == [s \in AllSessions |-> i.held[s] \cup {x \in S : to(x) = s}]
           at == [x \in S |-> to(x)]
           j == resendWaiters(i, d, S)
<1>1. j = [i EXCEPT !.byDc = b, !.held = h]
  BY DEF resendWaiters
<1>2. ASSUME NEW x \in DOMAIN i.byDc
      PROVE  i.byDc[x] \in Place /\ changed(i.byDc[x], d) \in Place
  BY ChangedPlace DEF InstOk
<1>3. ASSUME NEW x \in S
      PROVE  to(x) \in AllSessions
  <2>1. Bogus(d) \in AllSessions
    BY DEF AllSessions
  <2>2. qAbs(changed(i.byDc[x], d)) \in AllSessions
    BY <1>2, SessionOf
  <2> QED
    BY <2>1, <2>2
<1> HIDE DEF to
<1>4. /\ DOMAIN b = DOMAIN i.byDc
      /\ \A x \in DOMAIN i.byDc : b[x] \in Place
      /\ \A x \in DOMAIN i.byDc \ S : b[x] = i.byDc[x]
  BY <1>2
<1>5. h \in [AllSessions -> SUBSET Ids]
  BY DEF InstOk
<1>6. at \in [S -> AllSessions] /\ \A x \in S : at[x] = to(x)
  BY <1>3
<1>7. \A s \in AllSessions : h[s] = i.held[s] \cup {x \in S : at[x] = s}
  OBVIOUS
<1> HIDE DEF b, h, at, j
<1>8. /\ IsInst(j) /\ j.byDc = b /\ j.held = h /\ j.lost = i.lost
      /\ j.main = i.main /\ SameQueues(i, j)
  BY <1>1 DEF InstOk, IsInst, SameQueues
<1>9. InstOk(j)
  BY <1>4, <1>5, <1>8 DEF InstOk, SameQueues
<1> QED
  BY <1>4, <1>6, <1>7, <1>8, <1>9 DEF j

LEMMA ResendWaitersOk ==
    ASSUME NEW i, InstOk(i), NEW d \in Dcs, NEW S, S \subseteq DOMAIN i.byDc,
           NEW X, NEW Z, PlacesOk(i, X, Z), S \subseteq X,
           \A x \in S : Nowhere(i, x)
    PROVE  LET j == resendWaiters(i, d, S) IN
           /\ PlacesOk(j, X \ S, Z)
           /\ \A x : x \notin S /\ Nowhere(i, x) => Nowhere(j, x)
<1> DEFINE j == resendWaiters(i, d, S)
<1>1. /\ j.lost = i.lost /\ SameQueues(i, j) /\ DOMAIN j.byDc = DOMAIN i.byDc
      /\ \E at \in [S -> AllSessions] : \A s \in AllSessions :
           j.held[s] = i.held[s] \cup {x \in S : at[x] = s}
  BY ResendWaitersFact
<1> HIDE DEF j
<1>2. PICK at \in [S -> AllSessions] : \A s \in AllSessions :
        j.held[s] = i.held[s] \cup {x \in S : at[x] = s}
  BY <1>1
<1> QED
  BY <1>1, <1>2, PutHeld DEF SameQueues, j

(* None of the two steps reads the lists of waiters.                       *)
WithWaiters(i, v) == [i EXCEPT !.waiters = v]
Emptied(i, d) == WithWaiters(i, [i.waiters EXCEPT ![d] = <<>>])

LEMMA WaitersApart ==
    ASSUME NEW i, IsInst(i), NEW d, NEW S, NEW v
    PROVE  /\ WithWaiters(resendWaiters(i, d, S), v)
                = resendWaiters(WithWaiters(i, v), d, S)
           /\ WithWaiters(setMainDcId(i, d), v)
                = setMainDcId(WithWaiters(i, v), d)
<1> DEFINE k == [i EXCEPT !.waiters = v]
<1>1. /\ IsInst(k) /\ k.byDc = i.byDc /\ k.held = i.held /\ k.main = i.main
      /\ k.lost = i.lost
  BY DEF IsInst
<1>2. [resendWaiters(i, d, S) EXCEPT !.waiters = v] = resendWaiters(k, d, S)
  <2> DEFINE to(f, x) == IF f[x].main THEN Bogus(d) ELSE qAbs(changed(f[x], d))
             B(f) == [x \in DOMAIN f |->
                         IF x \in S THEN changed(f[x], d) ELSE f[x]]
             H(f, g) == [s \in AllSessions |-> g[s] \cup {x \in S : to(f, x) = s}]
  <2>1. /\ resendWaiters(i, d, S) =
             [i EXCEPT !.byDc = B(i.byDc), !.held = H(i.byDc, i.held)]
        /\ resendWaiters(k, d, S) =
             [k EXCEPT !.byDc = B(k.byDc), !.held = H(k.byDc, k.held)]
    BY DEF resendWaiters
  <2> HIDE DEF B, H
  <2> QED
    BY <1>1, <2>1 DEF IsInst
<1>3. [setMainDcId(i, d) EXCEPT !.waiters = v] = setMainDcId(k, d)
  <2> DEFINE K(m) == IF m = d THEN {} ELSE {<<m, 0>>, <<d, 0>>}
             H(m, g) == [s \in AllSessions |-> IF s \in K(m) THEN {} ELSE g[s]]
             L(m, g, l) == l \cup UNION {g[s] : s \in K(m)}
  <2>1. /\ setMainDcId(i, d) =
             [i EXCEPT !.main = d, !.held = H(i.main, i.held),
                       !.lost = L(i.main, i.held, i.lost)]
        /\ setMainDcId(k, d) =
             [k EXCEPT !.main = d, !.held = H(k.main, k.held),
                       !.lost = L(k.main, k.held, k.lost)]
    BY DEF setMainDcId
  <2> HIDE DEF H, L
  <2> DEFINE h == H(i.main, i.held)
             l == L(i.main, i.held, i.lost)
             a == setMainDcId(i, d)
             b == setMainDcId(k, d)
  <2>2. /\ a = [i EXCEPT !.main = d, !.held = h, !.lost = l]
        /\ b = [k EXCEPT !.main = d, !.held = h, !.lost = l]
    BY <1>1, <2>1
  <2>3. k = [i EXCEPT !.waiters = v]
    OBVIOUS
  <2> HIDE DEF h, l, a, b, k
  <2>4. [a EXCEPT !.waiters = v] = b
    BY <2>2, <2>3 DEF IsInst
  <2> QED
    BY <2>4 DEF a, b, k
<1> QED
  BY <1>2, <1>3 DEF WithWaiters

LEMMA WaitersKept ==
    ASSUME NEW i, IsInst(i), NEW d, NEW S
    PROVE  LET j == resendWaiters(i, d, S)
               m == setMainDcId(i, d)
           IN  /\ IsInst(j) /\ j.waiters = i.waiters
               /\ IsInst(m) /\ m.waiters = i.waiters
<1> DEFINE j == resendWaiters(i, d, S)
           m == setMainDcId(i, d)
<1>1. PICK b, h : j = [i EXCEPT !.byDc = b, !.held = h]
  BY Zenon DEF resendWaiters
<1>2. PICK g, l : m = [i EXCEPT !.main = d, !.held = g, !.lost = l]
  BY Zenon DEF setMainDcId
<1> HIDE DEF j, m
<1>3. IsInst(j) /\ j.waiters = i.waiters
  BY <1>1 DEF IsInst
<1>4. IsInst(m) /\ m.waiters = i.waiters
  BY <1>2 DEF IsInst
<1> QED
  BY <1>3, <1>4 DEF j, m

LEMMA ImportSteps ==
    ASSUME NEW i, IsInst(i), NEW id
    PROVE  LET d == i.byDc[id].dc
               q == i.waiters[d]
               k == Emptied(i, d)
               sent(N) == {q[n] : n \in N} \cap DOMAIN i.byDc
           IN  \E N \in SUBSET DOMAIN q :
                 LET j == resendWaiters(k, d, sent(N))
                     S == sent(DOMAIN q \ N)
                 IN  \/ importDone(i, id) = resendWaiters(j, d, S)
                     \/ importDone(i, id) =
                          resendWaiters(setMainDcId(j, d), d, S)
<1> DEFINE d == i.byDc[id].dc
           q == i.waiters[d]
           v == [i.waiters EXCEPT ![d] = <<>>]
           k == WithWaiters(i, v)
           moves(n) == q[n] \in DOMAIN i.byDc /\ i.byDc[q[n]].main
           before == {n \in DOMAIN q : \A m \in 1 .. n : ~moves(m)}
           sent(N) == {q[n] : n \in N} \cap DOMAIN i.byDc
           A == sent(before)
           S == sent(DOMAIN q \ before)
           first == resendWaiters(i, d, A)
           moved == IF before = DOMAIN q THEN first ELSE setMainDcId(first, d)
           y == resendWaiters(moved, d, S)
           j == resendWaiters(k, d, A)
<1>1. importDone(i, id) = WithWaiters(y, [y.waiters EXCEPT ![d] = <<>>])
  BY DEF importDone, WithWaiters
<1>2. before \in SUBSET DOMAIN q
  OBVIOUS
<1> HIDE DEF d, A, S, before
<1>3. /\ IsInst(first) /\ first.waiters = i.waiters
      /\ WithWaiters(first, v) = j
  <2> HIDE DEF v
  <2>1. IsInst(first) /\ first.waiters = i.waiters
    BY WaitersKept
  <2>2. WithWaiters(first, v) = j
    BY WaitersApart
  <2> QED
    BY <2>1, <2>2
<1> HIDE DEF v, k, first, j
<1>4. ASSUME before = DOMAIN q
      PROVE  importDone(i, id) = resendWaiters(j, d, S)
  <2>1. y = resendWaiters(first, d, S)
    BY <1>4
  <2> HIDE DEF y
  <2>2. IsInst(y) /\ y.waiters = i.waiters
    BY <1>3, <2>1, WaitersKept
  <2>3. importDone(i, id) = WithWaiters(y, v)
    BY <1>1, <2>2 DEF v
  <2>4. WithWaiters(y, v) = resendWaiters(WithWaiters(first, v), d, S)
    BY <1>3, <2>1, WaitersApart
  <2> QED
    BY <1>3, <2>3, <2>4
<1>5. ASSUME before # DOMAIN q
      PROVE  importDone(i, id) = resendWaiters(setMainDcId(j, d), d, S)
  <2> DEFINE m == setMainDcId(first, d)
  <2>1. y = resendWaiters(m, d, S)
    BY <1>5
  <2>2. /\ IsInst(m) /\ m.waiters = i.waiters
        /\ WithWaiters(m, v) = setMainDcId(j, d)
    <3>1. IsInst(m) /\ m.waiters = i.waiters
      BY <1>3, WaitersKept
    <3>2. WithWaiters(m, v) = setMainDcId(WithWaiters(first, v), d)
      BY <1>3, WaitersApart
    <3> QED
      BY <1>3, <3>1, <3>2
  <2> HIDE DEF y, m
  <2>3. IsInst(y) /\ y.waiters = i.waiters
    BY <2>1, <2>2, WaitersKept
  <2>4. importDone(i, id) = WithWaiters(y, v)
    BY <1>1, <2>3 DEF v
  <2>5. WithWaiters(y, v) = resendWaiters(WithWaiters(m, v), d, S)
    BY <2>1, <2>2, WaitersApart
  <2> QED
    BY <2>2, <2>4, <2>5
<1>6. \E N \in SUBSET DOMAIN q :
        \/ importDone(i, id) = resendWaiters(resendWaiters(k, d, sent(N)), d,
                                             sent(DOMAIN q \ N))
        \/ importDone(i, id) =
             resendWaiters(setMainDcId(resendWaiters(k, d, sent(N)), d), d,
                           sent(DOMAIN q \ N))
  <2> HIDE DEF q, sent
  <2> QED
    BY <1>2, <1>4, <1>5, Zenon DEF j, A, S
<1> QED
  BY <1>6, Zenon DEF k, v, d, Emptied

Listed(i, d, W) ==
    /\ W \subseteq DOMAIN i.byDc
    /\ \A x \in DOMAIN i.byDc :
         x \in W <=> \E n \in DOMAIN i.waiters[d] : i.waiters[d][n] = x

(* The list of the data center is emptied: who was on it is nowhere.       *)
LEMMA EmptyWaiters ==
    ASSUME NEW i, InstOk(i), NEW X, NEW Z, PlacesOk(i, X, Z), NEW d \in Dcs,
           NEW W, W \cap X = {}, Listed(i, d, W)
    PROVE  LET k == Emptied(i, d) IN
           /\ InstOk(k) /\ PlacesOk(k, X \cup W, Z)
           /\ \A x \in W : Nowhere(k, x)
           /\ \A x : Nowhere(i, x) => Nowhere(k, x)
           /\ k.byDc = i.byDc /\ k.exports = i.exports
           /\ k.waiters[d] = <<>>
           /\ \A e \in Dcs \ {d} : k.waiters[e] = i.waiters[e]
<1> DEFINE v == [i.waiters EXCEPT ![d] = <<>>]
           k == Emptied(i, d)
<1>0. i.waiters \in [Dcs -> Seq(User)] /\ IsInst(i)
  BY DEF InstOk
<1>1. /\ v \in [Dcs -> Seq(User)] /\ v[d] = <<>>
      /\ \A e \in Dcs \ {d} : v[e] = i.waiters[e]
  BY <1>0
<1>2. k = [i EXCEPT !.waiters = v]
  BY DEF Emptied, WithWaiters
<1> HIDE DEF v, k
<1>3. /\ IsInst(k) /\ k.byDc = i.byDc /\ k.held = i.held /\ k.lost = i.lost
      /\ k.main = i.main /\ k.waiters = v /\ k.exports = i.exports
      /\ k.delayed = i.delayed /\ k.dependent = i.dependent
      /\ k.delays = i.delays
  BY <1>0, <1>2 DEF IsInst
<1>4. InstOk(k)
  BY <1>1, <1>3 DEF InstOk
<1>5. \A e \in Dcs : \A n \in DOMAIN k.waiters[e] :
        e # d /\ n \in DOMAIN i.waiters[e] /\ k.waiters[e][n] = i.waiters[e][n]
  BY <1>1, <1>3
<1>6. ASSUME NEW x
      PROVE  /\ IsHeld(k, x) <=> IsHeld(i, x)
             /\ IsDelayed(k, x) <=> IsDelayed(i, x)
             /\ IsWaiter(k, x) => IsWaiter(i, x)
             /\ Once(i, x) => Once(k, x)
  <2>1. /\ IsHeld(k, x) <=> IsHeld(i, x)
        /\ IsDelayed(k, x) <=> IsDelayed(i, x)
    BY <1>3 DEF IsHeld, IsDelayed
  <2>2. IsWaiter(k, x) => IsWaiter(i, x)
    BY <1>5 DEF IsWaiter
  <2>3. ASSUME Once(i, x)
        PROVE  Once(k, x)
    <3>1. \A a, b \in Dcs : \A m \in DOMAIN k.waiters[a], n \in DOMAIN k.waiters[b] :
            k.waiters[a][m] = x /\ k.waiters[b][n] = x => a = b /\ m = n
      BY <1>5, <2>3 DEF Once
    <3> QED
      BY <1>3, <2>1, <2>2, <2>3, <3>1 DEF Once
  <2> QED
    BY <2>1, <2>2, <2>3
<1>7. \A x : Nowhere(i, x) => Nowhere(k, x)
  BY <1>3, <1>6 DEF Nowhere
<1>8. ASSUME NEW x \in W
      PROVE  Nowhere(k, x)
  <2>1. PICK n \in DOMAIN i.waiters[d] : x = i.waiters[d][n]
    BY DEF Listed
  <2>2. Kept(i, x)
    BY DEF Listed, PlacesOk
  <2>3. IsWaiter(i, x)
    BY <2>1 DEF IsWaiter
  <2>4. ~IsHeld(i, x) /\ ~IsDelayed(i, x) /\ x \notin DOMAIN i.dependent
    BY <2>2, <2>3 DEF Kept, Once
  <2>5. ~IsWaiter(k, x)
    BY <1>5, <2>1, <2>2 DEF Kept, Once, IsWaiter
  <2> QED
    BY <1>3, <1>6, <2>4, <2>5 DEF Nowhere
<1>9. ASSUME NEW x \in DOMAIN i.byDc \ (X \cup W)
      PROVE  Kept(k, x)
  <2>1. Kept(i, x)
    BY DEF PlacesOk
  <2>2. \A n \in DOMAIN i.waiters[d] : x # i.waiters[d][n]
    BY DEF Listed
  <2>3. IsWaiter(i, x) => IsWaiter(k, x)
    BY <1>1, <1>3, <2>2 DEF IsWaiter
  <2> QED
    BY <1>3, <1>6, <2>1, <2>3 DEF Kept, Nowhere
<1>10. PlacesOk(k, X \cup W, Z)
  BY <1>3, <1>7, <1>9 DEF PlacesOk
<1> QED
  BY <1>1, <1>3, <1>4, <1>7, <1>8, <1>10 DEF k, v

LEMMA ImportDoneOk ==
    ASSUME NEW i, InstOk(i), AuthOk(i), NEW Z \in SUBSET User, NEW c \in Dcs,
           PlacesOk(i, {Import(c)}, Z), Import(c) \in DOMAIN i.byDc,
           Nowhere(i, Import(c))
    PROVE  LET j == unregisterRequest(importDone(i, Import(c)), Import(c)) IN
           InstOk(j) /\ PlacesOk(j, {}, Z) /\ AuthOk(j)
<1> DEFINE id == Import(c)
           d == i.byDc[id].dc
           q == i.waiters[d]
           sent(N) == {q[n] : n \in N} \cap DOMAIN i.byDc
           k == Emptied(i, d)
           W == sent(DOMAIN q)
           y == importDone(i, id)
           j == unregisterRequest(y, id)
<1>0. id \in Ids \ User /\ d = c /\ IsInst(i) /\ q \in Seq(User)
  BY AuthIds DEF AuthOk, InstOk
<1>1. \E N \in SUBSET DOMAIN q :
        LET f == resendWaiters(k, d, sent(N))
            S == sent(DOMAIN q \ N)
        IN  \/ y = resendWaiters(f, d, S)
            \/ y = resendWaiters(setMainDcId(f, d), d, S)
  BY <1>0, ImportSteps
<1>2. W \subseteq User /\ W \cap {id} = {} /\ W \subseteq DOMAIN i.byDc
  <2>1. \A n \in DOMAIN q : q[n] \in User
    BY <1>0
  <2> HIDE DEF q
  <2> QED
    BY <1>0, <2>1
<1>3. /\ InstOk(k) /\ PlacesOk(k, {id} \cup W, Z)
      /\ \A x \in W : Nowhere(k, x)
      /\ Nowhere(k, id)
      /\ k.byDc = i.byDc /\ k.exports = i.exports
      /\ k.waiters[d] = <<>>
      /\ \A e \in Dcs \ {d} : k.waiters[e] = i.waiters[e]
  <2>1. Listed(i, d, W)
    BY DEF Listed
  <2>2. d \in Dcs
    BY <1>0
  <2> DEFINE X == {id}
  <2>3. PlacesOk(i, X, Z) /\ W \cap X = {}
    BY <1>2
  <2>4. Nowhere(i, id)
    OBVIOUS
  <2> HIDE DEF W, d, X, k
  <2>5. /\ InstOk(k) /\ PlacesOk(k, X \cup W, Z)
        /\ \A x \in W : Nowhere(k, x)
        /\ \A x : Nowhere(i, x) => Nowhere(k, x)
        /\ k.byDc = i.byDc /\ k.exports = i.exports
        /\ k.waiters[d] = <<>>
        /\ \A e \in Dcs \ {d} : k.waiters[e] = i.waiters[e]
    BY <2>1, <2>2, <2>3, EmptyWaiters DEF k
  <2> QED
    BY <2>4, <2>5 DEF X
<1>4. PICK N \in SUBSET DOMAIN q :
        \/ y = resendWaiters(resendWaiters(k, d, sent(N)), d, sent(DOMAIN q \ N))
        \/ y = resendWaiters(setMainDcId(resendWaiters(k, d, sent(N)), d), d,
                             sent(DOMAIN q \ N))
  <2> HIDE DEF k, y, q, sent
  <2> QED
    BY <1>1, Zenon
<1> DEFINE A == sent(N)
           S == sent(DOMAIN q \ N)
           f == resendWaiters(k, d, A)
<1>5. A \cup S = W /\ A \cap S = {}
  <2>1. A \cup S = W
    OBVIOUS
  <2>2. ASSUME NEW m \in DOMAIN q, NEW n \in DOMAIN q, q[m] = q[n],
               q[m] \in DOMAIN i.byDc
        PROVE  m = n
    <3>1. Kept(i, q[m])
      <4>1. q[m] # id
        BY <1>0
      <4> QED
        BY <2>2, <4>1 DEF PlacesOk
    <3> QED
      BY <1>0, <2>2, <3>1 DEF Kept, Once
  <2>3. A \cap S = {}
    <3> HIDE DEF q
    <3> QED
      BY <2>2
  <2> QED
    BY <2>1, <2>3
<1>6. d \in Dcs
  BY <1>0
<1>7. y = resendWaiters(f, d, S) \/ y = resendWaiters(setMainDcId(f, d), d, S)
  <2> HIDE DEF k, y, q, sent
  <2> QED
    BY <1>4, Zenon
<1> HIDE DEF k, W, y, j, A, S, f, d
<1>8. /\ InstOk(f) /\ PlacesOk(f, ({id} \cup W) \ A, Z)
      /\ Nowhere(f, id) /\ \A x \in S : Nowhere(f, x)
      /\ DOMAIN f.byDc = DOMAIN i.byDc
      /\ \A x \in DOMAIN i.byDc \ W : f.byDc[x] = i.byDc[x]
      /\ SameQueues(k, f)
  <2>1. /\ A \subseteq DOMAIN k.byDc /\ A \subseteq {id} \cup W
        /\ \A x \in A : Nowhere(k, x)
    BY <1>2, <1>3, <1>5
  <2>2. /\ InstOk(f) /\ SameQueues(k, f) /\ DOMAIN f.byDc = DOMAIN k.byDc
        /\ \A x \in DOMAIN k.byDc \ A : f.byDc[x] = k.byDc[x]
    BY <1>3, <1>6, <2>1, ResendWaitersFact DEF f
  <2>3. /\ PlacesOk(f, ({id} \cup W) \ A, Z)
        /\ \A x : x \notin A /\ Nowhere(k, x) => Nowhere(f, x)
    <3> DEFINE X == {id} \cup W
    <3> HIDE DEF X
    <3>1. PlacesOk(k, X, Z) /\ A \subseteq X
      BY <1>3, <2>1 DEF X
    <3>2. /\ PlacesOk(f, X \ A, Z)
          /\ \A x : x \notin A /\ Nowhere(k, x) => Nowhere(f, x)
      BY <1>3, <1>6, <2>1, <3>1, ResendWaitersOk DEF f
    <3> QED
      BY <3>2 DEF X
  <2> QED
    BY <1>2, <1>3, <1>5, <2>2, <2>3
<1>9. PICK g : /\ y = resendWaiters(g, d, S) /\ InstOk(g)
               /\ PlacesOk(g, ({id} \cup W) \ A, Z)
               /\ Nowhere(g, id) /\ \A x \in S : Nowhere(g, x)
               /\ g.byDc = f.byDc /\ SameQueues(f, g)
  <2>1. CASE y = resendWaiters(f, d, S)
    BY <1>8, <2>1 DEF SameQueues
  <2>2. CASE y = resendWaiters(setMainDcId(f, d), d, S)
    BY <1>6, <1>8, <2>2, SetMainOk
  <2> QED
    BY <1>7, <2>1, <2>2
<1>10. /\ InstOk(y) /\ PlacesOk(y, {id}, Z) /\ Nowhere(y, id)
       /\ DOMAIN y.byDc = DOMAIN i.byDc
       /\ \A x \in DOMAIN i.byDc \ W : y.byDc[x] = i.byDc[x]
       /\ y.waiters = k.waiters /\ y.exports = i.exports
  <2> DEFINE X == ({id} \cup W) \ A
  <2>0. X \ S = {id} /\ S \subseteq X
    BY <1>2, <1>5
  <2>1. S \subseteq DOMAIN g.byDc
    BY <1>2, <1>5, <1>8, <1>9
  <2>2. /\ InstOk(y) /\ SameQueues(g, y) /\ DOMAIN y.byDc = DOMAIN g.byDc
        /\ \A x \in DOMAIN g.byDc \ S : y.byDc[x] = g.byDc[x]
    BY <1>6, <1>9, <2>1, ResendWaitersFact
  <2>3. PlacesOk(g, X, Z)
    BY <1>9
  <2> HIDE DEF X
  <2>4. /\ PlacesOk(y, X \ S, Z)
        /\ \A x : x \notin S /\ Nowhere(g, x) => Nowhere(y, x)
    BY <1>6, <1>9, <2>0, <2>1, <2>3, ResendWaitersOk
  <2>5. id \notin S
    BY <1>2, <1>5
  <2>6. PlacesOk(y, {id}, Z) /\ Nowhere(y, id)
    BY <1>9, <2>0, <2>4, <2>5
  <2> QED
    BY <1>3, <1>5, <1>8, <1>9, <2>2, <2>6 DEF SameQueues
<1>11. InstOk(j) /\ PlacesOk(j, {}, Z)
  BY <1>0, <1>10, UnregOk DEF j
<1>12. /\ j.waiters = y.waiters /\ j.exports = y.exports
       /\ DOMAIN j.byDc = DOMAIN y.byDc \ {id}
       /\ \A x \in DOMAIN j.byDc : j.byDc[x] = y.byDc[x]
  BY <1>10, UnregFact DEF j
<1>13. AuthOk(j)
  <2>1. ASSUME NEW e \in Dcs, e # c
        PROVE  /\ Export(e) \in DOMAIN j.byDc <=> Export(e) \in DOMAIN i.byDc
               /\ Import(e) \in DOMAIN j.byDc <=> Import(e) \in DOMAIN i.byDc
               /\ Import(e) \in DOMAIN i.byDc =>
                    j.byDc[Import(e)] = i.byDc[Import(e)]
               /\ j.waiters[e] = i.waiters[e]
    BY <1>0, <1>2, <1>3, <1>10, <1>12, <2>1, AuthIds
  <2>2. /\ Import(c) \notin DOMAIN j.byDc /\ Export(c) \notin DOMAIN j.byDc
        /\ j.waiters[c] = <<>>
    BY <1>0, <1>3, <1>10, <1>12 DEF AuthOk
  <2> QED
    BY <1>10, <1>12, <2>1, <2>2 DEF AuthOk
<1> QED
  BY <1>11, <1>13 DEF j, y

-----------------------------------------------------------------------------
(* checkDelayedRequests()                                                  *)
LEMMA PassedOne ==
    ASSUME NEW z \in Delay
    PROVE  LET y == [z EXCEPT !.left = @ - 1] IN y \in Delay /\ y.id = z.id
<1> DEFINE l == z.left - 1
<1>1. l \in Int /\ z \in [id : Ids, left : Int]
  BY DEF Delay
<1> HIDE DEF l
<1>2. [z EXCEPT !.left = l] \in [id : Ids, left : Int]
  BY <1>1
<1>3. [z EXCEPT !.left = l].id = z.id
  BY <1>1
<1> QED
  BY <1>2, <1>3 DEF l, Delay

LEMMA DropFact ==
    ASSUME NEW S, NEW p \in Seq(S), NEW n \in 0 .. Len(p)
    PROVE  LET w == SubSeq(p, n + 1, Len(p)) IN
           /\ w \in Seq(S) /\ Len(w) = Len(p) - n /\ DOMAIN w = 1 .. Len(p) - n
           /\ \A m \in 1 .. Len(p) - n :
                m + n \in 1 .. Len(p) /\ w[m] = p[m + n]
<1> DEFINE a == n + 1
           w == SubSeq(p, a, Len(p))
<1>0. Len(p) \in Nat /\ n \in Nat /\ n <= Len(p)
  OBVIOUS
<1>1. a \in Nat /\ a >= 1 /\ a <= Len(p) + 1
  BY <1>0
<1>2. Len(p) - a + 1 = Len(p) - n /\ \A m \in Int : m + a - 1 = m + n
  BY <1>0
<1> HIDE DEF a
<1>3. /\ w \in Seq(S) /\ Len(w) = Len(p) - a + 1
      /\ \A m \in 1 .. Len(p) - a + 1 : w[m] = p[m + a - 1]
  BY <1>0, <1>1
<1> HIDE DEF w
<1>4. /\ Len(w) = Len(p) - n
      /\ \A m \in 1 .. Len(p) - n : w[m] = p[m + n]
  <2>1. Len(w) = Len(p) - n
    BY <1>2, <1>3
  <2>2. ASSUME NEW m \in 1 .. Len(p) - n PROVE w[m] = p[m + n]
    <3>1. m \in 1 .. Len(p) - a + 1 /\ m \in Int
      BY <1>2
    <3>2. w[m] = p[m + a - 1]
      BY <1>3, <3>1
    <3> QED
      BY <1>2, <3>1, <3>2
  <2> QED
    BY <2>1, <2>2
<1>5. DOMAIN w = 1 .. Len(p) - n
  BY <1>3, <1>4
<1>6. \A m \in 1 .. Len(p) - n : m + n \in 1 .. Len(p)
  BY <1>0
<1> QED
  BY <1>3, <1>4, <1>5, <1>6 DEF w, a

(* The requests of S leave the list, and then a session has them.          *)
LEMMA TickOk ==
    ASSUME InstanceInv, Tick
    PROVE  InstanceInv'
<1> DEFINE q == inst.delayed
           p == [m \in DOMAIN q |-> [q[m] EXCEPT !.left = @ - 1]]
           S(n) == {p[m].id : m \in 1 .. n} \cap DOMAIN inst.byDc
<1>1. PICK n \in 0 .. Len(p) :
        inst' = [resendAll(inst, S(n)) EXCEPT
                    !.delayed = SubSeq(p, n + 1, Len(p))]
  BY Zenon DEF Tick
<1>2. UNCHANGED <<answered, gone, errors>>
  BY DEF Tick
<1>3. InstOk(inst) /\ IsInst(inst) /\ q \in Seq(Delay)
  BY DEF InstanceInv, InstOk
<1>4. Len(q) \in Nat /\ DOMAIN q = 1 .. Len(q) /\ \A m \in DOMAIN q : q[m] \in Delay
  BY <1>3
<1> DEFINE r(m) == [q[m] EXCEPT !.left = @ - 1]
<1>5. \A m \in DOMAIN q : r(m) \in Delay /\ r(m).id = q[m].id
  <2> HIDE DEF q
  <2> QED
    BY <1>4, PassedOne, Zenon
<1>6. p = [m \in 1 .. Len(q) |-> r(m)]
  BY <1>4
<1> HIDE DEF r
<1>7. /\ p \in Seq(Delay) /\ Len(p) = Len(q)
      /\ \A m \in 1 .. Len(q) : p[m].id = q[m].id
  <2> HIDE DEF p, q
  <2> QED
    BY <1>4, <1>5, <1>6
<1> DEFINE w == SubSeq(p, n + 1, Len(p))
           A == S(n)
           a == resendAll(inst, A)
           j == inst'
<1> HIDE DEF p
<1>8. /\ w \in Seq(Delay) /\ DOMAIN w = 1 .. Len(q) - n
      /\ \A m \in 1 .. Len(q) - n :
           m + n \in 1 .. Len(q) /\ w[m] = p[m + n]
  <2> HIDE DEF q
  <2> QED
    BY <1>7, DropFact
<1>9. n \in Nat /\ n <= Len(q)
  BY <1>4, <1>7
<1>10. j = [a EXCEPT !.delayed = w]
  BY <1>1
<1>11. A \subseteq DOMAIN inst.byDc
  OBVIOUS
<1>12. \A x \in DOMAIN inst.byDc : x \in A <=> \E m \in 1 .. n : q[m].id = x
  BY <1>4, <1>7, <1>9
<1> HIDE DEF A, w, j
<1>13. /\ InstOk(a) /\ a.byDc = inst.byDc /\ a.lost = inst.lost
       /\ a.main = inst.main /\ SameQueues(inst, a)
       /\ \A s \in AllSessions : a.held[s] =
            inst.held[s] \cup {x \in A : qAbs(inst.byDc[x]) = s}
  BY <1>3, <1>11, ResendAllFact
<1> HIDE DEF a
<1>14. /\ IsInst(j) /\ j.byDc = a.byDc /\ j.held = a.held /\ j.lost = a.lost
       /\ j.main = a.main /\ j.waiters = a.waiters /\ j.exports = a.exports
       /\ j.delayed = w /\ j.dependent = a.dependent /\ j.delays = a.delays
  BY <1>10, <1>13 DEF InstOk, IsInst
<1>15. InstOk(j)
  BY <1>8, <1>13, <1>14 DEF InstOk
<1> DEFINE k == [inst EXCEPT !.delayed = w]
<1>16. /\ k.byDc = inst.byDc /\ k.held = inst.held /\ k.lost = inst.lost
       /\ k.waiters = inst.waiters /\ k.delayed = w
       /\ k.dependent = inst.dependent
  BY <1>3 DEF IsInst
<1> HIDE DEF k
<1>17. ASSUME NEW x
       PROVE  /\ IsHeld(k, x) <=> IsHeld(inst, x)
              /\ IsWaiter(k, x) <=> IsWaiter(inst, x)
              /\ IsDelayed(k, x) => IsDelayed(inst, x)
              /\ Once(inst, x) => Once(k, x)
  <2>1. /\ IsHeld(k, x) <=> IsHeld(inst, x)
        /\ IsWaiter(k, x) <=> IsWaiter(inst, x)
    BY <1>16 DEF IsHeld, IsWaiter
  <2>2. ASSUME NEW m \in DOMAIN w
        PROVE  m + n \in DOMAIN q /\ w[m].id = q[m + n].id /\ m \in Nat
    BY <1>4, <1>7, <1>8
  <2>3. IsDelayed(k, x) => IsDelayed(inst, x)
    BY <1>16, <2>2 DEF IsDelayed
  <2>4. ASSUME Once(inst, x), NEW b \in DOMAIN w, NEW c \in DOMAIN w,
               w[b].id = x, w[c].id = x
        PROVE  b = c
    <3>1. /\ b + n \in DOMAIN q /\ c + n \in DOMAIN q
          /\ q[b + n].id = x /\ q[c + n].id = x
      BY <2>2, <2>4
    <3>2. b + n = c + n
      BY <2>4, <3>1 DEF Once
    <3> QED
      BY <1>9, <2>2, <3>2
  <2> QED
    BY <1>16, <2>1, <2>3, <2>4 DEF Once
<1>18. \A x : Nowhere(inst, x) => Nowhere(k, x)
  BY <1>16, <1>17 DEF Nowhere
<1>19. ASSUME NEW x \in A
       PROVE  Nowhere(k, x)
  <2>1. PICK m \in 1 .. n : q[m].id = x
    BY <1>11, <1>12
  <2>2. Kept(inst, x) /\ m \in DOMAIN q
    BY <1>4, <1>9, <1>11 DEF InstanceInv, PlacesOk
  <2>3. IsDelayed(inst, x)
    BY <2>1, <2>2 DEF IsDelayed
  <2>4. ~IsHeld(inst, x) /\ ~IsWaiter(inst, x) /\ x \notin DOMAIN inst.dependent
    BY <2>2, <2>3 DEF Kept, Once
  <2>5. ASSUME NEW b \in DOMAIN w, w[b].id = x
        PROVE  FALSE
    <3>1. b + n \in DOMAIN q /\ q[b + n].id = x /\ b \in Nat /\ b >= 1
      <4>1. b \in 1 .. Len(q) - n
        BY <1>8
      <4>2. b + n \in 1 .. Len(q) /\ w[b] = p[b + n]
        BY <1>8, <4>1
      <4>3. b \in Nat /\ b >= 1
        BY <1>4, <1>9, <4>1
      <4> QED
        BY <1>4, <1>7, <2>5, <4>2, <4>3
    <3>2. b + n = m
      BY <2>1, <2>2, <3>1 DEF Kept, Once
    <3> QED
      BY <1>9, <3>1, <3>2
  <2> QED
    BY <1>16, <1>17, <2>4, <2>5 DEF Nowhere, IsDelayed
<1>20. ASSUME NEW x \in DOMAIN inst.byDc \ A
       PROVE  Kept(k, x)
  <2>1. Kept(inst, x)
    BY DEF InstanceInv, PlacesOk
  <2>2. ASSUME NEW m \in DOMAIN q, q[m].id = x
        PROVE  IsDelayed(k, x)
    <3>1. m \notin 1 .. n
      BY <1>12, <2>2
    <3>2. m - n \in 1 .. Len(q) - n /\ (m - n) + n = m
      BY <1>4, <1>9, <3>1
    <3>3. m - n \in DOMAIN w /\ w[m - n].id = x
      BY <1>4, <1>7, <1>8, <2>2, <3>2
    <3> QED
      BY <1>16, <3>3 DEF IsDelayed
  <2>3. IsDelayed(inst, x) => IsDelayed(k, x)
    BY <2>2 DEF IsDelayed
  <2> QED
    BY <1>16, <1>17, <2>1, <2>3 DEF Kept, Nowhere
<1>21. PlacesOk(k, A, Spent)
  BY <1>16, <1>18, <1>20 DEF PlacesOk, InstanceInv
<1> DEFINE at == [x \in A |-> qAbs(inst.byDc[x])]
<1>22. /\ at \in [A -> AllSessions]
       /\ \A s \in AllSessions : j.held[s] = k.held[s] \cup {x \in A : at[x] = s}
  <2>1. \A x \in A : qAbs(inst.byDc[x]) \in AllSessions
    BY <1>3, <1>11, SessionOf DEF InstOk
  <2> QED
    BY <1>13, <1>14, <1>16, <2>1
<1> HIDE DEF at
<1>23. PlacesOk(j, A \ A, Spent)
  <2>1. /\ A \subseteq A /\ A \subseteq DOMAIN k.byDc
        /\ DOMAIN j.byDc = DOMAIN k.byDc /\ j.delayed = k.delayed
        /\ j.waiters = k.waiters /\ j.dependent = k.dependent /\ j.lost = k.lost
    BY <1>11, <1>13, <1>14, <1>16 DEF SameQueues
  <2> QED
    BY <1>19, <1>21, <1>22, <2>1, PutHeld
<1>24. PlacesOk(j, {}, Spent)
  BY <1>23, PlacesMore
<1>25. AuthOk(j)
  BY <1>13, <1>14, SameAuth DEF InstanceInv, SameQueues
<1>26. Spent' = Spent
  BY <1>2 DEF Spent
<1> QED
  BY <1>2, <1>15, <1>24, <1>25, <1>26 DEF InstanceInv, j

-----------------------------------------------------------------------------
(* The ends of the handlers.                                               *)
LEMMA AuthSame ==
    ASSUME NEW i, NEW j, AuthOk(i), j.waiters = i.waiters,
           j.exports = i.exports,
           \A d \in Dcs :
             /\ Export(d) \in DOMAIN j.byDc <=> Export(d) \in DOMAIN i.byDc
             /\ Import(d) \in DOMAIN j.byDc <=> Import(d) \in DOMAIN i.byDc
             /\ Import(d) \in DOMAIN i.byDc =>
                  j.byDc[Import(d)].dc = i.byDc[Import(d)].dc
    PROVE  AuthOk(j)
  BY DEF AuthOk

LEMMA ParserOk ==
    ASSUME NEW i, NEW Z, InstOk(i), PlacesOk(i, {}, Z), AuthOk(i), NEW p
    PROVE  LET j == [i EXCEPT !.parser = p] IN
           InstOk(j) /\ PlacesOk(j, {}, Z) /\ AuthOk(j)
<1> DEFINE j == [i EXCEPT !.parser = p]
<1>0. IsInst(i) /\ j = [i EXCEPT !.parser = p]
  BY DEF InstOk
<1> HIDE DEF j
<1>1. /\ IsInst(j) /\ j.held = i.held /\ j.byDc = i.byDc /\ j.lost = i.lost
      /\ j.main = i.main /\ SameQueues(i, j)
  BY <1>0 DEF IsInst, SameQueues
<1>2. InstOk(j)
  BY <1>1 DEF InstOk, SameQueues
<1>3. PlacesOk(j, {}, Z)
  BY <1>1, SamePlaces
<1>4. AuthOk(j)
  BY <1>1, SameAuth DEF SameQueues
<1> QED
  BY <1>2, <1>3, <1>4 DEF j

LEMMA RetriesOk ==
    ASSUME InstanceInv, NEW i, NEW id, InstOk(i), PlacesOk(i, {}, Spent),
           AuthOk(i), Retries(i, id)
    PROVE  InstanceInv'
<1> DEFINE p == i.parser \cup {id}
<1>1. inst' = [i EXCEPT !.parser = p] /\ UNCHANGED <<answered, gone>>
  BY DEF Retries
<1> HIDE DEF p
<1>2. InstOk(inst') /\ PlacesOk(inst', {}, Spent) /\ AuthOk(inst')
  BY <1>1, ParserOk
<1>3. Spent' = Spent
  BY <1>1 DEF Spent
<1> QED
  BY <1>1, <1>2, <1>3 DEF InstanceInv

LEMMA EndsOk ==
    ASSUME InstanceInv, NEW id \in Ids, InstOk(inst'),
           PlacesOk(inst', {}, Spent), AuthOk(inst'), Called(id),
           UNCHANGED gone
    PROVE  InstanceInv'
<1>1. id[1] = "user" => id[2] \in Requests
  BY DEF Ids, User
<1>2. answered \in [Requests -> Nat]
  BY DEF InstanceInv
<1>3. /\ answered' \in [Requests -> Nat]
      /\ \A r \in Requests : answered[r] # 0 => answered'[r] # 0
  <2>1. CASE id[1] = "user"
    <3>1. answered' = [answered EXCEPT ![id[2]] = answered[id[2]] + 1]
      BY <2>1 DEF Called
    <3>2. \A r \in Requests : answered[r] \in Nat /\ answered[r] + 1 # 0
      BY <1>2
    <3> QED
      BY <1>1, <1>2, <2>1, <3>1, <3>2
  <2>2. CASE id[1] # "user"
    BY <1>2, <2>2 DEF Called
  <2> QED
    BY <2>1, <2>2
<1>4. Spent \subseteq Spent'
  BY <1>3 DEF Spent, User
<1>5. PlacesOk(inst', {}, Spent')
  BY <1>4, PlacesMore
<1> QED
  BY <1>3, <1>5 DEF InstanceInv

LEMMA UnregUser ==
    ASSUME NEW i, InstOk(i), AuthOk(i), NEW id \in User
    PROVE  AuthOk(unregisterRequest(i, id))
<1> DEFINE j == unregisterRequest(i, id)
<1>1. /\ j.waiters = i.waiters /\ j.exports = i.exports
      /\ DOMAIN j.byDc = DOMAIN i.byDc \ {id}
      /\ \A x \in DOMAIN j.byDc : j.byDc[x] = i.byDc[x]
  BY UnregFact
<1> HIDE DEF j
<1>2. \A d \in Dcs : Export(d) # id /\ Import(d) # id
  BY AuthIds
<1> QED
  BY <1>1, <1>2, AuthSame DEF j

(* rpcErrorOccured() has returned true for a request of the user.          *)
LEMMA FailsOk ==
    ASSUME InstanceInv, NEW id \in User, NEW i, InstOk(i), AuthOk(i),
           PlacesOk(i, {id}, Spent), Nowhere(i, id), Fails(i, id)
    PROVE  InstanceInv'
<1>1. /\ inst' = unregisterRequest(i, id) /\ Called(id) /\ UNCHANGED gone
      /\ id \in Ids
  BY AuthIds DEF Fails
<1>2. InstOk(inst') /\ PlacesOk(inst', {}, Spent)
  BY <1>1, UnregOk
<1>3. AuthOk(inst')
  BY <1>1, UnregUser
<1> QED
  BY <1>1, <1>2, <1>3, EndsOk

-----------------------------------------------------------------------------
(* The actions.                                                            *)
LEMMA DoneOk ==
    ASSUME InstanceInv, NEW session, NEW id \in Ids, Done(session, id)
    PROVE  InstanceInv'
<1> DEFINE i == Taken(session, id)
<1>1. /\ InstOk(i) /\ PlacesOk(i, {id}, Spent) /\ Nowhere(i, id)
      /\ AuthOk(i) /\ id \in DOMAIN i.byDc
  BY TakenOk DEF Done
<1>2. Spent \in SUBSET User
  BY DEF Spent
<1>3. Called(id) /\ UNCHANGED gone
  BY DEF Done
<1>4. inst' = unregisterRequest(
                CASE id[1] = "user" -> i
                  [] id[1] = "export" -> exportDone(i, id)
                  [] id[1] = "import" -> importDone(i, id), id)
  BY DEF Done
<1> HIDE DEF i
<1>5. CASE id \in User
  <2>1. inst' = unregisterRequest(i, id)
    BY <1>4, <1>5, AuthIds
  <2>2. InstOk(inst') /\ PlacesOk(inst', {}, Spent)
    BY <1>1, <2>1, UnregOk
  <2>3. AuthOk(inst')
    BY <1>1, <1>5, <2>1, UnregUser
  <2> QED
    BY <1>3, <2>2, <2>3, EndsOk
<1>6. ASSUME NEW d \in Dcs, id = Export(d)
      PROVE  InstanceInv'
  <2>1. id[1] = "export"
    BY <1>6, AuthIds
  <2>2. inst' = unregisterRequest(exportDone(i, id), id)
    BY <1>4, <2>1
  <2>3. InstOk(inst') /\ PlacesOk(inst', {}, Spent) /\ AuthOk(inst')
    BY <1>1, <1>2, <1>6, <2>2, ExportDoneOk
  <2> QED
    BY <1>3, <2>3, EndsOk
<1>7. ASSUME NEW d \in Dcs, id = Import(d)
      PROVE  InstanceInv'
  <2>1. id[1] = "import"
    BY <1>7, AuthIds
  <2>2. inst' = unregisterRequest(importDone(i, id), id)
    BY <1>4, <2>1
  <2>3. InstOk(inst') /\ PlacesOk(inst', {}, Spent) /\ AuthOk(inst')
    BY <1>1, <1>2, <1>7, <2>2, ImportDoneOk
  <2> QED
    BY <1>3, <2>3, EndsOk
<1> QED
  BY <1>5, <1>6, <1>7, AuthIds

LEMMA FailedOk ==
    ASSUME InstanceInv, "authFail" \notin Kinds, NEW session, NEW id \in Ids,
           Failed(session, id)
    PROVE  InstanceInv'
<1> DEFINE i == Taken(session, id)
<1>1. id \in User
  BY AuthIds DEF Failed, Error
<1>2. /\ InstOk(i) /\ PlacesOk(i, {id}, Spent) /\ Nowhere(i, id) /\ AuthOk(i)
  BY TakenOk DEF Failed
<1>3. Fails(i, id)
  BY DEF Failed
<1> HIDE DEF i
<1> QED
  BY <1>1, <1>2, <1>3, FailsOk

LEMMA MigrateOk ==
    ASSUME InstanceInv, NEW session, NEW id \in Ids, NEW d \in Dcs,
           Migrate(session, id, d)
    PROVE  InstanceInv'
<1> DEFINE i == Taken(session, id)
           place == inst.byDc[id]
           there == changed(place, d)
           j == IF place.main THEN setMainDcId(i, d) ELSE i
           k == [j EXCEPT !.byDc[id] = there]
           y == resend(k, id)
<1>1. /\ InstOk(i) /\ PlacesOk(i, {id}, Spent) /\ Nowhere(i, id)
      /\ AuthOk(i) /\ id \in DOMAIN i.byDc /\ i.byDc = inst.byDc
  BY TakenOk DEF Migrate
<1>2. id[1] # "import" /\ Retries(y, id)
  BY DEF Migrate
<1>3. there \in Place
  BY <1>1, ChangedPlace DEF InstOk
<1> HIDE DEF i, there
<1>4. /\ InstOk(j) /\ PlacesOk(j, {id}, Spent) /\ Nowhere(j, id)
      /\ j.byDc = i.byDc /\ SameQueues(i, j)
  <2>1. CASE place.main
    BY <1>1, <2>1, SetMainOk
  <2>2. CASE ~place.main
    BY <1>1, <2>2 DEF SameQueues
  <2> QED
    BY <2>1, <2>2
<1> HIDE DEF j
<1>5. /\ InstOk(k) /\ PlacesOk(k, {id}, Spent) /\ SameQueues(j, k)
      /\ DOMAIN k.byDc = DOMAIN j.byDc /\ Nowhere(k, id)
      /\ \A x \in DOMAIN j.byDc \ {id} : k.byDc[x] = j.byDc[x]
  BY <1>1, <1>3, <1>4, ChangeOk
<1> HIDE DEF k
<1>6. /\ InstOk(y) /\ PlacesOk(y, {id} \ {id}, Spent)
      /\ y.byDc = k.byDc /\ SameQueues(k, y)
  BY <1>1, <1>4, <1>5, ResendOk
<1> HIDE DEF y
<1>7. PlacesOk(y, {}, Spent)
  BY <1>6, PlacesMore
<1>8. \A e \in Dcs : Import(e) # id
  BY <1>2, AuthIds
<1>9. AuthOk(y)
  BY <1>1, <1>4, <1>5, <1>6, <1>8, SameAuth DEF SameQueues
<1> QED
  BY <1>2, <1>6, <1>7, <1>9, RetriesOk

LEMMA MsgWaitOk ==
    ASSUME InstanceInv, NEW session, NEW id \in Ids, MsgWait(session, id)
    PROVE  InstanceInv'
<1> DEFINE i == Taken(session, id)
           after == inst.after[id]
           same == /\ after \in DOMAIN inst.byDc
                   /\ inst.byDc[after] = inst.byDc[id]
<1>1. /\ InstOk(i) /\ PlacesOk(i, {id}, Spent) /\ Nowhere(i, id)
      /\ AuthOk(i) /\ id \in DOMAIN i.byDc /\ i.byDc = inst.byDc
      /\ IsInst(i)
  BY TakenOk DEF MsgWait, InstOk
<1>2. CASE ~same
  <2> DEFINE a == Without(i.after, {id})
             k == [i EXCEPT !.after = a]
             y == resend(k, id)
  <2>1. Retries(y, id)
    BY <1>2 DEF MsgWait
  <2>2. k = [i EXCEPT !.after = a]
    OBVIOUS
  <2> HIDE DEF i, a, k
  <2>3. /\ IsInst(k) /\ k.held = i.held /\ k.byDc = i.byDc /\ k.lost = i.lost
        /\ k.main = i.main /\ SameQueues(i, k)
    BY <1>1, <2>2 DEF IsInst, SameQueues
  <2>4. InstOk(k)
    BY <1>1, <2>3 DEF InstOk, SameQueues
  <2>5. PlacesOk(k, {id}, Spent) /\ Nowhere(k, id)
    BY <1>1, <2>3, SamePlaces
  <2>6. /\ InstOk(y) /\ PlacesOk(y, {id} \ {id}, Spent)
        /\ y.byDc = k.byDc /\ SameQueues(k, y)
    BY <1>1, <2>3, <2>4, <2>5, ResendOk
  <2> HIDE DEF y
  <2>7. PlacesOk(y, {}, Spent)
    BY <2>6, PlacesMore
  <2>8. AuthOk(y)
    BY <1>1, <2>3, <2>6, SameAuth DEF SameQueues
  <2> QED
    BY <2>1, <2>6, <2>7, <2>8, RetriesOk
<1>3. CASE same
  <2> DEFINE u == With(i.dependent, id, after)
             k == [i EXCEPT !.dependent = u]
  <2>0. id \notin DOMAIN i.dependent
    BY <1>1 DEF Nowhere
  <2>1. Retries(k, id)
    <3>1. Retries([i EXCEPT !.dependent = IF id \in DOMAIN i.dependent
                                           THEN i.dependent
                                           ELSE With(i.dependent, id, after)], id)
      BY <1>3 DEF MsgWait
    <3> HIDE DEF i, after
    <3>2. (IF id \in DOMAIN i.dependent THEN i.dependent
           ELSE With(i.dependent, id, after)) = u
      BY <2>0
    <3> HIDE DEF u
    <3> QED
      BY <3>1, <3>2
  <2>2. k = [i EXCEPT !.dependent = u] /\ after \in DOMAIN i.byDc
    BY <1>1, <1>3
  <2> HIDE DEF i, after, k
  <2>3. u = With(i.dependent, id, after)
    OBVIOUS
  <2> HIDE DEF u
  <2>4. /\ IsInst(k) /\ k.held = i.held /\ k.byDc = i.byDc /\ k.lost = i.lost
        /\ k.main = i.main /\ k.waiters = i.waiters /\ k.exports = i.exports
        /\ k.delayed = i.delayed /\ k.dependent = u /\ k.delays = i.delays
    BY <1>1, <2>2 DEF IsInst
  <2>5. InstOk(k)
    BY <1>1, <2>4 DEF InstOk
  <2>6. PlacesOk(k, {id} \ {id}, Spent)
    <3> DEFINE X == {id}
    <3>1. PlacesOk(i, X, Spent) /\ id \in X
      BY <1>1
    <3> HIDE DEF X
    <3>2. PlacesOk(k, X \ {id}, Spent)
      BY <1>1, <2>2, <2>3, <2>4, <3>1, DependOk
    <3> QED
      BY <3>2 DEF X
  <2>7. PlacesOk(k, {}, Spent)
    BY <2>6, PlacesMore
  <2>8. AuthOk(k)
    BY <1>1, <2>4, SameAuth
  <2> QED
    BY <2>1, <2>5, <2>7, <2>8, RetriesOk
<1> QED
  BY <1>2, <1>3

LEMMA ServerErrorOk ==
    ASSUME InstanceInv, NEW session, NEW id \in Ids, ServerError(session, id)
    PROVE  InstanceInv'
<1> DEFINE i == Taken(session, id)
           was == inst.delays[id]
           secs == IF id \notin DOMAIN inst.delays THEN 1
                   ELSE IF was > DelayLimit THEN was ELSE 2 * was
           y == With(i.delays, id, secs)
           w == insertDelayed(i.delayed, id, secs)
           k == [i EXCEPT !.delays = y, !.delayed = w]
<1>1. /\ InstOk(i) /\ PlacesOk(i, {id}, Spent) /\ Nowhere(i, id)
      /\ AuthOk(i) /\ id \in DOMAIN i.byDc /\ IsInst(i)
      /\ SameQueues(inst, i)
  BY TakenOk DEF ServerError, InstOk
<1>2. Retries(k, id)
  BY DEF ServerError
<1>3. secs \in Int
  <2>1. id \in DOMAIN inst.delays => was \in Int
    BY DEF InstanceInv, InstOk
  <2> HIDE DEF was
  <2> QED
    BY <2>1
<1>4. k = [i EXCEPT !.delays = y, !.delayed = w]
  OBVIOUS
<1> HIDE DEF i, secs, k
<1>5. DOMAIN y = DOMAIN i.delays \cup {id} /\ \A x \in DOMAIN y : y[x] \in Int
  BY <1>1, <1>3 DEF With, InstOk
<1>6. w = insertDelayed(i.delayed, id, secs)
  OBVIOUS
<1> HIDE DEF y, w
<1>7. /\ IsInst(k) /\ k.held = i.held /\ k.byDc = i.byDc /\ k.lost = i.lost
      /\ k.main = i.main /\ k.waiters = i.waiters /\ k.exports = i.exports
      /\ k.delayed = w /\ k.dependent = i.dependent /\ k.delays = y
  BY <1>1, <1>4 DEF IsInst
<1>8. PlacesOk(k, {id} \ {id}, Spent) /\ k.delayed \in Seq(Delay)
  <2> DEFINE X == {id}
  <2>1. PlacesOk(i, X, Spent) /\ id \in X
    BY <1>1
  <2> HIDE DEF X
  <2>2. PlacesOk(k, X \ {id}, Spent) /\ k.delayed \in Seq(Delay)
    BY <1>1, <1>3, <1>6, <1>7, <2>1, DelayOk
  <2> QED
    BY <2>2 DEF X
<1>9. InstOk(k)
  BY <1>1, <1>5, <1>7, <1>8 DEF InstOk
<1>10. PlacesOk(k, {}, Spent)
  BY <1>8, PlacesMore
<1>11. AuthOk(k)
  BY <1>1, <1>7, SameAuth
<1> QED
  BY <1>2, <1>9, <1>10, <1>11, RetriesOk

LEMMA FloodWaitOk ==
    ASSUME InstanceInv, NEW session, NEW id \in Ids, NEW secs \in Int,
           FloodWait(session, id, secs)
    PROVE  InstanceInv'
<1> DEFINE i == Taken(session, id)
           w == insertDelayed(i.delayed, id, secs)
           k == [i EXCEPT !.delayed = w]
<1>1. /\ InstOk(i) /\ PlacesOk(i, {id}, Spent) /\ Nowhere(i, id)
      /\ AuthOk(i) /\ id \in DOMAIN i.byDc /\ IsInst(i)
  BY TakenOk DEF FloodWait, InstOk
<1>2. Retries(k, id)
  BY DEF FloodWait
<1>3. secs \in Int
  OBVIOUS
<1>4. k = [i EXCEPT !.delayed = w]
  OBVIOUS
<1>w. w = insertDelayed(i.delayed, id, secs)
  OBVIOUS
<1> HIDE DEF i, k, w
<1>5. /\ IsInst(k) /\ k.held = i.held /\ k.byDc = i.byDc /\ k.lost = i.lost
      /\ k.main = i.main /\ k.waiters = i.waiters /\ k.exports = i.exports
      /\ k.delayed = w /\ k.dependent = i.dependent /\ k.delays = i.delays
  BY <1>1, <1>4 DEF IsInst
<1>6. PlacesOk(k, {id} \ {id}, Spent) /\ k.delayed \in Seq(Delay)
  <2> DEFINE X == {id}
  <2>1. PlacesOk(i, X, Spent) /\ id \in X
    BY <1>1
  <2> HIDE DEF X
  <2>2. PlacesOk(k, X \ {id}, Spent) /\ k.delayed \in Seq(Delay)
    BY <1>1, <1>w, <1>5, <2>1, DelayOk
  <2> QED
    BY <2>2 DEF X
<1>7. InstOk(k)
  BY <1>1, <1>5, <1>6 DEF InstOk
<1>8. PlacesOk(k, {}, Spent)
  BY <1>6, PlacesMore
<1>9. AuthOk(k)
  BY <1>1, <1>5, SameAuth
<1> QED
  BY <1>2, <1>7, <1>8, <1>9, RetriesOk

LEMMA UnauthorizedOk ==
    ASSUME InstanceInv, "authFail" \notin Kinds, NEW session, NEW id \in Ids,
           Unauthorized(session, id)
    PROVE  InstanceInv'
<1> DEFINE i == Taken(session, id)
           k == waitForAuth(i, id)
<1>1. id \in User
  BY AuthIds DEF Unauthorized, Error
<1>2. /\ InstOk(i) /\ PlacesOk(i, {id}, Spent) /\ Nowhere(i, id)
      /\ AuthOk(i) /\ id \in DOMAIN i.byDc
  BY TakenOk DEF Unauthorized
<1>3. Fails(i, id) \/ Retries(k, id)
  BY DEF Unauthorized
<1>4. Spent \in SUBSET User
  BY DEF Spent
<1> HIDE DEF i
<1>5. InstOk(k) /\ PlacesOk(k, {}, Spent) /\ AuthOk(k)
  BY <1>1, <1>2, <1>4, WaitForAuthOk
<1> HIDE DEF k
<1> QED
  BY <1>1, <1>2, <1>3, <1>5, FailsOk, RetriesOk

LEMMA GuestOk ==
    ASSUME NEW i, NEW X, NEW Z, InstOk(i), PlacesOk(i, X, Z), AuthOk(i), NEW g
    PROVE  LET j == [i EXCEPT !.badGuest = g] IN
           /\ InstOk(j) /\ PlacesOk(j, X, Z) /\ AuthOk(j)
           /\ \A x : Nowhere(i, x) => Nowhere(j, x)
<1> DEFINE j == [i EXCEPT !.badGuest = g]
<1>0. IsInst(i) /\ j = [i EXCEPT !.badGuest = g]
  BY DEF InstOk
<1> HIDE DEF j
<1>1. /\ IsInst(j) /\ j.held = i.held /\ j.byDc = i.byDc /\ j.lost = i.lost
      /\ j.main = i.main /\ SameQueues(i, j)
  BY <1>0 DEF IsInst, SameQueues
<1>2. InstOk(j)
  BY <1>1 DEF InstOk, SameQueues
<1>3. PlacesOk(j, X, Z) /\ \A x : Nowhere(i, x) => Nowhere(j, x)
  BY <1>1, SamePlaces
<1>4. AuthOk(j)
  BY <1>1, SameAuth DEF SameQueues
<1> QED
  BY <1>2, <1>3, <1>4 DEF j

LEMMA BadGuestDcOk ==
    ASSUME InstanceInv, NEW session, NEW id \in Ids, BadGuestDc(session, id)
    PROVE  InstanceInv'
<1> DEFINE i == Taken(session, id)
           k == waitForAuth(i, id)
           g == i.badGuest \ {id}
           h == k.badGuest \cup {id}
           a == [i EXCEPT !.badGuest = g]
           b == [k EXCEPT !.badGuest = h]
<1>1. id \in User
  BY AuthIds DEF BadGuestDc
<1>2. /\ InstOk(i) /\ PlacesOk(i, {id}, Spent) /\ Nowhere(i, id)
      /\ AuthOk(i) /\ id \in DOMAIN i.byDc
  BY TakenOk DEF BadGuestDc
<1>3. Fails(a, id) \/ Fails(i, id) \/ Retries(b, id)
  BY DEF BadGuestDc
<1>4. Spent \in SUBSET User
  BY DEF Spent
<1> HIDE DEF i, g, h
<1>5. InstOk(k) /\ PlacesOk(k, {}, Spent) /\ AuthOk(k)
  BY <1>1, <1>2, <1>4, WaitForAuthOk
<1> HIDE DEF k
<1>6. InstOk(a) /\ PlacesOk(a, {id}, Spent) /\ AuthOk(a) /\ Nowhere(a, id)
  BY <1>2, GuestOk
<1>7. InstOk(b) /\ PlacesOk(b, {}, Spent) /\ AuthOk(b)
  BY <1>5, GuestOk
<1> HIDE DEF a, b
<1> QED
  BY <1>1, <1>2, <1>3, <1>6, <1>7, FailsOk, RetriesOk

LEMMA NotInitedOk ==
    ASSUME InstanceInv, NEW session, NEW id \in Ids, NotInited(session, id)
    PROVE  InstanceInv'
<1> DEFINE i == Taken(session, id)
           y == resend(i, id)
<1>1. /\ InstOk(i) /\ PlacesOk(i, {id}, Spent) /\ Nowhere(i, id)
      /\ AuthOk(i) /\ id \in DOMAIN i.byDc
  BY TakenOk DEF NotInited
<1>2. Retries(y, id)
  BY DEF NotInited
<1> HIDE DEF i
<1>3. /\ InstOk(y) /\ PlacesOk(y, {id} \ {id}, Spent)
      /\ y.byDc = i.byDc /\ SameQueues(i, y)
  BY <1>1, ResendOk
<1> HIDE DEF y
<1>4. PlacesOk(y, {}, Spent)
  BY <1>3, PlacesMore
<1>5. AuthOk(y)
  BY <1>1, <1>3, SameAuth DEF SameQueues
<1> QED
  BY <1>2, <1>3, <1>4, <1>5, RetriesOk

LEMMA SendRequestsOk ==
    ASSUME InstanceInv, NEW r \in Requests, Send(r)
    PROVE  InstanceInv'
<1> DEFINE id == <<"user", r>>
           after == <<"user", AfterOf[r]>>
<1>1. PICK place \in {ToMain(inst)} \cup {To(s) : s \in DcSessions} :
        inst' = sendRequest(inst, id, place, after)
  BY DEF Send
<1>2. /\ id \notin DOMAIN inst.byDc /\ answered[r] = 0 /\ r \notin gone
      /\ UNCHANGED <<answered, gone, errors>>
  BY DEF Send
<1>3. id \in User /\ id \in Ids /\ id \notin Spent
  BY <1>2 DEF User, Ids, Spent
<1>4. place \in Place
  <2>1. ToMain(inst) \in Place
    BY InstanceAssumption DEF InstanceInv, InstOk, ToMain, Place
  <2>2. \A s \in DcSessions : To(s) \in Place
    BY DEF To, Place, DcSessions, Bare
  <2> QED
    BY <2>1, <2>2
<1>5. /\ InstOk(inst) /\ PlacesOk(inst, {}, Spent) /\ AuthOk(inst)
      /\ Nowhere(inst, id)
  BY <1>2, <1>3 DEF InstanceInv, PlacesOk
<1> HIDE DEF id, after
<1>6. /\ InstOk(inst') /\ PlacesOk(inst', {}, Spent) /\ SameQueues(inst, inst')
      /\ DOMAIN inst'.byDc = DOMAIN inst.byDc \cup {id}
      /\ \A x \in DOMAIN inst.byDc : inst'.byDc[x] = inst.byDc[x]
  BY <1>1, <1>2, <1>3, <1>4, <1>5, SendRequestOk
<1>7. \A d \in Dcs : Export(d) # id /\ Import(d) # id
  BY <1>3, AuthIds
<1>8. AuthOk(inst')
  BY <1>5, <1>6, <1>7, AuthSame DEF SameQueues
<1>9. Spent' = Spent
  BY <1>2 DEF Spent
<1> QED
  BY <1>2, <1>6, <1>8, <1>9 DEF InstanceInv

LEMMA CancelOk ==
    ASSUME InstanceInv, NEW r \in Requests, Cancel(r)
    PROVE  InstanceInv'
<1> DEFINE id == <<"user", r>>
           i == unregisterRequest(inst, id)
           session == qAbs(inst.byDc[id])
           h == [i.held EXCEPT ![session] = @ \ {id}]
           p == i.parser \ {id}
           j == inst'
<1>1. /\ id \in DOMAIN inst.byDc /\ id \in User /\ id \in Ids
      /\ gone' = gone \cup {r} /\ answered' = answered
  BY DEF Cancel, User, Ids
<1>2. j = [i EXCEPT !.held = h, !.parser = p]
  BY DEF Cancel
<1>3. InstOk(inst) /\ AuthOk(inst) /\ PlacesOk(inst, {id}, Spent)
  BY PlacesMore DEF InstanceInv
<1>4. session \in AllSessions
  BY <1>1, <1>3, SessionOf DEF InstOk
<1>s. Spent' = Spent \cup {id}
  BY <1>1 DEF Spent, User
<1> HIDE DEF id, session
<1>5. InstOk(i) /\ PlacesOk(i, {}, Spent \cup {id}) /\ AuthOk(i) /\ IsInst(i)
  BY <1>1, <1>3, UnregOk, UnregUser DEF InstOk
<1>6. DOMAIN i.byDc = DOMAIN inst.byDc \ {id}
  BY <1>3, UnregFact
<1> HIDE DEF i
<1>7. /\ h \in [AllSessions -> SUBSET Ids]
      /\ \A x : x # id => \A s \in AllSessions : x \in h[s] <=> x \in i.held[s]
  BY <1>4, <1>5 DEF InstOk
<1> HIDE DEF h, p, j
<1>8. /\ IsInst(j) /\ j.held = h /\ j.byDc = i.byDc /\ j.lost = i.lost
      /\ j.main = i.main /\ SameQueues(i, j)
  BY <1>2, <1>5 DEF IsInst, SameQueues
<1>9. InstOk(j)
  BY <1>5, <1>7, <1>8 DEF InstOk, SameQueues
<1>10. ASSUME NEW x, x # id
       PROVE  (Nowhere(j, x) <=> Nowhere(i, x)) /\ (Once(j, x) <=> Once(i, x))
  <2>1. \A s \in AllSessions : x \in j.held[s] <=> x \in i.held[s]
    BY <1>7, <1>8, <1>10
  <2> QED
    BY <2>1, <1>8 DEF Once, Nowhere, IsHeld, IsDelayed, IsWaiter, SameQueues
<1>11. PlacesOk(j, {}, Spent \cup {id})
  BY <1>5, <1>6, <1>8, <1>10 DEF PlacesOk, Kept, SameQueues
<1>12. AuthOk(j)
  BY <1>5, <1>8, SameAuth DEF SameQueues
<1> QED
  BY <1>1, <1>s, <1>9, <1>11, <1>12 DEF InstanceInv, j

-----------------------------------------------------------------------------
LEMMA InstanceInitOk ==
    ASSUME InstanceInit
    PROVE  InstanceInv
<1>1. PICK d \in Dcs :
        inst = [byDc |-> <<>>, parser |-> {}, after |-> <<>>,
                dependent |-> <<>>, delays |-> <<>>, delayed |-> <<>>,
                waiters |-> [e \in Dcs |-> <<>>], exports |-> <<>>,
                badGuest |-> {}, main |-> d,
                held |-> [s \in AllSessions |-> {}], lost |-> {}]
  BY DEF InstanceInit
<1>2. answered \in [Requests -> Nat]
  BY DEF InstanceInit
<1>3. /\ inst.byDc = <<>> /\ inst.dependent = <<>> /\ inst.delays = <<>>
      /\ inst.delayed = <<>> /\ inst.waiters = [e \in Dcs |-> <<>>]
      /\ inst.main = d /\ inst.held = [s \in AllSessions |-> {}]
      /\ IsInst(inst)
  BY <1>1 DEF IsInst
<1>4. /\ DOMAIN inst.byDc = {} /\ DOMAIN inst.dependent = {}
      /\ DOMAIN inst.delays = {} /\ DOMAIN inst.delayed = {}
      /\ \A e \in Dcs : inst.waiters[e] = <<>> /\ DOMAIN inst.waiters[e] = {}
      /\ \A s \in AllSessions : inst.held[s] = {}
  BY <1>3
<1>5. InstOk(inst)
  <2>1. <<>> \in Seq(Delay) /\ <<>> \in Seq(User)
    OBVIOUS
  <2>2. inst.waiters \in [Dcs -> Seq(User)] /\ inst.delayed \in Seq(Delay)
    BY <1>3, <2>1
  <2>3. inst.held \in [AllSessions -> SUBSET Ids]
    BY <1>3
  <2> QED
    BY <1>3, <1>4, <2>2, <2>3 DEF InstOk
<1>6. \A x : Nowhere(inst, x)
  BY <1>4 DEF Nowhere, IsHeld, IsDelayed, IsWaiter
<1>7. PlacesOk(inst, {}, Spent)
  BY <1>4, <1>6 DEF PlacesOk
<1>8. AuthOk(inst)
  BY <1>4 DEF AuthOk
<1> QED
  BY <1>2, <1>5, <1>7, <1>8 DEF InstanceInv

LEMMA InstanceNextOk ==
    ASSUME InstanceInv, "authFail" \notin Kinds, [InstanceNext]_instanceVars
    PROVE  InstanceInv'
<1>1. CASE Tick
  BY <1>1, TickOk
<1>2. ASSUME NEW r \in Requests, Send(r) \/ Cancel(r)
      PROVE  InstanceInv'
  BY <1>2, SendRequestsOk, CancelOk
<1>3. ASSUME NEW session \in DcSessions, NEW id \in Ids, Answer(session, id)
      PROVE  InstanceInv'
  <2>1. CASE Done(session, id)
    BY <2>1, DoneOk
  <2>2. CASE Failed(session, id)
    BY <2>2, FailedOk
  <2>3. ASSUME NEW d \in Dcs, Migrate(session, id, d)
        PROVE  InstanceInv'
    BY <2>3, MigrateOk
  <2>4. CASE MsgWait(session, id)
    BY <2>4, MsgWaitOk
  <2>5. CASE ServerError(session, id)
    BY <2>5, ServerErrorOk
  <2>6. ASSUME NEW secs \in 1 .. 2, FloodWait(session, id, secs)
        PROVE  InstanceInv'
    <3>1. secs \in Int
      OBVIOUS
    <3> QED
      BY <2>6, <3>1, FloodWaitOk
  <2>7. CASE Unauthorized(session, id)
    BY <2>7, UnauthorizedOk
  <2>8. CASE BadGuestDc(session, id)
    BY <2>8, BadGuestDcOk
  <2>9. CASE NotInited(session, id)
    BY <2>9, NotInitedOk
  <2> QED
    BY <1>3, <2>1, <2>2, <2>3, <2>4, <2>5, <2>6, <2>7, <2>8, <2>9 DEF Answer
<1>4. CASE UNCHANGED instanceVars
  <2>1. inst' = inst /\ answered' = answered /\ gone' = gone
    BY <1>4 DEF instanceVars
  <2>2. Spent' = Spent
    BY <2>1 DEF Spent
  <2>3. InstOk(inst') /\ PlacesOk(inst', {}, Spent') /\ AuthOk(inst')
    BY <2>1, <2>2 DEF InstanceInv
  <2> QED
    BY <2>1, <2>3 DEF InstanceInv
<1> QED
  BY <1>1, <1>2, <1>3, <1>4 DEF InstanceNext

(* A set without two elements.                                             *)
LEMMA AtMostOne ==
    ASSUME NEW S, \A x, y \in S : x = y
    PROVE  /\ S = {} => Cardinality(S) = 0
           /\ S # {} => Cardinality(S) = 1
<1>1. S = {} => Cardinality(S) = 0
  BY FS_EmptySet
<1>2. ASSUME NEW x \in S
      PROVE  Cardinality(S) = 1
  <2>1. S = {x}
    OBVIOUS
  <2> QED
    BY <2>1, FS_Singleton
<1> QED
  BY <1>1, <1>2

LEMMA OnePlaceFrom ==
    ASSUME InstanceInv
    PROVE  OnePlace
<1> SUFFICES ASSUME NEW id \in DOMAIN inst.byDc
             PROVE
        LET places == Cardinality(Held(id)) + Cardinality(Delays(id))
                        + Cardinality(Waits(id))
                        + Cardinality({id} \cap DOMAIN inst.dependent)
        IN  /\ places <= 1
            /\ id \notin inst.lost =>
                 /\ places = 1
                 /\ id \in DOMAIN inst.dependent =>
                        inst.dependent[id] \in DOMAIN inst.byDc
                 /\ \A w \in Waits(id) : Importing(w[1])
  BY Zenon DEF OnePlace
<1> DEFINE a == Cardinality(Held(id))
           b == Cardinality(Delays(id))
           c == Cardinality(Waits(id))
           e == Cardinality({id} \cap DOMAIN inst.dependent)
<1>1. Kept(inst, id) /\ Once(inst, id)
  BY DEF InstanceInv, PlacesOk, Kept
<1>2. /\ IsHeld(inst, id) <=> Held(id) # {}
      /\ \A s, t \in Held(id) : s = t
  BY <1>1 DEF Once, Held, IsHeld
<1>3. /\ IsDelayed(inst, id) <=> Delays(id) # {}
      /\ \A m, n \in Delays(id) : m = n
  BY <1>1 DEF Once, Delays, IsDelayed
<1>4. \A w : w \in Waits(id) <=>
        \E d \in Dcs : \E n \in DOMAIN inst.waiters[d] :
          w = <<d, n>> /\ inst.waiters[d][n] = id
  BY DEF Waits
<1>5. /\ IsWaiter(inst, id) <=> Waits(id) # {}
      /\ \A v, w \in Waits(id) : v = w
  <2>1. IsWaiter(inst, id) <=> Waits(id) # {}
    BY <1>4 DEF IsWaiter
  <2>2. ASSUME NEW v \in Waits(id), NEW w \in Waits(id)
        PROVE  v = w
    <3>1. PICK d \in Dcs : \E n \in DOMAIN inst.waiters[d] :
            v = <<d, n>> /\ inst.waiters[d][n] = id
      BY <1>4
    <3>2. PICK n \in DOMAIN inst.waiters[d] :
            v = <<d, n>> /\ inst.waiters[d][n] = id
      BY <3>1
    <3>3. PICK f \in Dcs : \E m \in DOMAIN inst.waiters[f] :
            w = <<f, m>> /\ inst.waiters[f][m] = id
      BY <1>4
    <3>4. PICK m \in DOMAIN inst.waiters[f] :
            w = <<f, m>> /\ inst.waiters[f][m] = id
      BY <3>3
    <3>5. d = f /\ m = n
      BY <1>1, <3>2, <3>4 DEF Once
    <3> QED
      BY <3>2, <3>4, <3>5
  <2> QED
    BY <2>1, <2>2
<1>6. a = (IF IsHeld(inst, id) THEN 1 ELSE 0)
  BY <1>2, AtMostOne
<1>7. b = (IF IsDelayed(inst, id) THEN 1 ELSE 0)
  BY <1>3, AtMostOne
<1>8. c = (IF IsWaiter(inst, id) THEN 1 ELSE 0)
  BY <1>5, AtMostOne
<1>9. e = (IF id \in DOMAIN inst.dependent THEN 1 ELSE 0)
  <2>1. CASE id \in DOMAIN inst.dependent
    <3>1. {id} \cap DOMAIN inst.dependent = {id}
      BY <2>1
    <3> QED
      BY <2>1, <3>1, FS_Singleton
  <2>2. CASE id \notin DOMAIN inst.dependent
    <3>1. {id} \cap DOMAIN inst.dependent = {}
      BY <2>2
    <3> QED
      BY <2>2, <3>1, FS_EmptySet
  <2> QED
    BY <2>1, <2>2
<1> HIDE DEF a, b, c, e
<1>10. a + b + c + e <= 1
  BY <1>1, <1>6, <1>7, <1>8, <1>9 DEF Once
<1>11. id \notin inst.lost => a + b + c + e = 1
  BY <1>1, <1>6, <1>7, <1>8, <1>9 DEF Once, Kept, Nowhere
<1>12. \A w \in Waits(id) : Importing(w[1])
  <2>1. ASSUME NEW d \in Dcs, NEW n \in DOMAIN inst.waiters[d]
        PROVE  Importing(d)
    <3>1. inst.waiters[d] \in Seq(User)
      BY DEF InstanceInv, InstOk
    <3>2. inst.waiters[d] # <<>>
      BY <2>1, <3>1
    <3> QED
      BY <3>2 DEF InstanceInv, AuthOk, Importing
  <2> QED
    BY <1>4, <2>1
<1> QED
  BY <1>1, <1>10, <1>11, <1>12 DEF Kept, a, b, c, e

(* InstanceInv is inductive: unless the server refuses to export or to     *)
(* import an authorization, every request whose data the instance keeps is *)
(* at most at one of the places that rpcErrorOccured() can leave it at.    *)
THEOREM AlwaysInstanceInv ==
    ASSUME "authFail" \notin Kinds
    PROVE  InstanceSpec => []InstanceInv
<1>1. InstanceInit => InstanceInv
  BY InstanceInitOk
<1>2. InstanceInv /\ [InstanceNext]_instanceVars => InstanceInv'
  BY InstanceNextOk
<1> QED
  BY <1>1, <1>2, PTL DEF InstanceSpec

(* A request whose data is kept is in exactly one session, in the list of  *)
(* the delayed ones, with the waiters of an authorization that is on its   *)
(* way, or behind a request that is still known, unless the session that   *)
(* had it was killed. It is neither sent twice nor forgotten.              *)
THEOREM OnePlaceAlways ==
    ASSUME "authFail" \notin Kinds
    PROVE  InstanceSpec => []OnePlace
<1>1. InstanceInv => OnePlace
  BY OnePlaceFrom
<1> QED
  BY <1>1, AlwaysInstanceInv, PTL
=============================================================================
