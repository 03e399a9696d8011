----------------------------- MODULE SharedMedia -----------------------------
(***************************************************************************)
(* One kind of shared media of one chat: the server's messages, the        *)
(* updates and answers on their way, the list of Storage::SharedMedia      *)
(* (SparseIdsList), the requests of ApiWrap and one open viewer            *)
(* (SliceBuilder).                                                         *)
(*                                                                         *)
(* updates and answers are what the server has sent and the client has not *)
(* handled.  Updates are handled in order.  With InOrder an answer is      *)
(* handled after the updates sent before it and before the ones sent after *)
(* it; otherwise they overtake each other, as when updates wait in a       *)
(* PtsWaiter.                                                              *)
(***************************************************************************)
EXTENDS SliceBuilder, Sequences

CONSTANTS
    Seed,         \* the media at the start is a subset of 1..Seed
    Limit,        \* kSharedMediaLimit; even
    Keys,         \* keys a viewer is opened with
    InOrder,      \* see above
    LateAnswers,  \* may an answer be under way when updates are skipped?
    MaxNews, MaxDeletes, MaxClears, MaxSkips, MaxFails, MaxOpens

ASSUME MediaAssumption ==
    /\ Seed \in Nat /\ Seed + MaxNews < Top
    /\ Limit \in Nat \ {0}
    /\ Keys \subseteq 0..(Top - 1)
    /\ InOrder \in BOOLEAN /\ LateAnswers \in BOOLEAN
    /\ {MaxNews, MaxDeletes, MaxClears, MaxSkips, MaxFails, MaxOpens}
           \subseteq Nat

VARIABLES
    media,     \* server: ids of the messages of this kind
    spent,     \* how often each bounded step was taken
    updates,   \* sequence of updates from the server
    sent,      \* how many updates the server has sent
    answers,   \* answers of the server; after: the updates sent before it
    enforced,  \* SharedMedia::_lists has an entry for the peer
    list,      \* SparseIdsList
    loaded,    \* ids with a HistoryItem in the client
    requests,  \* ApiWrap::_sharedMediaRequests
    opened,    \* is a viewer open?
    builder    \* its SparseIdsSliceBuilder

vars == <<media, spent, updates, sent, answers, enforced, list, loaded,
          requests, opened, builder>>
client == <<enforced, list, loaded, requests, opened, builder>>

Steps == {"new", "delete", "clear", "skip", "fail", "open"}
Bound == [new |-> MaxNews, delete |-> MaxDeletes, clear |-> MaxClears,
          skip |-> MaxSkips, fail |-> MaxFails, open |-> MaxOpens]
Spend(step) == spent[step] < Bound[step]
                  /\ spent' = [spent EXCEPT ![step] = @ + 1]

Update(kind, id) == [kind |-> kind, id |-> id]

Handled == sent - Len(updates)

Init ==
    /\ media \in SUBSET (1..Seed)
    /\ spent = [s \in Steps |-> 0]
    /\ updates = <<>> /\ sent = 0 /\ answers = {}
    /\ enforced = FALSE
    /\ list = EmptyList
    /\ loaded = {}
    /\ requests = {}
    /\ opened = FALSE
    /\ builder = Builder(0)

-----------------------------------------------------------------------------
(* The server.                                                             *)

Send(u) ==
    /\ updates' = Append(updates, u)
    /\ sent' = sent + 1
    /\ UNCHANGED answers

ServerNew ==
    LET id == Seed + spent["new"] + 1
    IN  /\ Spend("new")
        /\ media' = media \cup {id}
        /\ Send(Update("new", id))
        /\ UNCHANGED client

ServerDelete(id) ==
    /\ id \in media
    /\ Spend("delete")
    /\ media' = media \ {id}
    /\ Send(Update("delete", id))
    /\ UNCHANGED client

(* messages.unpinAllMessages for the pinned messages.                      *)
ServerClear ==
    /\ Spend("clear")
    /\ media' = {}
    /\ Send(Update("clear", 0))
    /\ UNCHANGED client

(* What messages.search returns for the offset and the limit of            *)
(* PrepareSearchRequest: without an id only the count.                     *)
found(r) ==
    LET below == {m \in media : m < r.around}
        above == {m \in media : m > r.around}
        atOrAbove == {m \in media : m >= r.around}
    IN  CASE r.around = 0 -> {}
          [] r.around # 0 /\ r.direction = "Before" -> LastOf(below, Limit)
          [] r.around # 0 /\ r.direction = "After" -> FirstOf(above, Limit)
          [] OTHER -> FirstOf(atOrAbove, Limit \div 2)
                          \cup LastOf(below, Limit - Limit \div 2)

Unserved(r) == r \in requests /\ \A a \in answers : a.req # r

Reply(r) == [req |-> r, ids |-> found(r), count |-> Some(Cardinality(media)),
             after |-> sent]

Serve(r) ==
    /\ Unserved(r)
    /\ answers' = answers \cup {Reply(r)}
    /\ UNCHANGED <<media, spent, updates, sent, client>>

-----------------------------------------------------------------------------
(* The client.                                                             *)

(* ApiWrap::requestSharedMedia for what the builder fires.                 *)
requestSharedMedia(asked, asks) == requests' = asked \cup asks

(* The viewer's builder after an operation on it, and its requests.        *)
ViewerDoes(result, asked) ==
    IF opened
    THEN builder' = result.builder /\ requestSharedMedia(asked, result.asks)
    ELSE UNCHANGED builder /\ requests' = asked

(* SharedMedia::add: the list fires sliceUpdated, the viewer applies it.   *)
add(result, asked) ==
    /\ enforced' = TRUE
    /\ list' = result.list
    /\ ViewerDoes(applyUpdate(builder, result.update), asked)

(* HistoryItem::indexAsNewItem.                                            *)
ApplyNew(u) ==
    /\ add(addNew(list, u.id), requests)
    /\ loaded' = loaded \cup {u.id}

(* processMessagesDeleted and History::destroyMessage; a message without   *)
(* an item only concerns the chat list.                                    *)
ApplyDelete(u) ==
    /\ loaded' = loaded \ {u.id}
    /\ UNCHANGED enforced
    /\ IF u.id \in loaded /\ enforced
       THEN /\ list' = removeOne(list, u.id)
            /\ ViewerDoes(removeFromBuilder(builder, u.id), requests)
       ELSE UNCHANGED <<list, builder, requests>>

(* History::unpinAllMessages; builder.removeAll asks nothing.              *)
ApplyClear ==
    /\ UNCHANGED <<enforced, loaded>>
    /\ IF enforced
       THEN /\ list' = removeAll
            /\ ViewerDoes([builder |-> removeAllFromBuilder(builder),
                           asks |-> {}], requests)
       ELSE UNCHANGED <<list, builder, requests>>

(* Mutant of noSkipRange: an answer that has nothing says nothing.         *)
NoSkipRangeAsIs(r, ids) ==
    [from |-> Least(ids \cup {r.around}), till |-> Greatest(ids \cup {r.around})]

(* ParseSearchResult.                                                      *)
noSkipRange(r, ids) ==
    [from |-> IF ids = {} /\ r.around # 0 /\ r.direction # "After" THEN 0
              ELSE Least(ids \cup {r.around}),
     till |-> IF ids = {} /\ r.around # 0 /\ r.direction # "Before" THEN Top
              ELSE Greatest(ids \cup {r.around})]

(* The done handler: the request is forgotten before the answer is added.  *)
ReceiveAnswer(a) ==
    LET range == noSkipRange(a.req, a.ids)
    IN  /\ InOrder => a.after <= Handled
        /\ answers' = answers \ {a}
        /\ add(addSlice(list, a.ids, range.from, range.till, a.count),
               requests \ {a.req})
        /\ loaded' = loaded \cup a.ids
        /\ UNCHANGED <<media, spent, updates, sent, opened>>

(* The client handles an update.                                           *)
ReceiveUpdate ==
    LET u == Head(updates)
    IN  /\ updates # <<>>
        /\ InOrder => \A a \in answers : a.after > Handled
        /\ updates' = Tail(updates)
        /\ \/ u.kind = "new" /\ ApplyNew(u)
           \/ u.kind = "delete" /\ ApplyDelete(u)
           \/ u.kind = "clear" /\ ApplyClear
        /\ UNCHANGED <<media, spent, sent, answers, opened>>

(* A request fails: nothing asks again until the builder changes.          *)
Fail(r) ==
    /\ Unserved(r)
    /\ Spend("fail")
    /\ requests' = requests \ {r}
    /\ UNCHANGED <<media, updates, sent, answers, enforced, list, loaded,
                   opened, builder>>

(* updates.channelDifferenceTooLong: the updates are skipped,              *)
(* History::setNotLoadedAtBottom.                                          *)
SkipUpdates ==
    /\ LateAnswers \/ answers = {}
    /\ Spend("skip")
    /\ updates' = <<>>
    /\ IF enforced
       THEN /\ list' = invalidateBottom(list)
            /\ ViewerDoes(invalidateBuilder(builder), requests)
       ELSE UNCHANGED <<list, builder, requests>>
    /\ UNCHANGED <<media, sent, answers, enforced, loaded, opened>>

(* Mutant of openBuilder: the viewer does not check what is missing.       *)
OpenBuilderContent(key) ==
    LET q == query(list, key, LimitBefore, LimitAfter)
    IN  [builder |-> applyInitial(Builder(key), q).builder, asks |-> {}]

(* SharedMediaViewer: the builder takes what the list has, if it has       *)
(* anything, and asks for the rest.                                        *)
openBuilder(key) ==
    LET q == query(list, key, LimitBefore, LimitAfter)
        first == IF Around(list, key) # {} \/ list.count # None
                 THEN applyInitial(Builder(key), q)
                 ELSE [builder |-> Builder(key), asks |-> {}]
        last == sliceToLimits(first.builder)
    IN  [builder |-> last.builder, asks |-> first.asks \cup last.asks]

OpenViewer(key) ==
    /\ Spend("open")
    /\ opened' = TRUE
    /\ builder' = openBuilder(key).builder
    /\ requestSharedMedia(requests, openBuilder(key).asks)
    /\ UNCHANGED <<media, updates, sent, answers, enforced, list, loaded>>

Next ==
    \/ ServerNew
    \/ \E id \in media : ServerDelete(id)
    \/ ServerClear
    \/ \E r \in requests : Serve(r) \/ Fail(r)
    \/ ReceiveUpdate
    \/ \E a \in answers : ReceiveAnswer(a)
    \/ SkipUpdates
    \/ \E key \in Keys : OpenViewer(key)

Spec == Init /\ [][Next]_vars

(* The server answers and the network delivers.  Only what the actions do  *)
(* to updates and answers is written: it is enabled when they are.         *)
Served == \E r \in requests : Unserved(r) /\ answers' = answers \cup {Reply(r)}
Delivered ==
    \/ /\ updates # <<>> /\ updates' = Tail(updates) /\ answers' = answers
       /\ InOrder => \A a \in answers : a.after > Handled
    \/ \E a \in answers : /\ InOrder => a.after <= Handled
                           /\ answers' = answers \ {a}
                           /\ updates' = updates

Fairness == WF_answers(Served) /\ WF_<<updates, answers>>(Delivered)

FairSpec == Spec /\ Fairness

-----------------------------------------------------------------------------
Ids == 1..(Top - 1)
Directions == {"Before", "Around", "After"}

(* What the binary searches of SparseIdsList rely on: two slices never     *)
(* meet, and a slice's messages lie inside its range.                      *)
SlicesApart ==
    \A s \in list.slices :
        /\ 0 <= s.from /\ s.from <= s.till /\ s.till <= Top
        /\ \A m \in s.messages : s.from <= m /\ m <= s.till
        /\ \A t \in list.slices :
               s = t \/ s.till < t.from \/ t.till < s.from

Announced ==
    {updates[i].id : i \in {j \in DOMAIN updates : updates[j].kind = "new"}}

(* None of these things has happened so far.                               *)
Without(kinds) == \A k \in kinds : spent[k] = 0

(* Messages were deleted or updates were skipped, not both: the list never *)
(* learns of a deletion that was skipped, and keeps the message.           *)
Orderly == Without({"skip"}) \/ Without({"delete", "clear"})

(* A slice has every message of the server inside its range, except the    *)
(* ones whose update has not been handled.                                 *)
NothingMissed ==
    Orderly =>
        \A s \in list.slices : \A m \in media \ Announced :
            s.from <= m /\ m <= s.till => m \in s.messages

(* Nothing is asked and nothing is under way; no request has failed, since *)
(* nothing asks again for what failed.                                     *)
Settled ==
    opened /\ requests = {} /\ updates = <<>> /\ Without({"fail"})

Below == {m \in media : m < builder.key}
AtOrAbove == {m \in media : m >= builder.key}
Wanted == LastOf(Below, LimitBefore) \cup FirstOf(AtOrAbove, LimitAfter + 1)

(* A viewer without a key asks for the count alone; the next one takes an  *)
(* empty list for the whole, and misses a message that comes above its key.*)
CountedFirst == 0 \in Keys /\ spent["open"] > 1

(* Once nothing is asked and nothing is under way, the viewer shows what   *)
(* the server has around the key. The full count is right too, though      *)
(* messages have come meanwhile, and so is what is skipped on either side, *)
(* if nothing has changed on the server.                                   *)
WindowRight ==
    Settled =>
        /\ Orderly /\ builder.key # 0 /\ ~CountedFirst => builder.ids = Wanted
        /\ Without({"delete", "clear"}) =>
              builder.full = Some(Cardinality(media))
        /\ Without({"new", "delete", "clear", "skip"}) /\ builder.key # 0 =>
              /\ builder.before \in {None, Some(Cardinality(Below \ Wanted))}
              /\ builder.after \in {None, Some(Cardinality(AtOrAbove \ Wanted))}

(* A viewer that is open settles: the requests it makes end, unless one of *)
(* them fails or messages are deleted under its hands.                     *)
EventuallySettled == opened ~> Settled \/ ~Without({"fail", "delete"})
=============================================================================
