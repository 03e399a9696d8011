--------------------------- MODULE TransferProofs ---------------------------
(***************************************************************************)
(* Proofs about Upload and Download, for any files, sessions, sizes and    *)
(* any order of what happens.                                              *)
(*                                                                         *)
(* Upload: that an announced file is whole is not inductive.  Covered adds *)
(* what holds while it is uploaded, that every part which was taken from   *)
(* it is saved or on its way.  It rests on RequestsOfCurrent: a file that  *)
(* is not the current one has nothing on its way.                          *)
(*                                                                         *)
(* Download: a handler is a function of a task and its manager, with the   *)
(* loops over the requests in closed form.  Each operation has two lemmas, *)
(* one about the balance (Good: what the sessions wait for is what this    *)
(* task has in flight plus the rest) and one about the task (Pend: what    *)
(* has become of each part, but for those the handler has in its hands).   *)
(* DownloadInv is the inductive invariant: TasksOk says of a file that     *)
(* every part below the next one to ask for is fed, put aside or in        *)
(* flight, in just one of these ways while the token of the CDN is valid;  *)
(* QueueOk that a task with requests is in the queue of its data center,   *)
(* without which removeSession would not reach them; Balanced and KillOk   *)
(* are about the numbers of the sessions and the timer that stops them.    *)
(***************************************************************************)
EXTENDS UploadSizes, Download, WellFoundedInduction, FiniteSetTheorems, TLAPS

-----------------------------------------------------------------------------
(* Upload *)

Files(id) ==
    [id : {id}, taken : 0 .. Len(PartsOf[id]), docSentParts : 0 .. Count(id),
     real : RealSizes \cup {SizeOf[id]}, saved : SUBSET Requests]

IsPart(r, id, n) == r.id = id /\ r.kind = "part" /\ r.n = n
IsDoc(r, id, n) ==
    /\ r.id = id /\ r.kind = "doc" /\ r.n = n
    /\ n + 1 = Count(id) \/ r.len = docPartSize(SizeOf[id])

CoveredBy(file, out) ==
    /\ \A n \in 1 .. file.taken :
         \E r \in file.saved \cup out : IsPart(r, file.id, n)
    /\ \A n \in 0 .. file.docSentParts - 1 :
         \E r \in file.saved \cup out : IsDoc(r, file.id, n)

Covered == \A id \in DOMAIN queue : CoveredBy(queue[id], requests)

Inv == TypeOK /\ RequestsOfCurrent /\ Covered /\ ReadyIsWhole /\ StopsIdle

-----------------------------------------------------------------------------
(* The sizes *)

LEMMA PartSizeType ==
    ASSUME NEW s
    PROVE  docPartSize(s) \in Nat \ {0}
BY PartsAssumption DEF docPartSize

LEMMA PartsCountType ==
    ASSUME NEW s \in Nat, NEW part \in Nat \ {0}
    PROVE  PartsCount(s, part) \in Nat
<1>1. s \div part \in Int /\ (s % part) \in 0 .. part - 1
      /\ s = part * (s \div part) + (s % part)
  OBVIOUS
<1> DEFINE q == s \div part
           m == s % part
<1>2. q \in Int /\ m \in Int /\ m < part /\ s = part * q + m
  BY <1>1
<1> HIDE DEF q, m
<1>3. q >= 0
  <2> SUFFICES ASSUME q <= -1 PROVE FALSE
    BY <1>2
  <2>1. part * q <= part * (-1)
    BY <1>2
  <2> QED
    BY <1>2, <2>1
<1> QED
  BY <1>2, <1>3 DEF PartsCount, q, m

LEMMA CountType ==
    ASSUME NEW id \in Ids
    PROVE  Count(id) \in Nat /\ Len(PartsOf[id]) \in Nat
<1>1. SizeOf[id] \in Nat /\ PartsOf[id] \in Seq(Nat)
  BY UploadAssumption
<1> QED
  BY <1>1, PartSizeType, PartsCountType DEF Count, docPartsCount

LEMMA RealSizeType ==
    ASSUME NEW id \in Ids, NEW x \in RealSizes \cup {SizeOf[id]}
    PROVE  x \in Int
<1>1. CASE x \in RealSizes
  BY <1>1, UploadAssumption
<1>2. CASE x = SizeOf[id]
  <2>1. SizeOf[id] \in Nat
    BY UploadAssumption
  <2> QED
    BY <1>2, <2>1
<1> QED
  BY <1>1, <1>2

(* The parts cover the document and none of them is empty. *)
LEMMA PartsAreEnough ==
    ASSUME NEW s \in Nat, NEW part \in Nat \ {0}
    PROVE  /\ PartsCount(s, part) * part >= s
           /\ s > 0 => (PartsCount(s, part) - 1) * part < s
<1> DEFINE q == s \div part
           m == s % part
<1>1. q \in Int /\ m \in 0 .. part - 1 /\ s = part * q + m
  OBVIOUS
<1>2. PartsCount(s, part) = IF m # 0 THEN q + 1 ELSE q
  BY <1>1 DEF PartsCount
<1> HIDE DEF q, m
<1>3. (q + 1) * part = part * q + part /\ (q - 1) * part = part * q - part
      /\ q * part = part * q
  BY <1>1
<1> QED
  BY <1>1, <1>2, <1>3

-----------------------------------------------------------------------------
(* The current file *)

LEMMA MinOfNats ==
    ASSUME NEW T, T \subseteq Nat, T # {}
    PROVE  Min(T) \in T
<1>1. PICK x \in T : \A y \in T : ~ (<<y, x>> \in OpToRel(<, Nat))
  BY NatLessThanWellFounded, WFMin
<1>2. \A y \in T : x <= y
  <2> TAKE y \in T
  <2>1. x \in Nat /\ y \in Nat /\ ~ (<<y, x>> \in OpToRel(<, Nat))
    BY <1>1
  <2>2. ~ (y < x)
    BY <2>1 DEF OpToRel
  <2>3. x \in Nat /\ y \in Nat
    BY <2>1
  <2> QED
    BY <2>2, <2>3
<1> QED
  BY <1>2 DEF Min

LEMMA CurrentQueued ==
    ASSUME TypeOK, RequestsOfCurrent, DOMAIN queue # {}
    PROVE  /\ Current \in DOMAIN queue /\ Current \in Ids
           /\ queue[Current] \in Files(Current)
           /\ \A r \in requests : r.id = Current
           /\ uploadingId \in DOMAIN queue => Current = uploadingId
<1>1. DOMAIN queue \subseteq Ids /\ DOMAIN queue \subseteq Nat
  BY UploadAssumption DEF TypeOK
<1>2. Min(DOMAIN queue) \in DOMAIN queue
  BY <1>1, MinOfNats
<1>3. Current \in DOMAIN queue
  BY <1>2 DEF Current
<1>4. queue[Current] \in Files(Current)
  BY <1>3 DEF TypeOK, Files
<1> QED
  BY <1>1, <1>3, <1>4 DEF Current, RequestsOfCurrent

(* What is taken off the queue changes nothing for the others. *)
LEMMA WithoutQueue ==
    ASSUME TypeOK, NEW x, NEW q, q = Without(queue, x)
    PROVE  /\ DOMAIN q = DOMAIN queue \ {x}
           /\ \A id \in DOMAIN q : q[id] = queue[id] /\ q[id] \in Files(id)
BY DEF Without, TypeOK, Files

(* The counters and timers that have types of their own. *)
Rest ==
    /\ sentSize \in Int /\ sentSizes \in [Dcs -> Int]
    /\ uploadingId \in Ids \cup {None} /\ pausedId \in Ids \cup {None}
    /\ nextTimer \in BOOLEAN /\ stopTimer \in BOOLEAN
    /\ calls \in 0 .. 2 /\ uploads \in 0 .. MaxUploads

(* cancelRequests() with a queue that has become smaller. *)
LEMMA Cancelled ==
    ASSUME Inv, cancelRequests,
           DOMAIN queue' \subseteq DOMAIN queue,
           \A id \in DOMAIN queue' : queue'[id] = queue[id] /\ id # uploadingId,
           uploadingId' = None, pausedId' \in {pausedId, None},
           nextTimer' = nextTimer, stopTimer' \in {stopTimer, FALSE},
           calls' \in 0 .. 2, uploads' = uploads, ready' = ready
    PROVE  Inv'
<1>1. /\ flying' = {} /\ requests' = {} /\ dcMap' = <<>>
      /\ sentSize' = 0 /\ sentSizes' = [dc \in Dcs |-> 0]
  BY DEF cancelRequests, Inv, RequestsOfCurrent
<1>2. DOMAIN dcMap' = {}
  BY <1>1
<1>3. TypeOK'
  <2>1. Rest
    BY DEF Inv, TypeOK, Rest
  <2>2. nextTimer' \in BOOLEAN /\ stopTimer' \in BOOLEAN
    BY <2>1 DEF Rest
  <2>3. sentSize' \in Int /\ sentSizes' \in [Dcs -> Int]
    BY <1>1
  <2>4. Rest'
    BY <2>1, <2>2, <2>3 DEF Rest
  <2> QED
    BY <1>1, <1>2, <2>4 DEF Inv, TypeOK, Rest
<1>4. RequestsOfCurrent'
  BY <1>1, <1>2 DEF RequestsOfCurrent
<1>5. Covered'
  <2> SUFFICES ASSUME NEW id \in DOMAIN queue'
               PROVE  CoveredBy(queue[id], {})
    BY <1>1 DEF Covered
  <2>1. CoveredBy(queue[id], requests) /\ queue[id].id = id
    BY DEF Inv, Covered, TypeOK
  <2>2. \A r \in requests : r.id # id
    BY DEF Inv, RequestsOfCurrent
  <2> QED
    BY <2>1, <2>2 DEF CoveredBy, IsPart, IsDoc
<1>6. ReadyIsWhole' /\ StopsIdle'
  BY <1>1 DEF Inv, ReadyIsWhole, StopsIdle, Whole
<1> QED
  BY <1>3, <1>4, <1>5, <1>6 DEF Inv

LEMMA PartCounted ==
    ASSUME NEW f \in [Dcs -> Int], NEW dc, NEW by \in Int
    PROVE  [f EXCEPT ![dc] = @ + by] \in [Dcs -> Int]
<1>1. \A x \in Dcs : [f EXCEPT ![dc] = @ + by][x] \in Int
  <2> TAKE x \in Dcs
  <2>1. CASE x = dc
    BY <2>1
  <2>2. CASE x # dc
    BY <2>2
  <2> QED
    BY <2>1, <2>2
<1> QED
  BY <1>1

LEMMA PartDiscounted ==
    ASSUME NEW f \in [Dcs -> Int], NEW dc, NEW by \in Int
    PROVE  [f EXCEPT ![dc] = @ - by] \in [Dcs -> Int]
<1>1. \A x \in Dcs : [f EXCEPT ![dc] = @ - by][x] \in Int
  <2> TAKE x \in Dcs
  <2>1. CASE x = dc
    BY <2>1
  <2>2. CASE x # dc
    BY <2>2
  <2> QED
    BY <2>1, <2>2
<1> QED
  BY <1>1

(* One part more is on its way, and it was taken from the current file. *)
LEMMA SentPart ==
    ASSUME Inv, Proceeds, NEW request \in Requests, request.id = Current,
           NEW file \in Files(Current),
           CoveredBy(file, requests \cup {request}),
           sendPart(request, file)
    PROVE  Inv'
<1>1. /\ Current \in DOMAIN queue /\ Current \in Ids
      /\ \A r \in requests : r.id = Current
  BY CurrentQueued DEF Inv, Proceeds
<1>2. /\ requests' = requests \cup {request} /\ flying' = flying \cup {request}
      /\ dcMap' = With(dcMap, request, todc)
      /\ queue' = [queue EXCEPT ![Current] = file]
      /\ uploadingId' = Current /\ stopTimer' = FALSE /\ nextTimer' = TRUE
      /\ sentSize' = sentSize + request.size
      /\ sentSizes' = [sentSizes EXCEPT ![todc] = @ + request.size]
      /\ calls' = calls - 1 /\ pausedId' = pausedId
      /\ uploads' = uploads /\ ready' = ready
  BY DEF sendPart
<1>3. DOMAIN dcMap' = DOMAIN dcMap \cup {request}
  BY <1>2 DEF With
<1>4. DOMAIN queue' = DOMAIN queue
      /\ \A id \in DOMAIN queue : queue'[id] = IF id = Current THEN file ELSE queue[id]
  BY <1>1, <1>2 DEF Inv, TypeOK
<1>5. Rest
  BY DEF Inv, TypeOK, Rest
<1>6. Rest'
  <2>1. request.size \in Nat
    BY DEF Requests
  <2>2. sentSize' \in Int /\ sentSizes' \in [Dcs -> Int]
    BY <1>2, <1>5, <2>1, PartCounted DEF Rest
  <2>3. calls' \in 0 .. 2
    BY <1>2, <1>5 DEF Rest, Proceeds
  <2>4. nextTimer' \in BOOLEAN /\ stopTimer' \in BOOLEAN
    BY <1>2
  <2> QED
    BY <1>1, <1>2, <1>5, <2>2, <2>3, <2>4 DEF Rest
<1>7. \A id \in DOMAIN queue' : queue'[id] \in Files(id)
  BY <1>4 DEF Inv, TypeOK, Files
<1>8. TypeOK'
  <2>1. DOMAIN queue' \subseteq Ids /\ requests' \subseteq Requests
        /\ flying' \subseteq Requests /\ DOMAIN dcMap' \subseteq Requests
    BY <1>2, <1>3, <1>4 DEF Inv, TypeOK
  <2> QED
    BY <1>6, <1>7, <2>1 DEF TypeOK, Rest, Files
<1>9. RequestsOfCurrent'
  BY <1>1, <1>2, <1>3, <1>4 DEF Inv, RequestsOfCurrent
<1>10. Covered'
  <2> SUFFICES ASSUME NEW id \in DOMAIN queue
               PROVE  CoveredBy(queue'[id], requests \cup {request})
    BY <1>2, <1>4 DEF Covered
  <2>1. CASE id = Current
    BY <2>1, <1>4
  <2>2. CASE id # Current
    <3>1. queue'[id] = queue[id] /\ CoveredBy(queue[id], requests)
      BY <1>4, <2>2 DEF Inv, Covered
    <3> QED
      BY <3>1 DEF CoveredBy
  <2> QED
    BY <2>1, <2>2
<1>11. ReadyIsWhole' /\ StopsIdle'
  BY <1>2 DEF Inv, ReadyIsWhole, StopsIdle, Whole
<1> QED
  BY <1>8, <1>9, <1>10, <1>11 DEF Inv

(* Steps that leave the queue and the requests alone. *)
LEMMA FileUntouched ==
    ASSUME Inv, Rest',
           UNCHANGED <<queue, requests, dcMap, flying, uploadingId, ready>>,
           stopTimer' => stopTimer \/ requests = {}
    PROVE  Inv'
<1>1. TypeOK'
  BY DEF Inv, TypeOK, Rest, Requests
<1>2. RequestsOfCurrent' /\ Covered' /\ ReadyIsWhole'
  BY DEF Inv, RequestsOfCurrent, Covered, ReadyIsWhole, Whole
<1>3. StopsIdle'
  BY DEF Inv, StopsIdle, RequestsOfCurrent
<1> QED
  BY <1>1, <1>2, <1>3 DEF Inv

-----------------------------------------------------------------------------
(* The actions *)

LEMMA SendPartInv ==
    ASSUME Inv, SendPart
    PROVE  Inv'
<1> DEFINE file == queue[Current]
           n == file.taken + 1
           size == PartsOf[Current][n]
           request == Request(Current, "part", n, size, size)
           next == [file EXCEPT !.taken = n]
<1>1. Proceeds /\ file.taken < Len(PartsOf[Current]) /\ sendPart(request, next)
  BY DEF SendPart
<1>2. /\ Current \in DOMAIN queue /\ Current \in Ids
      /\ file \in Files(Current)
  BY <1>1, CurrentQueued DEF Inv, Proceeds
<1>3. PartsOf[Current] \in Seq(Nat) /\ Len(PartsOf[Current]) \in Nat
  BY <1>2, UploadAssumption
<1>4. file.taken \in 0 .. Len(PartsOf[Current])
  BY <1>2 DEF Files
<1>5. n \in Nat /\ n \in 1 .. Len(PartsOf[Current])
  BY <1>1, <1>3, <1>4
<1>6. size \in Nat
  BY <1>3, <1>5
<1>7. request \in Requests /\ request.id = Current
      /\ request.kind = "part" /\ request.n = n
  BY <1>2, <1>5, <1>6 DEF Request, Requests
<1>8. /\ next \in Files(Current) /\ next.taken = n /\ next.id = Current
      /\ next.saved = file.saved /\ next.docSentParts = file.docSentParts
      /\ file.id = Current
  BY <1>2, <1>5 DEF Files
<1>9. CoveredBy(file, requests)
  BY <1>2 DEF Inv, Covered
<1> HIDE DEF file, n, request, next, size
<1>10. CoveredBy(next, requests \cup {request})
  <2>1. \A m \in 1 .. next.taken :
          \E r \in next.saved \cup (requests \cup {request}) :
             IsPart(r, next.id, m)
    <3> TAKE m \in 1 .. next.taken
    <3>1. CASE m = n
      BY <3>1, <1>7, <1>8 DEF IsPart
    <3>2. CASE m # n
      <4>1. m \in 1 .. file.taken
        BY <3>2, <1>4, <1>8, <1>3 DEF n
      <4> QED
        BY <4>1, <1>8, <1>9 DEF CoveredBy
    <3> QED
      BY <3>1, <3>2
  <2> QED
    BY <2>1, <1>8, <1>9 DEF CoveredBy
<1> QED
  BY <1>1, <1>7, <1>8, <1>10, SentPart

LEMMA SendDocInv ==
    ASSUME Inv, SendDoc
    PROVE  Inv'
<1> DEFINE file == queue[Current]
           n == file.docSentParts
           part == docPartSize(SizeOf[Current])
           request == Request(Current, "doc", n, toSend, part)
           next == [file EXCEPT !.docSentParts = @ + 1]
<1>1. Proceeds /\ n < Count(Current) /\ ~DocFails /\ sendPart(request, next)
  BY DEF SendDoc
<1>2. /\ Current \in DOMAIN queue /\ Current \in Ids
      /\ file \in Files(Current)
  BY <1>1, CurrentQueued DEF Inv, Proceeds
<1>3. part \in Nat \ {0} /\ Count(Current) \in Nat /\ SizeOf[Current] \in Nat
  BY <1>2, PartSizeType, CountType, UploadAssumption
<1>4. n \in 0 .. Count(Current) /\ file.real \in Int
  <2>1. /\ n \in 0 .. Count(Current)
        /\ file.real \in RealSizes \cup {SizeOf[Current]}
    BY <1>2 DEF Files
  <2> QED
    BY <1>2, <2>1, RealSizeType
<1>5. n \in Nat /\ n + 1 \in 0 .. Count(Current)
  BY <1>1, <1>3, <1>4
<1>6. toSend \in Nat /\ (toSend < part \/ toSend = part)
  <2> DEFINE left == file.real - n * part
  <2>1. left \in Int
    BY <1>3, <1>4, <1>5
  <2>2. toSend = IF left < 0 THEN 0 ELSE IF left < part THEN left ELSE part
    BY DEF toSend
  <2> HIDE DEF left, part
  <2> QED
    BY <2>1, <2>2, <1>3
<1>7. request \in Requests /\ request.id = Current
      /\ request.kind = "doc" /\ request.n = n /\ request.len = toSend
  BY <1>2, <1>3, <1>5, <1>6 DEF Request, Requests
<1>8. /\ next \in Files(Current) /\ next.docSentParts = n + 1
      /\ next.id = Current /\ next.saved = file.saved
      /\ next.taken = file.taken /\ file.id = Current
  BY <1>2, <1>5 DEF Files
<1>9. CoveredBy(file, requests)
  BY <1>2 DEF Inv, Covered
<1>10. IsDoc(request, Current, n)
  <2>1. ~ (toSend < part /\ n + 1 # Count(Current))
    BY <1>1 DEF DocFails
  <2> QED
    BY <2>1, <1>6, <1>7 DEF IsDoc
<1> HIDE DEF file, n, request, next, part
<1>11. CoveredBy(next, requests \cup {request})
  <2>1. \A m \in 0 .. next.docSentParts - 1 :
          \E r \in next.saved \cup (requests \cup {request}) :
             IsDoc(r, next.id, m)
    <3> TAKE m \in 0 .. next.docSentParts - 1
    <3>1. CASE m = n
      BY <3>1, <1>8, <1>10
    <3>2. CASE m # n
      <4>1. m \in 0 .. n - 1
        BY <3>2, <1>5, <1>8
      <4>2. m \in 0 .. file.docSentParts - 1
        BY <4>1 DEF n
      <4> QED
        BY <4>2, <1>8, <1>9 DEF CoveredBy
    <3> QED
      BY <3>1, <3>2
  <2> QED
    BY <2>1, <1>8, <1>9 DEF CoveredBy
<1> QED
  BY <1>1, <1>7, <1>8, <1>11, SentPart

LEMMA SendNothingInv ==
    ASSUME Inv, SendNothing
    PROVE  Inv'
<1>1. Rest
  BY DEF Inv, TypeOK, Rest
<1>2. stopTimer' \in BOOLEAN
  BY <1>1 DEF SendNothing, Rest
<1>3. calls' \in 0 .. 2
  BY <1>1 DEF SendNothing, Rest
<1>4. Rest'
  BY <1>1, <1>2, <1>3 DEF SendNothing, Rest
<1>5. stopTimer' => stopTimer \/ requests = {}
  <2> SUFFICES ASSUME stopTimer', ~ stopTimer PROVE requests = {}
    OBVIOUS
  <2>1. sentSize < MaxParallel /\ pausedId = None
    BY DEF SendNothing
  <2>2. DOMAIN queue = {}
    BY <1>1, <2>1, UploadAssumption DEF SendNothing, Rest
  <2> QED
    BY <2>2 DEF Inv, RequestsOfCurrent
<1> QED
  BY <1>4, <1>5, FileUntouched DEF SendNothing

LEMMA FailDocInv ==
    ASSUME Inv, FailDoc
    PROVE  Inv'
<1>1. /\ Current \in DOMAIN queue
      /\ uploadingId \in DOMAIN queue => Current = uploadingId
  BY CurrentQueued DEF FailDoc, Inv, Proceeds
<1>2. /\ DOMAIN queue' = DOMAIN queue \ {Current}
      /\ \A id \in DOMAIN queue' : queue'[id] = queue[id]
  BY WithoutQueue DEF FailDoc, Inv
<1>3. \A id \in DOMAIN queue' : id # uploadingId
  BY <1>1, <1>2
<1>4. calls' \in 0 .. 2 /\ cancelRequests
  BY DEF FailDoc, Inv, TypeOK
<1>5. /\ uploadingId' = None /\ stopTimer' = FALSE /\ pausedId' = pausedId
      /\ nextTimer' = nextTimer /\ uploads' = uploads /\ ready' = ready
  BY DEF FailDoc
<1> QED
  BY <1>2, <1>3, <1>4, <1>5, Cancelled

LEMMA CurrentFailedInv ==
    ASSUME Inv, NEW more \in 0 .. 1, currentFailed(more)
    PROVE  Inv'
<1>1. /\ DOMAIN queue' = DOMAIN queue \ {uploadingId}
      /\ \A id \in DOMAIN queue' : queue'[id] = queue[id]
  BY WithoutQueue DEF currentFailed, Inv
<1>2. \A id \in DOMAIN queue' : id # uploadingId
  BY <1>1
<1>3. calls' \in 0 .. 2 /\ cancelRequests
  BY DEF currentFailed
<1>4. /\ uploadingId' = None /\ stopTimer' = stopTimer /\ pausedId' = pausedId
      /\ nextTimer' = nextTimer /\ uploads' = uploads /\ ready' = ready
  BY DEF currentFailed
<1> QED
  BY <1>1, <1>2, <1>3, <1>4, Cancelled

LEMMA CancelAllInv ==
    ASSUME Inv, CancelAll
    PROVE  Inv'
<1>1. DOMAIN queue' = {} /\ cancelRequests /\ calls' \in 0 .. 2
  BY DEF CancelAll
<1>2. /\ uploadingId' = None /\ stopTimer' = FALSE /\ pausedId' = None
      /\ nextTimer' = nextTimer /\ uploads' = uploads /\ ready' = ready
  BY DEF CancelAll
<1> QED
  BY <1>1, <1>2, Cancelled

LEMMA AwaitInv ==
    ASSUME Inv, Await
    PROVE  Inv'
<1>1. Current = uploadingId
  BY CurrentQueued DEF Await, Inv, Proceeds, RequestsOfCurrent
<1>2. Rest
  BY DEF Inv, TypeOK, Rest
<1>3. calls' \in 0 .. 2
  BY <1>2 DEF Await, Proceeds, Rest
<1>4. stopTimer' = FALSE /\ uploadingId' = uploadingId
  BY <1>1 DEF Await
<1>5. Rest'
  BY <1>2, <1>3, <1>4 DEF Await, Rest
<1> QED
  BY <1>4, <1>5, FileUntouched DEF Await

(* Nothing is on its way, so that what was taken of the file is saved. *)
LEMMA ReadyInv ==
    ASSUME Inv, Ready
    PROVE  Inv'
<1>1. /\ Current \in DOMAIN queue /\ Current \in Ids
      /\ queue[Current] \in Files(Current)
  BY CurrentQueued DEF Ready, Inv, Proceeds
<1> DEFINE file == queue[Current]
<1>2. requests = {} /\ ready' = ready \cup {file} /\ AllSent
      /\ UNCHANGED <<requests, dcMap, flying>>
  BY DEF Ready
<1>3. /\ DOMAIN queue' = DOMAIN queue \ {Current}
      /\ \A id \in DOMAIN queue' : queue'[id] = queue[id]
  BY WithoutQueue DEF Ready, Inv
<1>4. Whole(file)
  <2>1. CoveredBy(file, {}) /\ file.id = Current
    BY <1>1, <1>2 DEF Inv, Covered, Files
  <2>2. file.taken = Len(PartsOf[Current]) /\ file.docSentParts >= Count(Current)
    BY <1>2 DEF AllSent, PartsSent
  <2>3. file.docSentParts = Count(Current)
    <3>1. file.docSentParts \in 0 .. Count(Current) /\ Count(Current) \in Nat
      BY <1>1, CountType DEF Files
    <3> QED
      BY <3>1, <2>2
  <2> HIDE DEF file
  <2> QED
    BY <2>1, <2>2, <2>3 DEF Whole, CoveredBy, IsPart, IsDoc
<1>5. ReadyIsWhole'
  BY <1>2, <1>4 DEF Inv, ReadyIsWhole, Whole
<1>6. Rest'
  BY DEF Ready, Inv, TypeOK, Rest, None
<1>7. TypeOK'
  BY <1>2, <1>3, <1>6 DEF Inv, TypeOK, Rest
<1>8. RequestsOfCurrent'
  BY <1>2 DEF Inv, RequestsOfCurrent
<1>9. Covered'
  BY <1>2, <1>3 DEF Inv, Covered
<1>10. StopsIdle'
  BY DEF Ready, StopsIdle
<1> QED
  BY <1>5, <1>7, <1>8, <1>9, <1>10 DEF Inv

LEMMA UploadInv ==
    ASSUME Inv, NEW id \in Ids, NEW real \in RealSizes \cup {SizeOf[id]},
           Upload(id, real)
    PROVE  Inv'
<1>1. Rest
  BY DEF Inv, TypeOK, Rest
<1>2. uploads' \in 0 .. MaxUploads /\ calls' \in 0 .. 2
  BY <1>1, UploadAssumption DEF Upload, Rest
<1>3. Rest'
  BY <1>1, <1>2 DEF Upload, Rest
<1>4. CASE id \in DOMAIN queue
  BY <1>3, <1>4, FileUntouched DEF Upload
<1>5. CASE id \notin DOMAIN queue
  <2> DEFINE file == File(id, real)
  <2>1. file \in Files(id) /\ file.id = id /\ file.taken = 0
        /\ file.docSentParts = 0
    BY CountType DEF File, Files
  <2>2. CoveredBy(file, requests)
    BY <2>1 DEF CoveredBy
  <2> HIDE DEF file
  <2>3. queue' = With(queue, id, file)
    BY <1>5 DEF Upload, file
  <2>4. /\ DOMAIN queue' = DOMAIN queue \cup {id}
        /\ \A x \in DOMAIN queue' : queue'[x] = IF x = id THEN file ELSE queue[x]
    BY <2>3 DEF With
  <2>5. \A x \in DOMAIN queue' : queue'[x] \in Files(x)
    BY <2>1, <2>4 DEF Inv, TypeOK, Files
  <2>6. UNCHANGED <<requests, dcMap, flying, uploadingId, ready, stopTimer>>
    BY DEF Upload
  <2>7. TypeOK'
    <3>1. DOMAIN queue' \subseteq Ids
      BY <2>4 DEF Inv, TypeOK
    <3> QED
      BY <3>1, <2>5, <2>6, <1>3 DEF Inv, TypeOK, Files, Rest
  <2>8. RequestsOfCurrent'
    BY <2>4, <2>6 DEF Inv, RequestsOfCurrent
  <2>9. Covered'
    BY <2>2, <2>4, <2>6 DEF Inv, Covered
  <2>10. ReadyIsWhole' /\ StopsIdle'
    BY <2>6 DEF Inv, ReadyIsWhole, StopsIdle, Whole
  <2> QED
    BY <2>7, <2>8, <2>9, <2>10 DEF Inv
<1> QED
  BY <1>4, <1>5

(* A part moves from those on their way to those that are saved. *)
LEMMA PartLoadedInv ==
    ASSUME Inv, NEW request \in flying, PartLoaded(request)
    PROVE  Inv'
<1>1. /\ request \in requests /\ request \in Requests
      /\ request.id = uploadingId /\ uploadingId \in DOMAIN queue
      /\ uploadingId \in Ids
  BY DEF Inv, RequestsOfCurrent, TypeOK
<1> DEFINE file == queue[uploadingId]
           next == [file EXCEPT !.saved = @ \cup {request}]
<1>2. /\ requests' = requests \ {request} /\ flying' = flying \ {request}
      /\ dcMap' = Without(dcMap, request)
      /\ sentSize' = sentSize - request.size
      /\ sentSizes' = [sentSizes EXCEPT ![dcMap[request]] = @ - request.size]
      /\ queue' = [queue EXCEPT ![uploadingId].saved = @ \cup {request}]
      /\ calls' = 1
      /\ UNCHANGED <<uploadingId, pausedId, nextTimer, stopTimer, uploads, ready>>
  BY <1>1 DEF PartLoaded
<1>3. DOMAIN dcMap' = DOMAIN dcMap \ {request}
  BY <1>2 DEF Without
<1>4. file \in Files(uploadingId)
  BY <1>1 DEF Inv, TypeOK, Files
<1>5. /\ next \in Files(uploadingId) /\ next.id = file.id
      /\ next.taken = file.taken /\ next.docSentParts = file.docSentParts
      /\ next.saved = file.saved \cup {request} /\ file.id = uploadingId
  BY <1>1, <1>4 DEF Files
<1>6. queue' = [queue EXCEPT ![uploadingId] = next]
  BY <1>1, <1>2
<1> HIDE DEF next
<1>7. /\ DOMAIN queue' = DOMAIN queue
      /\ \A id \in DOMAIN queue :
            queue'[id] = IF id = uploadingId THEN next ELSE queue[id]
  BY <1>6
<1>8. Rest'
  <2>1. Rest /\ request.size \in Nat
    BY <1>1 DEF Inv, TypeOK, Rest, Requests
  <2>2. sentSize' \in Int
    BY <1>2, <2>1 DEF Rest
  <2>3. sentSizes \in [Dcs -> Int] /\ request.size \in Int
    BY <2>1 DEF Rest
  <2>4. sentSizes' \in [Dcs -> Int]
    BY <1>2, <2>3, PartDiscounted
  <2> QED
    BY <1>2, <2>1, <2>2, <2>4 DEF Rest
<1>9. TypeOK'
  <2>1. \A id \in DOMAIN queue' : queue'[id] \in Files(id)
    BY <1>5, <1>7 DEF Inv, TypeOK, Files
  <2>2. DOMAIN queue' \subseteq Ids /\ requests' \subseteq Requests
        /\ flying' \subseteq Requests /\ DOMAIN dcMap' \subseteq Requests
    BY <1>2, <1>3, <1>7 DEF Inv, TypeOK
  <2> QED
    BY <1>8, <2>1, <2>2 DEF TypeOK, Files, Rest
<1>10. RequestsOfCurrent'
  BY <1>2, <1>3, <1>7 DEF Inv, RequestsOfCurrent
<1>11. Covered'
  <2> SUFFICES ASSUME NEW id \in DOMAIN queue
               PROVE  CoveredBy(queue'[id], requests \ {request})
    BY <1>2, <1>7 DEF Covered
  <2>1. CoveredBy(queue[id], requests) /\ queue[id].id = id
    BY DEF Inv, Covered, TypeOK
  <2>2. CASE id = uploadingId
    <3>1. queue'[id] = next /\ CoveredBy(file, requests)
      BY <1>7, <2>1, <2>2
    <3> HIDE DEF file
    <3>2. next.saved \cup (requests \ {request}) = file.saved \cup requests
      BY <1>1, <1>5
    <3> QED
      BY <3>1, <3>2, <1>5 DEF CoveredBy
  <2>3. CASE id # uploadingId
    <3>1. queue'[id] = queue[id] /\ request.id # id
      BY <1>1, <1>7, <2>3
    <3> QED
      BY <3>1, <2>1 DEF CoveredBy, IsPart, IsDoc
  <2> QED
    BY <2>2, <2>3
<1>12. ReadyIsWhole' /\ StopsIdle'
  BY <1>2 DEF Inv, ReadyIsWhole, StopsIdle, Whole
<1> QED
  BY <1>9, <1>10, <1>11, <1>12 DEF Inv

LEMMA PartFailedInv ==
    ASSUME Inv, NEW request \in flying, NEW more \in 0 .. 1,
           PartFailed(request, more)
    PROVE  Inv'
BY CurrentFailedInv DEF PartFailed, Inv, RequestsOfCurrent

LEMMA CancelInv ==
    ASSUME Inv, NEW id \in Ids, Cancel(id)
    PROVE  Inv'
<1>1. CASE uploadingId = id
  BY <1>1, CurrentFailedInv DEF Cancel
<1>2. CASE uploadingId # id
  <2>1. UNCHANGED <<requests, dcMap, flying, sentSize, sentSizes, calls,
                    uploadingId, pausedId, nextTimer, stopTimer, uploads,
                    ready>>
    BY <1>2 DEF Cancel
  <2>2. /\ DOMAIN queue' = DOMAIN queue \ {id}
        /\ \A x \in DOMAIN queue' : queue'[x] = queue[x]
    BY <1>2, WithoutQueue DEF Cancel, Inv
  <2>3. TypeOK'
    BY <2>1, <2>2 DEF Inv, TypeOK
  <2>4. RequestsOfCurrent'
    BY <1>2, <2>1, <2>2 DEF Inv, RequestsOfCurrent
  <2>5. Covered'
    BY <2>1, <2>2 DEF Inv, Covered
  <2>6. ReadyIsWhole' /\ StopsIdle'
    BY <2>1 DEF Inv, ReadyIsWhole, StopsIdle, Whole
  <2> QED
    BY <2>3, <2>4, <2>5, <2>6 DEF Inv
<1> QED
  BY <1>1, <1>2

LEMMA TimersInv ==
    ASSUME Inv, \/ NextTimer \/ StopSessions \/ Unpause
                \/ \E id \in Ids : Pause(id)
    PROVE  Inv'
<1>1. Rest
  BY DEF Inv, TypeOK, Rest
<1>2. CASE NextTimer
  <2>1. nextTimer' \in BOOLEAN /\ stopTimer' \in BOOLEAN
    BY <1>1, <1>2 DEF NextTimer, Rest
  <2>2. calls' \in 0 .. 2
        /\ UNCHANGED <<sentSize, sentSizes, uploadingId, pausedId, uploads>>
    BY <1>2 DEF NextTimer
  <2>3. Rest'
    BY <1>1, <2>1, <2>2 DEF Rest
  <2> QED
    BY <1>2, <2>3, FileUntouched DEF NextTimer
<1>3. CASE StopSessions
  <2>1. nextTimer' \in BOOLEAN /\ stopTimer' \in BOOLEAN
    BY <1>1, <1>3 DEF StopSessions, Rest
  <2>2. UNCHANGED <<sentSize, sentSizes, uploadingId, pausedId, calls, uploads>>
    BY <1>3 DEF StopSessions
  <2>3. Rest'
    BY <1>1, <2>1, <2>2 DEF Rest
  <2> QED
    BY <1>3, <2>3, FileUntouched DEF StopSessions
<1>4. CASE Unpause
  <2>1. Rest'
    BY <1>1, <1>4 DEF Unpause, Rest, None
  <2> QED
    BY <1>4, <2>1, FileUntouched DEF Unpause
<1>5. CASE \E id \in Ids : Pause(id)
  <2>1. Rest'
    BY <1>1, <1>5 DEF Pause, Rest
  <2> QED
    BY <1>5, <2>1, FileUntouched DEF Pause
<1> QED
  BY <1>2, <1>3, <1>4, <1>5

-----------------------------------------------------------------------------
(* Nothing is uploaded at first. *)
THEOREM InitInv == Init => Inv
<1> SUFFICES ASSUME Init PROVE Inv
  OBVIOUS
<1>1. DOMAIN queue = {} /\ DOMAIN dcMap = {}
  BY DEF Init
<1>2. TypeOK
  BY <1>1, UploadAssumption DEF Init, TypeOK, None
<1> QED
  BY <1>1, <1>2 DEF Init, Inv, RequestsOfCurrent, Covered, ReadyIsWhole, StopsIdle

(* Every step of the uploader keeps the invariant. *)
THEOREM NextInv == Inv /\ [Next]_vars => Inv'
<1> SUFFICES ASSUME Inv, [Next]_vars PROVE Inv'
  OBVIOUS
<1>1. CASE SendNext
  BY <1>1, SendNothingInv, SendPartInv, SendDocInv, FailDocInv, AwaitInv, ReadyInv
     DEF SendNext
<1>2. CASE \E id \in Ids : \E real \in RealSizes \cup {SizeOf[id]} : Upload(id, real)
  BY <1>2, UploadInv
<1>3. CASE \E request \in flying :
             PartLoaded(request) \/ \E more \in 0 .. 1 : PartFailed(request, more)
  BY <1>3, PartLoadedInv, PartFailedInv
<1>4. CASE \E id \in Ids : Cancel(id)
  BY <1>4, CancelInv
<1>5. CASE CancelAll
  BY <1>5, CancelAllInv
<1>6. CASE NextTimer \/ StopSessions \/ Unpause \/ \E id \in Ids : Pause(id)
  BY <1>6, TimersInv
<1>7. CASE UNCHANGED vars
  <2>1. Rest'
    BY <1>7 DEF vars, Inv, TypeOK, Rest
  <2> QED
    BY <1>7, <2>1, FileUntouched DEF vars
<1> QED
  BY <1>1, <1>2, <1>3, <1>4, <1>5, <1>6, <1>7 DEF Next

(* The invariant holds in every behaviour of the uploader. *)
THEOREM AlwaysInv == Spec => []Inv
BY InitInv, NextInv, PTL DEF Spec

(* The variables have their types. *)
THEOREM Typed == Spec => []TypeOK
<1>1. Inv => TypeOK
  BY DEF Inv
<1> QED
  BY <1>1, AlwaysInv, PTL

(* partLoaded() finds the file that its answer is about in the queue. *)
THEOREM AlwaysOfCurrent == Spec => []RequestsOfCurrent
<1>1. Inv => RequestsOfCurrent
  BY DEF Inv
<1> QED
  BY <1>1, AlwaysInv, PTL

(* No file is announced before the server has all of its parts, whatever
   is cancelled, paused or fails in between. *)
THEOREM AlwaysWhole == Spec => []ReadyIsWhole
<1>1. Inv => ReadyIsWhole
  BY DEF Inv
<1> QED
  BY <1>1, AlwaysInv, PTL

(* The sessions are stopped only when nothing is on its way. *)
THEOREM AlwaysStopsIdle == Spec => []StopsIdle
<1>1. Inv => StopsIdle
  BY DEF Inv
<1> QED
  BY <1>1, AlwaysInv, PTL

-----------------------------------------------------------------------------
(* The parts of a document *)

(* PartsCount is the least number of parts that hold the document. *)
LEMMA PartsHold ==
    ASSUME NEW size \in Nat, NEW part \in Nat \ {0}
    PROVE  /\ PartsCount(size, part) \in Nat
           /\ PartsCount(size, part) * part >= size
           /\ size > 0 => (PartsCount(size, part) - 1) * part < size
           /\ \A most \in Nat :
                 PartsCount(size, part) <= most <=> size <= most * part
<1> DEFINE q == size \div part
           r == size % part
           c == PartsCount(size, part)
<1>1. q \in Int /\ r \in 0 .. part - 1 /\ size = part * q + r
  OBVIOUS
<1>2. c = IF r # 0 THEN q + 1 ELSE q
  BY <1>1 DEF PartsCount
<1>3. c \in Nat
  BY PartsCountType
<1> HIDE DEF q, r, c
<1>4. (q + 1) * part = part * q + part /\ (q - 1) * part = part * q - part
      /\ q * part = part * q
  BY <1>1
<1>5. c * part >= size
  BY <1>1, <1>2, <1>4
<1>6. size > 0 => (c - 1) * part < size
  <2>1. CASE r # 0
    <3>1. c - 1 = q
      BY <1>1, <1>2, <2>1
    <3> QED
      BY <1>1, <1>4, <2>1, <3>1
  <2>2. CASE r = 0
    <3>1. c - 1 = q - 1
      BY <1>1, <1>2, <2>2
    <3> QED
      BY <1>1, <1>4, <2>2, <3>1
  <2> QED
    BY <2>1, <2>2
<1>7. ASSUME NEW most \in Nat PROVE c <= most <=> size <= most * part
  <2>1. ASSUME c <= most PROVE size <= most * part
    <3>1. c * part <= most * part
      BY <1>3, <2>1
    <3> QED
      BY <1>3, <1>5, <3>1
  <2>2. ASSUME c > most PROVE size > most * part
    <3>1. most <= c - 1 /\ c - 1 \in Nat
      BY <1>3, <2>2
    <3>2. most * part <= (c - 1) * part
      BY <3>1
    <3>3. size > 0
      <4> SUFFICES ASSUME size = 0 PROVE FALSE
        OBVIOUS
      <4>1. q = 0 /\ r = 0
        BY DEF q, r
      <4> QED
        BY <1>2, <2>2, <4>1
    <3> QED
      BY <1>6, <3>1, <3>2, <3>3
  <2> QED
    BY <1>3, <2>1, <2>2
<1> QED
  BY <1>3, <1>5, <1>6, <1>7 DEF c

(* For a document of every size and for every choice of the part sizes and
   limits: setDocSize() takes the first part size that fits. *)
LEMMA EverySizeFits ==
    ASSUME NEW size \in Nat
    PROVE  LET part == docPartSize(size)
               count == docPartsCount(size)
           IN  /\ count * part >= size
               /\ size > 0 => (count - 1) * part < size
               /\ Fitting(size) = {} => part = PartSizes[5]
               /\ Fitting(size) # {} =>
                    \E n \in Fitting(size) :
                       part = PartSizes[n] /\ \A m \in Fitting(size) : n <= m
<1> DEFINE part == docPartSize(size)
<1>1. \A n \in 1 .. 5 : PartSizes[n] \in Nat \ {0}
  BY PartsAssumption
<1>2. docPartsCount(size) * part >= size
      /\ (size > 0 => (docPartsCount(size) - 1) * part < size)
  BY PartSizeType, PartsHold DEF docPartsCount
<1>3. \A n \in 1 .. 5 : setPartSize(size, PartSizes[n]) <=>
                            size <= MaxPartsCount * PartSizes[n]
  BY <1>1, PartsHold, PartsAssumption DEF setPartSize
<1>4. \A n \in 1 .. 5 : n \in Fitting(size) <=>
          /\ setPartSize(size, PartSizes[n])
          /\ n = 1 => size < Limit0
          /\ n = 2 => size <= Limit1
  BY <1>3 DEF Fitting
<1>5. Fitting(size) \subseteq 1 .. 5
  BY DEF Fitting
<1>6. \/ 1 \in Fitting(size) /\ part = PartSizes[1]
      \/ 1 \notin Fitting(size) /\ 2 \in Fitting(size) /\ part = PartSizes[2]
      \/ /\ 1 \notin Fitting(size) /\ 2 \notin Fitting(size)
         /\ 3 \in Fitting(size) /\ part = PartSizes[3]
      \/ /\ 1 \notin Fitting(size) /\ 2 \notin Fitting(size)
         /\ 3 \notin Fitting(size) /\ 4 \in Fitting(size) /\ part = PartSizes[4]
      \/ /\ 1 \notin Fitting(size) /\ 2 \notin Fitting(size)
         /\ 3 \notin Fitting(size) /\ 4 \notin Fitting(size)
         /\ part = PartSizes[5]
  BY <1>4 DEF docPartSize
<1> HIDE DEF part
<1>7. Fitting(size) = {} => part = PartSizes[5]
  BY <1>6
<1>8. Fitting(size) # {} =>
         \E n \in Fitting(size) :
            part = PartSizes[n] /\ \A m \in Fitting(size) : n <= m
  BY <1>5, <1>6
<1> QED
  BY <1>2, <1>7, <1>8 DEF part

(* For any sizes of parts and documents, those in the queue included, a
   document is cut as setDocSize() means it: into the smallest parts of
   which the server takes enough, with no part empty and none missing. *)
THEOREM AlwaysSmallestFits == Spec => []SmallestFits
<1>1. Inv => SmallestFits
  <2> SUFFICES ASSUME Inv, NEW size \in DocSizes
               PROVE  LET part == docPartSize(size)
                          count == docPartsCount(size)
                      IN  /\ count * part >= size
                          /\ size > 0 => (count - 1) * part < size
                          /\ Fitting(size) = {} => part = PartSizes[5]
                          /\ Fitting(size) # {} =>
                               \E n \in Fitting(size) :
                                  /\ part = PartSizes[n]
                                  /\ \A m \in Fitting(size) : n <= m
    BY DEF SmallestFits
  <2>1. DOMAIN queue \subseteq Ids
    BY DEF Inv, TypeOK
  <2>2. size \in Nat
    BY <2>1, SizesAssumption, UploadAssumption DEF DocSizes
  <2> QED
    BY <2>2, EverySizeFits
<1> QED
  BY <1>1, AlwaysInv, PTL

-----------------------------------------------------------------------------
(* Download: sequences. *)
LEMMA RemoveFact ==
    ASSUME NEW S, NEW s \in Seq(S), NEW i \in 1 .. Len(s)
    PROVE  /\ RemoveAt(s, i) \in Seq(S)
           /\ Len(RemoveAt(s, i)) = Len(s) - 1
           /\ DOMAIN RemoveAt(s, i) = 1 .. Len(s) - 1
           /\ \A j \in 1 .. Len(s) - 1 :
                RemoveAt(s, i)[j] = IF j < i THEN s[j] ELSE s[j + 1]
<1> DEFINE a == SubSeq(s, 1, i - 1)
           b == SubSeq(s, i + 1, Len(s))
<1>1. Len(s) \in Nat /\ i \in Nat /\ i >= 1 /\ i <= Len(s)
  OBVIOUS
<1>2. a \in Seq(S) /\ Len(a) = i - 1 /\ \A k \in 1 .. i - 1 : a[k] = s[k]
  BY <1>1
<1>3. /\ b \in Seq(S) /\ Len(b) = Len(s) - i
      /\ \A k \in 1 .. Len(s) - i : b[k] = s[k + i]
  BY <1>1
<1> HIDE DEF a, b
<1>4. /\ a \o b \in Seq(S) /\ Len(a \o b) = Len(s) - 1
      /\ \A j \in 1 .. Len(s) - 1 :
           (a \o b)[j] = IF j <= i - 1 THEN a[j] ELSE b[j - (i - 1)]
  <2>1. a \o b \in Seq(S)
    BY <1>2, <1>3
  <2>2. /\ Len(a \o b) = Len(a) + Len(b)
        /\ \A j \in 1 .. Len(a) + Len(b) :
             (a \o b)[j] = IF j <= Len(a) THEN a[j] ELSE b[j - Len(a)]
    <3>1. a \in Seq(S) /\ b \in Seq(S)
      BY <1>2, <1>3
    <3> QED
      BY <3>1
  <2>3. Len(a) + Len(b) = Len(s) - 1
    BY <1>1, <1>2, <1>3
  <2> QED
    BY <1>2, <2>1, <2>2, <2>3
<1>5. ASSUME NEW j \in 1 .. Len(s) - 1
      PROVE  (a \o b)[j] = IF j < i THEN s[j] ELSE s[j + 1]
  <2>1. CASE j < i
    BY <1>1, <1>2, <1>4, <2>1
  <2>2. CASE ~(j < i)
    <3>1. (a \o b)[j] = b[j - (i - 1)] /\ j - (i - 1) \in 1 .. Len(s) - i
      BY <1>1, <1>4, <2>2
    <3>2. b[j - (i - 1)] = s[(j - (i - 1)) + i]
      BY <1>3, <3>1
    <3>3. (j - (i - 1)) + i = j + 1
      BY <1>1
    <3> QED
      BY <2>2, <3>1, <3>2, <3>3
  <2> QED
    BY <2>1, <2>2
<1>6. RemoveAt(s, i) = a \o b
  BY DEF RemoveAt, a, b
<1> QED
  BY <1>1, <1>4, <1>5, <1>6

LEMMA RemoveElements ==
    ASSUME NEW S, NEW s \in Seq(S), NEW i \in 1 .. Len(s)
    PROVE  /\ \A j \in DOMAIN RemoveAt(s, i) : \E k \in DOMAIN s :
                k # i /\ RemoveAt(s, i)[j] = s[k]
           /\ \A k \in DOMAIN s : k # i =>
                \E j \in DOMAIN RemoveAt(s, i) : RemoveAt(s, i)[j] = s[k]
<1> DEFINE q == RemoveAt(s, i)
<1>1. /\ DOMAIN q = 1 .. Len(s) - 1
      /\ \A j \in 1 .. Len(s) - 1 : q[j] = IF j < i THEN s[j] ELSE s[j + 1]
  BY RemoveFact
<1>2. DOMAIN s = 1 .. Len(s) /\ Len(s) \in Nat
  OBVIOUS
<1> HIDE DEF q
<1>3. ASSUME NEW j \in DOMAIN q PROVE \E k \in DOMAIN s : k # i /\ q[j] = s[k]
  <2>1. CASE j < i
    BY <1>1, <1>2, <2>1
  <2>2. CASE ~(j < i)
    <3>1. j + 1 \in DOMAIN s /\ j + 1 # i /\ q[j] = s[j + 1]
      BY <1>1, <1>2, <2>2
    <3> QED
      BY <3>1
  <2> QED
    BY <2>1, <2>2
<1>4. ASSUME NEW k \in DOMAIN s, k # i PROVE \E j \in DOMAIN q : q[j] = s[k]
  <2>1. CASE k < i
    BY <1>1, <1>2, <2>1
  <2>2. CASE ~(k < i)
    <3>1. k - 1 \in DOMAIN q /\ q[k - 1] = s[k]
      BY <1>1, <1>2, <1>4, <2>2
    <3> QED
      BY <3>1
  <2> QED
    BY <2>1, <2>2
<1> QED
  BY <1>3, <1>4 DEF q

(* A property of pairs of elements is kept when one is removed. *)
LEMMA RemovePairs ==
    ASSUME NEW S, NEW s \in Seq(S), NEW i \in 1 .. Len(s),
           NEW j \in DOMAIN RemoveAt(s, i), NEW k \in DOMAIN RemoveAt(s, i),
           j # k
    PROVE  \E m, n \in DOMAIN s :
             m # n /\ RemoveAt(s, i)[j] = s[m] /\ RemoveAt(s, i)[k] = s[n]
<1> DEFINE q == RemoveAt(s, i)
           g(h) == IF h < i THEN h ELSE h + 1
<1>1. /\ DOMAIN q = 1 .. Len(s) - 1
      /\ \A h \in 1 .. Len(s) - 1 : q[h] = IF h < i THEN s[h] ELSE s[h + 1]
  BY RemoveFact
<1>2. DOMAIN s = 1 .. Len(s) /\ Len(s) \in Nat
  OBVIOUS
<1>0. j \in 1 .. Len(s) - 1 /\ k \in 1 .. Len(s) - 1
  BY <1>1
<1> HIDE DEF q
<1>3. ASSUME NEW h \in DOMAIN q PROVE g(h) \in DOMAIN s /\ q[h] = s[g(h)]
  BY <1>1, <1>2
<1>4. g(j) # g(k)
  BY <1>2, <1>0
<1> HIDE DEF g
<1> QED
  BY <1>3, <1>4 DEF q

LEMMA ReplaceFact ==
    ASSUME NEW S, NEW s \in Seq(S), NEW i \in 1 .. Len(s), NEW v \in S
    PROVE  /\ [s EXCEPT ![i] = v] \in Seq(S)
           /\ Len([s EXCEPT ![i] = v]) = Len(s)
           /\ DOMAIN [s EXCEPT ![i] = v] = 1 .. Len(s)
           /\ \A k \in 1 .. Len(s) :
                [s EXCEPT ![i] = v][k] = IF k = i THEN v ELSE s[k]
  OBVIOUS

(* The places of a sequence of requests that name the session n. *)
In(s, n) == {i \in DOMAIN s : s[i].session = n}

LEMMA InFinite ==
    ASSUME NEW S, NEW s \in Seq(S), NEW n
    PROVE  /\ IsFiniteSet(In(s, n)) /\ Cardinality(In(s, n)) \in Nat
           /\ Cardinality(In(s, n)) = 0 <=> In(s, n) = {}
<1>1. IsFiniteSet(1 .. Len(s))
  BY FS_Interval
<1>2. In(s, n) \in SUBSET (1 .. Len(s))
  BY DEF In
<1>3. IsFiniteSet(In(s, n))
  BY <1>1, <1>2, FS_Subset
<1> QED
  BY <1>3, FS_CardinalityType, FS_EmptySet

LEMMA InAppend ==
    ASSUME NEW S, NEW s \in Seq(S), NEW r \in S, NEW n
    PROVE  Cardinality(In(Append(s, r), n)) =
             Cardinality(In(s, n)) + (IF r.session = n THEN 1 ELSE 0)
<1>1. In(Append(s, r), n) =
        IF r.session = n THEN In(s, n) \cup {Len(s) + 1} ELSE In(s, n)
  BY DEF In
<1>2. Len(s) + 1 \notin In(s, n)
  BY DEF In
<1>3. IsFiniteSet(In(s, n)) /\ Cardinality(In(s, n)) \in Nat
  BY InFinite
<1>4. Cardinality(In(s, n) \cup {Len(s) + 1}) = Cardinality(In(s, n)) + 1
  BY <1>2, <1>3, FS_AddElement
<1> QED
  BY <1>1, <1>3, <1>4

LEMMA InRemove ==
    ASSUME NEW S, NEW s \in Seq(S), NEW i \in 1 .. Len(s), NEW n
    PROVE  Cardinality(In(RemoveAt(s, i), n)) =
             Cardinality(In(s, n)) - (IF s[i].session = n THEN 1 ELSE 0)
<1> DEFINE q == RemoveAt(s, i)
           A == In(s, n) \ {i}
           f == [k \in A |-> IF k < i THEN k ELSE k - 1]
<1>1. /\ DOMAIN q = 1 .. Len(s) - 1
      /\ \A j \in 1 .. Len(s) - 1 : q[j] = IF j < i THEN s[j] ELSE s[j + 1]
  BY RemoveFact
<1>2. DOMAIN s = 1 .. Len(s) /\ Len(s) \in Nat
  OBVIOUS
<1> HIDE DEF q
<1>3. \A k \in A : f[k] \in In(q, n)
  <2> TAKE k \in A
  <2>1. k \in 1 .. Len(s) /\ k # i /\ s[k].session = n
    BY <1>2 DEF In
  <2>2. CASE k < i
    BY <1>1, <1>2, <2>1, <2>2 DEF In
  <2>3. CASE ~(k < i)
    <3>1. k - 1 \in 1 .. Len(s) - 1 /\ q[k - 1] = s[k]
      BY <1>1, <1>2, <2>1, <2>3
    <3> QED
      BY <1>1, <2>1, <2>3, <3>1 DEF In
  <2> QED
    BY <2>2, <2>3
<1>4. \A j, k \in A : f[j] = f[k] => j = k
  BY <1>2 DEF In
<1>5. \A j \in In(q, n) : \E k \in A : f[k] = j
  <2> TAKE j \in In(q, n)
  <2>1. j \in 1 .. Len(s) - 1 /\ q[j].session = n
    BY <1>1 DEF In
  <2>2. CASE j < i
    <3>1. j \in A /\ f[j] = j
      BY <1>1, <1>2, <2>1, <2>2 DEF In
    <3> QED
      BY <3>1
  <2>3. CASE ~(j < i)
    <3>1. j + 1 \in A
      BY <1>1, <1>2, <2>1, <2>3 DEF In
    <3>2. f[j + 1] = j
      BY <2>1, <2>3, <3>1
    <3> QED
      BY <3>1, <3>2
  <2> QED
    BY <2>2, <2>3
<1>6. f \in Bijection(A, In(q, n))
  <2>1. f \in [A -> In(q, n)]
    BY <1>3
  <2> HIDE DEF f
  <2> QED
    BY <1>4, <1>5, <2>1 DEF Bijection, Injection, Surjection, IsInjective
<1>7. IsFiniteSet(In(s, n)) /\ Cardinality(In(s, n)) \in Nat
  BY InFinite
<1>8. /\ IsFiniteSet(A)
      /\ Cardinality(A) = IF i \in In(s, n) THEN Cardinality(In(s, n)) - 1
                            ELSE Cardinality(In(s, n))
  BY <1>7, FS_RemoveElement
<1>9. Cardinality(In(q, n)) = Cardinality(A)
  BY <1>6, <1>8, FS_Bijection DEF ExistsBijection
<1>10. i \in In(s, n) <=> s[i].session = n
  BY <1>2 DEF In
<1> QED
  BY <1>7, <1>8, <1>9, <1>10 DEF q

(* The least of a set of numbers, and the first place of the least value. *)
LEMMA LeastOf ==
    ASSUME NEW S \in SUBSET Nat, S # {}
    PROVE  \E i \in S : \A j \in S : i <= j
<1> DEFINE R == {p \in Nat \X Nat : p[1] < p[2]}
<1>1. IsWellFoundedOn(R, Nat)
  BY NatLessThanWellFounded DEF OpToRel
<1> HIDE DEF R
<1>2. PICK i \in S : \A j \in S : ~(<<j, i>> \in R)
  BY <1>1, WFMin
<1>3. ASSUME NEW j \in S PROVE i <= j
  <2>1. ~(<<j, i>> \in R)
    BY <1>2
  <2>2. i \in Nat /\ j \in Nat
    OBVIOUS
  <2>3. ~(j < i)
    BY <2>1, <2>2 DEF R
  <2> QED
    BY <2>2, <2>3
<1> QED
  BY <1>3

LEMMA FirstLeastFact ==
    ASSUME NEW n \in Nat, n >= 1, NEW f \in [1 .. n -> Nat]
    PROVE  FirstLeast(f) \in 1 .. n
<1> DEFINE V == {f[i] : i \in 1 .. n}
<1>1. V \in SUBSET Nat /\ f[1] \in V
  OBVIOUS
<1>2. PICK v \in V : \A w \in V : v <= w
  <2> HIDE DEF V
  <2> QED
    BY <1>1, LeastOf
<1> DEFINE A == {i \in 1 .. n : f[i] = v}
<1>3. A \in SUBSET Nat /\ A # {}
  OBVIOUS
<1>4. PICK i \in A : \A j \in A : i <= j
  <2> HIDE DEF A
  <2> QED
    BY <1>3, LeastOf
<1>5. \A j \in 1 .. n : v <= f[j] /\ f[j] \in Nat
  BY <1>2
<1>6. ASSUME NEW j \in 1 .. n PROVE f[i] < f[j] \/ (f[i] = f[j] /\ i <= j)
  <2>1. f[i] = v /\ v \in Nat /\ v <= f[j] /\ f[j] \in Nat
    BY <1>1, <1>5
  <2>2. CASE f[j] = v
    BY <1>4, <2>1, <2>2
  <2>3. CASE f[j] # v
    BY <2>1, <2>3
  <2> QED
    BY <2>2, <2>3
<1>7. IsLeast(i, f) /\ i \in DOMAIN f
  BY <1>6 DEF IsLeast
<1> QED
  BY <1>7 DEF FirstLeast

-----------------------------------------------------------------------------
Kinds == {"part", "cdn", "hash", "reupload", "refresh", "dead", "deadHash"}

SentSet ==
    [offset : Offsets, kind : Kinds, session : Nat, amount : Int, old : BOOLEAN]

AsideSet == [offset : Offsets, session : Nat]

TaskSet ==
    [alive : BOOLEAN, finished : BOOLEAN, done : BOOLEAN, failed : BOOLEAN,
     known : BOOLEAN, next : Nat, last : BOOLEAN, wanted : SUBSET Offsets,
     priority : Int, sent : Seq(SentSet), cdn : BOOLEAN,
     hashes : SUBSET Offsets, unchecked : SUBSET AsideSet, hashPosted : BOOLEAN,
     orphans : Int, fed : [Offsets -> Nat]]

(* What the manager keeps of its data centers. *)
SessionSet == [requested : Int, successes : Int, maxWaited : Nat \ {0}]

BalanceSet ==
    [sessions : Seq(SessionSet), total : Int, timeouts : Int,
     removeIndex : Int, removeTimes : Int, removed : BOOLEAN]

MgrSet ==
    [balance : [DcIds -> BalanceSet],
     kill : [when : SUBSET DcIds, timer : BOOLEAN]]

CtxSet == [mgr : MgrSet, x : TaskSet, d : DcIds]

(* Requests and parts put aside are in one of the first n sessions. *)
Sits(x, n) ==
    /\ \A i \in DOMAIN x.sent : x.sent[i].session \in 1 .. n
    /\ \A u \in x.unchecked : u.session \in 1 .. n

(* F gives for a session what it counts besides the requests of the task,
   and R how many requests the other tasks have: in n sessions. *)
RestOk(F, R, n) ==
    /\ F \in [Nat -> Nat] /\ R \in Nat /\ n \in Nat
    /\ (\A k \in 1 .. n : F[k] = 0) => R = 0
    /\ \A k \in Nat : k > n => F[k] = 0

Counted(b, s, F, R) ==
    /\ \A k \in 1 .. Len(b.sessions) :
         b.sessions[k].requested = Cardinality(In(s, k)) + F[k]
    /\ b.total = Len(s) + R

KillOk(g) ==
    /\ \A d \in g.kill.when : g.balance[d].total = 0
    /\ g.kill.when # {} => g.kill.timer

Good(c, F, R, n) ==
    /\ c \in CtxSet
    /\ Len(c.mgr.balance[c.d].sessions) >= n
    /\ Counted(c.mgr.balance[c.d], c.x.sent, F, R)
    /\ Sits(c.x, Len(c.mgr.balance[c.d].sessions))
    /\ KillOk(c.mgr)

(* Nothing but the data center of c differs. *)
SameElsewhere(c, e) ==
    /\ e.d = c.d
    /\ \A d \in DcIds \ {c.d} : e.mgr.balance[d] = c.mgr.balance[d]

SameSessions(c, e) ==
    /\ SameElsewhere(c, e)
    /\ Len(e.mgr.balance[c.d].sessions) = Len(c.mgr.balance[c.d].sessions)

LEMMA SessionsFact ==
    ASSUME NEW b \in BalanceSet
    PROVE  /\ b.sessions \in Seq(SessionSet) /\ b.total \in Int
           /\ Len(b.sessions) \in Nat /\ DOMAIN b.sessions = 1 .. Len(b.sessions)
           /\ \A k \in 1 .. Len(b.sessions) :
                b.sessions[k] \in SessionSet /\ b.sessions[k].requested \in Int
<1>1. b.sessions \in Seq(SessionSet) /\ b.total \in Int
  BY DEF BalanceSet
<1>2. \A r \in SessionSet : r.requested \in Int
  BY DEF SessionSet
<1>3. ASSUME NEW k \in 1 .. Len(b.sessions)
      PROVE  b.sessions[k] \in SessionSet
  BY <1>1
<1> QED
  BY <1>1, <1>2, <1>3

LEMMA AddFact ==
    ASSUME NEW b \in BalanceSet, NEW s \in 1 .. Len(b.sessions),
           NEW delta \in Int
    PROVE  /\ addRequested(b, s, delta) \in BalanceSet
           /\ Len(addRequested(b, s, delta).sessions) = Len(b.sessions)
           /\ \A k \in 1 .. Len(b.sessions) :
                addRequested(b, s, delta).sessions[k].requested =
                  b.sessions[k].requested + (IF k = s THEN delta ELSE 0)
           /\ addRequested(b, s, delta).total = b.total + delta
<1> DEFINE r == [b.sessions[s] EXCEPT !.requested = @ + delta]
           S == [b.sessions EXCEPT ![s] = r]
<1>1. b.sessions \in Seq(SessionSet) /\ b.total \in Int
  BY SessionsFact
<1>2. /\ S \in Seq(SessionSet) /\ Len(S) = Len(b.sessions)
      /\ \A k \in 1 .. Len(b.sessions) :
           S[k].requested = b.sessions[k].requested + (IF k = s THEN delta ELSE 0)
  <2>1. b.sessions[s] \in SessionSet
    BY <1>1
  <2>2. r \in SessionSet /\ r.requested = b.sessions[s].requested + delta
    BY <2>1 DEF SessionSet
  <2> HIDE DEF r
  <2>3. /\ S \in Seq(SessionSet) /\ Len(S) = Len(b.sessions)
        /\ \A k \in 1 .. Len(b.sessions) :
             S[k] = IF k = s THEN r ELSE b.sessions[k]
    BY <1>1, <2>2, ReplaceFact
  <2>4. \A k \in 1 .. Len(b.sessions) : b.sessions[k].requested \in Int
    BY SessionsFact
  <2> HIDE DEF S
  <2>5. ASSUME NEW k \in 1 .. Len(b.sessions)
        PROVE  S[k].requested =
                 b.sessions[k].requested + (IF k = s THEN delta ELSE 0)
    <3>1. CASE k = s
      BY <2>2, <2>3, <3>1
    <3>2. CASE k # s
      BY <2>3, <2>4, <3>2
    <3> QED
      BY <3>1, <3>2
  <2> QED
    BY <2>3, <2>5
<1>3. addRequested(b, s, delta) = [b EXCEPT !.sessions = S, !.total = @ + delta]
  BY DEF addRequested
<1> HIDE DEF S
<1>4. b.total + delta \in Int
  BY <1>1
<1> QED
  BY <1>2, <1>3, <1>4 DEF BalanceSet

KillAfter(c, b, delta) ==
    IF delta > 0 THEN killSessionsCancel(c.mgr.kill, c.d)
      ELSE IF NothingRequested(b) THEN killSessionsSchedule(c.mgr.kill, c.d)
             ELSE c.mgr.kill

LEMMA KillAfterFact ==
    ASSUME NEW c \in CtxSet, NEW b, NEW delta \in Int
    PROVE  KillAfter(c, b, delta) \in [when : SUBSET DcIds, timer : BOOLEAN]
<1>1. /\ c.mgr.kill \in [when : SUBSET DcIds, timer : BOOLEAN]
      /\ c.d \in DcIds
  BY DEF CtxSet, MgrSet
<1>2. killSessionsCancel(c.mgr.kill, c.d)
        \in [when : SUBSET DcIds, timer : BOOLEAN]
  BY <1>1 DEF killSessionsCancel
<1>3. killSessionsSchedule(c.mgr.kill, c.d)
        \in [when : SUBSET DcIds, timer : BOOLEAN]
  BY <1>1 DEF killSessionsSchedule
<1> QED
  BY <1>1, <1>2, <1>3 DEF KillAfter

(* A balance of the data center of c, and what is to be stopped then. *)
LEMMA BalanceChange ==
    ASSUME NEW c \in CtxSet, NEW b \in BalanceSet,
           NEW k \in [when : SUBSET DcIds, timer : BOOLEAN], NEW x \in TaskSet
    PROVE  LET e == [mgr |-> [balance |-> [c.mgr.balance EXCEPT ![c.d] = b],
                              kill |-> k], x |-> x, d |-> c.d]
           IN  /\ e \in CtxSet /\ SameElsewhere(c, e)
               /\ e.mgr.balance[c.d] = b /\ e.mgr.kill = k
               /\ e.mgr.balance[e.d] = b /\ e.d = c.d /\ e.x = x
<1> DEFINE B == [c.mgr.balance EXCEPT ![c.d] = b]
<1>1. c.mgr.balance \in [DcIds -> BalanceSet] /\ c.d \in DcIds
  BY DEF CtxSet, MgrSet
<1>2. /\ B \in [DcIds -> BalanceSet] /\ B[c.d] = b
      /\ \A d \in DcIds \ {c.d} : B[d] = c.mgr.balance[d]
  BY <1>1
<1> HIDE DEF B
<1>3. [balance |-> B, kill |-> k] \in MgrSet
  BY <1>2 DEF MgrSet
<1> QED
  BY <1>1, <1>2, <1>3 DEF CtxSet, SameElsewhere, B

LEMMA AmountFact ==
    ASSUME NEW c \in CtxSet,
           NEW s \in 1 .. Len(c.mgr.balance[c.d].sessions), NEW delta \in Int
    PROVE  LET b == addRequested(c.mgr.balance[c.d], s, delta)
           IN  changeRequestedAmount(c, s, delta) =
                 [mgr |-> [balance |-> [c.mgr.balance EXCEPT ![c.d] = b],
                           kill |-> KillAfter(c, b, delta)],
                  x |-> c.x, d |-> c.d]
<1> DEFINE b == addRequested(c.mgr.balance[c.d], s, delta)
           g == [balance |-> [c.mgr.balance EXCEPT ![c.d] = b],
                 kill |-> KillAfter(c, b, delta)]
<1>1. changeRequestedAmount(c, s, delta) = [c EXCEPT !.mgr = g]
  BY DEF changeRequestedAmount, KillAfter
<1> HIDE DEF g
<1>2. [c EXCEPT !.mgr = g] = [mgr |-> g, x |-> c.x, d |-> c.d]
  BY DEF CtxSet
<1> QED
  BY <1>1, <1>2 DEF g

(* All but the requests in flight is the same. *)
OnlySent(x, y) ==
    /\ y.alive = x.alive /\ y.finished = x.finished /\ y.done = x.done
    /\ y.failed = x.failed /\ y.known = x.known /\ y.next = x.next
    /\ y.last = x.last /\ y.wanted = x.wanted /\ y.priority = x.priority
    /\ y.cdn = x.cdn /\ y.hashes = x.hashes /\ y.unchecked = x.unchecked
    /\ y.hashPosted = x.hashPosted /\ y.orphans = x.orphans /\ y.fed = x.fed

LEMMA SentFact ==
    ASSUME NEW x \in TaskSet, NEW q \in Seq(SentSet)
    PROVE  /\ [x EXCEPT !.sent = q] \in TaskSet
           /\ [x EXCEPT !.sent = q].sent = q
           /\ OnlySent(x, [x EXCEPT !.sent = q])
  BY DEF TaskSet, OnlySent

LEMMA TaskFact ==
    ASSUME NEW x \in TaskSet
    PROVE  /\ x.sent \in Seq(SentSet) /\ DOMAIN x.sent = 1 .. Len(x.sent)
           /\ Len(x.sent) \in Nat
           /\ \A i \in 1 .. Len(x.sent) : x.sent[i] \in SentSet
           /\ x.unchecked \subseteq AsideSet /\ x.fed \in [Offsets -> Nat]
           /\ x.next \in Nat /\ x.wanted \subseteq Offsets
           /\ x.hashes \subseteq Offsets
<1>1. /\ x.sent \in Seq(SentSet)
      /\ x.unchecked \subseteq AsideSet /\ x.fed \in [Offsets -> Nat]
      /\ x.next \in Nat /\ x.wanted \subseteq Offsets
      /\ x.hashes \subseteq Offsets
  BY DEF TaskSet
<1>2. ASSUME NEW i \in 1 .. Len(x.sent) PROVE x.sent[i] \in SentSet
  BY <1>1
<1> QED
  BY <1>1, <1>2

LEMMA CtxFact ==
    ASSUME NEW c \in CtxSet
    PROVE  /\ c.x \in TaskSet /\ c.d \in DcIds /\ c.mgr \in MgrSet
           /\ c.mgr.balance \in [DcIds -> BalanceSet]
           /\ c.mgr.balance[c.d] \in BalanceSet
           /\ c.mgr.kill \in [when : SUBSET DcIds, timer : BOOLEAN]
           /\ c.mgr.kill.when \subseteq DcIds
  BY DEF CtxSet, MgrSet

LEMMA RestFact ==
    ASSUME NEW F, NEW R, NEW n, RestOk(F, R, n)
    PROVE  /\ \A m \in Nat : \A k \in 1 .. m : F[k] \in Nat
           /\ R \in Nat /\ n \in Nat
<1>1. F \in [Nat -> Nat] /\ R \in Nat /\ n \in Nat
  BY DEF RestOk
<1> QED
  BY <1>1

(* When no session waits for anything, nothing is in flight. *)
LEMMA NothingFact ==
    ASSUME NEW b \in BalanceSet, NEW s \in Seq(SentSet), NEW F, NEW R, NEW n,
           RestOk(F, R, n), Counted(b, s, F, R), n <= Len(b.sessions),
           \A i \in DOMAIN s : s[i].session \in 1 .. Len(b.sessions),
           NothingRequested(b)
    PROVE  b.total = 0
<1>1. ASSUME NEW k \in 1 .. Len(b.sessions)
      PROVE  Cardinality(In(s, k)) = 0 /\ F[k] = 0
  <2>1. Cardinality(In(s, k)) \in Nat
    BY InFinite
  <2>2. F[k] \in Nat
    <3>1. Len(b.sessions) \in Nat
      BY SessionsFact
    <3> QED
      BY <3>1, RestFact
  <2>3. b.sessions[k].requested = Cardinality(In(s, k)) + F[k]
    BY DEF Counted
  <2>4. b.sessions[k].requested <= 0
    BY SessionsFact DEF NothingRequested
  <2> QED
    BY <2>1, <2>2, <2>3, <2>4
<1>2. R = 0
  <2>1. \A k \in 1 .. n : k \in 1 .. Len(b.sessions)
    BY SessionsFact DEF RestOk
  <2> QED
    BY <1>1, <2>1 DEF RestOk
<1>3. Len(s) = 0
  <2>1. SUFFICES ASSUME Len(s) # 0 PROVE FALSE
    OBVIOUS
  <2>2. 1 \in DOMAIN s
    BY <2>1
  <2>3. s[1].session \in 1 .. Len(b.sessions)
    BY <2>2
  <2>4. In(s, s[1].session) # {}
    BY <2>2 DEF In
  <2> QED
    BY <1>1, <2>3, <2>4, InFinite
<1> QED
  BY <1>2, <1>3 DEF Counted

(* What is to be stopped is idle after a change of the amount. *)
LEMMA KillChange ==
    ASSUME NEW c \in CtxSet, KillOk(c.mgr), NEW delta \in Int,
           NEW e \in CtxSet, SameElsewhere(c, e),
           e.mgr.kill = KillAfter(c, e.mgr.balance[c.d], delta),
           delta > 0 \/ (NothingRequested(e.mgr.balance[c.d])
                           \/ c.d \in c.mgr.kill.when
                         => e.mgr.balance[c.d].total = 0)
    PROVE  KillOk(e.mgr)
<1> DEFINE b == e.mgr.balance[c.d]
           W == c.mgr.kill.when
<1>0. W \subseteq DcIds /\ c.d \in DcIds
  BY CtxFact
<1>1. /\ \A d \in W : c.mgr.balance[d].total = 0
      /\ W # {} => c.mgr.kill.timer
  BY DEF KillOk
<1>2. \A d \in DcIds \ {c.d} : e.mgr.balance[d] = c.mgr.balance[d]
  BY DEF SameElsewhere
<1>3. CASE delta > 0
  <2>1. /\ e.mgr.kill.when = W \ {c.d}
        /\ e.mgr.kill.timer = (c.mgr.kill.timer /\ W \ {c.d} # {})
    BY <1>3 DEF KillAfter, killSessionsCancel
  <2> QED
    BY <1>0, <1>1, <1>2, <2>1 DEF KillOk
<1>4. CASE ~(delta > 0) /\ NothingRequested(b)
  <2>1. e.mgr.kill.when = W \cup {c.d} /\ e.mgr.kill.timer = TRUE
    BY <1>4 DEF KillAfter, killSessionsSchedule
  <2>2. e.mgr.balance[c.d].total = 0
    BY <1>4
  <2> QED
    BY <1>0, <1>1, <1>2, <2>1, <2>2 DEF KillOk
<1>5. CASE ~(delta > 0) /\ ~NothingRequested(b)
  <2>1. e.mgr.kill = c.mgr.kill
    BY <1>5 DEF KillAfter
  <2>2. c.d \in W => e.mgr.balance[c.d].total = 0
    BY <1>5
  <2> QED
    BY <1>0, <1>1, <1>2, <2>1, <2>2 DEF KillOk
<1> QED
  BY <1>3, <1>4, <1>5

(* One request more, and one less. *)
Placed(x, y, o, k) ==
    \E r \in SentSet : /\ r.offset = o /\ r.kind = k
                       /\ y = [x EXCEPT !.sent = Append(x.sent, r)]

LEMMA PlaceGood ==
    ASSUME NEW F, NEW R, NEW n, RestOk(F, R, n), NEW c, Good(c, F, R, n),
           NEW o \in Offsets, NEW k \in Kinds,
           NEW s \in 1 .. Len(c.mgr.balance[c.d].sessions)
    PROVE  /\ Good(placeSentRequest(c, o, s, k), F, R, n)
           /\ SameSessions(c, placeSentRequest(c, o, s, k))
           /\ Placed(c.x, placeSentRequest(c, o, s, k).x, o, k)
<1> DEFINE b == addRequested(c.mgr.balance[c.d], s, 1)
           a == changeRequestedAmount(c, s, 1)
           r == [offset |-> o, kind |-> k, session |-> s, old |-> FALSE,
                 amount |-> a.mgr.balance[c.d].sessions[s].requested]
           y == [c.x EXCEPT !.sent = Append(c.x.sent, r)]
           e == placeSentRequest(c, o, s, k)
           K == KillAfter(c, b, 1)
           g == [balance |-> [c.mgr.balance EXCEPT ![c.d] = b], kill |-> K]
<1>0. c \in CtxSet /\ c.x \in TaskSet /\ c.mgr.balance[c.d] \in BalanceSet
  BY CtxFact DEF Good
<1>1. /\ b \in BalanceSet /\ Len(b.sessions) = Len(c.mgr.balance[c.d].sessions)
      /\ \A j \in 1 .. Len(c.mgr.balance[c.d].sessions) :
           b.sessions[j].requested =
             c.mgr.balance[c.d].sessions[j].requested + (IF j = s THEN 1 ELSE 0)
      /\ b.total = c.mgr.balance[c.d].total + 1
  BY <1>0, AddFact
<1>2. a = [mgr |-> g, x |-> c.x, d |-> c.d]
  <2>1. 1 \in Int
    OBVIOUS
  <2> QED
    BY <1>0, <2>1, AmountFact, Zenon
<1>3. K \in [when : SUBSET DcIds, timer : BOOLEAN]
  BY <1>0, KillAfterFact
<1>4. a.mgr.balance[c.d] = b
  <2>1. c.mgr.balance \in [DcIds -> BalanceSet] /\ c.d \in DcIds
    BY <1>0, CtxFact
  <2> HIDE DEF b, K, a
  <2> QED
    BY <1>2, <2>1
<1>5. r \in SentSet
  <2>1. a.mgr.balance[c.d].sessions[s].requested \in Int /\ s \in Nat
    BY <1>0, <1>1, <1>4, SessionsFact
  <2> HIDE DEF a
  <2> QED
    BY <2>1 DEF SentSet
<1>6. /\ r.offset = o /\ r.kind = k /\ r.session = s
  OBVIOUS
<1>7. e = [mgr |-> g, x |-> y, d |-> c.d]
  <2>1. e = [a EXCEPT !.x.sent = Append(@, r)]
    BY DEF placeSentRequest
  <2> HIDE DEF r, g, a
  <2> QED
    BY <1>2, <2>1
<1> HIDE DEF r
<1>8. /\ y \in TaskSet /\ y.sent = Append(c.x.sent, r) /\ OnlySent(c.x, y)
      /\ Append(c.x.sent, r) \in Seq(SentSet)
  <2>1. Append(c.x.sent, r) \in Seq(SentSet)
    BY <1>0, <1>5, TaskFact
  <2> QED
    BY <1>0, <2>1, SentFact
<1> HIDE DEF y, b, K
<1>9. /\ e \in CtxSet /\ SameElsewhere(c, e) /\ e.mgr.balance[c.d] = b
      /\ e.mgr.kill = K /\ e.d = c.d /\ e.x = y
  BY <1>0, <1>1, <1>3, <1>7, <1>8, BalanceChange
<1> HIDE DEF e, g, a
<1>10. Counted(b, y.sent, F, R)
  <2>1. c.x.sent \in Seq(SentSet) /\ Len(c.x.sent) \in Nat
    BY <1>0, TaskFact
  <2>2. Counted(c.mgr.balance[c.d], c.x.sent, F, R)
    BY DEF Good
  <2>3. ASSUME NEW j \in 1 .. Len(b.sessions)
        PROVE  b.sessions[j].requested = Cardinality(In(y.sent, j)) + F[j]
    <3>1. c.mgr.balance[c.d].sessions[j].requested =
            Cardinality(In(c.x.sent, j)) + F[j]
      BY <1>1, <2>2 DEF Counted
    <3>2. Cardinality(In(y.sent, j)) =
            Cardinality(In(c.x.sent, j)) + (IF s = j THEN 1 ELSE 0)
      BY <1>5, <1>6, <1>8, <2>1, InAppend
    <3>3. Cardinality(In(c.x.sent, j)) \in Nat
      BY <2>1, InFinite
    <3>4. F[j] \in Nat
      <4>1. Len(b.sessions) \in Nat
        BY <1>1, SessionsFact
      <4> QED
        BY <4>1, RestFact
    <3>5. b.sessions[j].requested =
            c.mgr.balance[c.d].sessions[j].requested + (IF j = s THEN 1 ELSE 0)
      BY <1>1
    <3> QED
      BY <3>1, <3>2, <3>3, <3>4, <3>5
  <2>4. b.total = Len(y.sent) + R
    <3>1. c.mgr.balance[c.d].total = Len(c.x.sent) + R /\ R \in Nat
      BY <2>2, RestFact DEF Counted
    <3>2. Len(y.sent) = Len(c.x.sent) + 1
      BY <1>5, <1>8, <2>1
    <3>3. b.total = c.mgr.balance[c.d].total + 1
      BY <1>1
    <3> QED
      BY <2>1, <3>1, <3>2, <3>3
  <2> QED
    BY <2>3, <2>4 DEF Counted
<1>11. Sits(y, Len(b.sessions))
  <2>1. Sits(c.x, Len(b.sessions))
    BY <1>1 DEF Good
  <2>2. c.x.sent \in Seq(SentSet) /\ Len(c.x.sent) \in Nat
    BY <1>0, TaskFact
  <2>3. ASSUME NEW i \in DOMAIN y.sent
        PROVE  y.sent[i].session \in 1 .. Len(b.sessions)
    <3>1. CASE i \in DOMAIN c.x.sent
      <4>1. y.sent[i] = c.x.sent[i]
        BY <1>5, <1>8, <2>2, <3>1
      <4> QED
        BY <2>1, <3>1, <4>1 DEF Sits
    <3>2. CASE i \notin DOMAIN c.x.sent
      <4>1. y.sent[i] = r
        BY <1>5, <1>8, <2>2, <3>2
      <4> QED
        BY <1>1, <1>6, <4>1
    <3> QED
      BY <3>1, <3>2
  <2> QED
    BY <1>8, <2>1, <2>3 DEF Sits, OnlySent
<1>12. KillOk(e.mgr)
  BY <1>0, <1>9, KillChange DEF Good, K
<1>13. Good(e, F, R, n) /\ SameSessions(c, e)
  BY <1>1, <1>9, <1>10, <1>11, <1>12 DEF Good, SameSessions
<1>14. Placed(c.x, e.x, o, k)
  BY <1>5, <1>6, <1>9 DEF Placed, y
<1> QED
  BY <1>13, <1>14 DEF e

LEMMA DropGood ==
    ASSUME NEW F, NEW R, NEW n, RestOk(F, R, n), NEW c, Good(c, F, R, n),
           NEW i \in DOMAIN c.x.sent
    PROVE  /\ Good(finishSentRequest(c, i), F, R, n)
           /\ SameSessions(c, finishSentRequest(c, i))
           /\ finishSentRequest(c, i).x =
                [c.x EXCEPT !.sent = RemoveAt(c.x.sent, i)]
<1> DEFINE s == c.x.sent[i].session
           b == addRequested(c.mgr.balance[c.d], s, -1)
           q == RemoveAt(c.x.sent, i)
           y == [c.x EXCEPT !.sent = q]
           e == finishSentRequest(c, i)
           K == KillAfter(c, b, -1)
           g == [balance |-> [c.mgr.balance EXCEPT ![c.d] = b], kill |-> K]
<1>0. c \in CtxSet /\ c.x \in TaskSet /\ c.mgr.balance[c.d] \in BalanceSet
  BY CtxFact DEF Good
<1>a. /\ c.x.sent \in Seq(SentSet) /\ Len(c.x.sent) \in Nat
      /\ i \in 1 .. Len(c.x.sent)
  BY <1>0, TaskFact
<1>b. s \in 1 .. Len(c.mgr.balance[c.d].sessions)
  BY DEF Good, Sits
<1>c. -1 \in Int
  OBVIOUS
<1>1. /\ b \in BalanceSet /\ Len(b.sessions) = Len(c.mgr.balance[c.d].sessions)
      /\ \A j \in 1 .. Len(c.mgr.balance[c.d].sessions) :
           b.sessions[j].requested =
             c.mgr.balance[c.d].sessions[j].requested + (IF j = s THEN -1 ELSE 0)
      /\ b.total = c.mgr.balance[c.d].total + -1
  <2> HIDE DEF s
  <2> QED
    BY <1>0, <1>b, <1>c, AddFact
<1>2. changeRequestedAmount(c, s, -1) = [mgr |-> g, x |-> c.x, d |-> c.d]
  BY <1>0, <1>b, <1>c, AmountFact
<1>3. K \in [when : SUBSET DcIds, timer : BOOLEAN]
  BY <1>0, <1>c, KillAfterFact
<1>5. e = [mgr |-> g, x |-> y, d |-> c.d]
  <2>1. e = [changeRequestedAmount(c, s, -1) EXCEPT !.x.sent = RemoveAt(@, i)]
    BY DEF finishSentRequest
  <2> HIDE DEF g
  <2> QED
    BY <1>2, <2>1
<1>6. q \in Seq(SentSet) /\ Len(q) = Len(c.x.sent) - 1
  BY <1>a, RemoveFact
<1>7. y \in TaskSet /\ y.sent = q /\ OnlySent(c.x, y)
  BY <1>0, <1>6, SentFact
<1> HIDE DEF y, b, K
<1>8. /\ e \in CtxSet /\ SameElsewhere(c, e) /\ e.mgr.balance[c.d] = b
      /\ e.mgr.kill = K /\ e.d = c.d /\ e.x = y
  BY <1>0, <1>1, <1>3, <1>5, <1>7, BalanceChange
<1> HIDE DEF e, g
<1>9. Counted(c.mgr.balance[c.d], c.x.sent, F, R)
  BY DEF Good
<1>10. Counted(b, q, F, R)
  <2>3. ASSUME NEW j \in 1 .. Len(b.sessions)
        PROVE  b.sessions[j].requested = Cardinality(In(q, j)) + F[j]
    <3>1. c.mgr.balance[c.d].sessions[j].requested =
            Cardinality(In(c.x.sent, j)) + F[j]
      BY <1>1, <1>9 DEF Counted
    <3>2. Cardinality(In(q, j)) =
            Cardinality(In(c.x.sent, j)) - (IF s = j THEN 1 ELSE 0)
      BY <1>a, InRemove
    <3>3. Cardinality(In(c.x.sent, j)) \in Nat
      BY <1>a, InFinite
    <3>4. F[j] \in Nat
      <4>1. Len(b.sessions) \in Nat
        BY <1>1, SessionsFact
      <4> QED
        BY <4>1, RestFact
    <3>5. b.sessions[j].requested =
            c.mgr.balance[c.d].sessions[j].requested + (IF j = s THEN -1 ELSE 0)
      BY <1>1
    <3> HIDE DEF s, q
    <3> QED
      BY <3>1, <3>2, <3>3, <3>4, <3>5
  <2>4. b.total = Len(q) + R
    <3>1. c.mgr.balance[c.d].total = Len(c.x.sent) + R /\ R \in Nat
      BY <1>9, RestFact DEF Counted
    <3>2. b.total = c.mgr.balance[c.d].total + -1
      BY <1>1
    <3> QED
      BY <1>a, <1>6, <3>1, <3>2
  <2> QED
    BY <2>3, <2>4 DEF Counted
<1>11. Sits(y, Len(b.sessions))
  <2>1. Sits(c.x, Len(b.sessions))
    BY <1>1 DEF Good
  <2>2. ASSUME NEW j \in DOMAIN q
        PROVE  q[j].session \in 1 .. Len(b.sessions)
    <3>1. PICK k \in DOMAIN c.x.sent : q[j] = c.x.sent[k]
      BY <1>a, RemoveElements
    <3> QED
      BY <2>1, <3>1 DEF Sits
  <2> QED
    BY <1>7, <2>1, <2>2 DEF Sits, OnlySent
<1>12. KillOk(e.mgr)
  <2>1. NothingRequested(b) => b.total = 0
    <3>1. n <= Len(b.sessions)
      BY <1>1 DEF Good
    <3>2. \A j \in DOMAIN q : q[j].session \in 1 .. Len(b.sessions)
      BY <1>7, <1>11 DEF Sits
    <3> HIDE DEF q
    <3> QED
      BY <1>1, <1>6, <1>10, <3>1, <3>2, NothingFact
  <2>2. c.d \notin c.mgr.kill.when
    <3>1. c.mgr.balance[c.d].total = Len(c.x.sent) + R /\ R \in Nat
      BY <1>9, RestFact DEF Counted
    <3>2. c.mgr.balance[c.d].total # 0
      BY <1>a, <3>1
    <3> QED
      BY <3>2 DEF Good, KillOk
  <2> QED
    BY <1>0, <1>c, <1>8, <2>1, <2>2, KillChange DEF Good, K
<1>13. Good(e, F, R, n) /\ SameSessions(c, e)
  BY <1>1, <1>7, <1>8, <1>10, <1>11, <1>12 DEF Good, SameSessions
<1> QED
  BY <1>8, <1>13 DEF e, y

(* Another balance that counts the same, maybe with more sessions. *)
Grown(a, b) ==
    /\ b \in BalanceSet /\ Len(b.sessions) >= Len(a.sessions)
    /\ \A k \in 1 .. Len(b.sessions) : b.sessions[k].requested =
         IF k <= Len(a.sessions) THEN a.sessions[k].requested ELSE 0
    /\ b.total = a.total

LEMMA BalanceGood ==
    ASSUME NEW F, NEW R, NEW n, RestOk(F, R, n), NEW c, Good(c, F, R, n),
           NEW b, Grown(c.mgr.balance[c.d], b)
    PROVE  /\ Good([c EXCEPT !.mgr.balance[c.d] = b], F, R, n)
           /\ SameElsewhere(c, [c EXCEPT !.mgr.balance[c.d] = b])
           /\ [c EXCEPT !.mgr.balance[c.d] = b].x = c.x
           /\ [c EXCEPT !.mgr.balance[c.d] = b].mgr.balance[c.d] = b
<1> DEFINE e == [c EXCEPT !.mgr.balance[c.d] = b]
           g == [balance |-> [c.mgr.balance EXCEPT ![c.d] = b],
                 kill |-> c.mgr.kill]
           a == c.mgr.balance[c.d]
<1>g. /\ b \in BalanceSet
      /\ Len(b.sessions) >= Len(a.sessions)
      /\ \A k \in 1 .. Len(b.sessions) : b.sessions[k].requested =
           IF k <= Len(a.sessions) THEN a.sessions[k].requested ELSE 0
      /\ b.total = a.total
  BY DEF Grown
<1> USE <1>g
<1>0. /\ c \in CtxSet /\ c.x \in TaskSet /\ a \in BalanceSet
      /\ c.mgr.kill \in [when : SUBSET DcIds, timer : BOOLEAN]
      /\ c.mgr \in MgrSet /\ c.d \in DcIds /\ c.mgr.kill.when \subseteq DcIds
  BY CtxFact DEF Good
<1>1. e = [mgr |-> g, x |-> c.x, d |-> c.d]
  <2>1. [c.mgr EXCEPT !.balance[c.d] = b] = g
    BY <1>0 DEF MgrSet
  <2>2. e = [c EXCEPT !.mgr = [c.mgr EXCEPT !.balance[c.d] = b]]
    BY <1>0 DEF CtxSet
  <2> HIDE DEF g, e
  <2> QED
    BY <1>0, <2>1, <2>2 DEF CtxSet
<1>2. /\ e \in CtxSet /\ SameElsewhere(c, e) /\ e.mgr.balance[c.d] = b
      /\ e.mgr.kill = c.mgr.kill /\ e.d = c.d /\ e.x = c.x
  BY <1>0, <1>1, BalanceChange
<1> HIDE DEF e, g
<1>3. Len(a.sessions) \in Nat /\ Len(b.sessions) \in Nat
  BY <1>0, SessionsFact
<1>4. Sits(c.x, Len(b.sessions))
  <2>1. \A k \in 1 .. Len(a.sessions) : k \in 1 .. Len(b.sessions)
    BY <1>3
  <2>2. Sits(c.x, Len(a.sessions))
    BY DEF Good
  <2> QED
    BY <2>1, <2>2 DEF Sits
<1>5. Counted(b, c.x.sent, F, R)
  <2>1. ASSUME NEW k \in 1 .. Len(b.sessions)
        PROVE  b.sessions[k].requested = Cardinality(In(c.x.sent, k)) + F[k]
    <3>1. CASE k <= Len(a.sessions)
      <4>1. k \in 1 .. Len(a.sessions)
        BY <1>3, <3>1
      <4> QED
        BY <3>1, <4>1 DEF Good, Counted
    <3>2. CASE ~(k <= Len(a.sessions))
      <4>1. In(c.x.sent, k) = {}
        BY <1>3, <3>2 DEF Good, Sits, In
      <4>2. F[k] = 0
        <5>1. n <= Len(a.sessions) /\ n \in Nat
          BY <1>3, RestFact DEF Good
        <5>2. k > n /\ k \in Nat
          BY <1>3, <3>2, <5>1
        <5> QED
          BY <5>2 DEF RestOk
      <4> QED
        BY <3>2, <4>1, <4>2, FS_EmptySet
    <3> QED
      BY <3>1, <3>2
  <2> QED
    BY <2>1 DEF Good, Counted
<1>6. KillOk(e.mgr)
  <2>1. ASSUME NEW d \in c.mgr.kill.when PROVE e.mgr.balance[d].total = 0
    <3>1. c.mgr.balance[d].total = 0 /\ d \in DcIds
      BY <1>0 DEF Good, KillOk
    <3> QED
      BY <1>2, <3>1 DEF SameElsewhere
  <2> QED
    BY <1>2, <2>1 DEF Good, KillOk
<1>7. Len(b.sessions) >= n
  <2>1. Len(a.sessions) >= n /\ n \in Nat
    BY RestFact DEF Good
  <2> QED
    BY <1>3, <2>1
<1> QED
  BY <1>2, <1>4, <1>5, <1>6, <1>7 DEF Good, e

(* The same sessions with the same amounts, or more of them. *)
Recount(a, b) ==
    /\ b \in BalanceSet /\ Len(b.sessions) = Len(a.sessions)
    /\ \A k \in 1 .. Len(a.sessions) :
         b.sessions[k].requested = a.sessions[k].requested
    /\ b.total = a.total

LEMMA RecountTwice ==
    ASSUME NEW a \in BalanceSet, NEW b, NEW c, Recount(a, b), Recount(b, c)
    PROVE  Recount(a, c)
  BY DEF Recount

(* One session is replaced by one with the same amount. *)
LEMMA RecountOne ==
    ASSUME NEW b \in BalanceSet, NEW i \in 1 .. Len(b.sessions),
           NEW r \in SessionSet, r.requested = b.sessions[i].requested
    PROVE  Recount(b, [b EXCEPT !.sessions = [b.sessions EXCEPT ![i] = r]])
<1> DEFINE S == [b.sessions EXCEPT ![i] = r]
<1>1. b.sessions \in Seq(SessionSet)
  BY SessionsFact
<1>2. /\ S \in Seq(SessionSet) /\ Len(S) = Len(b.sessions)
      /\ \A k \in 1 .. Len(b.sessions) : S[k] = IF k = i THEN r ELSE b.sessions[k]
  BY <1>1, ReplaceFact
<1> HIDE DEF S
<1>3. /\ [b EXCEPT !.sessions = S] \in BalanceSet
      /\ [b EXCEPT !.sessions = S].sessions = S
      /\ [b EXCEPT !.sessions = S].total = b.total
  BY <1>2 DEF BalanceSet
<1>4. \A k \in 1 .. Len(b.sessions) : S[k].requested = b.sessions[k].requested
  BY <1>2
<1> QED
  BY <1>2, <1>3, <1>4 DEF Recount, S

LEMMA RecountReset ==
    ASSUME NEW b \in BalanceSet
    PROVE  /\ Recount(b, resetSuccesses(b))
           /\ resetSuccesses(b).timeouts = b.timeouts
<1> DEFINE S == [i \in DOMAIN b.sessions |-> [b.sessions[i] EXCEPT !.successes = 0]]
<1>1. /\ DOMAIN b.sessions = 1 .. Len(b.sessions) /\ Len(b.sessions) \in Nat
      /\ \A k \in 1 .. Len(b.sessions) : b.sessions[k] \in SessionSet
  BY SessionsFact
<1>2. \A r \in SessionSet : /\ [r EXCEPT !.successes = 0] \in SessionSet
                            /\ [r EXCEPT !.successes = 0].requested = r.requested
  BY DEF SessionSet
<1>3. \A k \in 1 .. Len(b.sessions) :
        S[k] \in SessionSet /\ S[k].requested = b.sessions[k].requested
  BY <1>1, <1>2
<1>4. S \in Seq(SessionSet) /\ Len(S) = Len(b.sessions)
  <2>1. S = [k \in 1 .. Len(b.sessions) |-> S[k]]
    BY <1>1
  <2> HIDE DEF S
  <2> QED
    BY <1>1, <1>3, <2>1
<1>5. resetSuccesses(b) = [b EXCEPT !.sessions = S]
  BY DEF resetSuccesses
<1> HIDE DEF S
<1>6. /\ [b EXCEPT !.sessions = S] \in BalanceSet
      /\ [b EXCEPT !.sessions = S].sessions = S
      /\ [b EXCEPT !.sessions = S].total = b.total
      /\ [b EXCEPT !.sessions = S].timeouts = b.timeouts
  BY <1>4 DEF BalanceSet
<1> QED
  BY <1>3, <1>4, <1>5, <1>6 DEF Recount

LEMMA SmallerFact ==
    ASSUME NEW a \in Int, NEW b \in Int
    PROVE  Smaller(a, b) \in Int
  BY DEF Smaller

LEMMA RecountGrow ==
    ASSUME NEW b \in BalanceSet, NEW i \in 1 .. Len(b.sessions), NEW amount
    PROVE  Recount(b, countSuccess(growWaited(b, i, amount), i))
<1>1. MaxWaited \in Int /\ MaxTrackedSuccesses \in Int
  BY BalanceAssumption DEF MaxTrackedSuccesses
<1>2. ASSUME NEW a \in BalanceSet, i \in 1 .. Len(a.sessions)
      PROVE  Recount(a, countSuccess(a, i))
  <2> DEFINE v == Smaller(a.sessions[i].successes + 1, MaxTrackedSuccesses)
             r == [a.sessions[i] EXCEPT !.successes = v]
  <2>1. a.sessions[i] \in SessionSet
    BY <1>2, SessionsFact
  <2>2. v \in Int
    <3>1. a.sessions[i].successes + 1 \in Int
      BY <2>1 DEF SessionSet
    <3> QED
      BY <1>1, <3>1, SmallerFact
  <2>3. countSuccess(a, i) =
          [a EXCEPT !.sessions = [a.sessions EXCEPT ![i] = r]]
    BY DEF countSuccess
  <2> HIDE DEF v
  <2>4. r \in SessionSet /\ r.requested = a.sessions[i].requested
    BY <2>1, <2>2 DEF SessionSet
  <2> HIDE DEF r
  <2> QED
    BY <1>2, <2>3, <2>4, RecountOne
<1>3. Recount(b, growWaited(b, i, amount))
  <2> DEFINE v == Smaller(b.sessions[i].maxWaited + 1, MaxWaited)
             r == [b.sessions[i] EXCEPT !.maxWaited = v]
  <2>1. b.sessions[i] \in SessionSet
    BY SessionsFact
  <2>2. v \in Nat \ {0}
    <3>1. b.sessions[i].maxWaited + 1 \in Nat \ {0} /\ MaxWaited \in Nat \ {0}
      BY <2>1, BalanceAssumption DEF SessionSet
    <3> QED
      BY <3>1 DEF Smaller
  <2>3. growWaited(b, i, amount) =
          IF amount = b.sessions[i].maxWaited
            THEN [b EXCEPT !.sessions = [b.sessions EXCEPT ![i] = r]] ELSE b
    BY DEF growWaited
  <2> HIDE DEF v
  <2>4. r \in SessionSet /\ r.requested = b.sessions[i].requested
    BY <2>1, <2>2 DEF SessionSet
  <2> HIDE DEF r
  <2>5. Recount(b, [b EXCEPT !.sessions = [b.sessions EXCEPT ![i] = r]])
    BY <2>4, RecountOne
  <2>6. Recount(b, b)
    BY DEF Recount
  <2> QED
    BY <2>3, <2>5, <2>6
<1>4. /\ growWaited(b, i, amount) \in BalanceSet
      /\ i \in 1 .. Len(growWaited(b, i, amount).sessions)
  BY <1>3 DEF Recount
<1> QED
  BY <1>2, <1>3, <1>4, RecountTwice

LEMMA SucceededFact ==
    ASSUME NEW b \in BalanceSet, NEW i \in 1 .. Len(b.sessions), NEW amount,
           NEW early
    PROVE  Grown(b, requestSucceeded(b, i, amount, early))
<1> DEFINE c == countSuccess(growWaited(b, i, amount), i)
           e == resetSuccesses(c)
<1>0. ASSUME NEW a, Recount(b, a) PROVE Grown(b, a)
  <2>1. Len(b.sessions) \in Nat
    BY SessionsFact
  <2> QED
    BY <1>0, <2>1 DEF Grown, Recount
<1>1. Recount(b, c)
  BY RecountGrow
<1> HIDE DEF c
<1>2. Recount(b, e)
  <2>1. c \in BalanceSet
    BY <1>1 DEF Recount
  <2> QED
    BY <1>1, <2>1, RecountReset, RecountTwice
<1> HIDE DEF e
<1>3. Recount(b, [e EXCEPT !.timeouts = @ - 1])
  <2>1. e \in BalanceSet
    BY <1>2 DEF Recount
  <2>2. /\ [e EXCEPT !.timeouts = @ - 1] \in BalanceSet
        /\ [e EXCEPT !.timeouts = @ - 1].sessions = e.sessions
        /\ [e EXCEPT !.timeouts = @ - 1].total = e.total
    <3> DEFINE v == e.timeouts - 1
    <3>1. v \in Int
      BY <2>1 DEF BalanceSet
    <3> HIDE DEF v
    <3>2. /\ [e EXCEPT !.timeouts = v] \in BalanceSet
          /\ [e EXCEPT !.timeouts = v].sessions = e.sessions
          /\ [e EXCEPT !.timeouts = v].total = e.total
      BY <2>1, <3>1 DEF BalanceSet
    <3> QED
      BY <3>2 DEF v
  <2> QED
    BY <1>2, <2>2 DEF Recount
<1>4. Grown(b, [e EXCEPT !.sessions = Append(@, NewSession)])
  <2> DEFINE S == Append(e.sessions, NewSession)
  <2>1. e \in BalanceSet
    BY <1>2 DEF Recount
  <2>2. NewSession \in SessionSet /\ NewSession.requested = 0
    BY BalanceAssumption DEF NewSession, SessionSet
  <2>3. e.sessions \in Seq(SessionSet) /\ Len(e.sessions) \in Nat
    BY <2>1, SessionsFact
  <2>4. /\ S \in Seq(SessionSet) /\ Len(S) = Len(e.sessions) + 1
        /\ \A k \in 1 .. Len(e.sessions) + 1 :
             S[k] = IF k <= Len(e.sessions) THEN e.sessions[k] ELSE NewSession
    BY <2>2, <2>3
  <2> HIDE DEF S
  <2>5. /\ [e EXCEPT !.sessions = S] \in BalanceSet
        /\ [e EXCEPT !.sessions = S].sessions = S
        /\ [e EXCEPT !.sessions = S].total = e.total
    BY <2>1, <2>4 DEF BalanceSet
  <2>6. Len(e.sessions) = Len(b.sessions)
    BY <1>2 DEF Recount
  <2>7. ASSUME NEW k \in 1 .. Len(S)
        PROVE  S[k].requested =
                 IF k <= Len(b.sessions) THEN b.sessions[k].requested ELSE 0
    <3>1. CASE k <= Len(b.sessions)
      <4>1. k \in 1 .. Len(b.sessions)
        BY <2>3, <2>4, <2>6, <3>1
      <4>2. S[k] = e.sessions[k]
        BY <2>3, <2>4, <2>6, <3>1
      <4> QED
        BY <1>2, <3>1, <4>1, <4>2 DEF Recount
    <3>2. CASE ~(k <= Len(b.sessions))
      <4>1. S[k] = NewSession
        BY <2>3, <2>4, <2>6, <3>2
      <4> QED
        BY <2>2, <3>2, <4>1
    <3> QED
      BY <3>1, <3>2
  <2>8. Len(S) >= Len(b.sessions)
    BY <2>3, <2>4, <2>6
  <2>9. e.total = b.total
    BY <1>2 DEF Recount
  <2>10. Grown(b, [e EXCEPT !.sessions = S])
    BY <2>5, <2>7, <2>8, <2>9 DEF Grown
  <2> QED
    BY <2>10 DEF S
<1>5. \/ requestSucceeded(b, i, amount, early) = c
      \/ requestSucceeded(b, i, amount, early) = [e EXCEPT !.timeouts = @ - 1]
      \/ requestSucceeded(b, i, amount, early) =
           [e EXCEPT !.sessions = Append(@, NewSession)]
      \/ requestSucceeded(b, i, amount, early) = e
  BY DEF requestSucceeded, c, e
<1> QED
  BY <1>0, <1>1, <1>2, <1>3, <1>4, <1>5

(* A task whose requests are in the same sessions. *)
LEMMA TaskGood ==
    ASSUME NEW F, NEW R, NEW n, RestOk(F, R, n), NEW c, Good(c, F, R, n),
           NEW y \in TaskSet, Len(y.sent) = Len(c.x.sent),
           \A i \in DOMAIN c.x.sent : y.sent[i].session = c.x.sent[i].session,
           \A u \in y.unchecked :
             u.session \in 1 .. Len(c.mgr.balance[c.d].sessions)
    PROVE  /\ Good([c EXCEPT !.x = y], F, R, n)
           /\ SameSessions(c, [c EXCEPT !.x = y])
           /\ [c EXCEPT !.x = y].x = y
<1> DEFINE e == [c EXCEPT !.x = y]
<1>0. c \in CtxSet /\ c.x \in TaskSet
  BY CtxFact DEF Good
<1>1. e \in CtxSet /\ e.mgr = c.mgr /\ e.d = c.d /\ e.x = y
  BY <1>0 DEF CtxSet
<1> HIDE DEF e
<1>2. DOMAIN y.sent = DOMAIN c.x.sent
  BY <1>0, TaskFact
<1>3. \A k : In(y.sent, k) = In(c.x.sent, k)
  BY <1>2 DEF In
<1>4. Counted(c.mgr.balance[c.d], y.sent, F, R)
  BY <1>3 DEF Good, Counted
<1>5. Sits(y, Len(c.mgr.balance[c.d].sessions))
  BY <1>2 DEF Good, Sits
<1>6. Good(e, F, R, n)
  BY <1>1, <1>4, <1>5 DEF Good
<1>7. SameSessions(c, e)
  BY <1>1 DEF SameSessions, SameElsewhere
<1> QED
  BY <1>1, <1>6, <1>7 DEF e

(* Nothing is in flight or put aside any more. *)
Cleared(x, y) ==
    /\ y \in TaskSet /\ y.sent = <<>> /\ y.unchecked = {}
    /\ y.alive = x.alive /\ y.finished = x.finished /\ y.done = x.done
    /\ y.failed = x.failed /\ y.known = x.known /\ y.next = x.next
    /\ y.last = x.last /\ y.wanted = x.wanted /\ y.priority = x.priority
    /\ y.cdn = x.cdn /\ y.fed = x.fed

LEMMA EmptyGood ==
    ASSUME NEW F, NEW R, NEW n, RestOk(F, R, n), NEW c, Good(c, F, R, n),
           NEW b \in BalanceSet, Len(b.sessions) = Len(c.mgr.balance[c.d].sessions),
           \A k \in 1 .. Len(b.sessions) : b.sessions[k].requested = F[k],
           b.total = R, c.x.sent # <<>>, NEW y \in TaskSet, y.sent = <<>>,
           y.unchecked = {}, NEW e,
           e = [mgr |-> [balance |-> [c.mgr.balance EXCEPT ![c.d] = b],
                         kill |-> KillAfter(c, b, -1)], x |-> y, d |-> c.d]
    PROVE  Good(e, F, R, n) /\ SameSessions(c, e)
<1> DEFINE K == KillAfter(c, b, -1)
<1>c. -1 \in Int
  OBVIOUS
<1>0. c \in CtxSet /\ c.x \in TaskSet
  BY CtxFact DEF Good
<1>1. K \in [when : SUBSET DcIds, timer : BOOLEAN]
  BY <1>0, <1>c, KillAfterFact
<1> HIDE DEF K
<1>2. e = [mgr |-> [balance |-> [c.mgr.balance EXCEPT ![c.d] = b], kill |-> K],
           x |-> y, d |-> c.d]
  BY DEF K
<1>3. /\ e \in CtxSet /\ SameElsewhere(c, e) /\ e.mgr.balance[c.d] = b
      /\ e.mgr.kill = K /\ e.d = c.d /\ e.x = y
  BY <1>0, <1>1, <1>2, BalanceChange
<1>4. Counted(b, y.sent, F, R)
  <2>1. R \in Nat
    BY RestFact
  <2>2. ASSUME NEW k \in 1 .. Len(b.sessions)
        PROVE  b.sessions[k].requested = Cardinality(In(y.sent, k)) + F[k]
    <3>1. In(y.sent, k) = {}
      BY DEF In
    <3>2. F[k] \in Nat
      <4>1. Len(b.sessions) \in Nat
        BY SessionsFact
      <4> QED
        BY <4>1, RestFact
    <3>3. Cardinality(In(y.sent, k)) = 0
      BY <3>1, FS_EmptySet
    <3>4. b.sessions[k].requested = F[k]
      OBVIOUS
    <3> QED
      BY <3>2, <3>3, <3>4
  <2> QED
    BY <2>1, <2>2 DEF Counted
<1>5. Sits(y, Len(b.sessions))
  BY DEF Sits
<1>6. KillOk(e.mgr)
  <2>1. NothingRequested(b) => b.total = 0
    <3>1. n <= Len(b.sessions)
      BY DEF Good
    <3>2. \A j \in DOMAIN y.sent : y.sent[j].session \in 1 .. Len(b.sessions)
      BY <1>5 DEF Sits
    <3>3. y.sent \in Seq(SentSet)
      BY TaskFact
    <3> QED
      BY <1>4, <3>1, <3>2, <3>3, NothingFact
  <2>2. c.d \notin c.mgr.kill.when
    <3>1. c.mgr.balance[c.d].total = Len(c.x.sent) + R /\ R \in Nat
      BY RestFact DEF Counted, Good
    <3>2. Len(c.x.sent) \in Nat /\ Len(c.x.sent) # 0
      BY <1>0, TaskFact
    <3>3. c.mgr.balance[c.d].total # 0
      BY <3>1, <3>2
    <3> QED
      BY <3>3 DEF Good, KillOk
  <2> QED
    BY <1>0, <1>c, <1>3, <2>1, <2>2, KillChange DEF Good, K
<1> QED
  BY <1>3, <1>4, <1>5, <1>6 DEF Good, SameSessions

LEMMA RefreshingFact ==
    ASSUME NEW x \in TaskSet
    PROVE  Cardinality(refreshing(x)) \in Nat
<1>1. IsFiniteSet(1 .. Len(x.sent))
  <2>1. 1 \in Int /\ Len(x.sent) \in Int
    BY TaskFact
  <2> QED
    BY <2>1, FS_Interval, Zenon
<1>2. refreshing(x) \in SUBSET (1 .. Len(x.sent))
  BY TaskFact DEF refreshing
<1>3. IsFiniteSet(refreshing(x))
  BY <1>1, <1>2, FS_Subset
<1> QED
  BY <1>3, FS_CardinalityType

LEMMA CancelAllGood ==
    ASSUME NEW F, NEW R, NEW n, RestOk(F, R, n), NEW c, Good(c, F, R, n)
    PROVE  /\ Good(cancelAllRequests(c), F, R, n)
           /\ SameSessions(c, cancelAllRequests(c))
           /\ Cleared(c.x, cancelAllRequests(c).x)
<1>0. /\ c \in CtxSet /\ c.x \in TaskSet
      /\ c.mgr.balance[c.d] \in BalanceSet
  BY CtxFact DEF Good
<1>1. CASE c.x.sent = <<>>
  <2> DEFINE y == [c.x EXCEPT !.unchecked = {}]
  <2>1. /\ Cleared(c.x, y) /\ y.sent = c.x.sent /\ y.unchecked = {}
        /\ y \in TaskSet
    BY <1>0, <1>1 DEF TaskSet, Cleared
  <2>2. cancelAllRequests(c) = [c EXCEPT !.x = y]
    BY <1>1 DEF cancelAllRequests
  <2> HIDE DEF y
  <2> QED
    BY <2>1, <2>2, TaskGood
<1>2. CASE c.x.sent # <<>>
  <2> DEFINE a == c.mgr.balance[c.d]
             f(i) == [a.sessions[i] EXCEPT
                        !.requested = @ - Cardinality(SentIn(c.x, i))]
             S == [i \in DOMAIN a.sessions |-> f(i)]
             b == [a EXCEPT !.total = @ - Len(c.x.sent), !.sessions = S]
             y == [c.x EXCEPT
                     !.sent = <<>>, !.unchecked = {},
                     !.orphans = @ + Cardinality(refreshing(c.x)),
                     !.hashPosted = @ \/ (hashesRequested(c.x)
                                            /\ c.x.unchecked # {})]
             g == [balance |-> [c.mgr.balance EXCEPT ![c.d] = b],
                   kill |-> KillAfter(c, b, -1)]
             e == [mgr |-> g, x |-> y, d |-> c.d]
  <2>1. cancelAllRequests(c) = e
    <3>1. ~(-1 > 0)
      OBVIOUS
    <3>2. cancelAllRequests(c) = [c EXCEPT !.mgr = g, !.x = y]
      BY <1>2, <3>1 DEF cancelAllRequests, KillAfter
    <3> HIDE DEF g, y
    <3> QED
      BY <1>0, <3>2 DEF CtxSet
  <2>2. Cleared(c.x, y)
    <3> DEFINE o == c.x.orphans + Cardinality(refreshing(c.x))
               h == c.x.hashPosted \/ (hashesRequested(c.x)
                                            /\ c.x.unchecked # {})
    <3>1. o \in Int
      <4>1. c.x.orphans \in Int
        BY <1>0 DEF TaskSet
      <4> QED
        BY <1>0, <4>1, RefreshingFact
    <3>2. h \in BOOLEAN
      OBVIOUS
    <3> HIDE DEF o, h
    <3> DEFINE z == [c.x EXCEPT !.sent = <<>>]
    <3>3. z \in TaskSet /\ z.sent = <<>> /\ OnlySent(c.x, z)
      <4>1. <<>> \in Seq(SentSet)
        OBVIOUS
      <4> QED
        BY <1>0, <4>1, SentFact
    <3> HIDE DEF z
    <3>4. Cleared(z, [z EXCEPT !.unchecked = {}, !.orphans = o,
                               !.hashPosted = h])
      BY <3>1, <3>2, <3>3 DEF TaskSet, Cleared
    <3>5. Cleared(c.x, [z EXCEPT !.unchecked = {}, !.orphans = o,
                                 !.hashPosted = h])
      BY <3>3, <3>4 DEF Cleared, OnlySent
    <3> QED
      BY <3>5 DEF o, h, z
  <2> HIDE DEF y
  <2>3. /\ DOMAIN a.sessions = 1 .. Len(a.sessions) /\ Len(a.sessions) \in Nat
        /\ \A k \in 1 .. Len(a.sessions) : /\ a.sessions[k] \in SessionSet
                                           /\ a.sessions[k].requested \in Int
        /\ a.total \in Int
    BY <1>0, SessionsFact
  <2>4. ASSUME NEW k \in 1 .. Len(a.sessions)
        PROVE  S[k] \in SessionSet /\ S[k].requested = F[k]
    <3> DEFINE m == Cardinality(In(c.x.sent, k))
               v == a.sessions[k].requested - m
    <3>1. a.sessions[k].requested = m + F[k]
      BY DEF Good, Counted
    <3>2. m \in Nat
      BY <1>0, TaskFact, InFinite
    <3>3. F[k] \in Nat
      BY <2>3, RestFact
    <3>4. v = F[k] /\ v \in Int
      <4> HIDE DEF m
      <4> QED
        BY <3>1, <3>2, <3>3
    <3>5. SentIn(c.x, k) = In(c.x.sent, k)
      BY DEF SentIn, In
    <3>6. S[k] = [a.sessions[k] EXCEPT !.requested = v]
      <4>1. f(k) = [a.sessions[k] EXCEPT !.requested = v]
        BY <3>5
      <4> HIDE DEF f, v, a
      <4> QED
        BY <2>3, <4>1
    <3> HIDE DEF v, S
    <3>7. a.sessions[k] \in SessionSet
      BY <2>3
    <3> HIDE DEF a
    <3> QED
      BY <3>4, <3>6, <3>7 DEF SessionSet
  <2>5. S \in Seq(SessionSet) /\ Len(S) = Len(a.sessions)
    <3> HIDE DEF f
    <3>1. S = [k \in 1 .. Len(a.sessions) |-> S[k]]
      BY <2>3
    <3> HIDE DEF S, a
    <3> QED
      BY <2>3, <2>4, <3>1
  <2> HIDE DEF S
  <2>6. a.total - Len(c.x.sent) = R /\ R \in Int
    <3>1. a.total = Len(c.x.sent) + R /\ R \in Nat
      BY RestFact DEF Good, Counted
    <3>2. Len(c.x.sent) \in Nat
      BY <1>0, TaskFact
    <3> QED
      BY <3>1, <3>2
  <2>7. b \in BalanceSet /\ b.sessions = S /\ b.total = R
    <3>1. b = [a EXCEPT !.total = R, !.sessions = S]
      BY <2>6
    <3>2. a \in BalanceSet
      BY <1>0
    <3> HIDE DEF b, a
    <3> QED
      BY <2>5, <2>6, <3>1, <3>2 DEF BalanceSet
  <2>8. \A k \in 1 .. Len(b.sessions) : b.sessions[k].requested = F[k]
    BY <2>4, <2>5, <2>7
  <2>9. Len(b.sessions) = Len(c.mgr.balance[c.d].sessions)
    BY <2>5, <2>7
  <2> HIDE DEF b
  <2>10. y \in TaskSet /\ y.sent = <<>> /\ y.unchecked = {}
    BY <2>2 DEF Cleared
  <2>11. Good(e, F, R, n) /\ SameSessions(c, e)
    BY <1>2, <2>7, <2>8, <2>9, <2>10, EmptyGood
  <2>12. e.x = y
    OBVIOUS
  <2> HIDE DEF e
  <2> QED
    BY <2>1, <2>2, <2>11, <2>12
<1> QED
  BY <1>1, <1>2

-----------------------------------------------------------------------------
(* What holds of a task. *)
AsideAt(x, o) == \E u \in x.unchecked : u.offset = o
SentAt(x, o) == \E i \in DOMAIN x.sent : x.sent[i].offset = o

(* Of a file.  The offsets in P were taken from it to be given back: they
   are asked for again, fed or put aside before the handler is left. *)
FileOk(t, x, P) ==
    /\ x.wanted = {}
    /\ x.next \in 1 .. Parts[t] + 2
    /\ \A o \in Offsets : SentAt(x, o) \/ AsideAt(x, o) \/ o \in P => o < x.next
    /\ P # {} \/ haveSentRequests(x) => ~x.finished
    /\ ~x.finished => \A o \in Offsets : o < x.next =>
         x.fed[o] >= 1 \/ SentAt(x, o) \/ AsideAt(x, o) \/ o \in P
    /\ x.last => x.next > Parts[t]
    /\ \A o \in Offsets : x.fed[o] >= 1 /\ o > Parts[t] => x.last
    /\ x.done => x.finished /\ \A o \in 1 .. Parts[t] : x.fed[o] >= 1
    /\ \A i \in DOMAIN x.sent :
         isHashes(x.sent[i]) => AsideAt(x, x.sent[i].offset)
    /\ \A i, j \in DOMAIN x.sent :
         isHashes(x.sent[i]) /\ isHashes(x.sent[j]) => i = j

TaskBase(t, x, P) ==
    /\ x \in TaskSet /\ P \subseteq Offsets
    /\ IF t \in Streams THEN ~x.done ELSE FileOk(t, x, P)

(* While the token of the CDN stays valid a part is asked for by one
   request, or put aside, or fed. *)
Strict(t, x, P) ==
    /\ \A i, j \in DOMAIN x.sent : x.sent[i].offset = x.sent[j].offset => i = j
    /\ \A i, j \in DOMAIN x.sent :
         isHashes(x.sent[i]) /\ isHashes(x.sent[j]) => i = j
    /\ \A i \in DOMAIN x.sent :
         isHashes(x.sent[i]) <=> AsideAt(x, x.sent[i].offset)
    /\ ~x.cdn => x.unchecked = {}
    /\ x.cdn => t \in OnCdn
    /\ \A i \in DOMAIN x.sent : x.sent[i].kind = "cdn" => x.cdn
    /\ \A o \in P : ~SentAt(x, o) /\ ~AsideAt(x, o)
    /\ \A o \in x.wanted : ~SentAt(x, o) /\ ~AsideAt(x, o) /\ o \notin P
    /\ t \notin Streams => \A o \in Offsets :
         /\ x.fed[o] <= 1
         /\ SentAt(x, o) \/ AsideAt(x, o) \/ o \in P \/ o >= x.next
              => x.fed[o] = 0

Awaited(x) ==
    x.unchecked # {} /\ ~x.failed => hashesRequested(x) \/ x.hashPosted

(* The same requests and parts for what counts here. *)
SameShape(x, y) ==
    /\ y \in TaskSet /\ Len(y.sent) = Len(x.sent)
    /\ \A i \in DOMAIN x.sent : /\ y.sent[i].offset = x.sent[i].offset
                                /\ isHashes(y.sent[i]) => isHashes(x.sent[i])
    /\ \A o \in Offsets : AsideAt(y, o) <=> AsideAt(x, o)
    /\ y.wanted = x.wanted /\ y.next = x.next /\ y.finished = x.finished
    /\ y.fed = x.fed /\ y.last = x.last

LEMMA ShapeAt ==
    ASSUME NEW x \in TaskSet, NEW y, SameShape(x, y)
    PROVE  /\ DOMAIN y.sent = DOMAIN x.sent
           /\ \A o : SentAt(y, o) <=> SentAt(x, o)
           /\ \A i \in DOMAIN x.sent : x.sent[i].offset \in Offsets
           /\ haveSentRequests(y) <=> haveSentRequests(x)
<1>1. y \in TaskSet
  BY DEF SameShape
<1>2. DOMAIN y.sent = DOMAIN x.sent
  BY <1>1, TaskFact DEF SameShape
<1>3. \A r \in SentSet : r.offset \in Offsets
  BY DEF SentSet
<1>4. \A u \in AsideSet : u.offset \in Offsets
  BY DEF AsideSet
<1>5. y.sent = <<>> <=> x.sent = <<>>
  BY <1>1, TaskFact DEF SameShape
<1>6. \A z \in TaskSet : z.unchecked # {} <=> \E o \in Offsets : AsideAt(z, o)
  <2> TAKE z \in TaskSet
  <2>1. z.unchecked \subseteq AsideSet
    BY TaskFact
  <2> QED
    BY <1>4, <2>1 DEF AsideAt
<1>7. y.unchecked # {} <=> x.unchecked # {}
  BY <1>1, <1>6 DEF SameShape
<1> QED
  BY <1>2, <1>3, <1>5, <1>7, TaskFact DEF SameShape, SentAt, haveSentRequests

LEMMA ShapeBase ==
    ASSUME NEW t, NEW x, NEW P, TaskBase(t, x, P), NEW y, SameShape(x, y),
           y.done => x.done
    PROVE  TaskBase(t, y, P)
<1>1. x \in TaskSet /\ y \in TaskSet /\ P \subseteq Offsets
  BY DEF TaskBase, SameShape
<1>2. CASE t \in Streams
  BY <1>1, <1>2 DEF TaskBase
<1>3. CASE t \notin Streams
  <2>1. FileOk(t, x, P)
    BY <1>3 DEF TaskBase
  <2>2. /\ DOMAIN y.sent = DOMAIN x.sent
        /\ \A o : SentAt(y, o) <=> SentAt(x, o)
        /\ \A i \in DOMAIN x.sent : x.sent[i].offset \in Offsets
        /\ haveSentRequests(y) <=> haveSentRequests(x)
    BY <1>1, ShapeAt
  <2>3. FileOk(t, y, P)
    BY <2>1, <2>2 DEF FileOk, SameShape
  <2> QED
    BY <1>1, <1>3, <2>3 DEF TaskBase
<1> QED
  BY <1>2, <1>3

LEMMA ShapeStrict ==
    ASSUME NEW t, NEW x \in TaskSet, NEW P \in SUBSET Offsets,
           Strict(t, x, P), NEW y, SameShape(x, y),
           \A i \in DOMAIN x.sent :
             isHashes(x.sent[i]) => isHashes(y.sent[i]),
           y.cdn = x.cdn \/ (y.cdn /\ t \in OnCdn),
           \A i \in DOMAIN y.sent : y.sent[i].kind = "cdn" => y.cdn
    PROVE  Strict(t, y, P)
<1>1. y \in TaskSet
  BY DEF SameShape
<1>2. /\ DOMAIN y.sent = DOMAIN x.sent
      /\ \A o : SentAt(y, o) <=> SentAt(x, o)
      /\ \A i \in DOMAIN x.sent : x.sent[i].offset \in Offsets
  BY ShapeAt
<1>3. x.unchecked = {} => y.unchecked = {}
  <2>1. \A u \in AsideSet : u.offset \in Offsets
    BY DEF AsideSet
  <2>2. y.unchecked \subseteq AsideSet
    BY <1>1, TaskFact
  <2> QED
    BY <2>1, <2>2 DEF SameShape, AsideAt
<1>4. x.wanted \subseteq Offsets
  BY TaskFact
<1>5. /\ \A i, j \in DOMAIN y.sent : y.sent[i].offset = y.sent[j].offset => i = j
      /\ \A i, j \in DOMAIN y.sent :
           isHashes(y.sent[i]) /\ isHashes(y.sent[j]) => i = j
      /\ \A i \in DOMAIN y.sent :
           isHashes(y.sent[i]) <=> AsideAt(y, y.sent[i].offset)
  BY <1>2 DEF Strict, SameShape
<1>6. ~y.cdn => y.unchecked = {}
  BY <1>3 DEF Strict
<1>7. /\ \A o \in P : ~SentAt(y, o) /\ ~AsideAt(y, o)
      /\ \A o \in y.wanted : ~SentAt(y, o) /\ ~AsideAt(y, o) /\ o \notin P
  BY <1>2, <1>4 DEF Strict, SameShape
<1>8. t \notin Streams => \A o \in Offsets :
         /\ y.fed[o] <= 1
         /\ SentAt(y, o) \/ AsideAt(y, o) \/ o \in P \/ o >= y.next
              => y.fed[o] = 0
  BY <1>2 DEF Strict, SameShape
<1> QED
  BY <1>5, <1>6, <1>7, <1>8 DEF Strict

(* One request less. *)
Dropped(x, y, i) ==
    i \in DOMAIN x.sent /\ y = [x EXCEPT !.sent = RemoveAt(x.sent, i)]

LEMMA DropAt ==
    ASSUME NEW x \in TaskSet, NEW y, NEW i, Dropped(x, y, i)
    PROVE  /\ y \in TaskSet /\ OnlySent(x, y)
           /\ \A o : AsideAt(y, o) <=> AsideAt(x, o)
           /\ \A o : SentAt(y, o) => SentAt(x, o)
           /\ \A o : SentAt(x, o) => SentAt(y, o) \/ o = x.sent[i].offset
           /\ SentAt(x, x.sent[i].offset) /\ x.sent[i].offset \in Offsets
           /\ \A j \in DOMAIN y.sent : \E k \in DOMAIN x.sent :
                k # i /\ y.sent[j] = x.sent[k]
           /\ \A j, k \in DOMAIN y.sent : j # k =>
                \E m, n \in DOMAIN x.sent :
                  m # n /\ y.sent[j] = x.sent[m] /\ y.sent[k] = x.sent[n]
           /\ \A k \in DOMAIN x.sent : k # i =>
                \E j \in DOMAIN y.sent : y.sent[j] = x.sent[k]
<1>1. /\ x.sent \in Seq(SentSet) /\ i \in 1 .. Len(x.sent)
      /\ i \in DOMAIN x.sent /\ x.sent[i] \in SentSet
  BY TaskFact DEF Dropped
<1>2. RemoveAt(x.sent, i) \in Seq(SentSet)
  BY <1>1, RemoveFact
<1>3. y \in TaskSet /\ y.sent = RemoveAt(x.sent, i) /\ OnlySent(x, y)
  BY <1>2, SentFact DEF Dropped
<1>4. /\ \A j \in DOMAIN y.sent : \E k \in DOMAIN x.sent :
           k # i /\ y.sent[j] = x.sent[k]
      /\ \A k \in DOMAIN x.sent : k # i =>
           \E j \in DOMAIN y.sent : y.sent[j] = x.sent[k]
  BY <1>1, <1>3, RemoveElements
<1>5. \A j, k \in DOMAIN y.sent : j # k =>
        \E m, n \in DOMAIN x.sent :
          m # n /\ y.sent[j] = x.sent[m] /\ y.sent[k] = x.sent[n]
  BY <1>1, <1>3, RemovePairs
<1>6. \A o : AsideAt(y, o) <=> AsideAt(x, o)
  BY <1>3 DEF AsideAt, OnlySent
<1>7. x.sent[i].offset \in Offsets
  BY <1>1 DEF SentSet
<1> QED
  BY <1>1, <1>3, <1>4, <1>5, <1>6, <1>7 DEF SentAt

LEMMA DropBase ==
    ASSUME NEW t, NEW x, TaskBase(t, x, {}), NEW y, NEW i, Dropped(x, y, i)
    PROVE  /\ TaskBase(t, y, {x.sent[i].offset})
           /\ isHashes(x.sent[i]) => TaskBase(t, y, {})
<1> DEFINE p == x.sent[i].offset
<1>1. x \in TaskSet
  BY DEF TaskBase
<1>2. /\ y \in TaskSet /\ OnlySent(x, y)
      /\ \A o : AsideAt(y, o) <=> AsideAt(x, o)
      /\ \A o : SentAt(y, o) => SentAt(x, o)
      /\ \A o : SentAt(x, o) => SentAt(y, o) \/ o = p
      /\ SentAt(x, p) /\ p \in Offsets
      /\ \A j \in DOMAIN y.sent : \E k \in DOMAIN x.sent :
           k # i /\ y.sent[j] = x.sent[k]
      /\ \A j, k \in DOMAIN y.sent : j # k =>
           \E m, n \in DOMAIN x.sent :
             m # n /\ y.sent[j] = x.sent[m] /\ y.sent[k] = x.sent[n]
  BY <1>1, DropAt
<1>3. CASE t \in Streams
  BY <1>2, <1>3 DEF TaskBase, OnlySent
<1>4. CASE t \notin Streams
  <2>1. FileOk(t, x, {})
    BY <1>4 DEF TaskBase
  <2>2. haveSentRequests(x)
    BY <1>1, TaskFact DEF haveSentRequests, Dropped
  <2>3. ~x.finished
    BY <2>1, <2>2 DEF FileOk
  <2>4. /\ \A j \in DOMAIN y.sent :
             isHashes(y.sent[j]) => AsideAt(y, y.sent[j].offset)
        /\ \A j, k \in DOMAIN y.sent :
             isHashes(y.sent[j]) /\ isHashes(y.sent[k]) => j = k
    BY <1>2, <2>1 DEF FileOk
  <2>5. FileOk(t, y, {p})
    <3> HIDE DEF p
    <3> QED
      BY <1>2, <2>1, <2>3, <2>4 DEF FileOk, OnlySent
  <2>6. ASSUME isHashes(x.sent[i]) PROVE FileOk(t, y, {})
    <3>1. AsideAt(x, p)
      BY <2>1, <2>6 DEF FileOk, Dropped
    <3> HIDE DEF p
    <3> QED
      BY <1>2, <2>1, <2>3, <2>4, <3>1 DEF FileOk, OnlySent
  <2> QED
    BY <1>2, <1>4, <2>5, <2>6 DEF TaskBase
<1> QED
  BY <1>3, <1>4

LEMMA DropStrict ==
    ASSUME NEW t, NEW x \in TaskSet, Strict(t, x, {}), NEW y, NEW i,
           Dropped(x, y, i)
    PROVE  /\ ~isHashes(x.sent[i]) => /\ Strict(t, y, {x.sent[i].offset})
                                      /\ hashesRequested(y) <=> hashesRequested(x)
           /\ Strict(t, y, {})
           /\ isHashes(x.sent[i]) => ~hashesRequested(y)
<1> DEFINE p == x.sent[i].offset
<1>1. /\ y \in TaskSet /\ OnlySent(x, y)
      /\ \A o : AsideAt(y, o) <=> AsideAt(x, o)
      /\ \A o : SentAt(y, o) => SentAt(x, o)
      /\ SentAt(x, p) /\ p \in Offsets
      /\ \A j \in DOMAIN y.sent : \E k \in DOMAIN x.sent :
           k # i /\ y.sent[j] = x.sent[k]
      /\ \A j, k \in DOMAIN y.sent : j # k =>
           \E m, n \in DOMAIN x.sent :
             m # n /\ y.sent[j] = x.sent[m] /\ y.sent[k] = x.sent[n]
      /\ \A k \in DOMAIN x.sent : k # i =>
           \E j \in DOMAIN y.sent : y.sent[j] = x.sent[k]
  BY DropAt
<1>2. i \in DOMAIN x.sent
  BY DEF Dropped
<1>3. /\ \A j, k \in DOMAIN y.sent : y.sent[j].offset = y.sent[k].offset => j = k
      /\ \A j, k \in DOMAIN y.sent :
           isHashes(y.sent[j]) /\ isHashes(y.sent[k]) => j = k
  BY <1>1 DEF Strict
<1>4. \A j \in DOMAIN y.sent :
        isHashes(y.sent[j]) <=> AsideAt(y, y.sent[j].offset)
  BY <1>1 DEF Strict
<1>5. (~y.cdn => y.unchecked = {}) /\ (y.cdn => t \in OnCdn)
  BY <1>1 DEF Strict, OnlySent
<1>6. /\ \A o \in y.wanted : ~SentAt(y, o) /\ ~AsideAt(y, o) /\ o # p
  <2> HIDE DEF p
  <2> QED
    BY <1>1 DEF Strict, OnlySent
<1>7. t \notin Streams => \A o \in Offsets :
         /\ y.fed[o] <= 1
         /\ SentAt(y, o) \/ AsideAt(y, o) \/ o = p \/ o >= y.next
              => y.fed[o] = 0
  <2> HIDE DEF p
  <2> QED
    BY <1>1 DEF Strict, OnlySent
<1>12. \A j \in DOMAIN y.sent : y.sent[j].kind = "cdn" => y.cdn
  BY <1>1 DEF Strict, OnlySent
<1>8. Strict(t, y, {})
  BY <1>3, <1>4, <1>5, <1>6, <1>7, <1>12 DEF Strict
<1>9. ~SentAt(y, p)
  <2>1. SUFFICES ASSUME NEW j \in DOMAIN y.sent, y.sent[j].offset = p
                 PROVE  FALSE
    BY DEF SentAt
  <2>2. PICK k \in DOMAIN x.sent : k # i /\ y.sent[j] = x.sent[k]
    BY <1>1
  <2> QED
    BY <1>2, <2>1, <2>2 DEF Strict
<1>10. ASSUME ~isHashes(x.sent[i])
       PROVE  /\ Strict(t, y, {p})
              /\ hashesRequested(y) <=> hashesRequested(x)
  <2>1. ~AsideAt(y, p)
    BY <1>1, <1>2, <1>10 DEF Strict
  <2>2. hashesRequested(y) <=> hashesRequested(x)
    BY <1>1, <1>10 DEF hashesRequested
  <2> HIDE DEF p
  <2> QED
    BY <1>3, <1>4, <1>5, <1>6, <1>7, <1>9, <1>12, <2>1, <2>2 DEF Strict
<1>11. ASSUME isHashes(x.sent[i]) PROVE ~hashesRequested(y)
  BY <1>1, <1>2, <1>11 DEF hashesRequested, Strict
<1> QED
  BY <1>8, <1>10, <1>11

(* One request more. *)
LEMMA PlaceAt ==
    ASSUME NEW x \in TaskSet, NEW y, NEW o, NEW k, Placed(x, y, o, k)
    PROVE  /\ y \in TaskSet /\ OnlySent(x, y)
           /\ \A p : AsideAt(y, p) <=> AsideAt(x, p)
           /\ \A p : SentAt(y, p) <=> SentAt(x, p) \/ p = o
           /\ DOMAIN y.sent = 1 .. Len(x.sent) + 1
           /\ \A i \in DOMAIN x.sent : y.sent[i] = x.sent[i]
           /\ y.sent[Len(x.sent) + 1].offset = o
           /\ y.sent[Len(x.sent) + 1].kind = k
           /\ DOMAIN x.sent = 1 .. Len(x.sent) /\ Len(x.sent) \in Nat
           /\ haveSentRequests(y)
<1>1. PICK r \in SentSet : /\ r.offset = o /\ r.kind = k
                          /\ y = [x EXCEPT !.sent = Append(x.sent, r)]
  BY DEF Placed
<1>2. x.sent \in Seq(SentSet) /\ Len(x.sent) \in Nat
  BY TaskFact
<1>3. Append(x.sent, r) \in Seq(SentSet)
  BY <1>2
<1>4. y \in TaskSet /\ y.sent = Append(x.sent, r) /\ OnlySent(x, y)
  BY <1>1, <1>3, SentFact
<1>5. /\ DOMAIN y.sent = 1 .. Len(x.sent) + 1
      /\ \A i \in DOMAIN x.sent : y.sent[i] = x.sent[i]
      /\ y.sent[Len(x.sent) + 1] = r
      /\ DOMAIN x.sent = 1 .. Len(x.sent)
  BY <1>2, <1>4
<1>6. \A p : AsideAt(y, p) <=> AsideAt(x, p)
  BY <1>4 DEF AsideAt, OnlySent
<1>7. \A i \in DOMAIN y.sent : i \in DOMAIN x.sent \/ i = Len(x.sent) + 1
  BY <1>2, <1>5
<1>8. \A i \in DOMAIN x.sent : i \in DOMAIN y.sent
  BY <1>2, <1>5
<1>9. Len(x.sent) + 1 \in DOMAIN y.sent
  BY <1>2, <1>5
<1>10. ASSUME NEW p PROVE SentAt(y, p) <=> SentAt(x, p) \/ p = o
  <2>1. ASSUME SentAt(y, p) PROVE SentAt(x, p) \/ p = o
    BY <1>1, <1>5, <1>7, <2>1 DEF SentAt
  <2>2. ASSUME SentAt(x, p) PROVE SentAt(y, p)
    BY <1>5, <1>8, <2>2 DEF SentAt
  <2>3. ASSUME p = o PROVE SentAt(y, p)
    BY <1>1, <1>5, <1>9, <2>3 DEF SentAt
  <2> QED
    BY <2>1, <2>2, <2>3
<1>11. haveSentRequests(y)
  <2>1. y.sent # <<>>
    BY <1>2, <1>4
  <2> QED
    BY <2>1 DEF haveSentRequests
<1> QED
  BY <1>1, <1>2, <1>4, <1>5, <1>6, <1>10, <1>11

(* A part: it was taken from the task. *)
LEMMA PlaceBase ==
    ASSUME NEW t, NEW x, NEW o, TaskBase(t, x, {o}), NEW y, NEW k,
           Placed(x, y, o, k), k \notin {"hash", "deadHash"}
    PROVE  TaskBase(t, y, {})
<1>1. x \in TaskSet
  BY DEF TaskBase
<1>2. /\ y \in TaskSet /\ OnlySent(x, y)
      /\ \A p : AsideAt(y, p) <=> AsideAt(x, p)
      /\ \A p : SentAt(y, p) <=> SentAt(x, p) \/ p = o
      /\ DOMAIN y.sent = 1 .. Len(x.sent) + 1
      /\ \A i \in DOMAIN x.sent : y.sent[i] = x.sent[i]
      /\ y.sent[Len(x.sent) + 1].kind = k
      /\ DOMAIN x.sent = 1 .. Len(x.sent) /\ Len(x.sent) \in Nat
  BY <1>1, PlaceAt
<1>3. CASE t \in Streams
  BY <1>2, <1>3 DEF TaskBase, OnlySent
<1>4. CASE t \notin Streams
  <2>1. FileOk(t, x, {o})
    BY <1>4 DEF TaskBase
  <2>2. \A i \in DOMAIN y.sent : isHashes(y.sent[i]) =>
          i \in DOMAIN x.sent /\ y.sent[i] = x.sent[i]
    BY <1>2 DEF isHashes
  <2>3. /\ \A i \in DOMAIN y.sent :
             isHashes(y.sent[i]) => AsideAt(y, y.sent[i].offset)
        /\ \A i, j \in DOMAIN y.sent :
             isHashes(y.sent[i]) /\ isHashes(y.sent[j]) => i = j
    BY <1>2, <2>1, <2>2 DEF FileOk
  <2>4. FileOk(t, y, {})
    BY <1>2, <2>1, <2>3 DEF FileOk, OnlySent
  <2> QED
    BY <1>2, <1>4, <2>4 DEF TaskBase
<1> QED
  BY <1>3, <1>4

LEMMA PlaceStrict ==
    ASSUME NEW t, NEW x \in TaskSet, NEW o, Strict(t, x, {o}), NEW y, NEW k,
           Placed(x, y, o, k), k \notin {"hash", "deadHash"},
           k = "cdn" => x.cdn
    PROVE  /\ Strict(t, y, {})
           /\ hashesRequested(y) <=> hashesRequested(x)
<1>1. /\ y \in TaskSet /\ OnlySent(x, y)
      /\ \A p : AsideAt(y, p) <=> AsideAt(x, p)
      /\ \A p : SentAt(y, p) <=> SentAt(x, p) \/ p = o
      /\ DOMAIN y.sent = 1 .. Len(x.sent) + 1
      /\ \A i \in DOMAIN x.sent : y.sent[i] = x.sent[i]
      /\ y.sent[Len(x.sent) + 1].offset = o
      /\ y.sent[Len(x.sent) + 1].kind = k
      /\ DOMAIN x.sent = 1 .. Len(x.sent) /\ Len(x.sent) \in Nat
  BY PlaceAt
<1> DEFINE m == Len(x.sent) + 1
<1>2. \A i \in DOMAIN y.sent :
        i = m \/ (i \in DOMAIN x.sent /\ y.sent[i] = x.sent[i])
  BY <1>1
<1>3. ~SentAt(x, o) /\ ~AsideAt(x, o)
  BY DEF Strict
<1>4. \A i \in DOMAIN x.sent : x.sent[i].offset # o
  BY <1>3 DEF SentAt
<1>5. ~isHashes(y.sent[m]) /\ y.sent[m].offset = o
  BY <1>1 DEF isHashes
<1>6. m \notin DOMAIN x.sent /\ \A i \in DOMAIN x.sent : i \in DOMAIN y.sent
  BY <1>1
<1> HIDE DEF m
<1>7. \A i, j \in DOMAIN y.sent : y.sent[i].offset = y.sent[j].offset => i = j
  BY <1>2, <1>4, <1>5 DEF Strict
<1>8. \A i, j \in DOMAIN y.sent :
        isHashes(y.sent[i]) /\ isHashes(y.sent[j]) => i = j
  BY <1>2, <1>5 DEF Strict
<1>9. \A i \in DOMAIN y.sent :
        isHashes(y.sent[i]) <=> AsideAt(y, y.sent[i].offset)
  BY <1>1, <1>2, <1>3, <1>5 DEF Strict
<1>10. hashesRequested(y) <=> hashesRequested(x)
  BY <1>1, <1>2, <1>5, <1>6 DEF hashesRequested
<1>11. (~y.cdn => y.unchecked = {}) /\ (y.cdn => t \in OnCdn)
  BY <1>1 DEF Strict, OnlySent
<1>14. \A i \in DOMAIN y.sent : y.sent[i].kind = "cdn" => y.cdn
  BY <1>1, <1>2 DEF Strict, OnlySent, m
<1>12. \A p \in y.wanted : ~SentAt(y, p) /\ ~AsideAt(y, p)
  BY <1>1 DEF Strict, OnlySent
<1>13. t \notin Streams => \A p \in Offsets :
         /\ y.fed[p] <= 1
         /\ SentAt(y, p) \/ AsideAt(y, p) \/ p >= y.next => y.fed[p] = 0
  BY <1>1 DEF Strict, OnlySent
<1> QED
  BY <1>7, <1>8, <1>9, <1>10, <1>11, <1>12, <1>13, <1>14 DEF Strict

(* A request for hashes: the part it names was put aside. *)
LEMMA PlaceHashBase ==
    ASSUME NEW t, NEW x, TaskBase(t, x, {}), NEW o \in Offsets, NEW y,
           Placed(x, y, o, "hash"), AsideAt(x, o), ~hashesRequested(x)
    PROVE  TaskBase(t, y, {})
<1>1. x \in TaskSet
  BY DEF TaskBase
<1>2. /\ y \in TaskSet /\ OnlySent(x, y)
      /\ \A p : AsideAt(y, p) <=> AsideAt(x, p)
      /\ \A p : SentAt(y, p) <=> SentAt(x, p) \/ p = o
      /\ DOMAIN y.sent = 1 .. Len(x.sent) + 1
      /\ \A i \in DOMAIN x.sent : y.sent[i] = x.sent[i]
      /\ y.sent[Len(x.sent) + 1].offset = o
      /\ DOMAIN x.sent = 1 .. Len(x.sent) /\ Len(x.sent) \in Nat
  BY <1>1, PlaceAt
<1>3. CASE t \in Streams
  BY <1>2, <1>3 DEF TaskBase, OnlySent
<1>4. CASE t \notin Streams
  <2>1. FileOk(t, x, {})
    BY <1>4 DEF TaskBase
  <2>2. \A i \in DOMAIN y.sent : isHashes(y.sent[i]) => i = Len(x.sent) + 1
    BY <1>2 DEF hashesRequested
  <2>3. /\ \A i \in DOMAIN y.sent :
             isHashes(y.sent[i]) => AsideAt(y, y.sent[i].offset)
        /\ \A i, j \in DOMAIN y.sent :
             isHashes(y.sent[i]) /\ isHashes(y.sent[j]) => i = j
    BY <1>2, <2>2
  <2>4. ~x.finished
    <3>1. haveSentRequests(x)
      BY DEF haveSentRequests, AsideAt
    <3> QED
      BY <2>1, <3>1 DEF FileOk
  <2>5. FileOk(t, y, {})
    BY <1>2, <2>1, <2>3, <2>4 DEF FileOk, OnlySent
  <2> QED
    BY <1>2, <1>4, <2>5 DEF TaskBase
<1> QED
  BY <1>3, <1>4

LEMMA PlaceHashStrict ==
    ASSUME NEW t, NEW x \in TaskSet, Strict(t, x, {}), NEW o \in Offsets, NEW y,
           Placed(x, y, o, "hash"), AsideAt(x, o), ~hashesRequested(x)
    PROVE  Strict(t, y, {}) /\ hashesRequested(y)
<1>1. /\ y \in TaskSet /\ OnlySent(x, y)
      /\ \A p : AsideAt(y, p) <=> AsideAt(x, p)
      /\ \A p : SentAt(y, p) <=> SentAt(x, p) \/ p = o
      /\ DOMAIN y.sent = 1 .. Len(x.sent) + 1
      /\ \A i \in DOMAIN x.sent : y.sent[i] = x.sent[i]
      /\ y.sent[Len(x.sent) + 1].offset = o
      /\ y.sent[Len(x.sent) + 1].kind = "hash"
      /\ DOMAIN x.sent = 1 .. Len(x.sent) /\ Len(x.sent) \in Nat
  BY PlaceAt
<1> DEFINE m == Len(x.sent) + 1
<1>2. \A i \in DOMAIN y.sent :
        i = m \/ (i \in DOMAIN x.sent /\ y.sent[i] = x.sent[i])
  BY <1>1
<1>3. \A i \in DOMAIN x.sent : ~isHashes(x.sent[i])
  BY DEF hashesRequested
<1>4. \A i \in DOMAIN x.sent : x.sent[i].offset # o
  BY <1>3 DEF Strict
<1>5. isHashes(y.sent[m]) /\ y.sent[m].offset = o
  BY <1>1 DEF isHashes
<1>6. m \in DOMAIN y.sent
  BY <1>1
<1> HIDE DEF m
<1>7. \A i, j \in DOMAIN y.sent : y.sent[i].offset = y.sent[j].offset => i = j
  BY <1>2, <1>4, <1>5 DEF Strict
<1>8. \A i, j \in DOMAIN y.sent :
        isHashes(y.sent[i]) /\ isHashes(y.sent[j]) => i = j
  BY <1>2, <1>3
<1>9. \A i \in DOMAIN y.sent :
        isHashes(y.sent[i]) <=> AsideAt(y, y.sent[i].offset)
  BY <1>1, <1>2, <1>5 DEF Strict
<1>10. hashesRequested(y)
  BY <1>5, <1>6 DEF hashesRequested
<1>11. (~y.cdn => y.unchecked = {}) /\ (y.cdn => t \in OnCdn)
  BY <1>1 DEF Strict, OnlySent
<1>14. \A i \in DOMAIN y.sent : y.sent[i].kind = "cdn" => y.cdn
  BY <1>1, <1>2 DEF Strict, OnlySent, m
<1>12. \A p \in y.wanted : ~SentAt(y, p) /\ ~AsideAt(y, p)
  BY <1>1 DEF Strict, OnlySent
<1>13. t \notin Streams => \A p \in Offsets :
         /\ y.fed[p] <= 1
         /\ SentAt(y, p) \/ AsideAt(y, p) \/ p >= y.next => y.fed[p] = 0
  BY <1>1 DEF Strict, OnlySent
<1> QED
  BY <1>7, <1>8, <1>9, <1>10, <1>11, <1>12, <1>13, <1>14 DEF Strict

(* The parts at the offsets G are written to the file. *)
Short(t, G, short) ==
    /\ (\E o \in G : o > Parts[t]) => short
    /\ short => \E o \in G : o >= Parts[t]

Fed(t, x, y, G, short) ==
    /\ y \in TaskSet /\ y.sent = x.sent /\ y.unchecked = x.unchecked
    /\ y.next = x.next /\ y.wanted = x.wanted /\ y.cdn = x.cdn
    /\ y.failed = x.failed /\ y.hashPosted = x.hashPosted
    /\ \A o \in Offsets : y.fed[o] = IF o \in G THEN x.fed[o] + 1 ELSE x.fed[o]
    /\ y.last = (x.last \/ short)
    /\ y.finished = Finishes(t, y)
    /\ y.done = Finishes(t, y)

LEMMA FedBase ==
    ASSUME NEW t \in Tasks \ Streams, NEW x, NEW G, TaskBase(t, x, G), G # {},
           NEW short, Short(t, G, short), NEW y, Fed(t, x, y, G, short)
    PROVE  TaskBase(t, y, {})
<1>1. x \in TaskSet /\ y \in TaskSet /\ FileOk(t, x, G) /\ G \subseteq Offsets
  BY DEF TaskBase, Fed
<1>2. Parts[t] \in Nat /\ x.next \in Nat
  BY <1>1, DownloadAssumption, TaskFact
<1>3. \A o \in Offsets : o \in Nat /\ x.fed[o] \in Nat
  BY <1>1, TaskFact, DownloadAssumption DEF Offsets
<1>4. /\ \A o : AsideAt(y, o) <=> AsideAt(x, o)
      /\ \A o : SentAt(y, o) <=> SentAt(x, o)
      /\ haveSentRequests(y) <=> haveSentRequests(x)
  BY DEF Fed, AsideAt, SentAt, haveSentRequests
<1>5. \A o \in G : o < x.next /\ o \in Nat
  BY <1>1, <1>3 DEF FileOk
<1>6. y.last => y.next > Parts[t]
  <2>1. CASE x.last
    BY <1>1, <2>1 DEF FileOk, Fed
  <2>2. CASE short
    <3>1. PICK o \in G : o >= Parts[t]
      BY <2>2 DEF Short
    <3> QED
      BY <1>2, <1>5, <3>1 DEF Fed
  <2> QED
    BY <2>1, <2>2 DEF Fed
<1>7. \A o \in Offsets : y.fed[o] >= x.fed[o] /\ (o \in G => y.fed[o] >= 1)
  BY <1>3 DEF Fed
<1>8. \A o \in Offsets : x.fed[o] >= 1 => y.fed[o] >= 1
  BY <1>3, <1>7 DEF Fed
<1>9. ASSUME NEW o \in Offsets, y.fed[o] >= 1, o > Parts[t] PROVE y.last
  <2>1. CASE o \in G
    BY <1>9, <2>1 DEF Short, Fed
  <2>2. CASE o \notin G
    BY <1>1, <1>9, <2>2 DEF FileOk, Fed
  <2> QED
    BY <2>1, <2>2
<1>10. ASSUME NEW o \in Offsets, o < y.next, ~x.finished
       PROVE  y.fed[o] >= 1 \/ SentAt(y, o) \/ AsideAt(y, o)
  BY <1>1, <1>4, <1>7, <1>8, <1>10 DEF FileOk, Fed
<1>11. ASSUME y.finished, ~x.finished PROVE \A o \in 1 .. Parts[t] : y.fed[o] >= 1
  <2>1. ~haveSentRequests(y) /\ y.next > Parts[t]
    BY <1>6, <1>11 DEF Fed, Finishes
  <2>2. \A o : ~SentAt(y, o) /\ ~AsideAt(y, o)
    <3>1. y.sent = <<>> /\ y.unchecked = {}
      BY <2>1 DEF haveSentRequests
    <3> QED
      BY <3>1 DEF SentAt, AsideAt
  <2>3. \A o \in 1 .. Parts[t] : o \in Offsets /\ o < y.next
    BY <1>2, <2>1, DownloadAssumption DEF Offsets, Fed
  <2> QED
    BY <1>10, <1>11, <2>2, <2>3
<1>12. haveSentRequests(y) => ~y.finished
  BY DEF Fed, Finishes
<1>13. ~x.finished
  BY <1>1 DEF FileOk
<1>14. FileOk(t, y, {})
  <2>1. y.wanted = {} /\ y.next \in 1 .. Parts[t] + 2
    BY <1>1 DEF FileOk, Fed
  <2>2. \A o \in Offsets : SentAt(y, o) \/ AsideAt(y, o) => o < y.next
    BY <1>1, <1>4 DEF FileOk, Fed
  <2>3. \A o \in Offsets : y.fed[o] >= 1 /\ o > Parts[t] => y.last
    BY <1>9
  <2>4. y.done => y.finished /\ \A o \in 1 .. Parts[t] : y.fed[o] >= 1
    BY <1>11, <1>13 DEF Fed
  <2>5. /\ \A i \in DOMAIN y.sent :
             isHashes(y.sent[i]) => AsideAt(y, y.sent[i].offset)
        /\ \A i, j \in DOMAIN y.sent :
             isHashes(y.sent[i]) /\ isHashes(y.sent[j]) => i = j
    BY <1>1, <1>4 DEF FileOk, Fed
  <2> QED
    BY <1>6, <1>10, <1>12, <1>13, <2>1, <2>2, <2>3, <2>4, <2>5 DEF FileOk
<1> QED
  BY <1>1, <1>14 DEF TaskBase

LEMMA FedStrict ==
    ASSUME NEW t \in Tasks \ Streams, NEW x, NEW G, TaskBase(t, x, G), NEW short,
           NEW y, Fed(t, x, y, G, short), Strict(t, x, G)
    PROVE  /\ Strict(t, y, {})
           /\ hashesRequested(y) <=> hashesRequested(x)
<1>1. x \in TaskSet /\ FileOk(t, x, G) /\ G \subseteq Offsets
  BY DEF TaskBase
<1>2. x.next \in Nat /\ \A o \in Offsets : o \in Nat /\ x.fed[o] \in Nat
  BY <1>1, TaskFact, DownloadAssumption DEF Offsets
<1>3. /\ \A o : AsideAt(y, o) <=> AsideAt(x, o)
      /\ \A o : SentAt(y, o) <=> SentAt(x, o)
  BY DEF Fed, AsideAt, SentAt
<1>4. \A o \in G : o < x.next /\ x.fed[o] = 0 /\ ~SentAt(x, o) /\ ~AsideAt(x, o)
  BY <1>1 DEF FileOk, Strict
<1>5. ASSUME NEW o \in Offsets
      PROVE  /\ y.fed[o] <= 1
             /\ SentAt(y, o) \/ AsideAt(y, o) \/ o >= y.next => y.fed[o] = 0
  <2>1. CASE o \in G
    BY <1>2, <1>3, <1>4, <2>1 DEF Fed
  <2>2. CASE o \notin G
    BY <1>3, <2>2 DEF Fed, Strict
  <2> QED
    BY <2>1, <2>2
<1>6. hashesRequested(y) <=> hashesRequested(x)
  BY DEF Fed, hashesRequested
<1> QED
  BY <1>3, <1>5, <1>6 DEF Fed, Strict

(* Parts are put aside, or taken from those that are. *)
OnlyAside(x, y) ==
    /\ y \in TaskSet /\ y.sent = x.sent
    /\ y.alive = x.alive /\ y.finished = x.finished /\ y.done = x.done
    /\ y.failed = x.failed /\ y.known = x.known /\ y.next = x.next
    /\ y.last = x.last /\ y.wanted = x.wanted /\ y.priority = x.priority
    /\ y.cdn = x.cdn /\ y.hashes = x.hashes
    /\ y.hashPosted = x.hashPosted /\ y.orphans = x.orphans /\ y.fed = x.fed

LEMMA AsideFact ==
    ASSUME NEW x \in TaskSet, NEW A \in SUBSET AsideSet
    PROVE  /\ OnlyAside(x, [x EXCEPT !.unchecked = A])
           /\ [x EXCEPT !.unchecked = A].unchecked = A
  BY DEF TaskSet, OnlyAside

LEMMA AsideMore ==
    ASSUME NEW t, NEW x, NEW o, TaskBase(t, x, {o}), NEW y, OnlyAside(x, y),
           \A p \in Offsets : AsideAt(y, p) <=> AsideAt(x, p) \/ p = o
    PROVE  /\ TaskBase(t, y, {})
           /\ Strict(t, x, {o}) /\ x.cdn => Strict(t, y, {})
<1>1. x \in TaskSet /\ y \in TaskSet /\ y.sent = x.sent /\ o \in Offsets
  BY DEF TaskBase, OnlyAside
<1>2. \A p : SentAt(y, p) <=> SentAt(x, p)
  BY <1>1 DEF SentAt
<1>3. \A i \in DOMAIN x.sent : x.sent[i].offset \in Offsets
  BY <1>1, TaskFact DEF SentSet
<1>4. x.wanted \subseteq Offsets
  BY <1>1, TaskFact
<1>5. TaskBase(t, y, {})
  <2>1. CASE t \in Streams
    BY <1>1, <2>1 DEF TaskBase, OnlyAside
  <2>2. CASE t \notin Streams
    <3>1. FileOk(t, x, {o})
      BY <2>2 DEF TaskBase
    <3>2. FileOk(t, y, {})
      BY <1>1, <1>2, <1>3, <3>1 DEF FileOk, OnlyAside
    <3> QED
      BY <1>1, <2>2, <3>2 DEF TaskBase
  <2> QED
    BY <2>1, <2>2
<1>6. ASSUME Strict(t, x, {o}), x.cdn PROVE Strict(t, y, {})
  <2>1. \A i \in DOMAIN x.sent : x.sent[i].offset # o
    BY <1>6 DEF Strict, SentAt
  <2>2. \A i \in DOMAIN y.sent :
          isHashes(y.sent[i]) <=> AsideAt(y, y.sent[i].offset)
    BY <1>1, <1>3, <1>6, <2>1 DEF Strict
  <2>3. \A p \in y.wanted : ~SentAt(y, p) /\ ~AsideAt(y, p)
    BY <1>2, <1>4, <1>6 DEF Strict, OnlyAside
  <2>4. t \notin Streams => \A p \in Offsets :
         /\ y.fed[p] <= 1
         /\ SentAt(y, p) \/ AsideAt(y, p) \/ p >= y.next => y.fed[p] = 0
    BY <1>2, <1>6 DEF Strict, OnlyAside
  <2> QED
    BY <1>1, <1>6, <2>2, <2>3, <2>4 DEF Strict, OnlyAside
<1> QED
  BY <1>5, <1>6

(* No request for hashes may be in flight for those that are taken. *)
LEMMA AsideLess ==
    ASSUME NEW t, NEW x, TaskBase(t, x, {}), NEW y, OnlyAside(x, y),
           NEW G \in SUBSET Offsets, \A o \in G : AsideAt(x, o),
           \A o \in Offsets : AsideAt(y, o) <=> AsideAt(x, o) /\ o \notin G,
           \A i \in DOMAIN x.sent : isHashes(x.sent[i]) => x.sent[i].offset \notin G
    PROVE  /\ TaskBase(t, y, G)
           /\ Strict(t, x, {}) => Strict(t, y, G)
<1>1. x \in TaskSet /\ y \in TaskSet /\ y.sent = x.sent
  BY DEF TaskBase, OnlyAside
<1>2. \A p : SentAt(y, p) <=> SentAt(x, p)
  BY <1>1 DEF SentAt
<1>3. \A i \in DOMAIN x.sent : x.sent[i].offset \in Offsets
  BY <1>1, TaskFact DEF SentSet
<1>4. x.wanted \subseteq Offsets
  BY <1>1, TaskFact
<1>5. \A u \in AsideSet : u.offset \in Offsets
  BY DEF AsideSet
<1>6. y.unchecked \subseteq AsideSet /\ x.unchecked \subseteq AsideSet
  BY <1>1, TaskFact
<1>7. x.unchecked = {} => y.unchecked = {}
  BY <1>5, <1>6 DEF AsideAt
<1>8. TaskBase(t, y, G)
  <2>1. CASE t \in Streams
    BY <1>1, <2>1 DEF TaskBase, OnlyAside
  <2>2. CASE t \notin Streams
    <3>1. FileOk(t, x, {})
      BY <2>2 DEF TaskBase
    <3>2. G # {} \/ haveSentRequests(y) => ~y.finished
      <4>1. G # {} => haveSentRequests(x)
        BY DEF haveSentRequests, AsideAt
      <4>2. haveSentRequests(y) => haveSentRequests(x)
        BY <1>1, <1>7 DEF haveSentRequests
      <4> QED
        BY <3>1, <4>1, <4>2 DEF FileOk, OnlyAside
    <3>3. FileOk(t, y, G)
      BY <1>1, <1>2, <1>3, <3>1, <3>2 DEF FileOk, OnlyAside
    <3> QED
      BY <1>1, <2>2, <3>3 DEF TaskBase
  <2> QED
    BY <2>1, <2>2
<1>9. ASSUME Strict(t, x, {}) PROVE Strict(t, y, G)
  <2>1. \A o \in G : ~SentAt(x, o)
    BY <1>9 DEF Strict, SentAt
  <2>2. \A i \in DOMAIN y.sent :
          isHashes(y.sent[i]) <=> AsideAt(y, y.sent[i].offset)
    BY <1>1, <1>3, <1>9 DEF Strict
  <2>3. \A p \in y.wanted : ~SentAt(y, p) /\ ~AsideAt(y, p) /\ p \notin G
    BY <1>2, <1>4, <1>9 DEF Strict, OnlyAside
  <2>4. t \notin Streams => \A p \in Offsets :
         /\ y.fed[p] <= 1
         /\ SentAt(y, p) \/ AsideAt(y, p) \/ p \in G \/ p >= y.next
              => y.fed[p] = 0
    BY <1>2, <1>9 DEF Strict, OnlyAside
  <2>5. \A o \in G : ~SentAt(y, o) /\ ~AsideAt(y, o)
    BY <1>2, <2>1
  <2> QED
    BY <1>1, <1>7, <1>9, <2>2, <2>3, <2>4, <2>5 DEF Strict, OnlyAside
<1> QED
  BY <1>8, <1>9

(* Nothing is in flight or put aside any more: the file is given up, or
   the stream is stopped. *)
LEMMA ClearedOk ==
    ASSUME NEW t, NEW x, NEW P, TaskBase(t, x, P), NEW y \in TaskSet,
           y.sent = <<>>, y.unchecked = {}, y.fed = x.fed, y.last = x.last,
           y.next = x.next, y.wanted \subseteq x.wanted, y.cdn = x.cdn,
           t \in Streams => y.done = x.done,
           t \notin Streams => y.finished /\ (y.done => x.done)
    PROVE  /\ TaskBase(t, y, {})
           /\ Strict(t, x, P) => Strict(t, y, {})
<1>1. \A o : ~SentAt(y, o) /\ ~AsideAt(y, o)
  BY DEF SentAt, AsideAt
<1>2. ~haveSentRequests(y)
  BY DEF haveSentRequests
<1>3. DOMAIN y.sent = {}
  OBVIOUS
<1>4. TaskBase(t, y, {})
  <2>1. CASE t \in Streams
    BY <2>1 DEF TaskBase
  <2>2. CASE t \notin Streams
    <3>1. FileOk(t, x, P)
      BY <2>2 DEF TaskBase
    <3>2. FileOk(t, y, {})
      BY <1>1, <1>2, <1>3, <2>2, <3>1 DEF FileOk
    <3> QED
      BY <2>2, <3>2 DEF TaskBase
  <2> QED
    BY <2>1, <2>2
<1>5. ASSUME Strict(t, x, P) PROVE Strict(t, y, {})
  BY <1>1, <1>3, <1>5 DEF Strict
<1> QED
  BY <1>4, <1>5

-----------------------------------------------------------------------------
(* The operations of a task, with its manager. *)
Pend(t, x, P) ==
    TaskBase(t, x, P) /\ (t \notin TokenErrors => Strict(t, x, P))

AwaitedOk(t, x) == t \notin TokenErrors => Awaited(x)

TaskOk(t, x) == Pend(t, x, {}) /\ AwaitedOk(t, x)

CtxOk(t, c, P, F, R, n) == Good(c, F, R, n) /\ Pend(t, c.x, P)

LEMMA CtxOkFact ==
    ASSUME NEW t, NEW c, NEW P, NEW F, NEW R, NEW n, CtxOk(t, c, P, F, R, n)
    PROVE  /\ Good(c, F, R, n) /\ c \in CtxSet /\ c.x \in TaskSet
           /\ c.mgr.balance[c.d] \in BalanceSet
           /\ TaskBase(t, c.x, P) /\ P \subseteq Offsets
           /\ t \notin TokenErrors => Strict(t, c.x, P)
  BY CtxFact DEF CtxOk, Good, Pend, TaskBase

(* What the operations leave has a name where several handlers use it. *)
FinishGives(t, c, i, F, R, n) ==
    LET e == finishSentRequest(c, i)
        o == c.x.sent[i].offset
    IN  /\ SameSessions(c, e) /\ OnlySent(c.x, e.x) /\ e.d = c.d
        /\ e \in CtxSet
        /\ t \in TokenErrors \/ ~isHashes(c.x.sent[i])
             => CtxOk(t, e, {o}, F, R, n)
        /\ isHashes(c.x.sent[i]) => CtxOk(t, e, {}, F, R, n)
        /\ isHashes(c.x.sent[i]) /\ (t \notin Streams \/ t \notin TokenErrors)
             => ~hashesRequested(e.x)
        /\ ~isHashes(c.x.sent[i]) /\ AwaitedOk(t, c.x) => AwaitedOk(t, e.x)
        /\ o \in Offsets
        /\ c.x.sent[i].session \in 1 .. Len(e.mgr.balance[e.d].sessions)

LEMMA FinishOk ==
    ASSUME NEW F, NEW R, NEW n, RestOk(F, R, n), NEW t, NEW c,
           CtxOk(t, c, {}, F, R, n), NEW i \in DOMAIN c.x.sent
    PROVE  FinishGives(t, c, i, F, R, n)
<1> DEFINE e == finishSentRequest(c, i)
           o == c.x.sent[i].offset
           y == e.x
<1>1. /\ Good(c, F, R, n) /\ c \in CtxSet /\ c.x \in TaskSet
      /\ TaskBase(t, c.x, {}) /\ (t \notin TokenErrors => Strict(t, c.x, {}))
  BY CtxOkFact
<1>2. Good(e, F, R, n) /\ SameSessions(c, e) /\ Dropped(c.x, y, i)
  BY <1>1, DropGood DEF Dropped
<1> HIDE DEF e
<1>3. e.d = c.d /\ e \in CtxSet
  BY <1>2 DEF SameSessions, SameElsewhere, Good
<1>4. OnlySent(c.x, y) /\ o \in Offsets
  BY <1>1, <1>2, DropAt
<1>5. TaskBase(t, y, {o}) /\ (isHashes(c.x.sent[i]) => TaskBase(t, y, {}))
  BY <1>1, <1>2, DropBase
<1>6. ASSUME t \notin TokenErrors
      PROVE  /\ ~isHashes(c.x.sent[i]) =>
                  /\ Strict(t, y, {o})
                  /\ hashesRequested(y) <=> hashesRequested(c.x)
             /\ Strict(t, y, {})
             /\ isHashes(c.x.sent[i]) => ~hashesRequested(y)
  BY <1>1, <1>2, <1>6, DropStrict
<1>7. ASSUME t \notin Streams, isHashes(c.x.sent[i]) PROVE ~hashesRequested(y)
  <2>1. FileOk(t, c.x, {})
    BY <1>1, <1>7 DEF TaskBase
  <2>2. \A j \in DOMAIN y.sent : \E k \in DOMAIN c.x.sent :
          k # i /\ y.sent[j] = c.x.sent[k]
    BY <1>1, <1>2, DropAt
  <2> QED
    BY <1>7, <2>1, <2>2 DEF FileOk, hashesRequested
<1>8. t \in TokenErrors \/ ~isHashes(c.x.sent[i]) => CtxOk(t, e, {o}, F, R, n)
  BY <1>2, <1>5, <1>6 DEF CtxOk, Pend
<1>9. isHashes(c.x.sent[i]) => CtxOk(t, e, {}, F, R, n)
  BY <1>2, <1>5, <1>6 DEF CtxOk, Pend
<1>10. ~isHashes(c.x.sent[i]) /\ AwaitedOk(t, c.x) => AwaitedOk(t, y)
  BY <1>4, <1>6 DEF AwaitedOk, Awaited, OnlySent
<1>11. c.x.sent[i].session \in 1 .. Len(e.mgr.balance[e.d].sessions)
  BY <1>1, <1>2, <1>3 DEF Good, Sits, SameSessions
<1> QED
  BY <1>2, <1>3, <1>4, <1>6, <1>7, <1>8, <1>9, <1>10, <1>11 DEF e, FinishGives

(* makeRequest and placeSentRequest for a part that was taken. *)
LEMMA PlaceOk ==
    ASSUME NEW F, NEW R, NEW n, RestOk(F, R, n), NEW t, NEW c, NEW o,
           CtxOk(t, c, {o}, F, R, n), NEW k \in Kinds \ {"hash", "deadHash"},
           k = "cdn" => c.x.cdn,
           NEW s \in 1 .. Len(c.mgr.balance[c.d].sessions)
    PROVE  LET e == placeSentRequest(c, o, s, k)
           IN  /\ SameSessions(c, e) /\ CtxOk(t, e, {}, F, R, n) /\ e.d = c.d
               /\ AwaitedOk(t, c.x) => AwaitedOk(t, e.x)
<1> DEFINE e == placeSentRequest(c, o, s, k)
           y == e.x
<1>1. /\ Good(c, F, R, n) /\ c \in CtxSet /\ c.x \in TaskSet /\ o \in Offsets
      /\ TaskBase(t, c.x, {o}) /\ (t \notin TokenErrors => Strict(t, c.x, {o}))
  BY CtxOkFact
<1>2. Good(e, F, R, n) /\ SameSessions(c, e) /\ Placed(c.x, y, o, k)
  BY <1>1, PlaceGood
<1> HIDE DEF e
<1>3. OnlySent(c.x, y)
  BY <1>1, <1>2, PlaceAt
<1>4. TaskBase(t, y, {})
  BY <1>1, <1>2, PlaceBase
<1>5. ASSUME t \notin TokenErrors
      PROVE  Strict(t, y, {}) /\ (hashesRequested(y) <=> hashesRequested(c.x))
  BY <1>1, <1>2, <1>5, PlaceStrict
<1>6. AwaitedOk(t, c.x) => AwaitedOk(t, y)
  BY <1>3, <1>5 DEF AwaitedOk, Awaited, OnlySent
<1> QED
  BY <1>2, <1>4, <1>5, <1>6 DEF CtxOk, Pend, SameSessions, SameElsewhere, e

LEMMA MakeOk ==
    ASSUME NEW F, NEW R, NEW n, RestOk(F, R, n), NEW t, NEW c, NEW o,
           CtxOk(t, c, {o}, F, R, n),
           NEW s \in 1 .. Len(c.mgr.balance[c.d].sessions)
    PROVE  LET e == makeRequest(c, o, s)
           IN  /\ SameSessions(c, e) /\ CtxOk(t, e, {}, F, R, n) /\ e.d = c.d
               /\ AwaitedOk(t, c.x) => AwaitedOk(t, e.x)
<1> DEFINE k == IF c.x.cdn THEN "cdn" ELSE "part"
<1>1. k \in Kinds \ {"hash", "deadHash"} /\ (k = "cdn" => c.x.cdn)
  BY DEF Kinds
<1>2. makeRequest(c, o, s) = placeSentRequest(c, o, s, k)
  BY DEF makeRequest
<1> HIDE DEF k
<1> QED
  BY <1>1, <1>2, PlaceOk

(* requestMoreCdnFileHashes. *)
LEMMA MoreHashesOk ==
    ASSUME NEW F, NEW R, NEW n, RestOk(F, R, n), NEW t, NEW c,
           CtxOk(t, c, {}, F, R, n)
    PROVE  LET e == requestMoreCdnFileHashes(c)
           IN  /\ SameSessions(c, e) /\ CtxOk(t, e, {}, F, R, n) /\ e.d = c.d
               /\ AwaitedOk(t, e.x)
               /\ haveSentRequests(e.x) => haveSentRequests(c.x)
<1>1. /\ Good(c, F, R, n) /\ c \in CtxSet /\ c.x \in TaskSet
      /\ TaskBase(t, c.x, {}) /\ (t \notin TokenErrors => Strict(t, c.x, {}))
  BY CtxOkFact
<1>2. CASE hashesRequested(c.x) \/ c.x.unchecked = {}
  <2>1. requestMoreCdnFileHashes(c) = c
    BY <1>2 DEF requestMoreCdnFileHashes
  <2>2. SameSessions(c, c) /\ AwaitedOk(t, c.x)
    BY <1>2 DEF SameSessions, SameElsewhere, AwaitedOk, Awaited
  <2> QED
    BY <2>1, <2>2
<1>3. CASE ~hashesRequested(c.x) /\ c.x.unchecked # {}
  <2> DEFINE u == FirstUnchecked(c.x)
             e == placeSentRequest(c, u.offset, u.session, "hash")
             y == e.x
  <2>1. requestMoreCdnFileHashes(c) = e
    BY <1>3 DEF requestMoreCdnFileHashes
  <2>2. u \in c.x.unchecked
    <3> DEFINE V == {v.offset : v \in c.x.unchecked}
    <3>1. \A v \in AsideSet : v.offset \in Nat
      BY DownloadAssumption DEF AsideSet, Offsets
    <3>2. c.x.unchecked \subseteq AsideSet
      BY <1>1, TaskFact
    <3>3. V \in SUBSET Nat /\ V # {}
      BY <1>3, <3>1, <3>2
    <3>4. PICK m \in V : \A k \in V : m <= k
      <4> HIDE DEF V
      <4> QED
        BY <3>3, LeastOf
    <3>5. \E v \in c.x.unchecked : \A w \in c.x.unchecked : v.offset <= w.offset
      BY <3>4
    <3> QED
      BY <3>5 DEF FirstUnchecked
  <2> HIDE DEF u
  <2>3. u.offset \in Offsets /\ AsideAt(c.x, u.offset)
    <3>1. u \in AsideSet
      BY <1>1, <2>2, TaskFact
    <3> QED
      BY <2>2, <3>1 DEF AsideSet, AsideAt
  <2>4. u.session \in 1 .. Len(c.mgr.balance[c.d].sessions)
    BY <1>1, <2>2 DEF Good, Sits
  <2>5. "hash" \in Kinds
    BY DEF Kinds
  <2>6. Good(e, F, R, n) /\ SameSessions(c, e) /\ Placed(c.x, y, u.offset, "hash")
    BY <1>1, <2>3, <2>4, <2>5, PlaceGood
  <2> HIDE DEF e
  <2>7. TaskBase(t, y, {})
    BY <1>1, <1>3, <2>3, <2>6, PlaceHashBase
  <2>8. ASSUME t \notin TokenErrors
        PROVE  Strict(t, y, {}) /\ hashesRequested(y)
    BY <1>1, <1>3, <2>3, <2>6, <2>8, PlaceHashStrict
  <2>9. haveSentRequests(c.x)
    BY <1>3 DEF haveSentRequests
  <2>10. AwaitedOk(t, y)
    BY <2>8 DEF AwaitedOk, Awaited
  <2>11. e.d = c.d
    BY <2>6 DEF SameSessions, SameElsewhere
  <2> QED
    BY <2>1, <2>6, <2>7, <2>8, <2>9, <2>10, <2>11 DEF CtxOk, Pend
<1> QED
  BY <1>2, <1>3

FailGives(t, c, F, R, n) ==
    LET e == cancelOnFail(t, c)
    IN  /\ SameSessions(c, e) /\ CtxOk(t, e, {}, F, R, n) /\ e.d = c.d
        /\ AwaitedOk(t, e.x)
        /\ haveSentRequests(e.x) => haveSentRequests(c.x)
        /\ t \in Streams => e.x.sent = c.x.sent
        /\ t \notin Streams => e.x.sent = <<>>

(* cancelOnFail. *)
LEMMA FailOk ==
    ASSUME NEW F, NEW R, NEW n, RestOk(F, R, n), NEW t, NEW c, NEW P,
           CtxOk(t, c, P, F, R, n)
    PROVE  FailGives(t, c, F, R, n)
<1>1. /\ Good(c, F, R, n) /\ c \in CtxSet /\ c.x \in TaskSet
      /\ TaskBase(t, c.x, P) /\ (t \notin TokenErrors => Strict(t, c.x, P))
      /\ P \subseteq Offsets
  BY CtxOkFact
<1>2. CASE t \in Streams
  <2> DEFINE y == [c.x EXCEPT !.failed = TRUE]
             e == [c EXCEPT !.x = y]
  <2>1. cancelOnFail(t, c) = e
    BY <1>2 DEF cancelOnFail
  <2>2. /\ y \in TaskSet /\ y.sent = c.x.sent /\ y.unchecked = c.x.unchecked
        /\ y.failed = TRUE /\ y.wanted = c.x.wanted /\ y.next = c.x.next
        /\ y.finished = c.x.finished /\ y.fed = c.x.fed /\ y.last = c.x.last
        /\ y.done = c.x.done /\ y.cdn = c.x.cdn
    BY <1>1 DEF TaskSet
  <2> HIDE DEF y
  <2>3. \A u \in y.unchecked : u.session \in 1 .. Len(c.mgr.balance[c.d].sessions)
    BY <1>1, <2>2 DEF Good, Sits
  <2>4. Good(e, F, R, n) /\ SameSessions(c, e) /\ e.x = y
    BY <1>1, <2>2, <2>3, TaskGood
  <2> HIDE DEF e
  <2>5. TaskBase(t, y, {})
    BY <1>1, <1>2, <2>2 DEF TaskBase
  <2>6. Strict(t, c.x, P) => Strict(t, y, {})
    BY <1>2, <2>2 DEF Strict, SentAt, AsideAt
  <2>7. AwaitedOk(t, y)
    BY <2>2 DEF AwaitedOk, Awaited
  <2> QED
    BY <1>1, <1>2, <2>1, <2>2, <2>4, <2>5, <2>6, <2>7
       DEF CtxOk, Pend, SameSessions, SameElsewhere, haveSentRequests, FailGives
<1>3. CASE t \notin Streams
  <2> DEFINE a == cancelAllRequests(c)
             y == [a.x EXCEPT !.finished = TRUE, !.done = FALSE]
             e == [a EXCEPT !.x = y]
  <2>1. Good(a, F, R, n) /\ SameSessions(c, a) /\ Cleared(c.x, a.x)
    BY <1>1, CancelAllGood
  <2>2. a \in CtxSet /\ a.x \in TaskSet
    BY <2>1, CtxFact DEF Good
  <2> HIDE DEF a
  <2>3. [a EXCEPT !.x.finished = TRUE, !.x.done = FALSE] = e
    BY <2>2 DEF CtxSet
  <2>4. cancelOnFail(t, c) = e
    BY <1>3, <2>3 DEF cancelOnFail, a
  <2>5. /\ y \in TaskSet /\ y.sent = a.x.sent /\ y.unchecked = a.x.unchecked
        /\ y.finished = TRUE /\ y.done = FALSE /\ y.fed = a.x.fed
        /\ y.last = a.x.last /\ y.next = a.x.next /\ y.wanted = a.x.wanted
        /\ y.cdn = a.x.cdn
    BY <2>2 DEF TaskSet
  <2> HIDE DEF y
  <2>6. y.sent = <<>> /\ y.unchecked = {}
    BY <2>1, <2>5 DEF Cleared
  <2>7. Good(e, F, R, n) /\ SameSessions(a, e) /\ e.x = y
    <3>1. \A u \in y.unchecked : u.session \in 1 .. Len(a.mgr.balance[a.d].sessions)
      BY <2>6
    <3>2. Len(y.sent) = Len(a.x.sent)
      BY <2>5
    <3>3. \A i \in DOMAIN a.x.sent : y.sent[i].session = a.x.sent[i].session
      BY <2>5
    <3> QED
      BY <2>1, <2>5, <3>1, <3>2, <3>3, TaskGood
  <2> HIDE DEF e
  <2>8. /\ y.fed = c.x.fed /\ y.last = c.x.last /\ y.next = c.x.next
        /\ y.wanted = c.x.wanted /\ y.cdn = c.x.cdn
    BY <2>1, <2>5 DEF Cleared
  <2>9. TaskBase(t, y, {}) /\ (Strict(t, c.x, P) => Strict(t, y, {}))
    BY <1>1, <1>3, <2>5, <2>6, <2>8, ClearedOk
  <2>10. SameSessions(c, e)
    BY <2>1, <2>7 DEF SameSessions, SameElsewhere
  <2>11. AwaitedOk(t, y) /\ ~haveSentRequests(y)
    BY <2>6 DEF AwaitedOk, Awaited, haveSentRequests
  <2> QED
    BY <1>1, <1>3, <2>4, <2>6, <2>7, <2>9, <2>10, <2>11
       DEF CtxOk, Pend, SameSessions, SameElsewhere, FailGives
<1> QED
  BY <1>2, <1>3

(* Only what the invariant does not look at differs. *)
SameTask(x, y) ==
    /\ y \in TaskSet /\ y.sent = x.sent /\ y.unchecked = x.unchecked
    /\ y.wanted = x.wanted /\ y.next = x.next /\ y.finished = x.finished
    /\ y.fed = x.fed /\ y.last = x.last /\ y.cdn = x.cdn
    /\ y.done => x.done

SameGives(t, c, y, P, F, R, n) ==
    LET e == [c EXCEPT !.x = y]
    IN  /\ SameSessions(c, e) /\ CtxOk(t, e, P, F, R, n) /\ e.d = c.d
        /\ e.x = y /\ e.mgr = c.mgr
        /\ y.failed = c.x.failed /\ y.hashPosted = c.x.hashPosted
             => (AwaitedOk(t, c.x) <=> AwaitedOk(t, y))
        /\ haveSentRequests(y) <=> haveSentRequests(c.x)
        /\ hashesRequested(y) <=> hashesRequested(c.x)

LEMMA SameTaskOk ==
    ASSUME NEW F, NEW R, NEW n, RestOk(F, R, n), NEW t, NEW c, NEW P,
           CtxOk(t, c, P, F, R, n), NEW y, SameTask(c.x, y)
    PROVE  SameGives(t, c, y, P, F, R, n)
<1> DEFINE e == [c EXCEPT !.x = y]
<1>1. /\ Good(c, F, R, n) /\ c \in CtxSet /\ c.x \in TaskSet
      /\ TaskBase(t, c.x, P) /\ (t \notin TokenErrors => Strict(t, c.x, P))
      /\ P \subseteq Offsets
  BY CtxOkFact
<1>2. Good(e, F, R, n) /\ SameSessions(c, e) /\ e.x = y
  <2>1. /\ y \in TaskSet /\ Len(y.sent) = Len(c.x.sent)
        /\ \A i \in DOMAIN c.x.sent : y.sent[i].session = c.x.sent[i].session
    BY DEF SameTask
  <2>2. \A u \in y.unchecked : u.session \in 1 .. Len(c.mgr.balance[c.d].sessions)
    BY <1>1 DEF SameTask, Good, Sits
  <2> QED
    BY <1>1, <2>1, <2>2, TaskGood
<1>3. e.mgr = c.mgr
  BY <1>1 DEF CtxSet
<1>4. e.d = c.d
  BY <1>2 DEF SameSessions, SameElsewhere
<1> HIDE DEF e
<1>5. SameShape(c.x, y)
  BY DEF SameTask, SameShape, AsideAt
<1>6. TaskBase(t, y, P)
  BY <1>1, <1>5, ShapeBase DEF SameTask
<1>7. ASSUME t \notin TokenErrors PROVE Strict(t, y, P)
  <2>1. \A i \in DOMAIN y.sent : y.sent[i].kind = "cdn" => y.cdn
    BY <1>1, <1>7 DEF SameTask, Strict
  <2> QED
    BY <1>1, <1>5, <1>7, <2>1, ShapeStrict DEF SameTask
<1>8. /\ haveSentRequests(y) <=> haveSentRequests(c.x)
      /\ hashesRequested(y) <=> hashesRequested(c.x)
  BY DEF SameTask, haveSentRequests, hashesRequested
<1>9. y.failed = c.x.failed /\ y.hashPosted = c.x.hashPosted
        => (AwaitedOk(t, c.x) <=> AwaitedOk(t, y))
  BY <1>8 DEF SameTask, AwaitedOk, Awaited
<1> QED
  BY <1>2, <1>3, <1>4, <1>6, <1>7, <1>8, <1>9 DEF CtxOk, Pend, e, SameGives

(* finishSentRequest with Success. *)
Succeeded(k, i, slow, early) ==
    LET r == k.x.sent[i]
        c == finishSentRequest(k, i)
        b == c.mgr.balance[c.d]
    IN  IF slow \/ overloaded(b, r.session, r.amount, r.old) THEN c
          ELSE [c EXCEPT !.mgr.balance[c.d] =
                  requestSucceeded(b, r.session, r.amount, early)]

LEMMA SucceededOk ==
    ASSUME NEW F, NEW R, NEW n, RestOk(F, R, n), NEW t, NEW k,
           CtxOk(t, k, {}, F, R, n), NEW i \in DOMAIN k.x.sent,
           ~isHashes(k.x.sent[i]), NEW slow, NEW early
    PROVE  LET e == Succeeded(k, i, slow, early)
               r == k.x.sent[i]
           IN  /\ SameElsewhere(k, e) /\ OnlySent(k.x, e.x) /\ e.d = k.d
               /\ CtxOk(t, e, {r.offset}, F, R, n)
               /\ AwaitedOk(t, k.x) => AwaitedOk(t, e.x)
               /\ r.offset \in Offsets
               /\ r.session \in 1 .. Len(e.mgr.balance[e.d].sessions)
<1> DEFINE r == k.x.sent[i]
           c == finishSentRequest(k, i)
           b == c.mgr.balance[c.d]
           s == requestSucceeded(b, r.session, r.amount, early)
           e == [c EXCEPT !.mgr.balance[c.d] = s]
<1>2. /\ SameSessions(k, c) /\ OnlySent(k.x, c.x) /\ c.d = k.d
      /\ c \in CtxSet /\ CtxOk(t, c, {r.offset}, F, R, n)
      /\ AwaitedOk(t, k.x) => AwaitedOk(t, c.x)
      /\ r.offset \in Offsets
      /\ r.session \in 1 .. Len(c.mgr.balance[c.d].sessions)
  BY FinishOk DEF FinishGives
<1>3. Succeeded(k, i, slow, early) =
        IF slow \/ overloaded(b, r.session, r.amount, r.old) THEN c ELSE e
  BY DEF Succeeded
<1> HIDE DEF c
<1>4. CASE slow \/ overloaded(b, r.session, r.amount, r.old)
  <2>1. Succeeded(k, i, slow, early) = c
    BY <1>3, <1>4
  <2> QED
    BY <1>2, <2>1 DEF SameSessions
<1>5. CASE ~(slow \/ overloaded(b, r.session, r.amount, r.old))
  <2>1. Succeeded(k, i, slow, early) = e
    BY <1>3, <1>5
  <2>2. b \in BalanceSet /\ Good(c, F, R, n)
    BY <1>2, CtxOkFact
  <2>3. Grown(b, s)
    BY <1>2, <2>2, SucceededFact
  <2> HIDE DEF s
  <2>4. /\ Good(e, F, R, n) /\ SameElsewhere(c, e) /\ e.x = c.x
        /\ e.mgr.balance[c.d] = s
    BY <2>2, <2>3, BalanceGood
  <2> HIDE DEF e
  <2>5. e.d = c.d /\ SameElsewhere(k, e)
    BY <1>2, <2>4 DEF SameSessions, SameElsewhere
  <2>6. CtxOk(t, e, {r.offset}, F, R, n)
    BY <1>2, <2>4 DEF CtxOk
  <2>7. r.session \in 1 .. Len(e.mgr.balance[e.d].sessions)
    <3>1. Len(s.sessions) >= Len(b.sessions) /\ s \in BalanceSet
      BY <2>3 DEF Grown
    <3>2. Len(s.sessions) \in Nat /\ Len(b.sessions) \in Nat
      BY <2>2, <3>1, SessionsFact
    <3>3. r.session \in 1 .. Len(b.sessions)
      BY <1>2
    <3>4. r.session \in 1 .. Len(s.sessions)
      <4> HIDE DEF b, r
      <4> QED
        BY <3>1, <3>2, <3>3
    <3> QED
      BY <2>4, <2>5, <3>4
  <2> QED
    BY <1>2, <2>1, <2>4, <2>5, <2>6, <2>7
<1> QED
  BY <1>4, <1>5

(* A stream forgets the part it was given. *)
LEMMA WeakenOk ==
    ASSUME NEW F, NEW R, NEW n, NEW t \in Streams, NEW c, NEW P,
           CtxOk(t, c, P, F, R, n)
    PROVE  CtxOk(t, c, {}, F, R, n)
  BY DEF CtxOk, Pend, TaskBase, Strict

(* What counts after a change of a task that keeps its requests. *)
LEMMA FedOk ==
    ASSUME NEW F, NEW R, NEW n, RestOk(F, R, n), NEW t \in Tasks \ Streams, NEW c,
           NEW G, G # {}, CtxOk(t, c, G, F, R, n), NEW short, Short(t, G, short),
           NEW y, Fed(t, c.x, y, G, short)
    PROVE  LET e == [c EXCEPT !.x = y]
           IN  /\ SameSessions(c, e) /\ CtxOk(t, e, {}, F, R, n) /\ e.d = c.d
               /\ e.x = y
               /\ AwaitedOk(t, c.x) => AwaitedOk(t, y)
               /\ haveSentRequests(y) <=> haveSentRequests(c.x)
               /\ y.done => ~haveSentRequests(y)
<1> DEFINE e == [c EXCEPT !.x = y]
<1>1. /\ Good(c, F, R, n) /\ c \in CtxSet /\ c.x \in TaskSet
      /\ TaskBase(t, c.x, G) /\ (t \notin TokenErrors => Strict(t, c.x, G))
  BY CtxOkFact
<1>2. Good(e, F, R, n) /\ SameSessions(c, e) /\ e.x = y
  <2>1. /\ y \in TaskSet /\ Len(y.sent) = Len(c.x.sent)
        /\ \A i \in DOMAIN c.x.sent : y.sent[i].session = c.x.sent[i].session
    BY DEF Fed
  <2>2. \A u \in y.unchecked : u.session \in 1 .. Len(c.mgr.balance[c.d].sessions)
    BY <1>1 DEF Fed, Good, Sits
  <2> QED
    BY <1>1, <2>1, <2>2, TaskGood
<1>3. e.d = c.d
  BY <1>2 DEF SameSessions, SameElsewhere
<1> HIDE DEF e
<1>4. TaskBase(t, y, {})
  BY <1>1, FedBase
<1>5. ASSUME t \notin TokenErrors
      PROVE  Strict(t, y, {}) /\ (hashesRequested(y) <=> hashesRequested(c.x))
  BY <1>1, <1>5, FedStrict
<1>6. AwaitedOk(t, c.x) => AwaitedOk(t, y)
  BY <1>5 DEF AwaitedOk, Awaited, Fed
<1>7. /\ haveSentRequests(y) <=> haveSentRequests(c.x)
      /\ y.done => ~haveSentRequests(y)
  BY DEF Fed, haveSentRequests, Finishes
<1> QED
  BY <1>2, <1>3, <1>4, <1>5, <1>6, <1>7 DEF CtxOk, Pend, e

(* feedPart. *)
LEMMA FeedOk ==
    ASSUME NEW F, NEW R, NEW n, RestOk(F, R, n), NEW t \in Tasks, NEW c,
           NEW o \in Offsets, CtxOk(t, c, {o}, F, R, n),
           NEW short \in MayBeShort(t, o)
    PROVE  LET f == feedPart(t, c, o, short)
           IN  /\ SameSessions(c, f) /\ CtxOk(t, f, {}, F, R, n) /\ f.d = c.d
               /\ AwaitedOk(t, c.x) => AwaitedOk(t, f.x)
               /\ haveSentRequests(f.x) <=> haveSentRequests(c.x)
               /\ f.x.done => ~haveSentRequests(f.x)
<1>1. /\ Good(c, F, R, n) /\ c \in CtxSet /\ c.x \in TaskSet
      /\ TaskBase(t, c.x, {o})
  BY CtxOkFact
<1>2. CASE t \in Streams
  <2>1. feedPart(t, c, o, short) = c
    BY <1>2 DEF feedPart
  <2>2. ~c.x.done /\ SameSessions(c, c)
    BY <1>1, <1>2 DEF TaskBase, SameSessions, SameElsewhere
  <2> QED
    BY <1>2, <2>1, <2>2, WeakenOk
<1>3. CASE t \notin Streams
  <2> DEFINE g == [c.x.fed EXCEPT ![o] = @ + 1]
             l == c.x.last \/ short
             x == [c.x EXCEPT !.fed = g, !.last = l]
             w == Finishes(t, x)
             y == [x EXCEPT !.finished = w, !.done = w]
  <2>1. feedPart(t, c, o, short) = [c EXCEPT !.x = y]
    BY <1>1, <1>3 DEF feedPart, TaskSet
  <2>2. Parts[t] \in Nat /\ o \in Nat /\ Offsets \subseteq Nat
    BY DownloadAssumption DEF Offsets
  <2>3. short \in BOOLEAN /\ Short(t, {o}, short)
    <3> DEFINE lt == o < Parts[t]
               eq == o = Parts[t]
               gt == o > Parts[t]
               ge == o >= Parts[t]
    <3>1. (lt \/ eq \/ gt) /\ (gt => ~lt /\ ~eq) /\ (eq => ~lt /\ ge) /\ (gt => ge)
      BY <2>2
    <3>2. MayBeShort(t, o) = CASE lt -> {FALSE} [] eq -> BOOLEAN [] OTHER -> {TRUE}
      BY DEF MayBeShort
    <3>3. Short(t, {o}, short) <=> (gt => short) /\ (short => ge)
      BY DEF Short
    <3> HIDE DEF lt, eq, gt, ge
    <3>4. CASE lt /\ ~eq /\ ~gt
      <4>1. short = FALSE
        BY <3>2, <3>4
      <4> QED
        BY <3>3, <3>4, <4>1
    <3>5. CASE eq
      <4>1. short \in BOOLEAN
        BY <3>1, <3>2, <3>5
      <4> QED
        BY <3>1, <3>3, <3>5, <4>1
    <3>6. CASE gt
      <4>1. short = TRUE
        BY <3>1, <3>2, <3>6
      <4> QED
        BY <3>1, <3>3, <3>6, <4>1
    <3> QED
      BY <3>1, <3>4, <3>5, <3>6
  <2>4. /\ g \in [Offsets -> Nat]
        /\ \A p \in Offsets : g[p] = IF p \in {o} THEN c.x.fed[p] + 1 ELSE c.x.fed[p]
    <3>1. c.x.fed \in [Offsets -> Nat]
      BY <1>1, TaskFact
    <3> QED
      BY <3>1
  <2>5. l \in BOOLEAN
    BY <1>1, <2>3 DEF TaskSet
  <2> HIDE DEF g, l
  <2>6. /\ x \in TaskSet /\ x.sent = c.x.sent /\ x.unchecked = c.x.unchecked
        /\ x.next = c.x.next /\ x.wanted = c.x.wanted /\ x.cdn = c.x.cdn
        /\ x.failed = c.x.failed /\ x.hashPosted = c.x.hashPosted
        /\ x.fed = g /\ x.last = l /\ x.known = c.x.known
    BY <1>1, <2>4, <2>5 DEF TaskSet
  <2> HIDE DEF x
  <2>7. w \in BOOLEAN
    BY DEF Finishes
  <2> HIDE DEF w
  <2>8. /\ y \in TaskSet /\ y.sent = x.sent /\ y.unchecked = x.unchecked
        /\ y.next = x.next /\ y.wanted = x.wanted /\ y.cdn = x.cdn
        /\ y.failed = x.failed /\ y.hashPosted = x.hashPosted
        /\ y.fed = x.fed /\ y.last = x.last /\ y.known = x.known
        /\ y.finished = w /\ y.done = w
    BY <2>6, <2>7 DEF TaskSet
  <2> HIDE DEF y
  <2>9. w = Finishes(t, y)
    BY <2>8 DEF w, Finishes, haveSentRequests
  <2>10. Fed(t, c.x, y, {o}, short)
    BY <2>4, <2>6, <2>8, <2>9 DEF Fed, l
  <2> QED
    BY <1>3, <2>1, <2>3, <2>10, FedOk
<1> QED
  BY <1>2, <1>3

LEMMA FinalizeOk ==
    ASSUME NEW F, NEW R, NEW n, RestOk(F, R, n), NEW t, NEW c,
           CtxOk(t, c, {}, F, R, n), NEW e \in MayFailToFinalize(t, c)
    PROVE  /\ SameSessions(c, e) /\ CtxOk(t, e, {}, F, R, n) /\ e.d = c.d
           /\ AwaitedOk(t, c.x) => AwaitedOk(t, e.x)
           /\ haveSentRequests(e.x) <=> haveSentRequests(c.x)
<1>1. c \in CtxSet /\ c.x \in TaskSet
  BY CtxOkFact
<1>2. CASE e = c
  BY <1>2 DEF SameSessions, SameElsewhere
<1>3. CASE e = [c EXCEPT !.x.done = FALSE]
  <2> DEFINE y == [c.x EXCEPT !.done = FALSE]
  <2>1. e = [c EXCEPT !.x = y]
    BY <1>1, <1>3 DEF CtxSet
  <2>2. /\ SameTask(c.x, y)
        /\ y.failed = c.x.failed /\ y.hashPosted = c.x.hashPosted
    BY <1>1 DEF TaskSet, SameTask
  <2> HIDE DEF y
  <2> QED
    BY <2>1, <2>2, SameTaskOk DEF SameGives
<1> QED
  BY <1>2, <1>3 DEF MayFailToFinalize

(* putAside. *)
LEMMA AsideOk ==
    ASSUME NEW F, NEW R, NEW n, RestOk(F, R, n), NEW t, NEW c, NEW r,
           CtxOk(t, c, {r.offset}, F, R, n), t \notin TokenErrors => c.x.cdn,
           r.session \in 1 .. Len(c.mgr.balance[c.d].sessions)
    PROVE  LET e == putAside(c, r)
           IN  /\ SameSessions(c, e) /\ CtxOk(t, e, {}, F, R, n) /\ e.d = c.d
               /\ AwaitedOk(t, e.x)
<1> DEFINE A == IF \E u \in c.x.unchecked : u.offset = r.offset THEN c.x.unchecked
                  ELSE c.x.unchecked \cup
                         {[offset |-> r.offset, session |-> r.session]}
           y == [c.x EXCEPT !.unchecked = A]
           a == [c EXCEPT !.x = y]
<1>1. /\ Good(c, F, R, n) /\ c \in CtxSet /\ c.x \in TaskSet /\ r.offset \in Offsets
      /\ TaskBase(t, c.x, {r.offset})
      /\ (t \notin TokenErrors => Strict(t, c.x, {r.offset}))
      /\ c.mgr.balance[c.d] \in BalanceSet
  BY CtxOkFact
<1>2. putAside(c, r) = requestMoreCdnFileHashes(a)
  BY <1>1 DEF putAside, CtxSet, TaskSet
<1>3. Len(c.mgr.balance[c.d].sessions) \in Nat
  BY <1>1, SessionsFact
<1>4. /\ A \in SUBSET AsideSet
      /\ \A u \in A : u.session \in 1 .. Len(c.mgr.balance[c.d].sessions)
      /\ \A p : (\E u \in A : u.offset = p) <=> AsideAt(c.x, p) \/ p = r.offset
  <2>1. c.x.unchecked \subseteq AsideSet
    BY <1>1, TaskFact
  <2>2. \A u \in c.x.unchecked :
          u.session \in 1 .. Len(c.mgr.balance[c.d].sessions)
    BY <1>1 DEF Good, Sits
  <2>3. [offset |-> r.offset, session |-> r.session] \in AsideSet
    BY <1>1, <1>3 DEF AsideSet
  <2> QED
    BY <2>1, <2>2, <2>3 DEF AsideAt
<1> HIDE DEF A
<1>5. OnlyAside(c.x, y) /\ y.unchecked = A
  BY <1>1, <1>4, AsideFact
<1> HIDE DEF y
<1>6. Good(a, F, R, n) /\ SameSessions(c, a) /\ a.x = y
  <2>1. /\ y \in TaskSet /\ Len(y.sent) = Len(c.x.sent)
        /\ \A i \in DOMAIN c.x.sent : y.sent[i].session = c.x.sent[i].session
    BY <1>5 DEF OnlyAside
  <2> QED
    BY <1>1, <1>4, <1>5, <2>1, TaskGood
<1>7. a.d = c.d
  BY <1>6 DEF SameSessions, SameElsewhere
<1> HIDE DEF a
<1>8. /\ TaskBase(t, y, {})
      /\ Strict(t, c.x, {r.offset}) /\ c.x.cdn => Strict(t, y, {})
  <2>1. \A p \in Offsets : AsideAt(y, p) <=> AsideAt(c.x, p) \/ p = r.offset
    BY <1>4, <1>5 DEF AsideAt
  <2> QED
    BY <1>1, <1>5, <2>1, AsideMore
<1>9. CtxOk(t, a, {}, F, R, n)
  BY <1>1, <1>6, <1>8 DEF CtxOk, Pend
<1>10. LET e == requestMoreCdnFileHashes(a)
       IN  /\ SameSessions(a, e) /\ CtxOk(t, e, {}, F, R, n) /\ e.d = a.d
           /\ AwaitedOk(t, e.x)
  BY <1>9, MoreHashesOk
<1> QED
  BY <1>2, <1>6, <1>7, <1>10 DEF SameSessions, SameElsewhere

(* resendAll, after the parameters of the CDN have changed. *)
LEMMA ResendOk ==
    ASSUME NEW F, NEW R, NEW n, RestOk(F, R, n), NEW t, NEW c, NEW P,
           Good(c, F, R, n), TaskBase(t, c.x, P),
           t \notin TokenErrors => /\ Strict(t, c.x, P) /\ c.x.cdn
                                  /\ c.x.unchecked = {}
    PROVE  LET e == resendAll(c)
           IN  /\ SameSessions(c, e) /\ CtxOk(t, e, P, F, R, n) /\ e.d = c.d
               /\ AwaitedOk(t, e.x)
<1> DEFINE s == c.x.sent
           kind == IF c.x.cdn THEN "cdn" ELSE "part"
           before(i) == {j \in DOMAIN s : j >= i /\ s[j].session = s[i].session}
           amount(i) == c.mgr.balance[c.d].sessions[s[i].session].requested
                          - Cardinality(before(i)) + 1
           again(i) == [s[i] EXCEPT !.kind = kind, !.old = FALSE,
                                    !.amount = amount(i)]
           q == [i \in DOMAIN s |-> again(i)]
           w == c.x.orphans + Cardinality(refreshing(c.x))
           y == [c.x EXCEPT !.sent = q, !.orphans = w]
           e == [c EXCEPT !.x = y]
<1>1. /\ c \in CtxSet /\ c.x \in TaskSet /\ P \subseteq Offsets
      /\ c.mgr.balance[c.d] \in BalanceSet
  BY CtxFact DEF Good, TaskBase
<1>2. resendAll(c) = e
  <2> HIDE DEF again
  <2>1. resendAll(c) = [c EXCEPT !.x.sent = q, !.x.orphans = @ + Cardinality(refreshing(c.x))]
    BY DEF resendAll, again, amount, before, kind
  <2> HIDE DEF q
  <2> QED
    BY <1>1, <2>1 DEF CtxSet, TaskSet
<1>3. s \in Seq(SentSet) /\ DOMAIN s = 1 .. Len(s) /\ Len(s) \in Nat
  BY <1>1, TaskFact
<1>b. \A k \in 1 .. Len(c.mgr.balance[c.d].sessions) :
        c.mgr.balance[c.d].sessions[k].requested \in Int
  BY <1>1, SessionsFact
<1>4. ASSUME NEW i \in DOMAIN s
      PROVE  /\ again(i) \in SentSet /\ again(i).offset = s[i].offset
             /\ again(i).session = s[i].session /\ again(i).kind = kind
  <2>1. s[i] \in SentSet
    BY <1>3
  <2>2. amount(i) \in Int
    <3>1. IsFiniteSet(1 .. Len(s))
      BY <1>3, FS_Interval
    <3>2. Cardinality(before(i)) \in Nat
      BY <1>3, <3>1, FS_Subset, FS_CardinalityType
    <3>3. c.mgr.balance[c.d].sessions[s[i].session].requested \in Int
      <4>1. s[i].session \in 1 .. Len(c.mgr.balance[c.d].sessions)
        BY DEF Good, Sits
      <4> QED
        BY <1>b, <4>1
    <3> HIDE DEF before, s
    <3> QED
      BY <3>2, <3>3 DEF amount
  <2>3. kind \in Kinds
    BY DEF Kinds
  <2> DEFINE r == s[i]
             m == amount(i)
  <2>4. r \in SentSet /\ m \in Int /\ again(i) = [r EXCEPT !.kind = kind, !.old = FALSE, !.amount = m]
    BY <2>1, <2>2
  <2> HIDE DEF again, r, m, kind
  <2>5. /\ again(i) \in SentSet /\ again(i).offset = r.offset
        /\ again(i).session = r.session /\ again(i).kind = kind
    BY <2>3, <2>4 DEF SentSet
  <2> QED
    BY <2>5 DEF r
<1> HIDE DEF again
<1>5. /\ q \in Seq(SentSet) /\ Len(q) = Len(s) /\ DOMAIN q = DOMAIN s
      /\ \A i \in DOMAIN s : q[i] = again(i)
  <2> HIDE DEF s
  <2> QED
    BY <1>3, <1>4
<1> HIDE DEF q
<1>6. w \in Int
  <2>1. Cardinality(refreshing(c.x)) \in Nat
    BY <1>1, RefreshingFact
  <2>2. c.x.orphans \in Int
    BY <1>1 DEF TaskSet
  <2> QED
    BY <2>1, <2>2
<1> HIDE DEF w
<1>7. /\ y \in TaskSet /\ y.sent = q /\ y.unchecked = c.x.unchecked
      /\ y.wanted = c.x.wanted /\ y.next = c.x.next
      /\ y.finished = c.x.finished /\ y.fed = c.x.fed /\ y.last = c.x.last
      /\ y.done = c.x.done /\ y.cdn = c.x.cdn
  <2> HIDE DEF s
  <2> QED
    BY <1>1, <1>5, <1>6 DEF TaskSet
<1> HIDE DEF y
<1>8. Good(e, F, R, n) /\ SameSessions(c, e) /\ e.x = y
  <2>1. \A i \in DOMAIN c.x.sent : y.sent[i].session = c.x.sent[i].session
    BY <1>4, <1>5, <1>7
  <2>2. \A u \in y.unchecked : u.session \in 1 .. Len(c.mgr.balance[c.d].sessions)
    BY <1>7 DEF Good, Sits
  <2>3. Len(y.sent) = Len(c.x.sent)
    BY <1>5, <1>7
  <2> QED
    BY <1>7, <2>1, <2>2, <2>3, TaskGood
<1>9. e.d = c.d
  BY <1>8 DEF SameSessions, SameElsewhere
<1> HIDE DEF e
<1>10. \A i \in DOMAIN y.sent : y.sent[i].kind = kind /\ ~isHashes(y.sent[i])
  <2>1. kind \notin {"hash", "deadHash"}
    OBVIOUS
  <2> HIDE DEF kind, s
  <2> QED
    BY <1>4, <1>5, <1>7, <2>1 DEF isHashes
<1>11. SameShape(c.x, y)
  <2>1. \A i \in DOMAIN c.x.sent :
          /\ y.sent[i].offset = c.x.sent[i].offset
          /\ isHashes(y.sent[i]) => isHashes(c.x.sent[i])
    BY <1>4, <1>5, <1>7, <1>10
  <2>2. \A o \in Offsets : AsideAt(y, o) <=> AsideAt(c.x, o)
    BY <1>7 DEF AsideAt
  <2>3. Len(y.sent) = Len(c.x.sent)
    BY <1>5, <1>7
  <2> HIDE DEF s
  <2> QED
    BY <1>7, <2>1, <2>2, <2>3 DEF SameShape
<1>12. TaskBase(t, y, P)
  BY <1>7, <1>11, ShapeBase
<1>13. ASSUME t \notin TokenErrors PROVE Strict(t, y, P)
  <2>1. \A i \in DOMAIN c.x.sent : isHashes(c.x.sent[i]) => isHashes(y.sent[i])
    BY <1>13 DEF Strict, AsideAt
  <2> QED
    BY <1>1, <1>7, <1>11, <1>13, <2>1, ShapeStrict
<1>14. AwaitedOk(t, y)
  BY <1>7 DEF AwaitedOk, Awaited
<1> QED
  BY <1>2, <1>8, <1>9, <1>12, <1>13, <1>14 DEF CtxOk, Pend

HashesGive(t, c, P, H, F, R, n) ==
    LET y == [c.x EXCEPT !.hashes = c.x.hashes \cup H]
        e == [c EXCEPT !.x = y]
    IN  /\ [c EXCEPT !.x.hashes = @ \cup H] = e
        /\ SameSessions(c, e) /\ CtxOk(t, e, P, F, R, n) /\ e.d = c.d
        /\ AwaitedOk(t, c.x) <=> AwaitedOk(t, e.x)
        /\ e.x.sent = c.x.sent /\ e.x.cdn = c.x.cdn
        /\ e.x.hashes = c.x.hashes \cup H
        /\ e.x.unchecked = c.x.unchecked
        /\ hashesRequested(e.x) <=> hashesRequested(c.x)

(* New hashes change nothing here. *)
LEMMA HashesOk ==
    ASSUME NEW F, NEW R, NEW n, RestOk(F, R, n), NEW t, NEW c, NEW P,
           CtxOk(t, c, P, F, R, n), NEW H \in SUBSET Offsets
    PROVE  HashesGive(t, c, P, H, F, R, n)
<1> DEFINE h == c.x.hashes \cup H
           y == [c.x EXCEPT !.hashes = h]
           e == [c EXCEPT !.x = y]
<1>1. c \in CtxSet /\ c.x \in TaskSet
  BY CtxOkFact
<1>2. [c EXCEPT !.x.hashes = @ \cup H] = e
  BY <1>1 DEF CtxSet, TaskSet
<1>3. h \in SUBSET Offsets
  BY <1>1, TaskFact
<1> HIDE DEF h
<1>4. SameTask(c.x, y) /\ y.failed = c.x.failed /\ y.hashPosted = c.x.hashPosted
  BY <1>1, <1>3 DEF TaskSet, SameTask
<1>5. y.sent = c.x.sent /\ y.cdn = c.x.cdn /\ y.unchecked = c.x.unchecked
  BY <1>4 DEF SameTask
<1>6. y.hashes = h
  BY <1>1 DEF TaskSet
<1> HIDE DEF y
<1>8. /\ SameSessions(c, e) /\ CtxOk(t, e, P, F, R, n) /\ e.d = c.d /\ e.x = y
      /\ AwaitedOk(t, c.x) <=> AwaitedOk(t, y)
      /\ hashesRequested(y) <=> hashesRequested(c.x)
  BY <1>4, SameTaskOk DEF SameGives
<1> HIDE DEF e
<1> QED
  BY <1>2, <1>5, <1>6, <1>8 DEF y, h, e, HashesGive

LEMMA ChangeOk ==
    ASSUME NEW F, NEW R, NEW n, RestOk(F, R, n), NEW t, NEW c, NEW r,
           CtxOk(t, c, {r.offset}, F, R, n), NEW cdn \in BOOLEAN,
           t \notin TokenErrors => cdn = TRUE, cdn => t \in OnCdn,
           NEW H \in SUBSET Offsets,
           r.session \in 1 .. Len(c.mgr.balance[c.d].sessions)
    PROVE  LET e == changeCDNParams(c, r, cdn, H)
           IN  /\ SameSessions(c, e) /\ CtxOk(t, e, {}, F, R, n) /\ e.d = c.d
               /\ AwaitedOk(t, c.x) => AwaitedOk(t, e.x)
<1> DEFINE P == {r.offset}
           h == c.x.hashes \cup H
           y == [c.x EXCEPT !.cdn = cdn, !.hashes = h]
           a == [c EXCEPT !.x = y]
           b == IF cdn # c.x.cdn THEN resendAll(a) ELSE a
<1>1. /\ Good(c, F, R, n) /\ c \in CtxSet /\ c.x \in TaskSet
      /\ TaskBase(t, c.x, P) /\ (t \notin TokenErrors => Strict(t, c.x, P))
      /\ P \subseteq Offsets
  BY CtxOkFact
<1>2. changeCDNParams(c, r, cdn, H) = makeRequest(b, r.offset, r.session)
  <2>1. [c EXCEPT !.x.cdn = cdn, !.x.hashes = @ \cup H] = a
    BY <1>1 DEF CtxSet, TaskSet
  <2> HIDE DEF a
  <2> QED
    BY <2>1 DEF changeCDNParams
<1>3. h \in SUBSET Offsets
  BY <1>1, TaskFact
<1> HIDE DEF h
<1>4. /\ y \in TaskSet /\ y.sent = c.x.sent /\ y.unchecked = c.x.unchecked
      /\ y.wanted = c.x.wanted /\ y.next = c.x.next
      /\ y.finished = c.x.finished /\ y.fed = c.x.fed /\ y.last = c.x.last
      /\ y.done = c.x.done /\ y.cdn = cdn
      /\ y.failed = c.x.failed /\ y.hashPosted = c.x.hashPosted
  BY <1>1, <1>3 DEF TaskSet
<1> HIDE DEF y
<1>5. Good(a, F, R, n) /\ SameSessions(c, a) /\ a.x = y
  <2>1. /\ Len(y.sent) = Len(c.x.sent)
        /\ \A i \in DOMAIN c.x.sent : y.sent[i].session = c.x.sent[i].session
    BY <1>4
  <2>2. \A u \in y.unchecked : u.session \in 1 .. Len(c.mgr.balance[c.d].sessions)
    BY <1>1, <1>4 DEF Good, Sits
  <2> QED
    BY <1>1, <1>4, <2>1, <2>2, TaskGood
<1>6. a.d = c.d
  BY <1>5 DEF SameSessions, SameElsewhere
<1> HIDE DEF a
<1>7. SameShape(c.x, y)
  BY <1>4 DEF SameShape, AsideAt
<1>8. TaskBase(t, y, P)
  BY <1>1, <1>4, <1>7, ShapeBase
<1>9. ASSUME t \notin TokenErrors PROVE Strict(t, y, P)
  BY <1>1, <1>4, <1>7, <1>9, ShapeStrict
<1>10. /\ SameSessions(c, b) /\ CtxOk(t, b, P, F, R, n) /\ b.d = c.d
       /\ AwaitedOk(t, c.x) => AwaitedOk(t, b.x)
  <2>1. CASE cdn = c.x.cdn
    <3>1. b = a
      BY <2>1
    <3>2. AwaitedOk(t, c.x) => AwaitedOk(t, y)
      BY <1>4 DEF AwaitedOk, Awaited, hashesRequested
    <3> QED
      BY <1>5, <1>6, <1>8, <1>9, <3>1, <3>2 DEF CtxOk, Pend
  <2>2. CASE cdn # c.x.cdn
    <3>1. b = resendAll(a)
      BY <2>2
    <3>2. t \notin TokenErrors => Strict(t, y, P) /\ y.cdn /\ y.unchecked = {}
      <4>1. SUFFICES ASSUME t \notin TokenErrors
                     PROVE  Strict(t, y, P) /\ y.cdn /\ y.unchecked = {}
        OBVIOUS
      <4>2. c.x.cdn \in BOOLEAN
        BY <1>1 DEF TaskSet
      <4>3. cdn = TRUE /\ ~c.x.cdn
        BY <2>2, <4>1, <4>2
      <4>4. c.x.unchecked = {}
        BY <1>1, <4>1, <4>3 DEF Strict
      <4> QED
        BY <1>4, <1>9, <4>1, <4>3, <4>4
    <3>3. LET e == resendAll(a)
          IN  /\ SameSessions(a, e) /\ CtxOk(t, e, P, F, R, n) /\ e.d = a.d
              /\ AwaitedOk(t, e.x)
      <4> HIDE DEF P
      <4> QED
        BY <1>5, <1>8, <3>2, ResendOk
    <3> HIDE DEF b
    <3> QED
      BY <1>5, <1>6, <3>1, <3>3 DEF SameSessions, SameElsewhere
  <2> QED
    BY <2>1, <2>2
<1> HIDE DEF b
<1>11. r.session \in 1 .. Len(b.mgr.balance[b.d].sessions)
  BY <1>10 DEF SameSessions
<1>12. LET e == makeRequest(b, r.offset, r.session)
       IN  /\ SameSessions(b, e) /\ CtxOk(t, e, {}, F, R, n) /\ e.d = b.d
           /\ AwaitedOk(t, b.x) => AwaitedOk(t, e.x)
  BY <1>10, <1>11, MakeOk
<1> QED
  BY <1>2, <1>10, <1>12 DEF SameSessions, SameElsewhere

(* cancelRequest. *)
WithoutRequest(x, y, i) ==
    y.sent = RemoveAt(x.sent, i) /\ y.unchecked = x.unchecked

CancelGives(t, c, i, F, R, n) ==
    LET e == cancelRequest(c, i)
        o == c.x.sent[i].offset
    IN  /\ SameSessions(c, e)
        /\ ~isHashes(c.x.sent[i]) => CtxOk(t, e, {o}, F, R, n)
        /\ isHashes(c.x.sent[i]) => CtxOk(t, e, {}, F, R, n)
        /\ AwaitedOk(t, c.x) => AwaitedOk(t, e.x)
        /\ o \in Offsets
        /\ WithoutRequest(c.x, e.x, i)

LEMMA CancelOk ==
    ASSUME NEW F, NEW R, NEW n, RestOk(F, R, n), NEW t, NEW c,
           CtxOk(t, c, {}, F, R, n), NEW i \in DOMAIN c.x.sent
    PROVE  CancelGives(t, c, i, F, R, n)
<1> DEFINE r == c.x.sent[i]
           a == finishSentRequest(c, i)
           h == a.x.hashPosted \/ (isHashes(r) /\ c.x.unchecked # {})
           w == IF r.kind = "refresh" THEN a.x.orphans + 1 ELSE a.x.orphans
           y == [a.x EXCEPT !.hashPosted = h, !.orphans = w]
           e == [a EXCEPT !.x = y]
<1>1. /\ SameSessions(c, a) /\ OnlySent(c.x, a.x) /\ a.d = c.d
      /\ a \in CtxSet
      /\ ~isHashes(r) => CtxOk(t, a, {r.offset}, F, R, n)
      /\ isHashes(r) => CtxOk(t, a, {}, F, R, n)
      /\ ~isHashes(r) /\ AwaitedOk(t, c.x) => AwaitedOk(t, a.x)
      /\ r.offset \in Offsets
  <2>1. FinishGives(t, c, i, F, R, n)
    BY FinishOk
  <2> QED
    BY <2>1 DEF FinishGives
<1>2. a.x.sent = RemoveAt(c.x.sent, i)
  <2>1. Good(c, F, R, n) /\ c.x \in TaskSet
    BY CtxOkFact
  <2>2. a.x = [c.x EXCEPT !.sent = RemoveAt(c.x.sent, i)]
    BY <2>1, DropGood
  <2> HIDE DEF a
  <2> QED
    BY <2>1, <2>2 DEF TaskSet
<1>3. cancelRequest(c, i) = e
  <2>1. cancelRequest(c, i) =
          [a EXCEPT !.x.hashPosted = @ \/ (isHashes(c.x.sent[i]) /\ c.x.unchecked # {}),
                    !.x.orphans = IF c.x.sent[i].kind = "refresh" THEN @ + 1 ELSE @]
    BY DEF cancelRequest
  <2> HIDE DEF a
  <2> QED
    BY <1>1, <2>1 DEF CtxSet, TaskSet
<1> HIDE DEF a
<1>4. a.x \in TaskSet
  BY <1>1, CtxFact
<1>5. h \in BOOLEAN /\ w \in Int
  BY <1>4 DEF TaskSet
<1> HIDE DEF h, w
<1>6. /\ SameTask(a.x, y) /\ y.failed = a.x.failed /\ y.hashPosted = h
      /\ y.sent = a.x.sent /\ y.unchecked = a.x.unchecked
  BY <1>4, <1>5 DEF TaskSet, SameTask
<1> HIDE DEF y
<1>7. ASSUME NEW P, CtxOk(t, a, P, F, R, n)
      PROVE  SameSessions(a, e) /\ CtxOk(t, e, P, F, R, n) /\ e.d = a.d /\ e.x = y
  BY <1>6, <1>7, SameTaskOk DEF SameGives
<1>8. AwaitedOk(t, c.x) => AwaitedOk(t, y)
  <2>1. CASE isHashes(r)
    BY <1>1, <1>6, <2>1 DEF AwaitedOk, Awaited, OnlySent, h
  <2>2. CASE ~isHashes(r)
    BY <1>1, <1>6, <2>2 DEF AwaitedOk, Awaited, hashesRequested, h
  <2> QED
    BY <2>1, <2>2
<1>9. /\ SameSessions(a, e) /\ e.d = a.d /\ e.x = y
      /\ ~isHashes(r) => CtxOk(t, e, {r.offset}, F, R, n)
      /\ isHashes(r) => CtxOk(t, e, {}, F, R, n)
  BY <1>1, <1>7
<1> HIDE DEF e
<1> QED
  BY <1>1, <1>2, <1>3, <1>6, <1>8, <1>9
     DEF SameSessions, SameElsewhere, OnlySent, WithoutRequest, CancelGives

(* One request is replaced by another for the same part. *)
LEMMA KindOk ==
    ASSUME NEW F, NEW R, NEW n, RestOk(F, R, n), NEW t, NEW c, NEW P,
           CtxOk(t, c, P, F, R, n), NEW i \in DOMAIN c.x.sent,
           NEW r \in SentSet, r.offset = c.x.sent[i].offset,
           r.session = c.x.sent[i].session,
           isHashes(r) <=> isHashes(c.x.sent[i]), r.kind # "cdn",
           NEW y \in TaskSet, OnlySent(c.x, y),
           y.sent = [c.x.sent EXCEPT ![i] = r]
    PROVE  LET e == [c EXCEPT !.x = y]
           IN  /\ SameSessions(c, e) /\ CtxOk(t, e, P, F, R, n) /\ e.d = c.d
               /\ e.x = y
               /\ AwaitedOk(t, c.x) => AwaitedOk(t, y)
               /\ haveSentRequests(y) <=> haveSentRequests(c.x)
<1> DEFINE e == [c EXCEPT !.x = y]
           q == [c.x.sent EXCEPT ![i] = r]
<1>1. /\ Good(c, F, R, n) /\ c \in CtxSet /\ c.x \in TaskSet
      /\ TaskBase(t, c.x, P) /\ (t \notin TokenErrors => Strict(t, c.x, P))
      /\ P \subseteq Offsets
  BY CtxOkFact
<1>2. c.x.sent \in Seq(SentSet) /\ DOMAIN c.x.sent = 1 .. Len(c.x.sent)
  BY <1>1, TaskFact
<1>3. /\ q \in Seq(SentSet) /\ Len(q) = Len(c.x.sent) /\ DOMAIN q = DOMAIN c.x.sent
      /\ \A k \in DOMAIN c.x.sent : q[k] = IF k = i THEN r ELSE c.x.sent[k]
  BY <1>2, ReplaceFact
<1> HIDE DEF q
<1>4. y \in TaskSet /\ y.sent = q /\ OnlySent(c.x, y)
  BY DEF q
<1>5. \A k \in DOMAIN c.x.sent :
        /\ y.sent[k].offset = c.x.sent[k].offset
        /\ y.sent[k].session = c.x.sent[k].session
        /\ isHashes(y.sent[k]) <=> isHashes(c.x.sent[k])
        /\ y.sent[k].kind = "cdn" => c.x.sent[k].kind = "cdn"
  BY <1>3, <1>4
<1>6. Good(e, F, R, n) /\ SameSessions(c, e) /\ e.x = y
  <2>1. Len(y.sent) = Len(c.x.sent)
    BY <1>3, <1>4
  <2>2. \A u \in y.unchecked : u.session \in 1 .. Len(c.mgr.balance[c.d].sessions)
    BY <1>1, <1>4 DEF Good, Sits, OnlySent
  <2>3. \A k \in DOMAIN c.x.sent : y.sent[k].session = c.x.sent[k].session
    BY <1>5
  <2> QED
    BY <1>1, <1>4, <2>1, <2>2, <2>3, TaskGood
<1>7. e.d = c.d
  BY <1>6 DEF SameSessions, SameElsewhere
<1> HIDE DEF e
<1>8. SameShape(c.x, y)
  <2>1. \A o \in Offsets : AsideAt(y, o) <=> AsideAt(c.x, o)
    BY <1>4 DEF OnlySent, AsideAt
  <2>2. Len(y.sent) = Len(c.x.sent)
    BY <1>3, <1>4
  <2>3. \A k \in DOMAIN c.x.sent :
          /\ y.sent[k].offset = c.x.sent[k].offset
          /\ isHashes(y.sent[k]) => isHashes(c.x.sent[k])
    BY <1>5
  <2> QED
    BY <1>4, <2>1, <2>2, <2>3 DEF SameShape, OnlySent
<1>9. TaskBase(t, y, P)
  BY <1>1, <1>4, <1>8, ShapeBase DEF OnlySent
<1>10. ASSUME t \notin TokenErrors PROVE Strict(t, y, P)
  <2>1. \A k \in DOMAIN y.sent : y.sent[k].kind = "cdn" => y.cdn
    BY <1>1, <1>3, <1>4, <1>5, <1>10 DEF Strict, OnlySent
  <2>2. y.cdn = c.x.cdn
    BY <1>4 DEF OnlySent
  <2>3. \A k \in DOMAIN c.x.sent : isHashes(c.x.sent[k]) => isHashes(y.sent[k])
    BY <1>5
  <2> QED
    BY <1>1, <1>8, <1>10, <2>1, <2>2, <2>3, ShapeStrict
<1>11. hashesRequested(y) <=> hashesRequested(c.x)
  BY <1>3, <1>4, <1>5 DEF hashesRequested
<1>12. AwaitedOk(t, c.x) => AwaitedOk(t, y)
  BY <1>4, <1>11 DEF AwaitedOk, Awaited, OnlySent
<1>13. haveSentRequests(y) <=> haveSentRequests(c.x)
  BY <1>1, <1>8, ShapeAt
<1> QED
  BY <1>6, <1>7, <1>9, <1>10, <1>12, <1>13 DEF CtxOk, Pend, e

(* Some of the parts put aside are taken. *)
WithTask(c, y) == [c EXCEPT !.x = y]

Taken(x, y, G) ==
    OnlyAside(x, y) /\ y.unchecked = {u \in x.unchecked : u.offset \notin G}

LEMMA TakeOk ==
    ASSUME NEW F, NEW R, NEW n, RestOk(F, R, n), NEW t, NEW c,
           CtxOk(t, c, {}, F, R, n), NEW G \in SUBSET Offsets,
           NEW y, Taken(c.x, y, G), \A o \in G : AsideAt(c.x, o),
           t \notin Streams \/ t \notin TokenErrors =>
             \A i \in DOMAIN c.x.sent :
               isHashes(c.x.sent[i]) => c.x.sent[i].offset \notin G
    PROVE  /\ SameSessions(c, WithTask(c, y)) /\ CtxOk(t, WithTask(c, y), G, F, R, n)
           /\ AwaitedOk(t, c.x) => AwaitedOk(t, y)
<1> DEFINE e == [c EXCEPT !.x = y]
<1>1. /\ Good(c, F, R, n) /\ c \in CtxSet /\ c.x \in TaskSet
      /\ TaskBase(t, c.x, {}) /\ (t \notin TokenErrors => Strict(t, c.x, {}))
  BY CtxOkFact
<1>3. OnlyAside(c.x, y) /\ y.unchecked = {u \in c.x.unchecked : u.offset \notin G}
  BY DEF Taken
<1>4. Good(e, F, R, n) /\ SameSessions(c, e) /\ e.x = y
  <2>1. /\ y \in TaskSet /\ Len(y.sent) = Len(c.x.sent)
        /\ \A i \in DOMAIN c.x.sent : y.sent[i].session = c.x.sent[i].session
    BY <1>3 DEF OnlyAside
  <2>2. \A u \in y.unchecked : u.session \in 1 .. Len(c.mgr.balance[c.d].sessions)
    BY <1>1, <1>3 DEF Good, Sits
  <2> QED
    BY <1>1, <2>1, <2>2, TaskGood
<1> HIDE DEF e
<1>6. \A o \in Offsets : AsideAt(y, o) <=> AsideAt(c.x, o) /\ o \notin G
  BY <1>3 DEF AsideAt
<1>7. ASSUME t \notin Streams \/ t \notin TokenErrors
      PROVE  TaskBase(t, y, G) /\ (Strict(t, c.x, {}) => Strict(t, y, G))
  BY <1>1, <1>3, <1>6, <1>7, AsideLess
<1>8. ASSUME t \in Streams PROVE TaskBase(t, y, G)
  BY <1>1, <1>3, <1>8 DEF TaskBase, OnlyAside
<1>9. AwaitedOk(t, c.x) => AwaitedOk(t, y)
  BY <1>3 DEF AwaitedOk, Awaited, OnlyAside, hashesRequested
<1> QED
  BY <1>1, <1>4, <1>7, <1>8, <1>9 DEF CtxOk, Pend, e, WithTask

(* cancelRequestForOffset. *)
LEMMA CancelOffsetOk ==
    ASSUME NEW F, NEW R, NEW n, RestOk(F, R, n), NEW t \in Streams, NEW c,
           CtxOk(t, c, {}, F, R, n), NEW o \in Offsets
    PROVE  LET e == CancelOffset(c, o)
           IN  /\ SameSessions(c, e) /\ CtxOk(t, e, {}, F, R, n)
               /\ AwaitedOk(t, c.x) => AwaitedOk(t, e.x)
<1> DEFINE i == CHOOSE i \in DOMAIN c.x.sent : c.x.sent[i].offset = o
           a == IF \E j \in DOMAIN c.x.sent : c.x.sent[j].offset = o
                  THEN cancelRequest(c, i) ELSE c
           A == {u \in a.x.unchecked : u.offset # o}
           G == {p \in {o} : AsideAt(a.x, p)}
           e == [a EXCEPT !.x = [a.x EXCEPT !.unchecked = A]]
<1>0. /\ c \in CtxSet /\ c.x \in TaskSet
      /\ t \notin TokenErrors => Strict(t, c.x, {})
  BY CtxOkFact
<1>1. /\ SameSessions(c, a) /\ CtxOk(t, a, {}, F, R, n)
      /\ AwaitedOk(t, c.x) => AwaitedOk(t, a.x)
      /\ t \notin TokenErrors => ~SentAt(a.x, o)
  <2>1. CASE \E j \in DOMAIN c.x.sent : c.x.sent[j].offset = o
    <3>1. a = cancelRequest(c, i)
      BY <2>1
    <3>2. i \in DOMAIN c.x.sent /\ c.x.sent[i].offset = o
      BY <2>1
    <3> HIDE DEF i
    <3>3. CancelGives(t, c, i, F, R, n)
      BY <3>2, CancelOk
    <3> HIDE DEF a
    <3>4. CtxOk(t, a, {}, F, R, n)
      <4>1. \E P : CtxOk(t, a, P, F, R, n)
        BY <3>1, <3>3 DEF CancelGives
      <4> QED
        BY <4>1, WeakenOk
    <3>5. ASSUME t \notin TokenErrors, SentAt(a.x, o) PROVE FALSE
      <4>1. PICK j \in DOMAIN RemoveAt(c.x.sent, i) :
              RemoveAt(c.x.sent, i)[j].offset = o
        BY <3>1, <3>3, <3>5 DEF SentAt, WithoutRequest, CancelGives
      <4>2. c.x.sent \in Seq(SentSet) /\ i \in 1 .. Len(c.x.sent)
        BY <1>0, <3>2, TaskFact
      <4>3. PICK k \in DOMAIN c.x.sent : k # i /\ RemoveAt(c.x.sent, i)[j] = c.x.sent[k]
        BY <4>1, <4>2, RemoveElements
      <4> QED
        BY <1>0, <3>2, <3>5, <4>1, <4>3 DEF Strict
    <3> QED
      BY <3>1, <3>3, <3>4, <3>5 DEF CancelGives
  <2>2. CASE ~\E j \in DOMAIN c.x.sent : c.x.sent[j].offset = o
    <3>1. a = c
      BY <2>2
    <3> QED
      BY <2>2, <3>1 DEF SameSessions, SameElsewhere, SentAt
  <2> QED
    BY <2>1, <2>2
<1>2. CancelOffset(c, o) = [a EXCEPT !.x.unchecked = {u \in @ : u.offset # o}]
  BY DEF CancelOffset
<1> HIDE DEF a
<1>3. a \in CtxSet /\ a.x \in TaskSet
  BY <1>1, CtxOkFact
<1>4. CancelOffset(c, o) = e
  BY <1>2, <1>3 DEF CtxSet, TaskSet
<1>5. A = {u \in a.x.unchecked : u.offset \notin G}
  BY DEF AsideAt
<1>6. G \in SUBSET Offsets /\ \A p \in G : p = o /\ AsideAt(a.x, p)
  OBVIOUS
<1> HIDE DEF G
<1>7. t \notin TokenErrors =>
        \A j \in DOMAIN a.x.sent :
          isHashes(a.x.sent[j]) => a.x.sent[j].offset \notin G
  BY <1>1, <1>6 DEF SentAt
<1>8. /\ SameSessions(a, e) /\ CtxOk(t, e, G, F, R, n)
      /\ AwaitedOk(t, a.x) => AwaitedOk(t, e.x)
  <2> DEFINE y == [a.x EXCEPT !.unchecked = A]
  <2>1. A \in SUBSET AsideSet
    BY <1>3, TaskFact
  <2>2. Taken(a.x, y, G)
    <3> HIDE DEF A
    <3> QED
      BY <1>3, <1>5, <2>1, AsideFact DEF Taken
  <2> HIDE DEF y, A
  <2>3. /\ SameSessions(a, WithTask(a, y)) /\ CtxOk(t, WithTask(a, y), G, F, R, n)
        /\ AwaitedOk(t, a.x) => AwaitedOk(t, y)
    BY <1>1, <1>6, <1>7, <2>2, TakeOk
  <2>4. e = WithTask(a, y) /\ WithTask(a, y).x = y
    BY <1>3 DEF WithTask, CtxSet, y
  <2> HIDE DEF e
  <2> QED
    BY <2>3, <2>4
<1> HIDE DEF e
<1>9. CtxOk(t, e, {}, F, R, n)
  BY <1>8, WeakenOk
<1> QED
  BY <1>1, <1>4, <1>8, <1>9 DEF SameSessions, SameElsewhere

(* feedChecked: the parts put aside that have a hash by now. *)
LEMMA FeedCheckedOk ==
    ASSUME NEW F, NEW R, NEW n, RestOk(F, R, n), NEW t \in Tasks, NEW c,
           CtxOk(t, c, {}, F, R, n), ~c.x.done,
           t \notin Streams \/ t \notin TokenErrors => ~hashesRequested(c.x),
           NEW o, NEW e \in feedChecked(t, c, o)
    PROVE  /\ SameSessions(c, e) /\ CtxOk(t, e, {}, F, R, n)
           /\ e.x.done => ~haveSentRequests(e.x)
<1> DEFINE good == {u \in c.x.unchecked : u.offset < o /\ u.offset \in c.x.hashes}
           G == {u.offset : u \in good}
           last == \E u \in good : u.offset >= Parts[t]
           A == c.x.unchecked \ good
           z == [c.x EXCEPT !.unchecked = A]
           f == [p \in Offsets |->
                   IF t \notin Streams /\ \E u \in good : u.offset = p
                     THEN c.x.fed[p] + 1 ELSE c.x.fed[p]]
           x == [c.x EXCEPT !.unchecked = A, !.fed = f]
           shorts == IF ~last THEN {FALSE}
                       ELSE IF \E u \in good : u.offset > Parts[t] THEN {TRUE}
                       ELSE BOOLEAN
           y(short) == [x EXCEPT !.last = @ \/ short]
           v(short) == [y(short) EXCEPT !.finished = Finishes(t, y(short)),
                                        !.done = Finishes(t, y(short))]
<1>1. /\ Good(c, F, R, n) /\ c \in CtxSet /\ c.x \in TaskSet
      /\ TaskBase(t, c.x, {}) /\ (t \notin TokenErrors => Strict(t, c.x, {}))
  BY CtxOkFact
<1>2. PICK short \in shorts :
        e = [c EXCEPT !.x = IF t \in Streams \/ good = {} THEN x ELSE v(short)]
  <2> DEFINE g(short) ==
               [c EXCEPT !.x = IF t \in Streams \/ good = {} THEN x ELSE v(short)]
  <2>1. feedChecked(t, c, o) = {g(short) : short \in shorts}
    BY Zenon DEF feedChecked
  <2> HIDE DEF g, shorts
  <2>2. \E short \in shorts : e = g(short)
    BY <2>1
  <2> QED
    BY <2>2, Zenon DEF g
<1>3. c.x.unchecked \subseteq AsideSet /\ c.x.fed \in [Offsets -> Nat]
  BY <1>1, TaskFact
<1>4. \A u \in AsideSet : u.offset \in Offsets
  BY DEF AsideSet
<1>5. G \in SUBSET Offsets /\ \A p \in G : AsideAt(c.x, p)
  BY <1>3, <1>4 DEF AsideAt
<1>6. A = {u \in c.x.unchecked : u.offset \notin G}
  OBVIOUS
<1>7. Taken(c.x, z, G)
  <2>1. A \in SUBSET AsideSet
    BY <1>3
  <2> HIDE DEF A, G, good
  <2> QED
    BY <1>1, <1>6, <2>1, AsideFact DEF Taken
<1>8. A \in SUBSET AsideSet /\ (good = {} <=> G = {})
  BY <1>3
<1>9. \A p \in Offsets : f[p] = IF t \notin Streams /\ p \in G
                                  THEN c.x.fed[p] + 1 ELSE c.x.fed[p]
  OBVIOUS
<1>10. f \in [Offsets -> Nat]
  BY <1>3
<1> HIDE DEF f, A
<1> DEFINE a == WithTask(c, z)
<1>11. SameSessions(c, a) /\ CtxOk(t, a, G, F, R, n)
  <2>1. t \notin Streams \/ t \notin TokenErrors =>
          \A i \in DOMAIN c.x.sent :
            isHashes(c.x.sent[i]) => c.x.sent[i].offset \notin G
    BY DEF hashesRequested
  <2> HIDE DEF G, z
  <2> QED
    BY <1>5, <1>7, <2>1, TakeOk
<1>12. a = [c EXCEPT !.x = z] /\ a.x = z
  BY <1>1 DEF WithTask, CtxSet
<1>13. CASE t \in Streams \/ good = {}
  <2>1. f = c.x.fed
    BY <1>3, <1>8, <1>9, <1>10, <1>13
  <2>2. x = z
    BY <1>1, <2>1 DEF TaskSet
  <2>3. e = a
    BY <1>2, <1>12, <1>13, <2>2
  <2>4. z.done = c.x.done
    BY <1>7 DEF Taken, OnlyAside
  <2>5. CtxOk(t, a, {}, F, R, n)
    <3> HIDE DEF a, G
    <3> QED
      BY <1>8, <1>11, <1>13, WeakenOk
  <2> QED
    BY <1>11, <1>12, <2>3, <2>4, <2>5
<1>14. CASE t \notin Streams /\ good # {}
  <2> DEFINE w == v(short)
  <2>1. e = [a EXCEPT !.x = w]
    <3> HIDE DEF v, z
    <3> QED
      BY <1>1, <1>2, <1>12, <1>14 DEF CtxSet
  <2>2. Parts[t] \in Nat /\ G \subseteq Nat
    BY <1>5, DownloadAssumption DEF Offsets
  <2>3. short \in BOOLEAN /\ Short(t, G, short)
    <3> DEFINE lt == \E u \in G : u > Parts[t]
    <3>1. last <=> \E u \in G : u >= Parts[t]
      OBVIOUS
    <3>2. (\E u \in good : u.offset > Parts[t]) <=> lt
      OBVIOUS
    <3>3. lt => \E u \in G : u >= Parts[t]
      <4> HIDE DEF G
      <4> QED
        BY <2>2
    <3>4. shorts = IF ~last THEN {FALSE} ELSE IF lt THEN {TRUE} ELSE BOOLEAN
      BY <3>2
    <3>5. Short(t, G, short) <=> /\ lt => short
                                 /\ short => \E u \in G : u >= Parts[t]
      BY DEF Short
    <3>6. short \in shorts
      BY <1>2
    <3> HIDE DEF lt, last, shorts, good, G
    <3>7. CASE ~last
      <4>1. short = FALSE
        BY <3>4, <3>6, <3>7
      <4> QED
        BY <3>1, <3>3, <3>5, <3>7, <4>1
    <3>8. CASE last /\ lt
      <4>1. short = TRUE
        BY <3>4, <3>6, <3>8
      <4> QED
        BY <3>1, <3>5, <3>8, <4>1
    <3>9. CASE last /\ ~lt
      <4>1. short \in BOOLEAN
        BY <3>4, <3>6, <3>9
      <4> QED
        BY <3>1, <3>5, <3>9, <4>1
    <3> QED
      BY <3>7, <3>8, <3>9
  <2>4. Fed(t, z, w, G, short)
    <3> DEFINE l == x.last \/ short
               b == [x EXCEPT !.last = l]
               h == Finishes(t, b)
    <3>1. /\ z \in TaskSet /\ z.sent = c.x.sent /\ z.unchecked = A
          /\ z.next = c.x.next /\ z.wanted = c.x.wanted /\ z.cdn = c.x.cdn
          /\ z.failed = c.x.failed /\ z.hashPosted = c.x.hashPosted
          /\ z.fed = c.x.fed /\ z.last = c.x.last /\ z.known = c.x.known
      BY <1>1, <1>8 DEF TaskSet
    <3>2. /\ x \in TaskSet /\ x.sent = c.x.sent /\ x.unchecked = A
          /\ x.next = c.x.next /\ x.wanted = c.x.wanted /\ x.cdn = c.x.cdn
          /\ x.failed = c.x.failed /\ x.hashPosted = c.x.hashPosted
          /\ x.fed = f /\ x.last = c.x.last /\ x.known = c.x.known
      BY <1>1, <1>8, <1>10 DEF TaskSet
    <3> HIDE DEF x, z
    <3>3. l \in BOOLEAN
      BY <2>3, <3>2 DEF TaskSet
    <3> HIDE DEF l
    <3>4. /\ b \in TaskSet /\ b.sent = x.sent /\ b.unchecked = x.unchecked
          /\ b.next = x.next /\ b.wanted = x.wanted /\ b.cdn = x.cdn
          /\ b.failed = x.failed /\ b.hashPosted = x.hashPosted
          /\ b.fed = x.fed /\ b.last = l /\ b.known = x.known
      BY <3>2, <3>3 DEF TaskSet
    <3>5. w = [b EXCEPT !.finished = h, !.done = h]
      BY DEF l
    <3>6. h \in BOOLEAN
      BY DEF Finishes
    <3> HIDE DEF b, h, w
    <3>7. /\ w \in TaskSet /\ w.sent = b.sent /\ w.unchecked = b.unchecked
          /\ w.next = b.next /\ w.wanted = b.wanted /\ w.cdn = b.cdn
          /\ w.failed = b.failed /\ w.hashPosted = b.hashPosted
          /\ w.fed = b.fed /\ w.last = b.last /\ w.known = b.known
          /\ w.finished = h /\ w.done = h
      BY <3>4, <3>5, <3>6 DEF TaskSet
    <3>8. h = Finishes(t, w)
      BY <3>7 DEF h, Finishes, haveSentRequests
    <3>9. \A p \in Offsets : w.fed[p] = IF p \in G THEN z.fed[p] + 1 ELSE z.fed[p]
      BY <1>9, <1>14, <3>1, <3>2, <3>4, <3>7
    <3>10. w.last = (z.last \/ short)
      BY <3>1, <3>2, <3>4, <3>7 DEF l
    <3> HIDE DEF G
    <3> QED
      BY <3>1, <3>2, <3>4, <3>7, <3>8, <3>9, <3>10 DEF Fed
  <2>5. G # {}
    BY <1>14
  <2> HIDE DEF w, a, G, z
  <2>6. LET b == [a EXCEPT !.x = w]
        IN  /\ SameSessions(a, b) /\ CtxOk(t, b, {}, F, R, n) /\ b.d = a.d
            /\ b.x = w
            /\ AwaitedOk(t, a.x) => AwaitedOk(t, w)
            /\ haveSentRequests(w) <=> haveSentRequests(a.x)
            /\ w.done => ~haveSentRequests(w)
    <3>1. Fed(t, a.x, w, G, short)
      BY <1>12, <2>4
    <3> QED
      BY <1>11, <1>14, <2>3, <2>5, <3>1, FedOk
  <2> QED
    BY <1>11, <2>1, <2>6 DEF SameSessions, SameElsewhere
<1> QED
  BY <1>13, <1>14

(* A task with the same requests and parts put aside. *)
SameRequests(x, y) ==
    y \in TaskSet /\ y.sent = x.sent /\ y.unchecked = x.unchecked

LEMMA WithOk ==
    ASSUME NEW F, NEW R, NEW n, RestOk(F, R, n), NEW t, NEW c, NEW Q,
           CtxOk(t, c, Q, F, R, n), NEW P, NEW y, SameRequests(c.x, y), Pend(t, y, P)
    PROVE  SameSessions(c, WithTask(c, y)) /\ CtxOk(t, WithTask(c, y), P, F, R, n)
<1> DEFINE e == [c EXCEPT !.x = y]
<1>1. Good(c, F, R, n)
  BY CtxOkFact
<1>2. Good(e, F, R, n) /\ SameSessions(c, e) /\ e.x = y
  <2>1. /\ y \in TaskSet /\ Len(y.sent) = Len(c.x.sent)
        /\ \A i \in DOMAIN c.x.sent : y.sent[i].session = c.x.sent[i].session
    BY DEF SameRequests
  <2>2. \A u \in y.unchecked : u.session \in 1 .. Len(c.mgr.balance[c.d].sessions)
    BY <1>1 DEF SameRequests, Good, Sits
  <2> QED
    BY <1>1, <2>1, <2>2, TaskGood
<1> HIDE DEF e
<1> QED
  BY <1>2 DEF CtxOk, WithTask, e

(* takeNextRequestOffset of a file ... *)
LEMMA NextFact ==
    ASSUME NEW x \in TaskSet, NEW m \in Nat
    PROVE  LET y == [x EXCEPT !.next = m]
           IN  /\ y \in TaskSet /\ y.sent = x.sent /\ y.unchecked = x.unchecked
               /\ y.next = m /\ y.wanted = x.wanted /\ y.finished = x.finished
               /\ y.last = x.last /\ y.fed = x.fed /\ y.done = x.done
               /\ y.cdn = x.cdn /\ y.failed = x.failed
               /\ y.hashPosted = x.hashPosted
  BY DEF TaskSet

LEMMA NextFile ==
    ASSUME NEW t \in Tasks \ Streams, NEW x, Pend(t, x, {}), AwaitedOk(t, x),
           ~x.finished, ~x.last, x.known \/ ~haveSentRequests(x),
           x.known => x.next <= Parts[t], NEW y, y = [x EXCEPT !.next = x.next + 1]
    PROVE  /\ x.next \in Offsets /\ Pend(t, y, {x.next}) /\ AwaitedOk(t, y)
           /\ SameRequests(x, y)
<1>1. /\ x \in TaskSet /\ FileOk(t, x, {})
      /\ t \notin TokenErrors => Strict(t, x, {})
  BY DEF Pend, TaskBase
<1>2. /\ Parts[t] \in Nat /\ Parts[t] >= 1 /\ Parts[t] + 1 \in Offsets
      /\ x.next \in Nat /\ x.next >= 1 /\ x.next <= Parts[t] + 2
      /\ Offsets \subseteq Nat /\ MaxParts \in Nat /\ Parts[t] <= MaxParts
  BY <1>1, TaskFact, DownloadAssumption DEF FileOk, Offsets
<1>3. x.next <= Parts[t] + 1
  <2>1. CASE x.known
    BY <1>2, <2>1
  <2>2. CASE ~x.known
    <3>1. SUFFICES ASSUME x.next = Parts[t] + 2 PROVE FALSE
      BY <1>2
    <3>2. ~SentAt(x, Parts[t] + 1) /\ ~AsideAt(x, Parts[t] + 1)
      BY <2>2 DEF haveSentRequests, SentAt, AsideAt
    <3>3. Parts[t] + 1 < x.next /\ Parts[t] + 1 > Parts[t]
      BY <1>2, <3>1
    <3>4. x.fed[Parts[t] + 1] >= 1
      BY <1>1, <1>2, <3>2, <3>3 DEF FileOk
    <3> QED
      BY <1>1, <1>2, <3>3, <3>4 DEF FileOk
  <2> QED
    BY <2>1, <2>2
<1>4. x.next \in Offsets
  BY <1>2, <1>3 DEF Offsets
<1>5. /\ y \in TaskSet /\ y.sent = x.sent /\ y.unchecked = x.unchecked
      /\ y.next = x.next + 1 /\ y.wanted = x.wanted /\ y.finished = x.finished
      /\ y.last = x.last /\ y.fed = x.fed /\ y.done = x.done /\ y.cdn = x.cdn
      /\ y.failed = x.failed /\ y.hashPosted = x.hashPosted
  <2>1. x.next + 1 \in Nat
    BY <1>2
  <2> QED
    BY <1>1, <2>1, NextFact
<1>6. SameRequests(x, y)
  BY <1>5 DEF SameRequests
<1>7. \A o : (SentAt(y, o) <=> SentAt(x, o)) /\ (AsideAt(y, o) <=> AsideAt(x, o))
  BY <1>5 DEF SentAt, AsideAt
<1>8. FileOk(t, y, {x.next})
  <2>1. y.wanted = {} /\ y.next \in 1 .. Parts[t] + 2
    BY <1>1, <1>2, <1>3, <1>5 DEF FileOk
  <2>2. ASSUME NEW o \in Offsets,
               SentAt(y, o) \/ AsideAt(y, o) \/ o \in {x.next}
        PROVE  o < y.next
    <3>1. o <= x.next
      BY <1>1, <1>2, <1>7, <2>2 DEF FileOk
    <3> QED
      BY <1>2, <1>5, <3>1
  <2>3. ASSUME NEW o \in Offsets, o < y.next
        PROVE  y.fed[o] >= 1 \/ SentAt(y, o) \/ AsideAt(y, o) \/ o \in {x.next}
    <3>1. o < x.next \/ o = x.next
      BY <1>2, <1>5, <2>3
    <3> QED
      BY <1>1, <1>5, <1>7, <3>1 DEF FileOk
  <2>4. ~y.finished /\ ~y.last /\ ~y.done
    BY <1>1, <1>5 DEF FileOk
  <2>5. \A o \in Offsets : y.fed[o] >= 1 /\ o > Parts[t] => y.last
    BY <1>1, <1>5 DEF FileOk
  <2>6. /\ \A i \in DOMAIN y.sent :
             isHashes(y.sent[i]) => AsideAt(y, y.sent[i].offset)
        /\ \A i, j \in DOMAIN y.sent :
             isHashes(y.sent[i]) /\ isHashes(y.sent[j]) => i = j
    BY <1>1, <1>5, <1>7 DEF FileOk
  <2> QED
    BY <2>1, <2>2, <2>3, <2>4, <2>5, <2>6 DEF FileOk
<1>9. ASSUME t \notin TokenErrors PROVE Strict(t, y, {x.next})
  <2>1. Strict(t, x, {})
    BY <1>1, <1>9
  <2>2. ~SentAt(x, x.next) /\ ~AsideAt(x, x.next)
    BY <1>1, <1>2, <1>4 DEF FileOk
  <2>3. y.wanted = {}
    BY <1>1, <1>5 DEF FileOk
  <2>4. ASSUME NEW o \in Offsets
        PROVE  /\ y.fed[o] <= 1
               /\ SentAt(y, o) \/ AsideAt(y, o) \/ o \in {x.next} \/ o >= y.next
                    => y.fed[o] = 0
    <3>1. o \in {x.next} \/ o >= y.next => o >= x.next
      BY <1>2, <1>5
    <3> QED
      BY <1>5, <1>7, <2>1, <3>1 DEF Strict
  <2>5. /\ \A i, j \in DOMAIN y.sent : y.sent[i].offset = y.sent[j].offset => i = j
        /\ \A i, j \in DOMAIN y.sent :
             isHashes(y.sent[i]) /\ isHashes(y.sent[j]) => i = j
        /\ \A i \in DOMAIN y.sent :
             isHashes(y.sent[i]) <=> AsideAt(y, y.sent[i].offset)
        /\ (~y.cdn => y.unchecked = {}) /\ (y.cdn => t \in OnCdn)
        /\ \A i \in DOMAIN y.sent : y.sent[i].kind = "cdn" => y.cdn
    BY <1>5, <1>7, <2>1 DEF Strict
  <2>6. \A o \in {x.next} : ~SentAt(y, o) /\ ~AsideAt(y, o)
    BY <1>7, <2>2
  <2> QED
    BY <2>3, <2>4, <2>5, <2>6 DEF Strict
<1>10. AwaitedOk(t, y)
  BY <1>5 DEF AwaitedOk, Awaited, hashesRequested
<1> QED
  BY <1>4, <1>5, <1>6, <1>8, <1>9, <1>10 DEF Pend, TaskBase

(* ... and of a stream; what a stream wants. *)
LEMMA WantedFact ==
    ASSUME NEW x \in TaskSet, NEW W \in SUBSET Offsets
    PROVE  LET y == [x EXCEPT !.wanted = W]
           IN  /\ y \in TaskSet /\ y.sent = x.sent /\ y.unchecked = x.unchecked
               /\ y.wanted = W /\ y.cdn = x.cdn /\ y.done = x.done
               /\ y.failed = x.failed /\ y.hashPosted = x.hashPosted
  BY DEF TaskSet

LEMMA WantedOk ==
    ASSUME NEW t \in Streams, NEW x, Pend(t, x, {}), AwaitedOk(t, x),
           NEW W \in SUBSET Offsets, NEW P \in SUBSET Offsets,
           \A o \in W \cup P : o \in x.wanted \/ ~haveSentRequestForOffset(x, o),
           \A o \in P : o \notin W, NEW y, y = [x EXCEPT !.wanted = W]
    PROVE  Pend(t, y, P) /\ AwaitedOk(t, y) /\ SameRequests(x, y)
<1>1. x \in TaskSet /\ ~x.done /\ (t \notin TokenErrors => Strict(t, x, {}))
  BY DEF Pend, TaskBase
<1>2. /\ y \in TaskSet /\ y.sent = x.sent /\ y.unchecked = x.unchecked
      /\ y.wanted = W /\ y.cdn = x.cdn /\ y.done = x.done
      /\ y.failed = x.failed /\ y.hashPosted = x.hashPosted
  BY <1>1, WantedFact
<1>3. ASSUME t \notin TokenErrors PROVE Strict(t, y, P)
  <2>1. Strict(t, x, {})
    BY <1>1, <1>3
  <2>2. \A o \in W \cup P : ~SentAt(x, o) /\ ~AsideAt(x, o)
    BY <2>1 DEF Strict, haveSentRequestForOffset, SentAt, AsideAt
  <2> QED
    BY <1>2, <2>1, <2>2 DEF Strict, SentAt, AsideAt
<1> QED
  BY <1>1, <1>2, <1>3
     DEF Pend, TaskBase, AwaitedOk, Awaited, hashesRequested, SameRequests

(* startLoadingWithPartial. *)
LEMMA FedFact ==
    ASSUME NEW x \in TaskSet, NEW g \in [Offsets -> Nat]
    PROVE  LET y == [x EXCEPT !.fed = g]
           IN  /\ y \in TaskSet /\ y.sent = x.sent /\ y.unchecked = x.unchecked
               /\ y.next = x.next /\ y.wanted = x.wanted
               /\ y.finished = x.finished /\ y.last = x.last /\ y.fed = g
               /\ y.done = x.done /\ y.cdn = x.cdn /\ y.failed = x.failed
               /\ y.hashPosted = x.hashPosted
  BY DEF TaskSet

Started(x, y, partial) ==
    /\ y \in TaskSet /\ y.sent = x.sent /\ y.unchecked = x.unchecked
    /\ y.next = partial + 1 /\ y.wanted = x.wanted /\ y.finished = x.finished
    /\ y.last = x.last /\ y.done = x.done /\ y.cdn = x.cdn
    /\ y.failed = x.failed /\ y.hashPosted = x.hashPosted
    /\ \A o \in Offsets : y.fed[o] = IF o <= partial THEN 1 ELSE 0

LEMMA StartedFact ==
    ASSUME NEW x \in TaskSet, NEW partial \in Nat, NEW g \in [Offsets -> Nat],
           \A o \in Offsets : g[o] = IF o <= partial THEN 1 ELSE 0,
           NEW v, v = [x EXCEPT !.next = partial + 1, !.fed = g]
    PROVE  Started(x, v, partial)
<1> DEFINE m == partial + 1
           z == [x EXCEPT !.next = m]
           y == [z EXCEPT !.fed = g]
<1>1. g \in [Offsets -> Nat] /\ \A o \in Offsets : g[o] = IF o <= partial THEN 1 ELSE 0
  OBVIOUS
<1>2. m \in Nat
  OBVIOUS
<1> HIDE DEF m
<1>3. /\ z \in TaskSet /\ z.sent = x.sent /\ z.unchecked = x.unchecked
      /\ z.next = m /\ z.wanted = x.wanted /\ z.finished = x.finished
      /\ z.last = x.last /\ z.fed = x.fed /\ z.done = x.done
      /\ z.cdn = x.cdn /\ z.failed = x.failed
      /\ z.hashPosted = x.hashPosted
  BY <1>2, NextFact
<1> HIDE DEF z
<1>4. /\ y \in TaskSet /\ y.sent = z.sent /\ y.unchecked = z.unchecked
      /\ y.next = z.next /\ y.wanted = z.wanted /\ y.finished = z.finished
      /\ y.last = z.last /\ y.fed = g /\ y.done = z.done /\ y.cdn = z.cdn
      /\ y.failed = z.failed /\ y.hashPosted = z.hashPosted
  BY <1>1, <1>3, FedFact
<1> HIDE DEF y
<1>5. Started(x, y, partial)
  BY <1>1, <1>3, <1>4 DEF Started, m
<1> QED
  BY <1>5 DEF y, z, m

LEMMA PartialOk ==
    ASSUME NEW t \in Tasks \ Streams, NEW x, Pend(t, x, {}), AwaitedOk(t, x),
           ~x.finished, x.next = 1, NEW partial \in 1 .. Parts[t] - 1,
           NEW y, Started(x, y, partial)
    PROVE  Pend(t, y, {}) /\ AwaitedOk(t, y) /\ SameRequests(x, y)
<1>1. /\ x \in TaskSet /\ FileOk(t, x, {})
      /\ t \notin TokenErrors => Strict(t, x, {})
  BY DEF Pend, TaskBase
<1>2. /\ Parts[t] \in Nat /\ Parts[t] >= 1 /\ Offsets \subseteq Nat
      /\ \A o \in Offsets : o >= 1
      /\ partial \in Nat /\ partial + 1 \in Nat /\ partial < Parts[t]
  BY DownloadAssumption DEF Offsets
<1>4. /\ y \in TaskSet /\ y.sent = x.sent /\ y.unchecked = x.unchecked
      /\ y.next = partial + 1 /\ y.wanted = x.wanted /\ y.finished = x.finished
      /\ y.last = x.last /\ y.done = x.done /\ y.cdn = x.cdn
      /\ y.failed = x.failed /\ y.hashPosted = x.hashPosted
  BY DEF Started
<1>3. \A o \in Offsets : y.fed[o] = IF o <= partial THEN 1 ELSE 0
  BY DEF Started
<1>5. \A o \in Offsets : ~SentAt(x, o) /\ ~AsideAt(x, o)
  BY <1>1, <1>2 DEF FileOk
<1>6. /\ x.sent \in Seq(SentSet) /\ x.unchecked \subseteq AsideSet
      /\ DOMAIN x.sent = 1 .. Len(x.sent)
      /\ \A i \in DOMAIN x.sent : x.sent[i] \in SentSet
  BY <1>1, TaskFact
<1>7. DOMAIN x.sent = {} /\ x.unchecked = {}
  BY <1>5, <1>6 DEF SentAt, AsideAt, SentSet, AsideSet
<1>8. ~x.last
  BY <1>1, <1>2 DEF FileOk
<1>9. \A o : ~SentAt(y, o) /\ ~AsideAt(y, o)
  BY <1>4, <1>7 DEF SentAt, AsideAt
<1>10. FileOk(t, y, {})
  <2>1. y.wanted = {} /\ y.next \in 1 .. Parts[t] + 2
    BY <1>1, <1>2, <1>4 DEF FileOk
  <2>2. ~haveSentRequests(y)
    <3>1. y.sent = <<>>
      BY <1>4, <1>6, <1>7
    <3> QED
      BY <1>4, <1>7, <3>1 DEF haveSentRequests
  <2>3. ~y.finished /\ ~y.last /\ ~y.done
    BY <1>1, <1>4, <1>8 DEF FileOk
  <2>4. \A o \in Offsets : /\ o < y.next => y.fed[o] >= 1
                           /\ y.fed[o] >= 1 => ~(o > Parts[t])
    BY <1>2, <1>3, <1>4
  <2>5. DOMAIN y.sent = {}
    BY <1>4, <1>7
  <2> QED
    BY <1>9, <2>1, <2>2, <2>3, <2>4, <2>5 DEF FileOk
<1>11. Strict(t, y, {})
  <2>1. \A o \in Offsets : y.fed[o] <= 1 /\ (o >= y.next => y.fed[o] = 0)
    BY <1>2, <1>3, <1>4
  <2>2. DOMAIN y.sent = {} /\ y.unchecked = {} /\ y.wanted = {}
    BY <1>1, <1>4, <1>7 DEF FileOk
  <2>3. y.cdn => t \in OnCdn
    BY <1>1, <1>4, DownloadAssumption DEF Strict
  <2> QED
    BY <1>9, <2>1, <2>2, <2>3 DEF Strict
<1> QED
  BY <1>4, <1>7, <1>10, <1>11
     DEF Pend, TaskBase, AwaitedOk, Awaited, SameRequests

(* removeSession gives the parts put aside another session. *)
Moved(x, y, n) ==
    /\ OnlyAside(x, y)
    /\ \A o : AsideAt(y, o) <=> AsideAt(x, o)
    /\ \A u \in y.unchecked : u.session \in 1 .. n

LEMMA MovedFact ==
    ASSUME NEW x \in TaskSet, NEW n \in Nat, NEW s \in 1 .. n, Sits(x, n),
           NEW aside \in SUBSET x.unchecked
    PROVE  Moved(x, [x EXCEPT !.unchecked =
                       (x.unchecked \ aside) \cup
                         {[u EXCEPT !.session = s] : u \in aside}], n)
<1> DEFINE f(u) == [u EXCEPT !.session = s]
           A == (x.unchecked \ aside) \cup {f(u) : u \in aside}
           y == [x EXCEPT !.unchecked = A]
<1>2. x.unchecked \subseteq AsideSet /\ s \in Nat
  BY TaskFact
<1>3. \A u \in AsideSet : f(u) \in AsideSet /\ f(u).offset = u.offset /\ f(u).session = s
  BY <1>2 DEF AsideSet
<1> HIDE DEF f
<1>4. A \in SUBSET AsideSet
  BY <1>2, <1>3
<1>5. \A o : (\E u \in A : u.offset = o) <=> AsideAt(x, o)
  <2> TAKE o
  <2>1. ASSUME NEW u \in A, u.offset = o PROVE AsideAt(x, o)
    <3>1. CASE u \in x.unchecked
      BY <2>1, <3>1 DEF AsideAt
    <3>2. CASE u \in {f(w) : w \in aside}
      <4>1. PICK w \in aside : u = f(w)
        BY <3>2
      <4>2. w \in x.unchecked /\ w.offset = o
        BY <1>2, <1>3, <2>1, <4>1
      <4> QED
        BY <4>2 DEF AsideAt
    <3> QED
      BY <3>1, <3>2
  <2>2. ASSUME NEW u \in x.unchecked, u.offset = o PROVE \E w \in A : w.offset = o
    <3>1. CASE u \in aside
      <4>1. f(u) \in A /\ f(u).offset = o
        BY <1>2, <1>3, <2>2, <3>1
      <4> QED
        BY <4>1
    <3>2. CASE u \notin aside
      BY <2>2, <3>2
    <3> QED
      BY <3>1, <3>2
  <2> QED
    BY <2>1, <2>2 DEF AsideAt
<1>6. \A u \in A : u.session \in 1 .. n
  BY <1>2, <1>3 DEF Sits
<1> HIDE DEF A
<1>7. OnlyAside(x, y) /\ y.unchecked = A
  BY <1>4, AsideFact
<1> HIDE DEF y
<1>8. Moved(x, y, n)
  BY <1>5, <1>6, <1>7 DEF Moved, AsideAt
<1> QED
  BY <1>8 DEF y, A, f

LEMMA MoveAsideOk ==
    ASSUME NEW F, NEW R, NEW n, RestOk(F, R, n), NEW t, NEW c,
           CtxOk(t, c, {}, F, R, n), NEW y,
           Moved(c.x, y, Len(c.mgr.balance[c.d].sessions))
    PROVE  /\ SameSessions(c, WithTask(c, y)) /\ CtxOk(t, WithTask(c, y), {}, F, R, n)
           /\ AwaitedOk(t, c.x) => AwaitedOk(t, y)
           /\ haveSentRequests(y) => haveSentRequests(c.x)
<1> DEFINE e == [c EXCEPT !.x = y]
<1>1. /\ Good(c, F, R, n) /\ c \in CtxSet /\ c.x \in TaskSet
      /\ TaskBase(t, c.x, {}) /\ (t \notin TokenErrors => Strict(t, c.x, {}))
  BY CtxOkFact
<1>7. OnlyAside(c.x, y) /\ \A o : AsideAt(y, o) <=> AsideAt(c.x, o)
  BY DEF Moved
<1>8. Good(e, F, R, n) /\ SameSessions(c, e) /\ e.x = y
  <2>1. /\ y \in TaskSet /\ Len(y.sent) = Len(c.x.sent)
        /\ \A i \in DOMAIN c.x.sent : y.sent[i].session = c.x.sent[i].session
    BY <1>7 DEF OnlyAside
  <2>2. \A u \in y.unchecked : u.session \in 1 .. Len(c.mgr.balance[c.d].sessions)
    BY DEF Moved
  <2> QED
    BY <1>1, <2>1, <2>2, TaskGood
<1> HIDE DEF e
<1>9. SameShape(c.x, y)
  BY <1>7 DEF SameShape, OnlyAside
<1>10. TaskBase(t, y, {})
  BY <1>1, <1>7, <1>9, ShapeBase DEF OnlyAside
<1>11. ASSUME t \notin TokenErrors PROVE Strict(t, y, {})
  <2>1. /\ y.cdn = c.x.cdn
        /\ \A i \in DOMAIN c.x.sent : isHashes(c.x.sent[i]) => isHashes(y.sent[i])
        /\ \A i \in DOMAIN y.sent : y.sent[i].kind = "cdn" => y.cdn
    BY <1>1, <1>7, <1>11 DEF OnlyAside, Strict
  <2> QED
    BY <1>1, <1>9, <1>11, <2>1, ShapeStrict
<1>12. y.unchecked = {} <=> c.x.unchecked = {}
  BY <1>7 DEF AsideAt
<1>13. AwaitedOk(t, c.x) => AwaitedOk(t, y)
  BY <1>7, <1>12 DEF AwaitedOk, Awaited, OnlyAside, hashesRequested
<1>14. haveSentRequests(y) => haveSentRequests(c.x)
  BY <1>7, <1>12 DEF OnlyAside, haveSentRequests
<1> QED
  BY <1>8, <1>10, <1>11, <1>13, <1>14 DEF CtxOk, Pend, e, WithTask

(* cancelAllRequests, when the task is stopped or gone. *)
Emptied(t, x, y) ==
    /\ SameRequests(x, y) /\ y.wanted = {} /\ y.fed = x.fed /\ y.last = x.last
    /\ y.next = x.next /\ y.done = x.done /\ y.cdn = x.cdn
    /\ (t \notin Streams => y.finished)

LEMMA ClearOk ==
    ASSUME NEW F, NEW R, NEW n, RestOk(F, R, n), NEW t, NEW c,
           CtxOk(t, c, {}, F, R, n), NEW y, Emptied(t, cancelAllRequests(c).x, y)
    PROVE  LET e == WithTask(cancelAllRequests(c), y)
           IN  /\ SameSessions(c, e) /\ CtxOk(t, e, {}, F, R, n)
               /\ AwaitedOk(t, y) /\ ~haveSentRequests(y)
<1> DEFINE a == cancelAllRequests(c)
           e == [a EXCEPT !.x = y]
<1>1. /\ Good(c, F, R, n) /\ c \in CtxSet /\ c.x \in TaskSet
      /\ TaskBase(t, c.x, {}) /\ (t \notin TokenErrors => Strict(t, c.x, {}))
  BY CtxOkFact
<1>2. Good(a, F, R, n) /\ SameSessions(c, a) /\ Cleared(c.x, a.x)
  BY <1>1, CancelAllGood
<1>3. Emptied(t, a.x, y)
  OBVIOUS
<1> HIDE DEF a
<1>4. Good(e, F, R, n) /\ SameSessions(a, e) /\ e.x = y
  <2>1. /\ y \in TaskSet /\ Len(y.sent) = Len(a.x.sent)
        /\ \A i \in DOMAIN a.x.sent : y.sent[i].session = a.x.sent[i].session
    BY <1>3 DEF Emptied, SameRequests
  <2>2. \A u \in y.unchecked : u.session \in 1 .. Len(a.mgr.balance[a.d].sessions)
    BY <1>2, <1>3 DEF Emptied, SameRequests, Good, Sits
  <2> QED
    BY <1>2, <2>1, <2>2, TaskGood
<1> HIDE DEF e
<1>5. y.sent = <<>> /\ y.unchecked = {} /\ y \in TaskSet
  BY <1>2, <1>3 DEF Emptied, SameRequests, Cleared
<1>6. TaskBase(t, y, {}) /\ (Strict(t, c.x, {}) => Strict(t, y, {}))
  <2>1. /\ y.fed = c.x.fed /\ y.last = c.x.last /\ y.next = c.x.next
        /\ y.wanted \subseteq c.x.wanted /\ y.done = c.x.done /\ y.cdn = c.x.cdn
        /\ t \notin Streams => y.finished
    BY <1>2, <1>3 DEF Emptied, Cleared
  <2> QED
    BY <1>1, <1>5, <2>1, ClearedOk
<1>7. AwaitedOk(t, y) /\ ~haveSentRequests(y)
  BY <1>5 DEF AwaitedOk, Awaited, haveSentRequests
<1>8. SameSessions(c, e)
  BY <1>2, <1>4 DEF SameSessions, SameElsewhere
<1> QED
  BY <1>1, <1>4, <1>6, <1>7, <1>8 DEF CtxOk, Pend, WithTask, e, a

(* partFailed: a stream keeps the request that failed. *)
LEMMA FailedOk ==
    ASSUME NEW F, NEW R, NEW n, RestOk(F, R, n), NEW t, NEW c,
           CtxOk(t, c, {}, F, R, n), NEW i \in DOMAIN c.x.sent
    PROVE  LET e == partFailed(t, c, i)
           IN  SameSessions(c, e) /\ CtxOk(t, e, {}, F, R, n) /\ AwaitedOk(t, e.x)
<1> DEFINE a == cancelOnFail(t, c)
           r == dead(a.x.sent[i])
           y == [a.x EXCEPT !.sent = [a.x.sent EXCEPT ![i] = r]]
<1>1. FailGives(t, c, F, R, n)
  BY FailOk
<1>2. partFailed(t, c, i) =
        IF t \in Streams THEN [a EXCEPT !.x.sent[i] = dead(@)] ELSE a
  BY DEF partFailed
<1>a. /\ SameSessions(c, a) /\ CtxOk(t, a, {}, F, R, n) /\ AwaitedOk(t, a.x)
      /\ t \in Streams => a.x.sent = c.x.sent
  BY <1>1 DEF FailGives
<1> HIDE DEF a
<1>3. a \in CtxSet /\ a.x \in TaskSet
  BY <1>a, CtxOkFact
<1>4. CASE t \notin Streams
  <2>1. partFailed(t, c, i) = a
    BY <1>2, <1>3, <1>4 DEF CtxSet, TaskSet
  <2> QED
    BY <1>a, <2>1
<1>5. CASE t \in Streams
  <2>1. partFailed(t, c, i) = [a EXCEPT !.x = y]
    BY <1>2, <1>3, <1>5 DEF CtxSet, TaskSet
  <2>2. i \in DOMAIN a.x.sent
    BY <1>a, <1>5
  <2>3. /\ a.x.sent \in Seq(SentSet) /\ DOMAIN a.x.sent = 1 .. Len(a.x.sent)
        /\ a.x.sent[i] \in SentSet
    BY <1>3, <2>2, TaskFact
  <2>4. /\ r \in SentSet /\ r.offset = a.x.sent[i].offset
        /\ r.session = a.x.sent[i].session
        /\ isHashes(r) <=> isHashes(a.x.sent[i])
        /\ r.kind # "cdn"
    <3> DEFINE q == a.x.sent[i]
    <3>1. q \in SentSet
      BY <2>3
    <3>2. r = [q EXCEPT !.kind = IF isHashes(q) THEN "deadHash" ELSE "dead"]
      BY DEF dead
    <3> HIDE DEF q, r
    <3> QED
      BY <3>1, <3>2 DEF SentSet, Kinds, isHashes, q
  <2> HIDE DEF r
  <2>5. /\ y \in TaskSet /\ OnlySent(a.x, y)
        /\ y.sent = [a.x.sent EXCEPT ![i] = r]
    <3> DEFINE q == [a.x.sent EXCEPT ![i] = r]
    <3>1. q \in Seq(SentSet)
      BY <2>2, <2>3, <2>4, ReplaceFact
    <3> HIDE DEF q
    <3> QED
      BY <1>3, <3>1, SentFact DEF q
  <2> HIDE DEF y
  <2>6. LET e == [a EXCEPT !.x = y]
        IN  /\ SameSessions(a, e) /\ CtxOk(t, e, {}, F, R, n) /\ e.d = a.d
            /\ e.x = y
            /\ AwaitedOk(t, a.x) => AwaitedOk(t, y)
            /\ haveSentRequests(y) <=> haveSentRequests(a.x)
    BY <1>a, <2>2, <2>4, <2>5, KindOk
  <2> QED
    BY <1>a, <2>1, <2>6 DEF SameSessions, SameElsewhere
<1> QED
  BY <1>4, <1>5

(* What was sent before a session was removed is old. *)
Aged(x, y) ==
    /\ y \in TaskSet /\ OnlySent(x, y) /\ Len(y.sent) = Len(x.sent)
    /\ \A i \in DOMAIN x.sent :
         /\ y.sent[i].offset = x.sent[i].offset
         /\ y.sent[i].session = x.sent[i].session
         /\ y.sent[i].kind = x.sent[i].kind

LEMMA AgedFact ==
    ASSUME NEW x \in TaskSet
    PROVE  Aged(x, [x EXCEPT !.sent =
                      [i \in DOMAIN x.sent |-> [x.sent[i] EXCEPT !.old = TRUE]]])
<1> DEFINE f(r) == [r EXCEPT !.old = TRUE]
           q == [i \in DOMAIN x.sent |-> f(x.sent[i])]
           y == [x EXCEPT !.sent = q]
<1>1. /\ x.sent \in Seq(SentSet) /\ DOMAIN x.sent = 1 .. Len(x.sent)
      /\ Len(x.sent) \in Nat
      /\ \A i \in 1 .. Len(x.sent) : x.sent[i] \in SentSet
  BY TaskFact
<1>2. \A r \in SentSet : /\ f(r) \in SentSet /\ f(r).offset = r.offset
                         /\ f(r).session = r.session /\ f(r).kind = r.kind
  BY DEF SentSet
<1> HIDE DEF f
<1>3. q \in Seq(SentSet) /\ Len(q) = Len(x.sent)
  BY <1>1, <1>2
<1>4. \A i \in DOMAIN x.sent :
        /\ q[i].offset = x.sent[i].offset
        /\ q[i].session = x.sent[i].session
        /\ q[i].kind = x.sent[i].kind
  BY <1>1, <1>2
<1> HIDE DEF q
<1>5. y \in TaskSet /\ y.sent = q /\ OnlySent(x, y)
  BY <1>3, SentFact
<1> HIDE DEF y
<1>6. Aged(x, y)
  BY <1>3, <1>4, <1>5 DEF Aged
<1> QED
  BY <1>6 DEF y, q, f

LEMMA AgedOk ==
    ASSUME NEW t, NEW x, TaskOk(t, x), NEW y, Aged(x, y)
    PROVE  TaskOk(t, y) /\ (haveSentRequests(y) <=> haveSentRequests(x))
<1>1. /\ x \in TaskSet /\ TaskBase(t, x, {})
      /\ t \notin TokenErrors => Strict(t, x, {}) /\ Awaited(x)
  BY DEF TaskOk, Pend, TaskBase, AwaitedOk
<1>2. DOMAIN y.sent = DOMAIN x.sent
  <2>1. /\ y.sent \in Seq(SentSet) /\ DOMAIN y.sent = 1 .. Len(y.sent)
        /\ DOMAIN x.sent = 1 .. Len(x.sent)
    BY <1>1, TaskFact DEF Aged
  <2> QED
    BY <2>1 DEF Aged
<1>3. SameShape(x, y)
  <2>1. \A o \in Offsets : AsideAt(y, o) <=> AsideAt(x, o)
    BY DEF Aged, OnlySent, AsideAt
  <2> QED
    BY <2>1 DEF SameShape, Aged, OnlySent, isHashes
<1>4. TaskBase(t, y, {})
  BY <1>1, <1>3, ShapeBase DEF Aged, OnlySent
<1>5. \A i \in DOMAIN x.sent : isHashes(x.sent[i]) <=> isHashes(y.sent[i])
  BY DEF Aged, isHashes
<1>6. ASSUME t \notin TokenErrors PROVE Strict(t, y, {})
  <2>1. /\ y.cdn = x.cdn
        /\ \A i \in DOMAIN y.sent : y.sent[i].kind = "cdn" => y.cdn
    BY <1>1, <1>2, <1>6 DEF Aged, OnlySent, Strict
  <2> QED
    BY <1>1, <1>3, <1>5, <1>6, <2>1, ShapeStrict
<1>7. hashesRequested(y) <=> hashesRequested(x)
  BY <1>2, <1>5 DEF hashesRequested
<1>8. AwaitedOk(t, y)
  BY <1>1, <1>7 DEF AwaitedOk, Awaited, Aged, OnlySent
<1>9. haveSentRequests(y) <=> haveSentRequests(x)
  BY <1>1, <1>3, ShapeAt
<1> QED
  BY <1>4, <1>6, <1>8, <1>9 DEF TaskOk, Pend

-----------------------------------------------------------------------------
(* The requests in flight of all the tasks of a data center. *)
FlyingAt(T, d, k) ==
    {p \in Tasks \X Nat : DcOf[p[1]] = d /\ p[2] \in In(T[p[1]].sent, k)}

FlyingIn(T, d) ==
    {p \in Tasks \X Nat : DcOf[p[1]] = d /\ p[2] \in DOMAIN T[p[1]].sent}

(* Those of the other tasks. *)
OtherAt(T, d, k, t) == {p \in FlyingAt(T, d, k) : p[1] # t}
OtherIn(T, d, t) == {p \in FlyingIn(T, d) : p[1] # t}

Extra(closing, k, n) == IF closing /\ k = n THEN Closed ELSE 0

BalancedAt(T, g, d, closing) ==
    LET b == g.balance[d]
        n == Len(b.sessions)
    IN  /\ n >= 1
        /\ IsFiniteSet(FlyingIn(T, d))
        /\ \A t \in Tasks : DcOf[t] = d => Sits(T[t], n)
        /\ \A k \in 1 .. n : b.sessions[k].requested =
             Cardinality(FlyingAt(T, d, k)) + Extra(closing, k, n)
        /\ b.total = Cardinality(FlyingIn(T, d))

Joined(S, B, t, D) ==
    S = B \cup {<<t, i>> : i \in D} /\ \A p \in B : p[1] # t

LEMMA JoinCard ==
    ASSUME NEW t, NEW D, IsFiniteSet(D), NEW B, IsFiniteSet(B), NEW S,
           Joined(S, B, t, D)
    PROVE  /\ IsFiniteSet(S) /\ Cardinality(S) = Cardinality(D) + Cardinality(B)
           /\ Cardinality(D) \in Nat /\ Cardinality(B) \in Nat
<1> DEFINE A == {<<t, i>> : i \in D}
           f == [i \in D |-> <<t, i>>]
<1>1. f \in Bijection(D, A)
  <2>1. f \in [D -> A] /\ \A i \in D : f[i] = <<t, i>>
    OBVIOUS
  <2>2. \A i, j \in D : f[i] = f[j] => i = j
    BY <2>1
  <2>3. \A a \in A : \E i \in D : f[i] = a
    BY <2>1
  <2> HIDE DEF f, A
  <2> QED
    BY <2>1, <2>2, <2>3 DEF Bijection, Injection, Surjection, IsInjective
<1>2. IsFiniteSet(A) /\ Cardinality(A) = Cardinality(D)
  <2> HIDE DEF A, f
  <2> QED
    BY <1>1, FS_Bijection DEF ExistsBijection
<1>3. A \cap B = {}
  BY DEF Joined
<1>4. S = A \cup B
  BY DEF Joined
<1> HIDE DEF A
<1>5. Cardinality(A) \in Nat /\ Cardinality(B) \in Nat /\ Cardinality(A \cap B) = 0
  BY <1>2, <1>3, FS_CardinalityType, FS_EmptySet
<1>6. IsFiniteSet(A \cup B) /\ Cardinality(A \cup B) =
        Cardinality(A) + Cardinality(B) - Cardinality(A \cap B)
  BY <1>2, FS_Union
<1> QED
  BY <1>2, <1>4, <1>5, <1>6

LEMMA ClosedFact == Closed \in Nat
<1> DEFINE a == MaxWaited
           b == MaxSessions
<1>1. a \in Nat /\ b \in Nat
  BY BalanceAssumption
<1> HIDE DEF a, b
<1>2. a * b \in Nat
  BY <1>1
<1> QED
  BY <1>2 DEF Closed, a, b

(* One task and the others. *)
LEMMA FlyingSplit ==
    ASSUME NEW T \in [Tasks -> TaskSet], NEW t \in Tasks, NEW k
    PROVE  /\ FlyingAt(T, DcOf[t], k) =
                OtherAt(T, DcOf[t], k, t) \cup {<<t, i>> : i \in In(T[t].sent, k)}
           /\ FlyingIn(T, DcOf[t]) =
                OtherIn(T, DcOf[t], t) \cup {<<t, i>> : i \in DOMAIN T[t].sent}
           /\ \A p \in OtherAt(T, DcOf[t], k, t) : p[1] # t
           /\ \A p \in OtherIn(T, DcOf[t], t) : p[1] # t
           /\ OtherAt(T, DcOf[t], k, t) \subseteq OtherIn(T, DcOf[t], t)
           /\ FlyingAt(T, DcOf[t], k) \subseteq FlyingIn(T, DcOf[t])
<1>1. T[t] \in TaskSet
  OBVIOUS
<1>2. DOMAIN T[t].sent \subseteq Nat /\ In(T[t].sent, k) \subseteq DOMAIN T[t].sent
  BY <1>1, TaskFact DEF In
<1>3. \A p \in Tasks \X Nat : p = <<p[1], p[2]>>
  OBVIOUS
<1>4. FlyingAt(T, DcOf[t], k) =
        OtherAt(T, DcOf[t], k, t) \cup {<<t, i>> : i \in In(T[t].sent, k)}
  BY <1>2, <1>3 DEF FlyingAt, OtherAt
<1>5. FlyingIn(T, DcOf[t]) =
        OtherIn(T, DcOf[t], t) \cup {<<t, i>> : i \in DOMAIN T[t].sent}
  BY <1>2, <1>3 DEF FlyingIn, OtherIn
<1>6. FlyingAt(T, DcOf[t], k) \subseteq FlyingIn(T, DcOf[t])
  BY DEF FlyingAt, FlyingIn, In
<1>7. OtherAt(T, DcOf[t], k, t) \subseteq OtherIn(T, DcOf[t], t)
  BY <1>6 DEF OtherAt, OtherIn
<1> QED
  BY <1>4, <1>5, <1>6, <1>7 DEF OtherAt, OtherIn

LEMMA CountSplit ==
    ASSUME NEW T \in [Tasks -> TaskSet], NEW t \in Tasks,
           IsFiniteSet(OtherIn(T, DcOf[t], t))
    PROVE  /\ IsFiniteSet(FlyingIn(T, DcOf[t]))
           /\ Cardinality(FlyingIn(T, DcOf[t])) =
                Len(T[t].sent) + Cardinality(OtherIn(T, DcOf[t], t))
           /\ Cardinality(OtherIn(T, DcOf[t], t)) \in Nat
           /\ \A k : /\ Cardinality(FlyingAt(T, DcOf[t], k)) =
                          Cardinality(In(T[t].sent, k))
                            + Cardinality(OtherAt(T, DcOf[t], k, t))
                     /\ Cardinality(OtherAt(T, DcOf[t], k, t)) \in Nat
                     /\ IsFiniteSet(OtherAt(T, DcOf[t], k, t))
<1> DEFINE d == DcOf[t]
           s == T[t].sent
<1>1. s \in Seq(SentSet) /\ DOMAIN s = 1 .. Len(s) /\ Len(s) \in Nat
  <2>1. T[t] \in TaskSet
    OBVIOUS
  <2> QED
    BY <2>1, TaskFact
<1>2. IsFiniteSet(DOMAIN s) /\ Cardinality(DOMAIN s) = Len(s)
  <2> HIDE DEF s
  <2>1. /\ IsFiniteSet(1 .. Len(s))
        /\ Cardinality(1 .. Len(s)) = IF 1 > Len(s) THEN 0 ELSE Len(s) - 1 + 1
    BY <1>1, FS_Interval
  <2> QED
    BY <1>1, <2>1
<1>3. Joined(FlyingIn(T, d), OtherIn(T, d, t), t, DOMAIN s)
  BY FlyingSplit DEF Joined
<1>4. ASSUME NEW k
      PROVE  /\ Joined(FlyingAt(T, d, k), OtherAt(T, d, k, t), t, In(s, k))
             /\ OtherAt(T, d, k, t) \subseteq OtherIn(T, d, t)
             /\ IsFiniteSet(In(s, k))
  <2>1. IsFiniteSet(In(s, k))
    <3> HIDE DEF s
    <3> QED
      BY <1>1, InFinite
  <2> QED
    BY <2>1, FlyingSplit DEF Joined
<1> HIDE DEF s
<1>5. /\ IsFiniteSet(FlyingIn(T, d))
      /\ Cardinality(FlyingIn(T, d)) =
           Cardinality(DOMAIN s) + Cardinality(OtherIn(T, d, t))
      /\ Cardinality(OtherIn(T, d, t)) \in Nat
  BY <1>2, <1>3, JoinCard
<1>6. ASSUME NEW k
      PROVE  /\ Cardinality(FlyingAt(T, d, k)) =
                  Cardinality(In(s, k)) + Cardinality(OtherAt(T, d, k, t))
             /\ Cardinality(OtherAt(T, d, k, t)) \in Nat
             /\ IsFiniteSet(OtherAt(T, d, k, t))
  <2>1. IsFiniteSet(OtherAt(T, d, k, t))
    BY <1>4, FS_Subset
  <2> QED
    BY <1>4, <2>1, JoinCard
<1> QED
  BY <1>2, <1>5, <1>6 DEF s

(* What a task shares its data center with. *)
NOf(g, t) == Len(g.balance[DcOf[t]].sessions)
ROf(T, t) == Cardinality(OtherIn(T, DcOf[t], t))
FOf(T, g, t, closing) ==
    [k \in Nat |-> Cardinality(OtherAt(T, DcOf[t], k, t))
                     + Extra(closing, k, NOf(g, t))]

ContextOf(T, g, t) == [mgr |-> g, x |-> T[t], d |-> DcOf[t]]

LEMMA ExtraFact ==
    ASSUME NEW closing \in BOOLEAN, NEW k, NEW n
    PROVE  Extra(closing, k, n) \in Nat
  BY ClosedFact DEF Extra

LEMMA OtherFact ==
    ASSUME NEW T \in [Tasks -> TaskSet], NEW g \in MgrSet, NEW t \in Tasks,
           NEW closing \in BOOLEAN, BalancedAt(T, g, DcOf[t], closing)
    PROVE  /\ IsFiniteSet(OtherIn(T, DcOf[t], t)) /\ ROf(T, t) \in Nat
           /\ NOf(g, t) \in Nat /\ NOf(g, t) >= 1
           /\ FOf(T, g, t, closing) \in [Nat -> Nat]
           /\ \A k \in Nat : FOf(T, g, t, closing)[k] =
                Cardinality(OtherAt(T, DcOf[t], k, t)) + Extra(closing, k, NOf(g, t))
<1>1. IsFiniteSet(FlyingIn(T, DcOf[t])) /\ NOf(g, t) >= 1
  BY DEF BalancedAt, NOf
<1>2. OtherIn(T, DcOf[t], t) \subseteq FlyingIn(T, DcOf[t])
  BY DEF OtherIn
<1>3. IsFiniteSet(OtherIn(T, DcOf[t], t))
  BY <1>1, <1>2, FS_Subset
<1>4. NOf(g, t) \in Nat
  <2>1. DcOf[t] \in DcIds
    BY DownloadAssumption
  <2>2. g.balance[DcOf[t]] \in BalanceSet
    BY <2>1 DEF MgrSet
  <2> QED
    BY <2>2, SessionsFact DEF NOf
<1>5. ASSUME NEW k \in Nat
      PROVE  Cardinality(OtherAt(T, DcOf[t], k, t))
               + Extra(closing, k, NOf(g, t)) \in Nat
  <2>1. Cardinality(OtherAt(T, DcOf[t], k, t)) \in Nat
    BY <1>3, CountSplit
  <2>2. Extra(closing, k, NOf(g, t)) \in Nat
    BY ExtraFact
  <2> QED
    BY <2>1, <2>2
<1>6. ROf(T, t) \in Nat
  BY <1>3, FS_CardinalityType DEF ROf
<1> QED
  BY <1>1, <1>3, <1>4, <1>5, <1>6 DEF FOf

LEMMA RestGood ==
    ASSUME NEW T \in [Tasks -> TaskSet], NEW g \in MgrSet, NEW t \in Tasks,
           NEW closing \in BOOLEAN, BalancedAt(T, g, DcOf[t], closing)
    PROVE  RestOk(FOf(T, g, t, closing), ROf(T, t), NOf(g, t))
<1> DEFINE F == FOf(T, g, t, closing)
           R == ROf(T, t)
           n == NOf(g, t)
           d == DcOf[t]
<1>1. /\ IsFiniteSet(OtherIn(T, d, t)) /\ R \in Nat /\ n \in Nat /\ n >= 1
      /\ F \in [Nat -> Nat]
      /\ \A k \in Nat : F[k] = Cardinality(OtherAt(T, d, k, t)) + Extra(closing, k, n)
  BY OtherFact
<1>2. \A k : /\ Cardinality(OtherAt(T, d, k, t)) \in Nat
             /\ IsFiniteSet(OtherAt(T, d, k, t))
             /\ Extra(closing, k, n) \in Nat
  BY <1>1, CountSplit, ExtraFact
<1>3. \A u \in Tasks : DcOf[u] = d => Sits(T[u], n)
  BY DEF BalancedAt, NOf
<1> HIDE DEF F, R, n
<1>4. ASSUME NEW p \in OtherIn(T, d, t)
      PROVE  \E k \in 1 .. n : p \in OtherAt(T, d, k, t)
  <2>1. /\ p \in Tasks \X Nat /\ DcOf[p[1]] = d /\ p[2] \in DOMAIN T[p[1]].sent
        /\ p[1] # t
    BY DEF OtherIn, FlyingIn
  <2>2. p[1] \in Tasks
    BY <2>1
  <2>3. T[p[1]].sent[p[2]].session \in 1 .. n
    BY <1>3, <2>1, <2>2 DEF Sits
  <2>4. p \in OtherAt(T, d, T[p[1]].sent[p[2]].session, t)
    BY <2>1 DEF OtherAt, FlyingAt, In
  <2> QED
    BY <2>3, <2>4
<1>5. ASSUME \A k \in 1 .. n : F[k] = 0 PROVE R = 0
  <2>1. ASSUME NEW k \in 1 .. n PROVE OtherAt(T, d, k, t) = {}
    <3>1. F[k] = 0 /\ F[k] = Cardinality(OtherAt(T, d, k, t)) + Extra(closing, k, n)
      BY <1>1, <1>5
    <3>2. Cardinality(OtherAt(T, d, k, t)) = 0
      BY <1>2, <3>1
    <3> QED
      BY <1>2, <3>2, FS_EmptySet
  <2>2. OtherIn(T, d, t) = {}
    BY <1>4, <2>1
  <2> QED
    BY <2>2, FS_EmptySet DEF R, ROf
<1>6. ASSUME NEW k \in Nat, k > n PROVE F[k] = 0
  <2>1. OtherAt(T, d, k, t) = {}
    <3> SUFFICES ASSUME NEW p \in OtherAt(T, d, k, t) PROVE FALSE
      OBVIOUS
    <3>1. /\ p \in Tasks \X Nat /\ DcOf[p[1]] = d /\ p[2] \in DOMAIN T[p[1]].sent
          /\ T[p[1]].sent[p[2]].session = k
      BY DEF OtherAt, FlyingAt, In
    <3>2. p[1] \in Tasks
      BY <3>1
    <3>3. k \in 1 .. n
      BY <1>3, <3>1, <3>2 DEF Sits
    <3> QED
      BY <1>1, <1>6, <3>3
  <2>2. Extra(closing, k, n) = 0
    BY <1>1, <1>6 DEF Extra
  <2>3. Cardinality(OtherAt(T, d, k, t)) = 0
    BY <2>1, FS_EmptySet
  <2>4. F[k] = Cardinality(OtherAt(T, d, k, t)) + Extra(closing, k, n)
    BY <1>1
  <2> QED
    BY <2>2, <2>3, <2>4
<1> QED
  BY <1>1, <1>5, <1>6 DEF RestOk, F, R, n

LEMMA ContextGood ==
    ASSUME NEW T \in [Tasks -> TaskSet], NEW g \in MgrSet, NEW t \in Tasks,
           NEW closing \in BOOLEAN, BalancedAt(T, g, DcOf[t], closing), KillOk(g)
    PROVE  Good(ContextOf(T, g, t), FOf(T, g, t, closing), ROf(T, t), NOf(g, t))
<1> DEFINE F == FOf(T, g, t, closing)
           R == ROf(T, t)
           n == NOf(g, t)
           d == DcOf[t]
           c == ContextOf(T, g, t)
           b == g.balance[d]
           s == T[t].sent
<1>0. d \in DcIds /\ T[t] \in TaskSet
  BY DownloadAssumption
<1>1. /\ c \in CtxSet /\ c.mgr.balance[c.d] = b /\ c.x = T[t]
      /\ c.mgr = g /\ n = Len(b.sessions) /\ n \in Nat
  <2>1. b \in BalanceSet
    BY <1>0 DEF MgrSet
  <2> QED
    BY <1>0, <2>1, SessionsFact DEF ContextOf, CtxSet, NOf
<1>2. /\ IsFiniteSet(OtherIn(T, d, t)) /\ R \in Nat
      /\ \A k \in Nat : F[k] = Cardinality(OtherAt(T, d, k, t)) + Extra(closing, k, n)
  BY OtherFact
<1>3. /\ \A k \in 1 .. n : b.sessions[k].requested =
           Cardinality(FlyingAt(T, d, k)) + Extra(closing, k, n)
      /\ b.total = Cardinality(FlyingIn(T, d))
      /\ Sits(T[t], n)
  BY DEF BalancedAt, NOf
<1>4. /\ Cardinality(FlyingIn(T, d)) = Len(s) + R
      /\ \A k : /\ Cardinality(FlyingAt(T, d, k)) =
                     Cardinality(In(s, k)) + Cardinality(OtherAt(T, d, k, t))
                /\ Cardinality(OtherAt(T, d, k, t)) \in Nat
  BY <1>2, CountSplit DEF ROf
<1>5. \A k : Cardinality(In(s, k)) \in Nat /\ Extra(closing, k, n) \in Nat
  <2>1. s \in Seq(SentSet)
    BY <1>0, TaskFact
  <2> HIDE DEF s
  <2> QED
    BY <2>1, InFinite, ExtraFact
<1> HIDE DEF F, R, n, c, b, s
<1>6. ASSUME NEW k \in 1 .. n
      PROVE  b.sessions[k].requested = Cardinality(In(s, k)) + F[k]
  <2>1. k \in Nat
    BY <1>1
  <2> DEFINE A == Cardinality(FlyingAt(T, d, k))
             B == Cardinality(OtherAt(T, d, k, t))
             C == Cardinality(In(s, k))
             E == Extra(closing, k, n)
  <2>2. /\ b.sessions[k].requested = A + E /\ A = C + B /\ F[k] = B + E
        /\ B \in Nat /\ C \in Nat /\ E \in Nat
    BY <1>2, <1>3, <1>4, <1>5, <2>1
  <2> HIDE DEF A, B, C, E
  <2> QED
    BY <2>2 DEF C
<1>7. Counted(b, s, F, R)
  BY <1>1, <1>3, <1>4, <1>6 DEF Counted
<1> QED
  BY <1>1, <1>3, <1>7 DEF Good, s, c, F, R, n

(* One task changes. *)
Updated(T, U, t, y) ==
    /\ U \in [Tasks -> TaskSet] /\ U[t] = y
    /\ \A u \in Tasks \ {t} : U[u] = T[u]

LEMMA OtherSame ==
    ASSUME NEW T, NEW t \in Tasks, NEW y, NEW U, Updated(T, U, t, y), NEW d, NEW k
    PROVE  /\ OtherAt(U, d, k, t) = OtherAt(T, d, k, t)
           /\ OtherIn(U, d, t) = OtherIn(T, d, t)
           /\ d # DcOf[t] => /\ FlyingAt(U, d, k) = FlyingAt(T, d, k)
                             /\ FlyingIn(U, d) = FlyingIn(T, d)
<1>1. \A p \in Tasks \X Nat : p[1] \in Tasks
  OBVIOUS
<1>2. \A p \in Tasks \X Nat : p[1] # t => U[p[1]] = T[p[1]]
  BY <1>1 DEF Updated
<1>3. \A p \in Tasks \X Nat : p[1] # t =>
        (p[2] \in In(U[p[1]].sent, k) <=> p[2] \in In(T[p[1]].sent, k))
  BY <1>2
<1>4. OtherAt(U, d, k, t) = OtherAt(T, d, k, t)
  BY <1>3 DEF OtherAt, FlyingAt
<1>5. OtherIn(U, d, t) = OtherIn(T, d, t)
  BY <1>2 DEF OtherIn, FlyingIn
<1>6. d # DcOf[t] => FlyingAt(U, d, k) = FlyingAt(T, d, k)
  BY <1>3 DEF FlyingAt
<1>7. d # DcOf[t] => FlyingIn(U, d) = FlyingIn(T, d)
  BY <1>2 DEF FlyingIn
<1> QED
  BY <1>4, <1>5, <1>6, <1>7

LEMMA BalanceElsewhere ==
    ASSUME NEW T, NEW g, NEW t \in Tasks, NEW y, NEW U, Updated(T, U, t, y),
           NEW d \in DcIds, d # DcOf[t], NEW h, h.balance[d] = g.balance[d],
           NEW closing, BalancedAt(T, g, d, closing)
    PROVE  BalancedAt(U, h, d, closing)
<1> DEFINE b == g.balance[d]
           n == Len(b.sessions)
<1>1. /\ n >= 1 /\ IsFiniteSet(FlyingIn(T, d))
      /\ \A u \in Tasks : DcOf[u] = d => Sits(T[u], n)
      /\ \A k \in 1 .. n : b.sessions[k].requested =
           Cardinality(FlyingAt(T, d, k)) + Extra(closing, k, n)
      /\ b.total = Cardinality(FlyingIn(T, d))
  BY DEF BalancedAt
<1>2. FlyingIn(U, d) = FlyingIn(T, d) /\ \A k : FlyingAt(U, d, k) = FlyingAt(T, d, k)
  BY OtherSame
<1>3. \A u \in Tasks : DcOf[u] = d => Sits(U[u], n)
  BY <1>1 DEF Updated
<1>4. h.balance[d] = b
  OBVIOUS
<1> HIDE DEF b
<1> QED
  BY <1>1, <1>2, <1>3, <1>4 DEF BalancedAt

LEMMA BalanceStep ==
    ASSUME NEW T \in [Tasks -> TaskSet], NEW g \in MgrSet, NEW t \in Tasks,
           NEW closing \in BOOLEAN, BalancedAt(T, g, DcOf[t], closing), NEW c,
           Good(c, FOf(T, g, t, closing), ROf(T, t), NOf(g, t)),
           SameElsewhere(ContextOf(T, g, t), c),
           closing => SameSessions(ContextOf(T, g, t), c),
           NEW U, Updated(T, U, t, c.x)
    PROVE  BalancedAt(U, c.mgr, DcOf[t], closing)
<1> DEFINE F == FOf(T, g, t, closing)
           R == ROf(T, t)
           n == NOf(g, t)
           d == DcOf[t]
           b == c.mgr.balance[d]
           m == Len(b.sessions)
           s == c.x.sent
<1>0. d \in DcIds /\ c.d = d /\ U \in [Tasks -> TaskSet] /\ U[t] = c.x
  BY DownloadAssumption DEF SameElsewhere, ContextOf, Updated
<1>1. /\ c \in CtxSet /\ m >= n /\ Counted(b, s, F, R) /\ Sits(c.x, m)
  BY <1>0 DEF Good
<1>2. /\ IsFiniteSet(OtherIn(T, d, t)) /\ R \in Nat /\ n \in Nat /\ n >= 1
      /\ \A k \in Nat : F[k] = Cardinality(OtherAt(T, d, k, t)) + Extra(closing, k, n)
  BY OtherFact
<1>3. m \in Nat
  <2>1. b \in BalanceSet
    BY <1>0, <1>1 DEF CtxSet, MgrSet
  <2> QED
    BY <2>1, SessionsFact
<1>4. closing => m = n
  BY <1>0 DEF SameSessions, ContextOf, NOf
<1>5. \A k \in 1 .. m : Extra(closing, k, m) = Extra(closing, k, n)
  BY <1>4 DEF Extra
<1>6. OtherIn(U, d, t) = OtherIn(T, d, t) /\ \A k : OtherAt(U, d, k, t) = OtherAt(T, d, k, t)
  BY OtherSame
<1>7. /\ IsFiniteSet(FlyingIn(U, d))
      /\ Cardinality(FlyingIn(U, d)) = Len(s) + Cardinality(OtherIn(U, d, t))
      /\ \A k : /\ Cardinality(FlyingAt(U, d, k)) =
                     Cardinality(In(s, k)) + Cardinality(OtherAt(U, d, k, t))
                /\ Cardinality(OtherAt(U, d, k, t)) \in Nat
  <2>1. IsFiniteSet(OtherIn(U, d, t))
    BY <1>2, <1>6
  <2> QED
    BY <1>0, <2>1, CountSplit
<1>8. ASSUME NEW u \in Tasks, DcOf[u] = d PROVE Sits(U[u], m)
  <2>1. CASE u = t
    BY <1>0, <1>1, <2>1
  <2>2. CASE u # t
    <3>1. U[u] = T[u] /\ Sits(T[u], n)
      BY <1>8, <2>2 DEF Updated, BalancedAt, NOf
    <3>2. \A j : j \in 1 .. n => j \in 1 .. m
      BY <1>1, <1>2, <1>3
    <3> HIDE DEF n, m
    <3> QED
      BY <3>1, <3>2 DEF Sits
  <2> QED
    BY <2>1, <2>2
<1>9. ASSUME NEW k \in 1 .. m
      PROVE  b.sessions[k].requested =
               Cardinality(FlyingAt(U, d, k)) + Extra(closing, k, m)
  <2> DEFINE A == Cardinality(FlyingAt(U, d, k))
             B == Cardinality(OtherAt(T, d, k, t))
             C == Cardinality(In(s, k))
             E == Extra(closing, k, n)
  <2>1. k \in Nat
    BY <1>3
  <2>2. E \in Nat /\ C \in Nat /\ B \in Nat
    <3>1. s \in Seq(SentSet)
      BY <1>1, CtxFact, TaskFact
    <3>2. C \in Nat
      <4> HIDE DEF s
      <4> QED
        BY <3>1, InFinite
    <3> QED
      BY <1>6, <1>7, <3>2, ExtraFact
  <2>3. b.sessions[k].requested = C + F[k] /\ F[k] = B + E /\ A = C + B
    BY <1>1, <1>2, <1>6, <1>7, <2>1 DEF Counted
  <2>4. Extra(closing, k, m) = E
    BY <1>5
  <2> HIDE DEF A, B, C, E
  <2> QED
    BY <2>2, <2>3, <2>4 DEF A
<1>10. b.total = Cardinality(FlyingIn(U, d))
  BY <1>1, <1>6, <1>7 DEF Counted, ROf
<1>11. m >= 1
  BY <1>1, <1>2, <1>3
<1> HIDE DEF b, s
<1> QED
  BY <1>7, <1>8, <1>9, <1>10, <1>11 DEF BalancedAt, b

-----------------------------------------------------------------------------
(* The queues. *)
Entry == [task : Tasks, priority : Int]

QueuedIn(q) == {q[i].task : i \in DOMAIN q}

LEMMA RemoveTaskFact ==
    ASSUME NEW q \in Seq(Entry), NEW t
    PROVE  /\ RemoveTask(q, t) \in Seq(Entry)
           /\ QueuedIn(RemoveTask(q, t)) \subseteq QueuedIn(q)
           /\ \A u \in QueuedIn(q) : u # t => u \in QueuedIn(RemoveTask(q, t))
<1> DEFINE at == {i \in DOMAIN q : q[i].task = t}
           j == CHOOSE i \in at : TRUE
<1>1. RemoveTask(q, t) = IF at = {} THEN q ELSE RemoveAt(q, j)
  BY DEF RemoveTask
<1>2. CASE at = {}
  BY <1>1, <1>2
<1>3. CASE at # {}
  <2>1. j \in DOMAIN q /\ q[j].task = t
    BY <1>3
  <2>2. j \in 1 .. Len(q) /\ RemoveTask(q, t) = RemoveAt(q, j)
    BY <1>1, <1>3, <2>1
  <2> HIDE DEF at, j
  <2>3. RemoveAt(q, j) \in Seq(Entry)
    BY <2>2, RemoveFact
  <2>4. /\ \A i \in DOMAIN RemoveAt(q, j) : \E k \in DOMAIN q :
             k # j /\ RemoveAt(q, j)[i] = q[k]
        /\ \A k \in DOMAIN q : k # j =>
             \E i \in DOMAIN RemoveAt(q, j) : RemoveAt(q, j)[i] = q[k]
    BY <2>2, RemoveElements
  <2> DEFINE s == RemoveAt(q, j)
  <2> HIDE DEF s
  <2>5. QueuedIn(s) \subseteq QueuedIn(q)
    BY <2>4 DEF QueuedIn, s
  <2>6. ASSUME NEW u \in QueuedIn(q), u # t PROVE u \in QueuedIn(s)
    <3>1. PICK k \in DOMAIN q : u = q[k].task
      BY DEF QueuedIn
    <3>2. k # j
      BY <2>1, <2>6, <3>1
    <3> QED
      BY <2>4, <3>1, <3>2 DEF QueuedIn, s
  <2> QED
    BY <2>2, <2>3, <2>5, <2>6 DEF s
<1> QED
  BY <1>2, <1>3

Inserted(q, i, v, w) ==
    /\ Len(w) = Len(q) + 1
    /\ \A k \in 1 .. Len(q) + 1 :
         w[k] = IF k < i THEN q[k] ELSE IF k = i THEN v ELSE q[k - 1]

LEMMA InsertFact ==
    ASSUME NEW S, NEW q \in Seq(S), NEW i \in 1 .. Len(q) + 1, NEW v \in S
    PROVE  /\ InsertAt(q, i, v) \in Seq(S)
           /\ Inserted(q, i, v, InsertAt(q, i, v))
<1> DEFINE a == SubSeq(q, 1, i - 1)
           b == SubSeq(q, i, Len(q))
           c == a \o <<v>>
<1>0. Len(q) \in Nat /\ i \in Nat /\ i >= 1 /\ i <= Len(q) + 1
  OBVIOUS
<1>1. a \in Seq(S) /\ Len(a) = i - 1 /\ \A k \in 1 .. i - 1 : a[k] = q[k]
  BY <1>0
<1>2. /\ b \in Seq(S) /\ Len(b) = Len(q) - i + 1
      /\ \A k \in 1 .. Len(q) - i + 1 : b[k] = q[k + i - 1]
  BY <1>0
<1> HIDE DEF a, b
<1>3. /\ c \in Seq(S) /\ Len(c) = i
      /\ \A k \in 1 .. i : c[k] = IF k < i THEN q[k] ELSE v
  BY <1>0, <1>1
<1> HIDE DEF c
<1>4. /\ c \o b \in Seq(S) /\ Len(c \o b) = Len(q) + 1
      /\ \A k \in 1 .. Len(q) + 1 :
           (c \o b)[k] = IF k <= i THEN c[k] ELSE b[k - i]
  <2>1. c \o b \in Seq(S)
    BY <1>2, <1>3
  <2>2. /\ Len(c \o b) = Len(c) + Len(b)
        /\ \A k \in 1 .. Len(c) + Len(b) :
             (c \o b)[k] = IF k <= Len(c) THEN c[k] ELSE b[k - Len(c)]
    <3>1. c \in Seq(S) /\ b \in Seq(S)
      BY <1>2, <1>3
    <3> QED
      BY <3>1
  <2>3. Len(c) + Len(b) = Len(q) + 1
    BY <1>0, <1>2, <1>3
  <2> QED
    BY <1>3, <2>1, <2>2, <2>3
<1>5. ASSUME NEW k \in 1 .. Len(q) + 1
      PROVE  (c \o b)[k] = IF k < i THEN q[k] ELSE IF k = i THEN v ELSE q[k - 1]
  <2>1. CASE k <= i
    BY <1>0, <1>3, <1>4, <2>1
  <2>2. CASE k > i
    <3>1. (c \o b)[k] = b[k - i] /\ k - i \in 1 .. Len(q) - i + 1
      BY <1>0, <1>4, <2>2
    <3>2. b[k - i] = q[(k - i) + i - 1] /\ (k - i) + i - 1 = k - 1
      BY <1>0, <1>2, <3>1
    <3>3. ~(k < i) /\ k # i
      BY <1>0, <2>2
    <3>4. (c \o b)[k] = q[k - 1]
      BY <3>1, <3>2
    <3> QED
      BY <3>3, <3>4
  <2>3. k <= i \/ k > i
    BY <1>0
  <2> QED
    BY <2>1, <2>2, <2>3
<1>6. InsertAt(q, i, v) = c \o b
  BY DEF InsertAt, a, b, c
<1> QED
  BY <1>4, <1>5, <1>6 DEF Inserted

LEMMA EnqueueFact ==
    ASSUME NEW q \in Seq(Entry), NEW t \in Tasks, NEW p \in Int
    PROVE  /\ Enqueue(q, t, p) \in Seq(Entry)
           /\ t \in QueuedIn(Enqueue(q, t, p))
           /\ \A u : u \in QueuedIn(Enqueue(q, t, p)) =>
                       u = t \/ u \in QueuedIn(q)
           /\ \A u \in QueuedIn(q) : u \in QueuedIn(Enqueue(q, t, p))
<1> DEFINE s == RemoveTask(q, t)
           A == {i \in DOMAIN s : s[i].priority > p}
           m == Cardinality(A)
           v == [task |-> t, priority |-> p]
           w == InsertAt(s, m + 1, v)
<1>1. Enqueue(q, t, p) = w
  BY DEF Enqueue
<1>2. /\ s \in Seq(Entry) /\ QueuedIn(s) \subseteq QueuedIn(q)
      /\ \A u \in QueuedIn(q) : u # t => u \in QueuedIn(s)
  BY RemoveTaskFact
<1>3. v \in Entry /\ v.task = t
  BY DEF Entry
<1> HIDE DEF s
<1>4. m \in Nat /\ m <= Len(s)
  <2>1. Len(s) \in Nat /\ DOMAIN s = 1 .. Len(s) /\ A \subseteq 1 .. Len(s)
    BY <1>2
  <2> HIDE DEF A
  <2>2. /\ IsFiniteSet(1 .. Len(s))
        /\ Cardinality(1 .. Len(s)) = IF 1 > Len(s) THEN 0 ELSE Len(s) - 1 + 1
    <3>1. Len(s) \in Int /\ 1 \in Int
      BY <2>1
    <3> QED
      BY <3>1, FS_Interval
  <2>3. /\ IsFiniteSet(A) /\ Cardinality(A) <= Cardinality(1 .. Len(s))
    BY <2>1, <2>2, FS_Subset
  <2>4. Cardinality(A) \in Nat
    BY <2>3, FS_CardinalityType
  <2> QED
    BY <2>1, <2>2, <2>3, <2>4
<1> HIDE DEF m, v, w
<1>5. Len(s) \in Nat /\ DOMAIN s = 1 .. Len(s) /\ m + 1 \in 1 .. Len(s) + 1
  BY <1>2, <1>4
<1>6. /\ w \in Seq(Entry) /\ Len(w) = Len(s) + 1
      /\ \A k \in 1 .. Len(s) + 1 : w[k] =
           IF k < m + 1 THEN s[k] ELSE IF k = m + 1 THEN v ELSE s[k - 1]
  <2> DEFINE j == m + 1
  <2>1. w = InsertAt(s, j, v) /\ j \in 1 .. Len(s) + 1
    BY <1>5 DEF w
  <2> HIDE DEF j
  <2>2. InsertAt(s, j, v) \in Seq(Entry) /\ Inserted(s, j, v, InsertAt(s, j, v))
    BY <1>2, <1>3, <2>1, InsertFact
  <2> QED
    BY <2>1, <2>2 DEF j, Inserted
<1>7. DOMAIN w = 1 .. Len(s) + 1
  BY <1>6
<1>8. t \in QueuedIn(w)
  <2>1. m + 1 \in DOMAIN w /\ w[m + 1] = v
    BY <1>4, <1>5, <1>6, <1>7
  <2> QED
    BY <1>3, <2>1 DEF QueuedIn
<1>9. ASSUME NEW u \in QueuedIn(w) PROVE u = t \/ u \in QueuedIn(q)
  <2>1. PICK k \in DOMAIN w : u = w[k].task
    BY DEF QueuedIn
  <2>2. w[k] = v \/ \E i \in DOMAIN s : w[k] = s[i]
    <3>1. CASE k < m + 1
      BY <1>4, <1>5, <1>6, <1>7, <3>1
    <3>2. CASE k = m + 1
      BY <1>4, <1>5, <1>6, <1>7, <3>2
    <3>3. CASE k > m + 1
      <4>1. k - 1 \in DOMAIN s /\ w[k] = s[k - 1]
        BY <1>4, <1>5, <1>6, <1>7, <3>3
      <4> QED
        BY <4>1
    <3> QED
      BY <1>4, <1>7, <1>5, <3>1, <3>2, <3>3
  <2>3. u = t \/ u \in QueuedIn(s)
    BY <1>3, <2>1, <2>2 DEF QueuedIn
  <2> QED
    BY <1>2, <2>3
<1>10. ASSUME NEW u \in QueuedIn(q) PROVE u \in QueuedIn(w)
  <2>1. CASE u = t
    BY <1>8, <2>1
  <2>2. CASE u # t
    <3>1. PICK i \in DOMAIN s : u = s[i].task
      BY <1>2, <2>2 DEF QueuedIn
    <3>2. \E k \in DOMAIN w : w[k] = s[i]
      <4>1. CASE i < m + 1
        <5>1. i \in DOMAIN w /\ w[i] = s[i]
          BY <1>4, <1>5, <1>6, <1>7, <4>1
        <5> QED
          BY <5>1
      <4>2. CASE ~(i < m + 1)
        <5>1. i + 1 \in DOMAIN w /\ w[i + 1] = s[(i + 1) - 1] /\ (i + 1) - 1 = i
          BY <1>4, <1>5, <1>6, <1>7, <4>2
        <5> QED
          BY <5>1
      <4> QED
        BY <4>1, <4>2
    <3> QED
      BY <3>1, <3>2 DEF QueuedIn
  <2> QED
    BY <2>1, <2>2
<1> QED
  BY <1>1, <1>6, <1>8, <1>9, <1>10

LEMMA ResetFact ==
    ASSUME NEW q \in Seq(Entry)
    PROVE  /\ resetGeneration(q) \in Seq(Entry)
           /\ QueuedIn(resetGeneration(q)) = QueuedIn(q)
<1> DEFINE f(i) == IF q[i].priority = 0 THEN [q[i] EXCEPT !.priority = -1] ELSE q[i]
           s == [i \in 1 .. Len(q) |-> f(i)]
<1>1. DOMAIN q = 1 .. Len(q) /\ Len(q) \in Nat /\ \A i \in 1 .. Len(q) : q[i] \in Entry
  OBVIOUS
<1>2. \A i \in 1 .. Len(q) : f(i) \in Entry /\ f(i).task = q[i].task
  BY <1>1 DEF Entry
<1>3. resetGeneration(q) = s
  BY <1>1 DEF resetGeneration
<1> HIDE DEF f
<1>4. s \in Seq(Entry) /\ DOMAIN s = 1 .. Len(q) /\ \A i \in 1 .. Len(q) : s[i] = f(i)
  BY <1>1, <1>2
<1> HIDE DEF s
<1>5. QueuedIn(s) = QueuedIn(q)
  BY <1>1, <1>2, <1>4 DEF QueuedIn
<1> QED
  BY <1>3, <1>4, <1>5

-----------------------------------------------------------------------------
(* The inductive invariant. *)
TasksOk == \A t \in Tasks : TaskOk(t, task[t])

QueueOk ==
    /\ queues \in [DcIds -> Seq(Entry)]
    /\ \A d \in DcIds : \A t \in QueuedIn(queues[d]) : DcOf[t] = d
    /\ \A t \in Tasks :
         haveSentRequests(task[t]) => t \in QueuedIn(queues[DcOf[t]])

PcOk ==
    \/ pc = Idle
    \/ \E d \in DcIds : pc = Sending(d)
    \/ \E d \in DcIds : pc = Removing(d) /\ Len(mgr.balance[d].sessions) > 1

Balanced == \A d \in DcIds : BalancedAt(task, mgr, d, pc = Removing(d))

DownloadInv ==
    /\ mgr \in MgrSet /\ task \in [Tasks -> TaskSet]
    /\ posted \in Seq([dc : DcIds, index : Nat])
    /\ TasksOk /\ QueueOk /\ PcOk /\ Balanced /\ KillOk(mgr)

(* A task in its data center. *)
MyF(t) == FOf(task, mgr, t, pc = Removing(DcOf[t]))
MyR(t) == ROf(task, t)
MyN(t) == NOf(mgr, t)

Mine(t, c, P) == CtxOk(t, c, P, MyF(t), MyR(t), MyN(t))

LEMMA StartOk ==
    ASSUME DownloadInv, NEW t \in Tasks
    PROVE  /\ RestOk(MyF(t), MyR(t), MyN(t))
           /\ Mine(t, Context(t), {}) /\ AwaitedOk(t, task[t])
           /\ Context(t).x = task[t] /\ Context(t).d = DcOf[t]
           /\ Context(t).mgr = mgr /\ task[t] \in TaskSet /\ DcOf[t] \in DcIds
           /\ TaskOk(t, task[t])
<1> DEFINE closing == (pc = Removing(DcOf[t]))
<1>1. DcOf[t] \in DcIds /\ task[t] \in TaskSet /\ TaskOk(t, task[t])
  BY DownloadAssumption DEF DownloadInv, TasksOk
<1>2. BalancedAt(task, mgr, DcOf[t], closing) /\ closing \in BOOLEAN
  BY <1>1 DEF DownloadInv, Balanced
<1>3. mgr \in MgrSet /\ task \in [Tasks -> TaskSet] /\ KillOk(mgr)
  BY DEF DownloadInv
<1> HIDE DEF closing
<1>4. RestOk(FOf(task, mgr, t, closing), ROf(task, t), NOf(mgr, t))
  BY <1>2, <1>3, RestGood
<1>5. Good(ContextOf(task, mgr, t), FOf(task, mgr, t, closing), ROf(task, t), NOf(mgr, t))
  BY <1>2, <1>3, ContextGood
<1>6. Context(t) = ContextOf(task, mgr, t)
  BY DEF Context, ContextOf
<1>7. Context(t).x = task[t] /\ Context(t).d = DcOf[t] /\ Context(t).mgr = mgr
  BY DEF Context
<1>8. Pend(t, Context(t).x, {})
  BY <1>1, <1>7 DEF TaskOk
<1>9. Mine(t, Context(t), {})
  BY <1>5, <1>6, <1>8 DEF Mine, CtxOk, MyF, MyR, MyN, closing
<1> QED
  BY <1>1, <1>4, <1>7, <1>9 DEF MyF, MyR, MyN, closing, TaskOk

LEMMA PcFact ==
    /\ \A d, e : Sending(d) # Removing(e) /\ Idle # Removing(e) /\ Idle # Sending(d)
    /\ \A d, e : Removing(d) = Removing(e) => d = e
    /\ \A d, e : Sending(d) = Sending(e) => d = e
<1>1. \A d : /\ Removing(d).at = "remove" /\ Sending(d).at = "send"
             /\ Removing(d).dc = d /\ Sending(d).dc = d
  BY DEF Removing, Sending
<1>2. Idle.at = "idle"
  BY DEF Idle
<1>3. "idle" # "send" /\ "idle" # "remove" /\ "send" # "remove"
  OBVIOUS
<1>4. ASSUME NEW d, NEW e
      PROVE  Sending(d) # Removing(e) /\ Idle # Removing(e) /\ Idle # Sending(d)
  <2>1. Removing(e).at = "remove" /\ Sending(d).at = "send"
    BY <1>1
  <2> QED
    BY <1>2, <1>3, <2>1
<1>5. ASSUME NEW d, NEW e, Removing(d) = Removing(e) PROVE d = e
  <2>1. Removing(d).dc = d /\ Removing(e).dc = e
    BY <1>1
  <2> QED
    BY <1>5, <2>1
<1>6. ASSUME NEW d, NEW e, Sending(d) = Sending(e) PROVE d = e
  <2>1. Sending(d).dc = d /\ Sending(e).dc = e
    BY <1>1
  <2> QED
    BY <1>6, <2>1
<1> QED
  BY <1>4, <1>5, <1>6

(* What a handler of a task may do to the queue and to the loops. *)
QueueStep(t, y) ==
    \/ queues' = queues /\ (haveSentRequests(y) => t \in QueuedIn(queues[DcOf[t]]))
    \/ \E p \in Int : queues' = [queues EXCEPT ![DcOf[t]] = Enqueue(@, t, p)]
    \/ /\ ~haveSentRequests(y)
       /\ queues' = [queues EXCEPT ![DcOf[t]] = RemoveTask(@, t)]

PcStep(t) == pc' = pc \/ (pc = Idle /\ pc' = Sending(DcOf[t]))

LEMMA QueueStepOk ==
    ASSUME QueueOk, NEW t \in Tasks, NEW y, QueueStep(t, y),
           task' = [task EXCEPT ![t] = y], task \in [Tasks -> TaskSet]
    PROVE  QueueOk'
<1> DEFINE d == DcOf[t]
<1>1. DcOf \in [Tasks -> DcIds] /\ d \in DcIds
  BY DownloadAssumption
<1>2. queues \in [DcIds -> Seq(Entry)] /\ queues[d] \in Seq(Entry)
  BY <1>1 DEF QueueOk
<1>3. task'[t] = y /\ \A u \in Tasks : u # t => task'[u] = task[u]
  OBVIOUS
<1>4. PICK q \in Seq(Entry) :
        /\ queues' = [queues EXCEPT ![d] = q]
        /\ \A u \in QueuedIn(q) : u = t \/ u \in QueuedIn(queues[d])
        /\ \A u \in QueuedIn(queues[d]) : u # t => u \in QueuedIn(q)
        /\ haveSentRequests(y) => t \in QueuedIn(q)
  <2>1. CASE queues' = queues /\ (haveSentRequests(y) => t \in QueuedIn(queues[DcOf[t]]))
    <3>1. queues' = [queues EXCEPT ![d] = queues[d]]
      BY <1>2, <2>1
    <3> QED
      BY <1>2, <2>1, <3>1
  <2>2. CASE \E p \in Int : queues' = [queues EXCEPT ![DcOf[t]] = Enqueue(@, t, p)]
    <3>1. PICK p \in Int : queues' = [queues EXCEPT ![d] = Enqueue(queues[d], t, p)]
      BY <2>2
    <3> QED
      BY <1>2, <3>1, EnqueueFact
  <2>3. CASE /\ ~haveSentRequests(y)
             /\ queues' = [queues EXCEPT ![DcOf[t]] = RemoveTask(@, t)]
    BY <1>2, <2>3, RemoveTaskFact
  <2> QED
    BY <2>1, <2>2, <2>3 DEF QueueStep
<1>5. /\ queues' \in [DcIds -> Seq(Entry)] /\ queues'[d] = q
      /\ \A e \in DcIds : e # d => queues'[e] = queues[e]
  BY <1>1, <1>2, <1>4
<1>6. ASSUME NEW e \in DcIds, NEW u \in QueuedIn(queues'[e]) PROVE DcOf[u] = e
  <2>1. CASE e = d
    BY <1>1, <1>4, <1>5, <1>6, <2>1 DEF QueueOk
  <2>2. CASE e # d
    BY <1>5, <1>6, <2>2 DEF QueueOk
  <2> QED
    BY <2>1, <2>2
<1>7. ASSUME NEW u \in Tasks, haveSentRequests(task'[u])
      PROVE  u \in QueuedIn(queues'[DcOf[u]])
  <2>1. CASE u = t
    BY <1>3, <1>4, <1>5, <1>7, <2>1
  <2>2. CASE u # t
    <3>1. u \in QueuedIn(queues[DcOf[u]]) /\ DcOf[u] \in DcIds
      BY <1>1, <1>3, <1>7, <2>2 DEF QueueOk
    <3>2. CASE DcOf[u] = d
      BY <1>4, <1>5, <2>2, <3>1, <3>2
    <3>3. CASE DcOf[u] # d
      BY <1>5, <3>1, <3>3
    <3> QED
      BY <3>2, <3>3
  <2> QED
    BY <2>1, <2>2
<1> HIDE DEF d
<1>8. \A u \in Tasks : haveSentRequests(task'[u]) => u \in QueuedIn(queues'[DcOf[u]])
  BY <1>7
<1> QED
  BY <1>5, <1>6, <1>8 DEF QueueOk, haveSentRequests, QueuedIn

LEMMA StepOk ==
    ASSUME DownloadInv, NEW t \in Tasks, NEW c, Mine(t, c, {}), AwaitedOk(t, c.x),
           SameElsewhere(Context(t), c),
           pc = Removing(DcOf[t]) => SameSessions(Context(t), c),
           Apply(t, c), QueueStep(t, c.x), PcStep(t),
           posted' \in Seq([dc : DcIds, index : Nat])
    PROVE  DownloadInv'
<1> DEFINE d == DcOf[t]
<1>1. /\ mgr \in MgrSet /\ task \in [Tasks -> TaskSet] /\ KillOk(mgr)
      /\ d \in DcIds /\ c.mgr = mgr' /\ task' = [task EXCEPT ![t] = c.x]
  BY DownloadAssumption DEF DownloadInv, Apply
<1>2. /\ Good(c, MyF(t), MyR(t), MyN(t)) /\ c \in CtxSet /\ c.x \in TaskSet
      /\ Pend(t, c.x, {})
  BY CtxOkFact DEF Mine, CtxOk
<1>3. Updated(task, task', t, c.x)
  BY <1>1, <1>2 DEF Updated
<1>4. mgr' \in MgrSet /\ KillOk(mgr')
  <2>1. c.mgr \in MgrSet /\ KillOk(c.mgr)
    BY <1>2, CtxFact DEF Good
  <2> QED
    BY <1>1, <2>1
<1>5. TasksOk'
  <2>1. ASSUME NEW u \in Tasks PROVE TaskOk(u, task'[u])
    <3>1. CASE u = t
      BY <1>1, <1>2, <3>1 DEF TaskOk
    <3>2. CASE u # t
      BY <1>1, <3>2 DEF DownloadInv, TasksOk
    <3> QED
      BY <3>1, <3>2
  <2> QED
    BY <2>1 DEF TasksOk
<1>6. QueueOk'
  BY <1>1, QueueStepOk DEF DownloadInv
<1>7. \A e \in DcIds : (pc' = Removing(e)) <=> (pc = Removing(e))
  BY PcFact DEF PcStep
<1>8. \A e \in DcIds \ {d} : mgr'.balance[e] = mgr.balance[e]
  BY <1>1 DEF SameElsewhere, Context
<1>9. Balanced'
  <2>1. ASSUME NEW e \in DcIds PROVE BalancedAt(task', mgr', e, pc' = Removing(e))
    <3> DEFINE closing == (pc = Removing(e))
    <3>1. closing \in BOOLEAN /\ (pc' = Removing(e)) = closing
      BY <1>7
    <3>2. BalancedAt(task, mgr, e, closing)
      BY DEF DownloadInv, Balanced
    <3>3. CASE e # d
      <4> HIDE DEF closing
      <4>1. mgr'.balance[e] = mgr.balance[e]
        BY <1>8, <3>3
      <4>2. BalancedAt(task', mgr', e, closing)
        BY <1>3, <3>2, <3>3, <4>1, BalanceElsewhere
      <4> QED
        BY <3>1, <4>2
    <3>4. CASE e = d
      <4>1. /\ Good(c, FOf(task, mgr, t, closing), ROf(task, t), NOf(mgr, t))
            /\ SameElsewhere(ContextOf(task, mgr, t), c)
            /\ closing => SameSessions(ContextOf(task, mgr, t), c)
        BY <1>2, <3>4 DEF MyF, MyR, MyN, ContextOf, Context
      <4> HIDE DEF closing
      <4>2. BalancedAt(task', c.mgr, DcOf[t], closing)
        BY <1>1, <1>3, <3>1, <3>2, <3>4, <4>1, BalanceStep
      <4> QED
        BY <1>1, <3>1, <3>4, <4>2
    <3> QED
      BY <3>3, <3>4
  <2> QED
    BY <2>1 DEF Balanced, BalancedAt, FlyingIn, FlyingAt, In, Sits, Extra
<1>10. PcOk'
  <2>1. CASE pc = Idle /\ pc' = Sending(d)
    BY <1>1, <2>1 DEF PcOk
  <2>2. CASE pc' = pc
    <3>1. ASSUME NEW e \in DcIds, pc = Removing(e), Len(mgr.balance[e].sessions) > 1
          PROVE  Len(mgr'.balance[e].sessions) > 1
      <4>1. CASE e = d
        <5>1. /\ Context(t).d = d /\ Context(t).mgr = mgr
              /\ SameSessions(Context(t), c)
          BY <3>1, <4>1 DEF Context
        <5> QED
          BY <1>1, <3>1, <4>1, <5>1 DEF SameSessions
      <4>2. CASE e # d
        BY <1>8, <3>1, <4>2
      <4> QED
        BY <4>1, <4>2
    <3> QED
      BY <2>2, <3>1 DEF PcOk, DownloadInv
  <2> QED
    BY <2>1, <2>2 DEF PcStep
<1> QED
  BY <1>1, <1>3, <1>4, <1>5, <1>6, <1>9, <1>10 DEF DownloadInv, Updated, KillOk

-----------------------------------------------------------------------------
(* The answers. *)
LEMMA SameChain ==
    ASSUME NEW a, NEW b, NEW c, SameElsewhere(a, b) \/ SameSessions(a, b),
           SameElsewhere(b, c) \/ SameSessions(b, c)
    PROVE  /\ SameElsewhere(a, c)
           /\ SameSessions(a, b) /\ SameSessions(b, c) => SameSessions(a, c)
  BY DEF SameElsewhere, SameSessions

(* What a handler that is run between the loops leaves. *)
Leaves(t, c) == Mine(t, c, {}) /\ AwaitedOk(t, c.x) /\ SameElsewhere(Context(t), c)

LEMMA HandlerOk ==
    ASSUME DownloadInv, NEW t \in Tasks, pc = Idle, NEW c, Leaves(t, c), Apply(t, c),
           QueueStep(t, c.x), pc' = pc \/ pc' = Sending(DcOf[t]),
           posted' \in Seq([dc : DcIds, index : Nat])
    PROVE  DownloadInv'
<1>1. pc # Removing(DcOf[t]) /\ PcStep(t)
  BY PcFact DEF PcStep
<1> QED
  BY <1>1, StepOk DEF Leaves

LEMMA FlightFact ==
    ASSUME DownloadInv, NEW t \in Tasks, NEW i, NEW kind, InFlight(t, i, kind)
    PROVE  /\ pc = Idle /\ i \in DOMAIN Context(t).x.sent
           /\ Context(t).x.sent[i] = task[t].sent[i]
           /\ Context(t).x.sent[i].kind = kind
           /\ t \in QueuedIn(queues[DcOf[t]])
           /\ \A y : queues' = queues => QueueStep(t, y)
<1>1. Context(t).x = task[t] /\ task[t] \in TaskSet
  BY StartOk
<1>2. pc = Idle /\ i \in DOMAIN task[t].sent /\ task[t].sent[i].kind = kind
  BY DEF InFlight
<1>3. DOMAIN task[t].sent = 1 .. Len(task[t].sent) /\ Len(task[t].sent) \in Nat
      /\ task[t].sent \in Seq(SentSet)
  BY <1>1, TaskFact
<1>4. task[t].sent # <<>>
  BY <1>2, <1>3
<1>5. t \in QueuedIn(queues[DcOf[t]])
  BY <1>4 DEF DownloadInv, QueueOk, haveSentRequests
<1> QED
  BY <1>1, <1>2, <1>5 DEF QueueStep

LEMMA RequestFailedOk ==
    ASSUME DownloadInv, NEW t \in Tasks, NEW i, RequestFailed(t, i)
    PROVE  DownloadInv'
<1> DEFINE k == Context(t)
           c == partFailed(t, k, i)
<1>1. PICK kind \in {"part", "cdn", "hash", "reupload"} : InFlight(t, i, kind)
  BY DEF RequestFailed
<1>2. /\ Apply(t, c) /\ queues' = queues /\ pc' = pc
      /\ posted' = posted /\ posted \in Seq([dc : DcIds, index : Nat])
  BY DEF RequestFailed, DownloadInv
<1>3. /\ pc = Idle /\ i \in DOMAIN k.x.sent /\ QueueStep(t, c.x)
  BY <1>1, <1>2, FlightFact
<1>4. /\ RestOk(MyF(t), MyR(t), MyN(t)) /\ CtxOk(t, k, {}, MyF(t), MyR(t), MyN(t))
  BY StartOk DEF Mine
<1> HIDE DEF k
<1>5. LET e == partFailed(t, k, i)
      IN  /\ SameSessions(k, e) /\ CtxOk(t, e, {}, MyF(t), MyR(t), MyN(t))
          /\ AwaitedOk(t, e.x)
  BY <1>3, <1>4, FailedOk
<1>6. Leaves(t, c)
  BY <1>5 DEF Leaves, Mine, SameSessions, k
<1> HIDE DEF c
<1> QED
  BY <1>2, <1>3, <1>6, HandlerOk

LEMMA ReuploadNeededOk ==
    ASSUME DownloadInv, NEW t \in Tasks, NEW i, CdnReuploadNeeded(t, i)
    PROVE  DownloadInv'
<1> DEFINE k == Context(t)
           r == k.x.sent[i]
           e == finishSentRequest(k, i)
           c == placeSentRequest(e, r.offset, r.session, "reupload")
           F == MyF(t)
           R == MyR(t)
           n == MyN(t)
<1>1. InFlight(t, i, "cdn")
  BY DEF CdnReuploadNeeded
<1>2. /\ pc = Idle /\ i \in DOMAIN k.x.sent /\ QueueStep(t, c.x)
      /\ r = task[t].sent[i] /\ r.kind = "cdn"
  <2>1. queues' = queues
    BY DEF CdnReuploadNeeded
  <2> QED
    BY <1>1, <2>1, FlightFact
<1>3. /\ Apply(t, c) /\ pc' = pc
      /\ posted' = posted /\ posted \in Seq([dc : DcIds, index : Nat])
  BY <1>2 DEF CdnReuploadNeeded, DownloadInv
<1>4. /\ RestOk(F, R, n) /\ CtxOk(t, k, {}, F, R, n) /\ AwaitedOk(t, k.x)
  BY StartOk DEF Mine
<1> HIDE DEF k, F, R, n
<1>5. ~isHashes(r) /\ "reupload" \in Kinds \ {"hash", "deadHash"} /\ "reupload" # "cdn"
  BY <1>2 DEF isHashes, Kinds
<1>6. FinishGives(t, k, i, F, R, n)
  BY <1>2, <1>4, FinishOk
<1>7. /\ SameSessions(k, e) /\ CtxOk(t, e, {r.offset}, F, R, n) /\ AwaitedOk(t, e.x)
      /\ r.session \in 1 .. Len(e.mgr.balance[e.d].sessions)
  BY <1>4, <1>5, <1>6 DEF FinishGives
<1> HIDE DEF e, r
<1>8. LET f == placeSentRequest(e, r.offset, r.session, "reupload")
      IN  /\ SameSessions(e, f) /\ CtxOk(t, f, {}, F, R, n) /\ f.d = e.d
          /\ AwaitedOk(t, e.x) => AwaitedOk(t, f.x)
  BY <1>4, <1>5, <1>7, PlaceOk
<1>9. SameElsewhere(k, c)
  BY <1>7, <1>8, SameChain
<1>10. Leaves(t, c)
  BY <1>7, <1>8, <1>9 DEF Leaves, Mine, k, F, R, n
<1> HIDE DEF c
<1> QED
  BY <1>2, <1>3, <1>10, HandlerOk

TakenGives(t, k, i, F, R, n) ==
    LET e == finishSentRequest(k, i)
        r == k.x.sent[i]
    IN  /\ SameSessions(k, e)
        /\ t \in TokenErrors \/ ~isHashes(r) =>
             CtxOk(t, e, {r.offset}, F, R, n) /\ AwaitedOk(t, e.x)
        /\ isHashes(r) => CtxOk(t, e, {}, F, R, n)
        /\ isHashes(r) /\ (t \notin Streams \/ t \notin TokenErrors)
             => ~hashesRequested(e.x)
        /\ r.offset \in Offsets
        /\ r.session \in 1 .. Len(e.mgr.balance[e.d].sessions)
        /\ OnlySent(k.x, e.x)

(* A request that is finished. *)
LEMMA TakenOff ==
    ASSUME NEW F, NEW R, NEW n, RestOk(F, R, n), NEW t, NEW k,
           CtxOk(t, k, {}, F, R, n), AwaitedOk(t, k.x), NEW i \in DOMAIN k.x.sent
    PROVE  TakenGives(t, k, i, F, R, n)
<1>1. FinishGives(t, k, i, F, R, n)
  BY FinishOk
<1>2. t \in TokenErrors => \A x : AwaitedOk(t, x)
  BY DEF AwaitedOk
<1> QED
  BY <1>1, <1>2 DEF FinishGives, TakenGives

AgainGives(t, k, i, H, F, R, n) ==
    LET e == finishSentRequest(k, i)
        r == k.x.sent[i]
        c == makeRequest([e EXCEPT !.x.hashes = @ \cup H], r.offset, r.session)
        b == makeRequest(e, r.offset, r.session)
    IN  /\ SameSessions(k, c) /\ CtxOk(t, c, {}, F, R, n) /\ AwaitedOk(t, c.x)
        /\ SameSessions(k, b) /\ CtxOk(t, b, {}, F, R, n) /\ AwaitedOk(t, b.x)

(* ... and sent again, maybe with new hashes. *)
LEMMA SentAgain ==
    ASSUME NEW F, NEW R, NEW n, RestOk(F, R, n), NEW t, NEW k,
           CtxOk(t, k, {}, F, R, n), AwaitedOk(t, k.x), NEW i \in DOMAIN k.x.sent,
           ~isHashes(k.x.sent[i]), NEW H \in SUBSET Offsets
    PROVE  AgainGives(t, k, i, H, F, R, n)
<1> DEFINE e == finishSentRequest(k, i)
           r == k.x.sent[i]
           y == [e.x EXCEPT !.hashes = e.x.hashes \cup H]
           a == [e EXCEPT !.x = y]
           c == makeRequest(a, r.offset, r.session)
           b == makeRequest(e, r.offset, r.session)
<1>1. TakenGives(t, k, i, F, R, n)
  BY TakenOff
<1>2. /\ SameSessions(k, e) /\ CtxOk(t, e, {r.offset}, F, R, n) /\ AwaitedOk(t, e.x)
      /\ r.session \in 1 .. Len(e.mgr.balance[e.d].sessions)
  BY <1>1 DEF TakenGives
<1> HIDE DEF e, r
<1>3. HashesGive(t, e, {r.offset}, H, F, R, n)
  BY <1>2, HashesOk
<1>4. /\ [e EXCEPT !.x.hashes = @ \cup H] = a
      /\ SameSessions(e, a) /\ CtxOk(t, a, {r.offset}, F, R, n) /\ AwaitedOk(t, a.x)
  BY <1>2, <1>3 DEF HashesGive
<1> HIDE DEF a
<1>5. /\ r.session \in 1 .. Len(a.mgr.balance[a.d].sessions)
      /\ CtxOk(t, a, {r.offset}, F, R, n)
  BY <1>2, <1>4 DEF SameSessions, SameElsewhere
<1>6. LET f == makeRequest(a, r.offset, r.session)
      IN  /\ SameSessions(a, f) /\ CtxOk(t, f, {}, F, R, n) /\ f.d = a.d
          /\ AwaitedOk(t, a.x) => AwaitedOk(t, f.x)
  BY <1>5, MakeOk
<1>7. LET f == makeRequest(e, r.offset, r.session)
      IN  /\ SameSessions(e, f) /\ CtxOk(t, f, {}, F, R, n) /\ f.d = e.d
          /\ AwaitedOk(t, e.x) => AwaitedOk(t, f.x)
  BY <1>2, MakeOk
<1>8. SameSessions(k, c) /\ SameSessions(k, b)
  <2>1. SameSessions(k, a)
    BY <1>2, <1>4, SameChain
  <2> QED
    BY <1>2, <1>6, <1>7, <2>1, SameChain
<1>9. /\ SameSessions(k, c) /\ CtxOk(t, c, {}, F, R, n) /\ AwaitedOk(t, c.x)
      /\ SameSessions(k, b) /\ CtxOk(t, b, {}, F, R, n) /\ AwaitedOk(t, b.x)
  BY <1>2, <1>4, <1>6, <1>7, <1>8
<1> HIDE DEF c, b
<1>10. c = makeRequest([e EXCEPT !.x.hashes = @ \cup H], r.offset, r.session)
  BY <1>4 DEF c
<1> QED
  BY <1>9, <1>10 DEF e, r, b, AgainGives

LEMMA SomeHashesFact ==
    ASSUME NEW o \in Offsets, NEW H \in SomeHashes(o)
    PROVE  H \in SUBSET Offsets
  BY DEF SomeHashes

LEMMA ReuploadDoneOk ==
    ASSUME DownloadInv, NEW t \in Tasks, NEW i, reuploadDone(t, i)
    PROVE  DownloadInv'
<1> DEFINE k == Context(t)
           r == k.x.sent[i]
           e == finishSentRequest(k, i)
           F == MyF(t)
           R == MyR(t)
           n == MyN(t)
<1>1. InFlight(t, i, "reupload")
  BY DEF reuploadDone
<1>2. /\ pc = Idle /\ i \in DOMAIN k.x.sent /\ \A y : QueueStep(t, y)
      /\ r = task[t].sent[i] /\ r.kind = "reupload"
  <2>1. queues' = queues
    BY DEF reuploadDone
  <2> QED
    BY <1>1, <2>1, FlightFact
<1>3. PICK H \in SomeHashes(r.offset) :
        Apply(t, makeRequest([e EXCEPT !.x.hashes = @ \cup H], r.offset, r.session))
  BY <1>2 DEF reuploadDone
<1>4. /\ pc' = pc /\ posted' = posted /\ posted \in Seq([dc : DcIds, index : Nat])
  BY DEF reuploadDone, DownloadInv
<1>5. /\ RestOk(F, R, n) /\ CtxOk(t, k, {}, F, R, n) /\ AwaitedOk(t, k.x)
  BY StartOk DEF Mine
<1> DEFINE c == makeRequest([e EXCEPT !.x.hashes = @ \cup H], r.offset, r.session)
<1> HIDE DEF k, F, R, n
<1>6. ~isHashes(r) /\ r.offset \in Offsets
  <2>1. k.x \in TaskSet
    BY <1>5, CtxOkFact
  <2>2. r \in SentSet
    BY <1>2, <2>1, TaskFact
  <2> QED
    BY <1>2, <2>2 DEF isHashes, SentSet
<1>7. H \in SUBSET Offsets
  <2> HIDE DEF r
  <2> QED
    BY <1>6, SomeHashesFact
<1>8. AgainGives(t, k, i, H, F, R, n)
  BY <1>2, <1>5, <1>6, <1>7, SentAgain
<1>9. SameSessions(k, c) /\ CtxOk(t, c, {}, F, R, n) /\ AwaitedOk(t, c.x)
  BY <1>8 DEF AgainGives
<1> HIDE DEF e, c
<1>10. Leaves(t, c)
  BY <1>9 DEF Leaves, Mine, k, F, R, n, SameSessions
<1> QED
  BY <1>2, <1>3, <1>4, <1>10, HandlerOk DEF c

LEMMA TokenInvalidOk ==
    ASSUME DownloadInv, NEW t \in Tasks, NEW i, CdnTokenInvalid(t, i)
    PROVE  DownloadInv'
<1> DEFINE k == Context(t)
           r == k.x.sent[i]
           e == finishSentRequest(k, i)
           c == changeCDNParams(e, r, FALSE, {})
           F == MyF(t)
           R == MyR(t)
           n == MyN(t)
<1>1. PICK kind \in {"cdn", "hash", "reupload"} : InFlight(t, i, kind)
  BY DEF CdnTokenInvalid
<1>2. /\ pc = Idle /\ i \in DOMAIN k.x.sent /\ QueueStep(t, c.x)
      /\ r = task[t].sent[i]
  <2>1. queues' = queues
    BY DEF CdnTokenInvalid
  <2> QED
    BY <1>1, <2>1, FlightFact
<1>3. /\ t \in TokenErrors /\ Apply(t, c) /\ pc' = pc
      /\ posted' = posted /\ posted \in Seq([dc : DcIds, index : Nat])
  BY <1>2 DEF CdnTokenInvalid, DownloadInv
<1>4. /\ RestOk(F, R, n) /\ CtxOk(t, k, {}, F, R, n) /\ AwaitedOk(t, k.x)
  BY StartOk DEF Mine
<1> HIDE DEF k, F, R, n
<1>5. TakenGives(t, k, i, F, R, n)
  BY <1>2, <1>4, TakenOff
<1>6. /\ SameSessions(k, e) /\ CtxOk(t, e, {r.offset}, F, R, n) /\ AwaitedOk(t, e.x)
      /\ r.session \in 1 .. Len(e.mgr.balance[e.d].sessions)
  BY <1>3, <1>5 DEF TakenGives
<1> HIDE DEF e, r
<1>7. {} \in SUBSET Offsets /\ FALSE \in BOOLEAN /\ (t \notin TokenErrors => FALSE = TRUE)
  BY <1>3
<1>8. LET f == changeCDNParams(e, r, FALSE, {})
      IN  /\ SameSessions(e, f) /\ CtxOk(t, f, {}, F, R, n) /\ f.d = e.d
          /\ AwaitedOk(t, e.x) => AwaitedOk(t, f.x)
  BY <1>4, <1>6, <1>7, ChangeOk
<1>9. SameElsewhere(k, c)
  BY <1>6, <1>8, SameChain
<1>10. Leaves(t, c)
  BY <1>6, <1>8, <1>9 DEF Leaves, Mine, k, F, R, n
<1> HIDE DEF c
<1> QED
  BY <1>2, <1>3, <1>10, HandlerOk

(* What an answer with a part starts with. *)
LEMMA SuccessFact ==
    ASSUME DownloadInv, NEW t \in Tasks, NEW i, NEW kind, InFlight(t, i, kind),
           kind \in {"part", "cdn"}, NEW slow, NEW early
    PROVE  LET e == Success(t, i, slow, early)
               r == task[t].sent[i]
           IN  /\ SameElsewhere(Context(t), e) /\ OnlySent(task[t], e.x)
               /\ Mine(t, e, {r.offset}) /\ AwaitedOk(t, e.x)
               /\ r.offset \in Offsets /\ e.d = DcOf[t]
               /\ r.session \in 1 .. Len(e.mgr.balance[e.d].sessions)
<1> DEFINE k == Context(t)
           F == MyF(t)
           R == MyR(t)
           n == MyN(t)
<1>1. /\ RestOk(F, R, n) /\ CtxOk(t, k, {}, F, R, n) /\ AwaitedOk(t, k.x)
      /\ k.x = task[t] /\ k.d = DcOf[t]
  BY StartOk DEF Mine
<1>2. i \in DOMAIN k.x.sent /\ k.x.sent[i].kind = kind /\ k.x.sent[i] = task[t].sent[i]
  BY FlightFact
<1>3. Success(t, i, slow, early) = Succeeded(k, i, slow, early)
  <2>1. k.x.sent[i] = task[t].sent[i]
    BY <1>2
  <2> QED
    BY <2>1 DEF Success, Succeeded
<1> HIDE DEF k, F, R, n
<1>4. ~isHashes(k.x.sent[i])
  BY <1>2 DEF isHashes
<1>5. LET e == Succeeded(k, i, slow, early)
          r == k.x.sent[i]
      IN  /\ SameElsewhere(k, e) /\ OnlySent(k.x, e.x) /\ e.d = k.d
          /\ CtxOk(t, e, {r.offset}, F, R, n)
          /\ AwaitedOk(t, k.x) => AwaitedOk(t, e.x)
          /\ r.offset \in Offsets
          /\ r.session \in 1 .. Len(e.mgr.balance[e.d].sessions)
  BY <1>1, <1>2, <1>4, SucceededOk
<1> DEFINE e == Succeeded(k, i, slow, early)
<1> HIDE DEF e
<1>6. /\ SameElsewhere(k, e) /\ OnlySent(task[t], e.x) /\ e.d = DcOf[t]
      /\ CtxOk(t, e, {task[t].sent[i].offset}, F, R, n) /\ AwaitedOk(t, e.x)
      /\ task[t].sent[i].offset \in Offsets
      /\ task[t].sent[i].session \in 1 .. Len(e.mgr.balance[e.d].sessions)
  BY <1>1, <1>2, <1>5 DEF e
<1>7. Success(t, i, slow, early) = e
  BY <1>3 DEF e
<1> QED
  BY <1>6, <1>7 DEF Mine, F, R, n, k

LEMMA RedirectOk ==
    ASSUME DownloadInv, NEW t \in Tasks, NEW i, NEW early \in BOOLEAN,
           NEW bad \in BOOLEAN, CdnRedirect(t, i, early, bad)
    PROVE  DownloadInv'
<1> DEFINE k == Context(t)
           r == task[t].sent[i]
           e == Success(t, i, FALSE, early)
           F == MyF(t)
           R == MyR(t)
           n == MyN(t)
<1>1. InFlight(t, i, "part")
  BY DEF CdnRedirect
<1>2. /\ pc = Idle /\ \A y : QueueStep(t, y)
  <2>1. queues' = queues
    BY DEF CdnRedirect
  <2> QED
    BY <1>1, <2>1, FlightFact
<1>3. PICK H \in SomeHashes(r.offset) :
        IF bad THEN H = {} /\ Apply(t, cancelOnFail(t, e))
          ELSE Apply(t, changeCDNParams(e, r, TRUE, H))
  BY DEF CdnRedirect
<1>4. /\ pc' = Sending(DcOf[t])
      /\ posted' = posted /\ posted \in Seq([dc : DcIds, index : Nat])
  BY DEF CdnRedirect, DownloadInv, AfterAnswer
<1>5. /\ SameElsewhere(k, e) /\ CtxOk(t, e, {r.offset}, F, R, n) /\ AwaitedOk(t, e.x)
      /\ r.offset \in Offsets
      /\ r.session \in 1 .. Len(e.mgr.balance[e.d].sessions)
  BY <1>1, SuccessFact DEF Mine
<1>6. RestOk(F, R, n)
  BY StartOk
<1>7. H \in SUBSET Offsets
  BY <1>5, SomeHashesFact
<1> HIDE DEF k, e, F, R, n, r
<1>8. CASE bad
  <2> DEFINE c == cancelOnFail(t, e)
  <2>1. FailGives(t, e, F, R, n)
    BY <1>5, <1>6, FailOk
  <2>2. SameElsewhere(k, c)
    BY <1>5, <2>1, SameChain DEF FailGives
  <2>3. Leaves(t, c)
    BY <2>1, <2>2 DEF Leaves, Mine, k, F, R, n, FailGives
  <2> HIDE DEF c
  <2>4. Apply(t, c)
    BY <1>3, <1>8 DEF c
  <2> QED
    BY <1>2, <1>4, <2>3, <2>4, HandlerOk
<1>9. CASE ~bad
  <2> DEFINE c == changeCDNParams(e, r, TRUE, H)
  <2>0. /\ TRUE \in BOOLEAN /\ (t \notin TokenErrors => TRUE = TRUE)
        /\ TRUE => t \in OnCdn
    BY DEF CdnRedirect
  <2>1. LET f == changeCDNParams(e, r, TRUE, H)
        IN  /\ SameSessions(e, f) /\ CtxOk(t, f, {}, F, R, n) /\ f.d = e.d
            /\ AwaitedOk(t, e.x) => AwaitedOk(t, f.x)
    BY <1>5, <1>6, <1>7, <2>0, ChangeOk
  <2>2. SameElsewhere(k, c)
    BY <1>5, <2>1, SameChain
  <2>3. Leaves(t, c)
    BY <1>5, <2>1, <2>2 DEF Leaves, Mine, k, F, R, n
  <2> HIDE DEF c
  <2>4. Apply(t, c)
    BY <1>3, <1>9 DEF c
  <2> QED
    BY <1>2, <1>4, <2>3, <2>4, HandlerOk
<1> QED
  BY <1>8, <1>9

(* Fields of a task the invariant does not look at. *)
LEMMA FieldFact ==
    ASSUME NEW c \in CtxSet, NEW v \in Int, NEW b \in BOOLEAN
    PROVE  /\ [c EXCEPT !.x.orphans = v] = [c EXCEPT !.x = [c.x EXCEPT !.orphans = v]]
           /\ SameTask(c.x, [c.x EXCEPT !.orphans = v])
           /\ [c.x EXCEPT !.orphans = v].failed = c.x.failed
           /\ [c.x EXCEPT !.orphans = v].hashPosted = c.x.hashPosted
           /\ [c EXCEPT !.x.known = b] = [c EXCEPT !.x = [c.x EXCEPT !.known = b]]
           /\ SameTask(c.x, [c.x EXCEPT !.known = b])
           /\ [c.x EXCEPT !.known = b].failed = c.x.failed
           /\ [c.x EXCEPT !.known = b].hashPosted = c.x.hashPosted
           /\ [c EXCEPT !.x.hashPosted = b] =
                [c EXCEPT !.x = [c.x EXCEPT !.hashPosted = b]]
           /\ SameTask(c.x, [c.x EXCEPT !.hashPosted = b])
           /\ SameTask(c.x, [c.x EXCEPT !.priority = v])
           /\ [c.x EXCEPT !.priority = v].failed = c.x.failed
           /\ [c.x EXCEPT !.priority = v].hashPosted = c.x.hashPosted
<1> DEFINE x == c.x
<1>1. x \in TaskSet
  BY CtxFact
<1>2. /\ [c EXCEPT !.x.orphans = v] = [c EXCEPT !.x = [c.x EXCEPT !.orphans = v]]
      /\ [c EXCEPT !.x.known = b] = [c EXCEPT !.x = [c.x EXCEPT !.known = b]]
      /\ [c EXCEPT !.x.hashPosted = b] =
                [c EXCEPT !.x = [c.x EXCEPT !.hashPosted = b]]
  OBVIOUS
<1> HIDE DEF x
<1>3. /\ SameTask(x, [x EXCEPT !.orphans = v])
      /\ [x EXCEPT !.orphans = v].failed = x.failed
      /\ [x EXCEPT !.orphans = v].hashPosted = x.hashPosted
  BY <1>1 DEF SameTask, TaskSet
<1>4. /\ SameTask(x, [x EXCEPT !.known = b])
      /\ [x EXCEPT !.known = b].failed = x.failed
      /\ [x EXCEPT !.known = b].hashPosted = x.hashPosted
  BY <1>1 DEF SameTask, TaskSet
<1>5. SameTask(x, [x EXCEPT !.hashPosted = b])
  BY <1>1 DEF SameTask, TaskSet
<1>6. /\ SameTask(x, [x EXCEPT !.priority = v])
      /\ [x EXCEPT !.priority = v].failed = x.failed
      /\ [x EXCEPT !.priority = v].hashPosted = x.hashPosted
  BY <1>1 DEF SameTask, TaskSet
<1> QED
  BY <1>2, <1>3, <1>4, <1>5, <1>6 DEF x

Untouched(t, c, e, P, F, R, n) ==
    /\ SameSessions(c, e) /\ CtxOk(t, e, P, F, R, n) /\ e.mgr = c.mgr
    /\ haveSentRequests(e.x) <=> haveSentRequests(c.x)

LEMMA FieldsOk ==
    ASSUME NEW F, NEW R, NEW n, RestOk(F, R, n), NEW t, NEW c, NEW P,
           CtxOk(t, c, P, F, R, n), NEW v \in Int, NEW b \in BOOLEAN
    PROVE  /\ Untouched(t, c, [c EXCEPT !.x.orphans = v], P, F, R, n)
           /\ AwaitedOk(t, c.x) => AwaitedOk(t, [c EXCEPT !.x.orphans = v].x)
           /\ Untouched(t, c, [c EXCEPT !.x.known = b], P, F, R, n)
           /\ AwaitedOk(t, c.x) => AwaitedOk(t, [c EXCEPT !.x.known = b].x)
           /\ Untouched(t, c, [c EXCEPT !.x.hashPosted = b], P, F, R, n)
           /\ Untouched(t, c, WithTask(c, [c.x EXCEPT !.priority = v]), P, F, R, n)
           /\ AwaitedOk(t, c.x) => AwaitedOk(t, [c.x EXCEPT !.priority = v])
<1>0. c \in CtxSet
  BY CtxOkFact
<1>1. ASSUME NEW y, SameTask(c.x, y)
      PROVE  /\ Untouched(t, c, [c EXCEPT !.x = y], P, F, R, n)
             /\ [c EXCEPT !.x = y].x = y
             /\ y.failed = c.x.failed /\ y.hashPosted = c.x.hashPosted =>
                  (AwaitedOk(t, c.x) => AwaitedOk(t, y))
  <2>1. SameGives(t, c, y, P, F, R, n)
    BY <1>1, SameTaskOk
  <2> QED
    BY <2>1 DEF Untouched, SameGives
<1> DEFINE y1 == [c.x EXCEPT !.orphans = v]
           y2 == [c.x EXCEPT !.known = b]
           y3 == [c.x EXCEPT !.hashPosted = b]
           y4 == [c.x EXCEPT !.priority = v]
<1>2. /\ [c EXCEPT !.x.orphans = v] = [c EXCEPT !.x = y1]
      /\ SameTask(c.x, y1) /\ y1.failed = c.x.failed
      /\ y1.hashPosted = c.x.hashPosted
      /\ [c EXCEPT !.x.known = b] = [c EXCEPT !.x = y2]
      /\ SameTask(c.x, y2) /\ y2.failed = c.x.failed
      /\ y2.hashPosted = c.x.hashPosted
      /\ [c EXCEPT !.x.hashPosted = b] = [c EXCEPT !.x = y3]
      /\ SameTask(c.x, y3)
      /\ SameTask(c.x, y4) /\ y4.failed = c.x.failed
      /\ y4.hashPosted = c.x.hashPosted
  BY <1>0, FieldFact
<1> HIDE DEF y1, y2, y3, y4
<1>3. /\ Untouched(t, c, [c EXCEPT !.x = y1], P, F, R, n)
      /\ [c EXCEPT !.x = y1].x = y1 /\ (AwaitedOk(t, c.x) => AwaitedOk(t, y1))
  BY <1>1, <1>2
<1>4. /\ Untouched(t, c, [c EXCEPT !.x = y2], P, F, R, n)
      /\ [c EXCEPT !.x = y2].x = y2 /\ (AwaitedOk(t, c.x) => AwaitedOk(t, y2))
  BY <1>1, <1>2
<1>5. Untouched(t, c, [c EXCEPT !.x = y3], P, F, R, n)
  BY <1>1, <1>2
<1>6. /\ Untouched(t, c, WithTask(c, y4), P, F, R, n)
      /\ (AwaitedOk(t, c.x) => AwaitedOk(t, y4))
  BY <1>1, <1>2 DEF WithTask
<1> DEFINE e1 == [c EXCEPT !.x.orphans = v]
           e2 == [c EXCEPT !.x.known = b]
           e3 == [c EXCEPT !.x.hashPosted = b]
<1>7. e1 = [c EXCEPT !.x = y1] /\ e2 = [c EXCEPT !.x = y2] /\ e3 = [c EXCEPT !.x = y3]
  BY <1>2
<1> HIDE DEF e1, e2, e3
<1>8. /\ Untouched(t, c, e1, P, F, R, n) /\ (AwaitedOk(t, c.x) => AwaitedOk(t, e1.x))
      /\ Untouched(t, c, e2, P, F, R, n) /\ (AwaitedOk(t, c.x) => AwaitedOk(t, e2.x))
      /\ Untouched(t, c, e3, P, F, R, n)
  BY <1>3, <1>4, <1>5, <1>7
<1> QED
  BY <1>6, <1>8 DEF e1, e2, e3, y4

LEMMA QueuedSame ==
    ASSUME DownloadInv, NEW t \in Tasks, queues' = queues, NEW y,
           haveSentRequests(y) => haveSentRequests(task[t])
    PROVE  QueueStep(t, y)
  BY DEF QueueStep, DownloadInv, QueueOk

(* Only the task changes. *)
LEMMA ApplyTask ==
    ASSUME DownloadInv, NEW t \in Tasks, NEW y, task' = [task EXCEPT ![t] = y],
           mgr' = mgr
    PROVE  /\ Apply(t, WithTask(Context(t), y))
           /\ WithTask(Context(t), y).x = y
  BY DEF Apply, WithTask, Context

LEMMA ReferenceFailedOk ==
    ASSUME DownloadInv, NEW t \in Tasks, NEW i, FileReferenceFailed(t, i)
    PROVE  DownloadInv'
<1> DEFINE k == Context(t)
           F == MyF(t)
           R == MyR(t)
           n == MyN(t)
           r == [task[t].sent[i] EXCEPT !.kind = "refresh"]
           q == [task[t].sent EXCEPT ![i] = r]
           y == [task[t] EXCEPT !.sent = q]
<1>1. InFlight(t, i, "part")
  BY DEF FileReferenceFailed
<1>2. /\ pc = Idle /\ QueueStep(t, y) /\ i \in DOMAIN k.x.sent
      /\ k.x.sent[i].kind = "part"
  <2>1. queues' = queues
    BY DEF FileReferenceFailed
  <2> QED
    BY <1>1, <2>1, FlightFact
<1>3. /\ RestOk(F, R, n) /\ CtxOk(t, k, {}, F, R, n) /\ AwaitedOk(t, k.x)
      /\ k.x = task[t] /\ task[t] \in TaskSet
  BY StartOk DEF Mine
<1>4. /\ pc' = pc /\ mgr' = mgr
      /\ posted' = posted /\ posted \in Seq([dc : DcIds, index : Nat])
      /\ task \in [Tasks -> TaskSet]
      /\ task' = [task EXCEPT ![t].sent[i].kind = "refresh"]
  BY DEF FileReferenceFailed, DownloadInv
<1>5. task' = [task EXCEPT ![t] = y]
  BY <1>4
<1>6. Apply(t, WithTask(k, y)) /\ WithTask(k, y).x = y
  <2> HIDE DEF y
  <2> QED
    BY <1>4, <1>5, ApplyTask
<1>7. /\ task[t].sent \in Seq(SentSet) /\ i \in 1 .. Len(task[t].sent)
      /\ task[t].sent[i] \in SentSet /\ task[t].sent[i].kind = "part"
  BY <1>2, <1>3, TaskFact
<1>8. /\ r \in SentSet /\ r.offset = task[t].sent[i].offset
      /\ r.session = task[t].sent[i].session
      /\ isHashes(r) <=> isHashes(task[t].sent[i])
      /\ r.kind # "cdn"
  BY <1>7 DEF SentSet, Kinds, isHashes
<1> HIDE DEF r
<1>9. q \in Seq(SentSet)
  BY <1>7, <1>8, ReplaceFact
<1> HIDE DEF q
<1>10. /\ y \in TaskSet /\ OnlySent(task[t], y) /\ y.sent = q
  BY <1>3, <1>9, SentFact
<1> HIDE DEF y, k, F, R, n
<1>11. /\ OnlySent(k.x, y) /\ y.sent = [k.x.sent EXCEPT ![i] = r]
       /\ r.offset = k.x.sent[i].offset /\ r.session = k.x.sent[i].session
       /\ isHashes(r) <=> isHashes(k.x.sent[i])
  BY <1>3, <1>8, <1>10 DEF q
<1>12. LET e == [k EXCEPT !.x = y]
       IN  /\ SameSessions(k, e) /\ CtxOk(t, e, {}, F, R, n) /\ e.d = k.d
           /\ e.x = y
           /\ AwaitedOk(t, k.x) => AwaitedOk(t, y)
           /\ haveSentRequests(y) <=> haveSentRequests(k.x)
  BY <1>2, <1>3, <1>8, <1>10, <1>11, KindOk
<1> DEFINE c == WithTask(k, y)
<1>13. Leaves(t, c)
  BY <1>3, <1>6, <1>12 DEF Leaves, Mine, k, F, R, n, SameSessions, WithTask
<1> HIDE DEF c
<1>14. Apply(t, c) /\ QueueStep(t, c.x)
  BY <1>2, <1>6 DEF c
<1> QED
  BY <1>2, <1>4, <1>13, <1>14, HandlerOk

LEMMA RefreshOk ==
    ASSUME DownloadInv, NEW t \in Tasks, NEW i, refreshFileReferenceFrom(t, i)
    PROVE  DownloadInv'
<1> DEFINE k == Context(t)
           r == k.x.sent[i]
           F == MyF(t)
           R == MyR(t)
           n == MyN(t)
           b == makeRequest(finishSentRequest(k, i), r.offset, r.session)
           a == partFailed(t, k, i)
           c == [a EXCEPT !.x.orphans = IF t \in Streams THEN @ ELSE @ - 1]
<1>1. InFlight(t, i, "refresh")
  BY DEF refreshFileReferenceFrom
<1>2. /\ pc = Idle /\ \A y : QueueStep(t, y)
      /\ i \in DOMAIN k.x.sent /\ r.kind = "refresh" /\ r = task[t].sent[i]
  <2>1. queues' = queues
    BY DEF refreshFileReferenceFrom
  <2> QED
    BY <1>1, <2>1, FlightFact
<1>3. /\ RestOk(F, R, n) /\ CtxOk(t, k, {}, F, R, n) /\ AwaitedOk(t, k.x)
  BY StartOk DEF Mine
<1>4. /\ pc' = pc /\ posted' = posted /\ posted \in Seq([dc : DcIds, index : Nat])
  BY DEF refreshFileReferenceFrom, DownloadInv
<1>5. Apply(t, b) \/ Apply(t, c)
  BY <1>2 DEF refreshFileReferenceFrom
<1> HIDE DEF k, F, R, n
<1>6. ~isHashes(k.x.sent[i]) /\ {} \in SUBSET Offsets
  BY <1>2 DEF isHashes
<1>7. Leaves(t, b)
  <2>1. AgainGives(t, k, i, {}, F, R, n)
    BY <1>2, <1>3, <1>6, SentAgain
  <2>2. SameSessions(k, b) /\ CtxOk(t, b, {}, F, R, n) /\ AwaitedOk(t, b.x)
    BY <2>1 DEF AgainGives
  <2> HIDE DEF b
  <2> QED
    BY <2>2 DEF Leaves, Mine, k, F, R, n, SameSessions
<1>8. Leaves(t, c)
  <2>1. LET e == partFailed(t, k, i)
        IN  SameSessions(k, e) /\ CtxOk(t, e, {}, F, R, n) /\ AwaitedOk(t, e.x)
    BY <1>2, <1>3, FailedOk
  <2>2. SameSessions(k, a) /\ CtxOk(t, a, {}, F, R, n) /\ AwaitedOk(t, a.x)
    BY <2>1
  <2> HIDE DEF a
  <2> DEFINE v == IF t \in Streams THEN a.x.orphans ELSE a.x.orphans - 1
  <2>3. v \in Int
    <3>1. a.x \in TaskSet
      BY <2>2, CtxOkFact
    <3> QED
      BY <3>1 DEF TaskSet
  <2>4. c = [a EXCEPT !.x.orphans = v]
    OBVIOUS
  <2> HIDE DEF v, c
  <2>5. /\ Untouched(t, a, [a EXCEPT !.x.orphans = v], {}, F, R, n)
        /\ AwaitedOk(t, a.x) => AwaitedOk(t, [a EXCEPT !.x.orphans = v].x)
    <3>1. TRUE \in BOOLEAN
      OBVIOUS
    <3> QED
      BY <1>3, <2>2, <2>3, <3>1, FieldsOk
  <2>6. SameSessions(a, c) /\ CtxOk(t, c, {}, F, R, n) /\ AwaitedOk(t, c.x)
    BY <2>2, <2>4, <2>5 DEF Untouched
  <2>7. SameElsewhere(k, c)
    BY <2>2, <2>6, SameChain
  <2> QED
    BY <2>6, <2>7 DEF Leaves, Mine, k, F, R, n
<1> HIDE DEF b, c
<1>9. CASE Apply(t, b)
  BY <1>2, <1>4, <1>7, <1>9, HandlerOk
<1>10. CASE Apply(t, c)
  BY <1>2, <1>4, <1>8, <1>10, HandlerOk
<1> QED
  BY <1>5, <1>9, <1>10

LEMMA TooLateOk ==
    ASSUME DownloadInv, NEW t \in Tasks, RefreshTooLate(t)
    PROVE  DownloadInv'
<1> DEFINE k == Context(t)
           F == MyF(t)
           R == MyR(t)
           n == MyN(t)
           c == [k EXCEPT !.x.orphans = @ - 1]
           e == cancelOnFail(t, c)
<1>1. /\ pc = Idle /\ queues' = queues
      /\ pc' = pc /\ posted' = posted /\ posted \in Seq([dc : DcIds, index : Nat])
  BY DEF RefreshTooLate, DownloadInv
<1>2. Apply(t, c) \/ Apply(t, e)
  BY DEF RefreshTooLate
<1>3. /\ RestOk(F, R, n) /\ CtxOk(t, k, {}, F, R, n) /\ AwaitedOk(t, k.x)
      /\ k.x = task[t] /\ task[t] \in TaskSet
  BY StartOk DEF Mine
<1> DEFINE v == k.x.orphans - 1
<1>4. v \in Int /\ c = [k EXCEPT !.x.orphans = v]
  BY <1>3 DEF TaskSet
<1> HIDE DEF k, F, R, n, v, c
<1>5. /\ Untouched(t, k, [k EXCEPT !.x.orphans = v], {}, F, R, n)
      /\ AwaitedOk(t, k.x) => AwaitedOk(t, [k EXCEPT !.x.orphans = v].x)
  <2>1. TRUE \in BOOLEAN
    OBVIOUS
  <2> QED
    BY <1>3, <1>4, <2>1, FieldsOk
<1>6. /\ SameSessions(k, c) /\ CtxOk(t, c, {}, F, R, n) /\ AwaitedOk(t, c.x)
      /\ haveSentRequests(c.x) => haveSentRequests(task[t])
  BY <1>3, <1>4, <1>5 DEF Untouched
<1>7. FailGives(t, c, F, R, n)
  BY <1>3, <1>6, FailOk
<1>8. /\ SameSessions(c, e) /\ CtxOk(t, e, {}, F, R, n) /\ AwaitedOk(t, e.x)
      /\ haveSentRequests(e.x) => haveSentRequests(task[t])
  BY <1>6, <1>7 DEF FailGives
<1> HIDE DEF e
<1>9. Leaves(t, c) /\ Leaves(t, e)
  <2>1. SameElsewhere(k, e) /\ SameElsewhere(k, c)
    BY <1>6, <1>8, SameChain DEF SameSessions
  <2> QED
    BY <1>6, <1>8, <2>1 DEF Leaves, Mine, k, F, R, n
<1>10. QueueStep(t, c.x) /\ QueueStep(t, e.x)
  BY <1>1, <1>6, <1>8, QueuedSame
<1>11. CASE Apply(t, c)
  BY <1>1, <1>9, <1>10, <1>11, HandlerOk
<1>12. CASE Apply(t, e)
  BY <1>1, <1>9, <1>10, <1>12, HandlerOk
<1> QED
  BY <1>2, <1>11, <1>12

LEMMA HashesPostedOk ==
    ASSUME DownloadInv, NEW t \in Tasks, MoreHashesPosted(t)
    PROVE  DownloadInv'
<1> DEFINE k == Context(t)
           F == MyF(t)
           R == MyR(t)
           n == MyN(t)
           c == [k EXCEPT !.x.hashPosted = FALSE]
           e == requestMoreCdnFileHashes(c)
<1>1. /\ pc = Idle /\ queues' = queues /\ Apply(t, e)
      /\ pc' = pc /\ posted' = posted /\ posted \in Seq([dc : DcIds, index : Nat])
  BY DEF MoreHashesPosted, DownloadInv
<1>2. /\ RestOk(F, R, n) /\ CtxOk(t, k, {}, F, R, n) /\ k.x = task[t]
  BY StartOk DEF Mine
<1> HIDE DEF k, F, R, n
<1>3. Untouched(t, k, [k EXCEPT !.x.hashPosted = FALSE], {}, F, R, n)
  <2>1. FALSE \in BOOLEAN /\ 0 \in Int
    OBVIOUS
  <2> QED
    BY <1>2, <2>1, FieldsOk
<1>4. /\ SameSessions(k, c) /\ CtxOk(t, c, {}, F, R, n)
      /\ haveSentRequests(c.x) => haveSentRequests(task[t])
  BY <1>2, <1>3 DEF Untouched
<1> HIDE DEF c
<1>5. LET f == requestMoreCdnFileHashes(c)
      IN  /\ SameSessions(c, f) /\ CtxOk(t, f, {}, F, R, n) /\ f.d = c.d
          /\ AwaitedOk(t, f.x)
          /\ haveSentRequests(f.x) => haveSentRequests(c.x)
  BY <1>2, <1>4, MoreHashesOk
<1>6. /\ SameSessions(c, e) /\ CtxOk(t, e, {}, F, R, n) /\ AwaitedOk(t, e.x)
      /\ haveSentRequests(e.x) => haveSentRequests(task[t])
  BY <1>4, <1>5
<1> HIDE DEF e
<1>7. Leaves(t, e)
  <2>1. SameElsewhere(k, e)
    BY <1>4, <1>6, SameChain
  <2> QED
    BY <1>6, <2>1 DEF Leaves, Mine, k, F, R, n
<1>8. QueueStep(t, e.x)
  BY <1>1, <1>6, QueuedSame
<1> QED
  BY <1>1, <1>7, <1>8, HandlerOk

(* A part that was loaded. *)
LEMMA PostFact ==
    ASSUME DownloadInv, NEW t \in Tasks, NEW i \in DOMAIN task[t].sent, NEW slow,
           PostTimeout(t, i, slow)
    PROVE  posted' \in Seq([dc : DcIds, index : Nat])
<1>1. posted \in Seq([dc : DcIds, index : Nat]) /\ DcOf[t] \in DcIds
  BY StartOk DEF DownloadInv
<1>2. task[t].sent[i].session \in Nat
  <2>1. task[t] \in TaskSet
    BY StartOk
  <2>2. task[t].sent[i] \in SentSet
    BY <2>1, TaskFact
  <2> QED
    BY <2>2 DEF SentSet
<1> DEFINE p == [dc |-> DcOf[t], index |-> task[t].sent[i].session]
<1>3. p \in [dc : DcIds, index : Nat]
  BY <1>1, <1>2
<1>4. posted' = posted \/ posted' = Append(posted, p)
  BY DEF PostTimeout
<1> DEFINE S == [dc : DcIds, index : Nat]
<1> HIDE DEF p, S
<1>5. posted \in Seq(S) /\ p \in S
  BY <1>1, <1>3 DEF S
<1>6. posted' \in Seq(S)
  BY <1>4, <1>5
<1> QED
  BY <1>6 DEF S

LEMMA LeaveFact ==
    ASSUME DownloadInv, NEW t \in Tasks, t \in QueuedIn(queues[DcOf[t]]), NEW f,
           f.d = DcOf[t], LeaveIfDone(t, f), NEW y,
           haveSentRequests(y) => haveSentRequests(f.x),
           f.x.done => ~haveSentRequests(f.x)
    PROVE  QueueStep(t, y)
<1>1. CASE f.x.done
  <2>1. queues' = [queues EXCEPT ![DcOf[t]] = RemoveTask(@, t)]
    BY <1>1 DEF LeaveIfDone
  <2>2. ~haveSentRequests(y)
    BY <1>1
  <2> QED
    BY <2>1, <2>2 DEF QueueStep
<1>2. CASE ~f.x.done
  <2>1. queues' = queues
    BY <1>2 DEF LeaveIfDone
  <2> QED
    BY <2>1 DEF QueueStep
<1> QED
  BY <1>1, <1>2

LEMMA FeedStep ==
    ASSUME DownloadInv, NEW t \in Tasks, pc = Idle, t \in QueuedIn(queues[DcOf[t]]),
           NEW c, NEW o \in Offsets, SameElsewhere(Context(t), c), c.d = DcOf[t],
           Mine(t, c, {o}), AwaitedOk(t, c.x), NEW short \in MayBeShort(t, o),
           \E e \in MayFailToFinalize(t, feedPart(t, c, o, short)) : Apply(t, e),
           LeaveIfDone(t, feedPart(t, c, o, short)),
           pc' = Sending(DcOf[t]), posted' \in Seq([dc : DcIds, index : Nat])
    PROVE  DownloadInv'
<1> DEFINE F == MyF(t)
           R == MyR(t)
           n == MyN(t)
           f == feedPart(t, c, o, short)
<1>1. RestOk(F, R, n) /\ CtxOk(t, c, {o}, F, R, n)
  BY StartOk DEF Mine
<1> HIDE DEF F, R, n
<1>2. LET g == feedPart(t, c, o, short)
      IN  /\ SameSessions(c, g) /\ CtxOk(t, g, {}, F, R, n) /\ g.d = c.d
          /\ AwaitedOk(t, c.x) => AwaitedOk(t, g.x)
          /\ haveSentRequests(g.x) <=> haveSentRequests(c.x)
          /\ g.x.done => ~haveSentRequests(g.x)
  BY <1>1, FeedOk
<1>3. /\ SameSessions(c, f) /\ CtxOk(t, f, {}, F, R, n) /\ f.d = DcOf[t]
      /\ AwaitedOk(t, f.x)
      /\ f.x.done => ~haveSentRequests(f.x)
  BY <1>2
<1>4. LeaveIfDone(t, f) /\ \E e \in MayFailToFinalize(t, f) : Apply(t, e)
  OBVIOUS
<1> HIDE DEF f
<1>5. PICK e \in MayFailToFinalize(t, f) : Apply(t, e)
  BY <1>4
<1>6. /\ SameSessions(f, e) /\ CtxOk(t, e, {}, F, R, n) /\ e.d = f.d
      /\ AwaitedOk(t, f.x) => AwaitedOk(t, e.x)
      /\ haveSentRequests(e.x) <=> haveSentRequests(f.x)
  BY <1>1, <1>3, FinalizeOk
<1>7. QueueStep(t, e.x)
  BY <1>3, <1>4, <1>6, LeaveFact
<1>8. Leaves(t, e)
  <2>1. SameElsewhere(Context(t), f)
    BY <1>3, SameChain
  <2>2. SameElsewhere(Context(t), e)
    BY <1>6, <2>1, SameChain
  <2> QED
    BY <1>3, <1>6, <2>2 DEF Leaves, Mine, F, R, n
<1> QED
  BY <1>5, <1>7, <1>8, HandlerOk

LEMMA FailStep ==
    ASSUME DownloadInv, NEW t \in Tasks, pc = Idle, t \in QueuedIn(queues[DcOf[t]]),
           NEW c, NEW P, SameElsewhere(Context(t), c), Mine(t, c, P),
           Apply(t, cancelOnFail(t, c)), queues' = queues,
           pc' = pc \/ pc' = Sending(DcOf[t]),
           posted' \in Seq([dc : DcIds, index : Nat])
    PROVE  DownloadInv'
<1> DEFINE F == MyF(t)
           R == MyR(t)
           n == MyN(t)
           e == cancelOnFail(t, c)
<1>1. RestOk(F, R, n) /\ CtxOk(t, c, P, F, R, n)
  BY StartOk DEF Mine
<1> HIDE DEF F, R, n
<1>2. FailGives(t, c, F, R, n)
  BY <1>1, FailOk
<1>3. SameElsewhere(Context(t), e)
  BY <1>2, SameChain DEF FailGives
<1>4. Leaves(t, e) /\ Apply(t, e)
  BY <1>2, <1>3 DEF Leaves, Mine, F, R, n, FailGives
<1> HIDE DEF e
<1>5. QueueStep(t, e.x)
  BY DEF QueueStep
<1> QED
  BY <1>4, <1>5, HandlerOk

LEMMA PartLoadedOk ==
    ASSUME DownloadInv, NEW t \in Tasks, NEW i, NEW slow \in BOOLEAN,
           NEW early \in BOOLEAN, NormalPartLoaded(t, i, slow, early)
    PROVE  DownloadInv'
<1> DEFINE o == task[t].sent[i].offset
           e == Success(t, i, slow, early)
           c == [e EXCEPT !.x.known = @ \/ t \in Web]
           F == MyF(t)
           R == MyR(t)
           n == MyN(t)
<1>1. InFlight(t, i, "part")
  BY DEF NormalPartLoaded
<1>2. /\ pc = Idle /\ t \in QueuedIn(queues[DcOf[t]]) /\ i \in DOMAIN task[t].sent
  BY <1>1, FlightFact DEF InFlight
<1>3. /\ \/ \E short \in MayBeShort(t, o) :
                 /\ \E a \in MayFailToFinalize(t, feedPart(t, c, o, short)) : Apply(t, a)
                 /\ LeaveIfDone(t, feedPart(t, c, o, short))
         \/ Apply(t, cancelOnFail(t, c)) /\ queues' = queues
      /\ pc' = Sending(DcOf[t]) /\ PostTimeout(t, i, slow)
  BY DEF NormalPartLoaded, AfterAnswer
<1>4. posted' \in Seq([dc : DcIds, index : Nat])
  BY <1>2, <1>3, PostFact
<1>5. /\ SameElsewhere(Context(t), e) /\ Mine(t, e, {o}) /\ AwaitedOk(t, e.x)
      /\ o \in Offsets /\ e.d = DcOf[t]
  BY <1>1, SuccessFact
<1>6. RestOk(F, R, n)
  BY StartOk
<1>7. CtxOk(t, e, {o}, F, R, n)
  BY <1>5 DEF Mine
<1> DEFINE b == e.x.known \/ t \in Web
<1>8. c = [e EXCEPT !.x.known = b] /\ b \in BOOLEAN
  OBVIOUS
<1> HIDE DEF e, b, o, c, F, R, n
<1>9. /\ Untouched(t, e, [e EXCEPT !.x.known = b], {o}, F, R, n)
      /\ AwaitedOk(t, e.x) => AwaitedOk(t, [e EXCEPT !.x.known = b].x)
  <2>1. 0 \in Int
    OBVIOUS
  <2> QED
    BY <1>6, <1>7, <1>8, <2>1, FieldsOk
<1>10. SameSessions(e, c) /\ CtxOk(t, c, {o}, F, R, n) /\ AwaitedOk(t, c.x)
  BY <1>5, <1>8, <1>9 DEF Untouched
<1>11. SameElsewhere(Context(t), c) /\ Mine(t, c, {o}) /\ c.d = DcOf[t]
  <2>1. SameElsewhere(Context(t), c)
    BY <1>5, <1>10, SameChain
  <2>2. c.d = e.d
    BY <1>10 DEF SameSessions, SameElsewhere
  <2> QED
    BY <1>5, <1>10, <2>1, <2>2 DEF Mine, F, R, n
<1>12. CASE \E short \in MayBeShort(t, o) :
              /\ \E a \in MayFailToFinalize(t, feedPart(t, c, o, short)) : Apply(t, a)
              /\ LeaveIfDone(t, feedPart(t, c, o, short))
  BY <1>2, <1>3, <1>4, <1>5, <1>10, <1>11, <1>12, FeedStep
<1>13. CASE Apply(t, cancelOnFail(t, c)) /\ queues' = queues
  BY <1>2, <1>3, <1>4, <1>11, <1>13, FailStep
<1> QED
  BY <1>3, <1>12, <1>13

LEMMA CdnLoadedOk ==
    ASSUME DownloadInv, NEW t \in Tasks, NEW i, NEW slow \in BOOLEAN,
           NEW early \in BOOLEAN, CdnPartLoaded(t, i, slow, early)
    PROVE  DownloadInv'
<1> DEFINE r == task[t].sent[i]
           o == task[t].sent[i].offset
           c == Success(t, i, slow, early)
           F == MyF(t)
           R == MyR(t)
           n == MyN(t)
<1>1. InFlight(t, i, "cdn")
  BY DEF CdnPartLoaded
<1>2. /\ pc = Idle /\ t \in QueuedIn(queues[DcOf[t]]) /\ i \in DOMAIN task[t].sent
      /\ r.kind = "cdn"
  BY <1>1, FlightFact DEF InFlight
<1>3. /\ \/ Apply(t, putAside(c, r)) /\ queues' = queues
         \/ \E short \in MayBeShort(t, o) :
                 /\ \E a \in MayFailToFinalize(t, feedPart(t, c, o, short)) : Apply(t, a)
                 /\ LeaveIfDone(t, feedPart(t, c, o, short))
         \/ Apply(t, cancelOnFail(t, c)) /\ queues' = queues
      /\ pc' = Sending(DcOf[t]) /\ PostTimeout(t, i, slow)
  BY DEF CdnPartLoaded, AfterAnswer
<1>4. posted' \in Seq([dc : DcIds, index : Nat])
  BY <1>2, <1>3, PostFact
<1>5. /\ SameElsewhere(Context(t), c) /\ Mine(t, c, {o}) /\ AwaitedOk(t, c.x)
      /\ o \in Offsets /\ c.d = DcOf[t] /\ OnlySent(task[t], c.x)
      /\ r.session \in 1 .. Len(c.mgr.balance[c.d].sessions)
  BY <1>1, SuccessFact
<1>6. t \notin TokenErrors => c.x.cdn
  <2>1. t \notin TokenErrors => Strict(t, task[t], {})
    BY StartOk DEF TaskOk, Pend
  <2>2. t \notin TokenErrors => task[t].cdn
    BY <1>2, <2>1 DEF Strict
  <2> QED
    BY <1>5, <2>2 DEF OnlySent
<1>7. RestOk(F, R, n)
  BY StartOk
<1>8. CtxOk(t, c, {r.offset}, F, R, n)
  BY <1>5 DEF Mine
<1> HIDE DEF c, F, R, n, o, r
<1>9. CASE \E short \in MayBeShort(t, o) :
             /\ \E a \in MayFailToFinalize(t, feedPart(t, c, o, short)) : Apply(t, a)
             /\ LeaveIfDone(t, feedPart(t, c, o, short))
  BY <1>2, <1>3, <1>4, <1>5, <1>9, FeedStep
<1>10. CASE Apply(t, cancelOnFail(t, c)) /\ queues' = queues
  BY <1>2, <1>3, <1>4, <1>5, <1>10, FailStep
<1>11. CASE Apply(t, putAside(c, r)) /\ queues' = queues
  <2> DEFINE e == putAside(c, r)
  <2>1. LET f == putAside(c, r)
        IN  /\ SameSessions(c, f) /\ CtxOk(t, f, {}, F, R, n) /\ f.d = c.d
            /\ AwaitedOk(t, f.x)
    BY <1>5, <1>6, <1>7, <1>8, AsideOk
  <2>2. SameElsewhere(Context(t), e)
    BY <1>5, <2>1, SameChain
  <2>3. Leaves(t, e) /\ Apply(t, e)
    BY <1>11, <2>1, <2>2 DEF Leaves, Mine, F, R, n
  <2> HIDE DEF e
  <2>4. QueueStep(t, e.x)
    BY <1>2, <1>11 DEF QueueStep
  <2> QED
    BY <1>2, <1>3, <1>4, <2>3, <2>4, HandlerOk
<1> QED
  BY <1>3, <1>9, <1>10, <1>11

LEMMA HashesDoneOk ==
    ASSUME DownloadInv, NEW t \in Tasks, NEW i, getCdnFileHashesDone(t, i)
    PROVE  DownloadInv'
<1> DEFINE k == Context(t)
           a == finishSentRequest(k, i)
           F == MyF(t)
           R == MyR(t)
           n == MyN(t)
           Done(c) ==
             \/ Apply(t, cancelOnFail(t, c)) /\ queues' = queues /\ pc' = pc
             \/ \E o : \E e \in feedChecked(t, c, o) :
                  Apply(t, cancelOnFail(t, e)) /\ queues' = queues /\ pc' = pc
             \/ \E o : \E f \in feedChecked(t, c, o) :
                  /\ \E e \in MayFailToFinalize(t, f) :
                       Apply(t, requestMoreCdnFileHashes(e))
                  /\ LeaveIfDone(t, f)
                  /\ pc' = IF f.x.done THEN Sending(DcOf[t]) ELSE pc
<1>1. InFlight(t, i, "hash")
  BY DEF getCdnFileHashesDone
<1>2. /\ pc = Idle /\ t \in QueuedIn(queues[DcOf[t]]) /\ i \in DOMAIN k.x.sent
      /\ k.x.sent[i].kind = "hash" /\ k.x.sent[i] = task[t].sent[i]
  BY <1>1, FlightFact
<1>3. PICK H \in SomeHashes(task[t].sent[i].offset) :
        Done([a EXCEPT !.x.hashes = @ \cup H])
  BY Zenon DEF getCdnFileHashesDone
<1>4. posted' \in Seq([dc : DcIds, index : Nat])
  BY DEF getCdnFileHashesDone, DownloadInv
<1>5. /\ RestOk(F, R, n) /\ CtxOk(t, k, {}, F, R, n) /\ AwaitedOk(t, k.x)
      /\ k.x = task[t] /\ k.d = DcOf[t]
  BY StartOk DEF Mine
<1> DEFINE c == [a EXCEPT !.x.hashes = @ \cup H]
<1>6. Done(c)
  BY <1>3
<1> HIDE DEF k, F, R, n
<1>7. isHashes(k.x.sent[i])
  BY <1>2 DEF isHashes
<1>8. TakenGives(t, k, i, F, R, n)
  BY <1>2, <1>5, TakenOff
<1>9. /\ SameSessions(k, a) /\ CtxOk(t, a, {}, F, R, n) /\ OnlySent(k.x, a.x)
      /\ t \notin Streams \/ t \notin TokenErrors => ~hashesRequested(a.x)
      /\ task[t].sent[i].offset \in Offsets
  BY <1>2, <1>7, <1>8 DEF TakenGives
<1>10. H \in SUBSET Offsets
  BY <1>9, SomeHashesFact
<1>11. ~a.x.done
  <2>1. TaskBase(t, k.x, {})
    BY <1>5, CtxOkFact
  <2>2. haveSentRequests(k.x)
    <3>1. k.x \in TaskSet
      BY <1>5, CtxOkFact
    <3>2. k.x.sent \in Seq(SentSet) /\ DOMAIN k.x.sent = 1 .. Len(k.x.sent)
      BY <3>1, TaskFact
    <3>3. k.x.sent # <<>>
      BY <1>2, <3>2
    <3> QED
      BY <3>3 DEF haveSentRequests
  <2>3. ~k.x.done
    BY <2>1, <2>2 DEF TaskBase, FileOk
  <2> QED
    BY <1>9, <2>3 DEF OnlySent
<1> HIDE DEF a
<1>12. HashesGive(t, a, {}, H, F, R, n)
  BY <1>5, <1>9, <1>10, HashesOk
<1>13. /\ SameSessions(a, c) /\ CtxOk(t, c, {}, F, R, n)
       /\ t \notin Streams \/ t \notin TokenErrors => ~hashesRequested(c.x)
  BY <1>9, <1>12 DEF HashesGive
<1>14. ~c.x.done
  <2>1. a \in CtxSet /\ a.x \in TaskSet
    BY <1>9, CtxOkFact
  <2>2. c.x.done = a.x.done
    BY <2>1 DEF CtxSet, TaskSet
  <2> QED
    BY <1>11, <2>2
<1> HIDE DEF c
<1>15. SameSessions(k, c)
  BY <1>9, <1>13, SameChain
<1>16. CASE Apply(t, cancelOnFail(t, c)) /\ queues' = queues /\ pc' = pc
  <2>1. SameElsewhere(Context(t), c) /\ Mine(t, c, {})
    BY <1>13, <1>15 DEF Mine, F, R, n, k, SameSessions
  <2> QED
    BY <1>2, <1>4, <1>16, <2>1, FailStep
<1>17. ASSUME NEW o, NEW e \in feedChecked(t, c, o)
       PROVE  /\ SameSessions(k, e) /\ CtxOk(t, e, {}, F, R, n)
              /\ e.x.done => ~haveSentRequests(e.x)
              /\ e.d = DcOf[t]
  <2>1. /\ SameSessions(c, e) /\ CtxOk(t, e, {}, F, R, n)
        /\ e.x.done => ~haveSentRequests(e.x)
    BY <1>5, <1>13, <1>14, FeedCheckedOk
  <2>2. SameSessions(k, e)
    BY <1>15, <2>1, SameChain
  <2>3. e.d = DcOf[t]
    BY <1>5, <2>2 DEF SameSessions, SameElsewhere
  <2> QED
    BY <2>1, <2>2, <2>3
<1>18. ASSUME NEW o, NEW e \in feedChecked(t, c, o),
              Apply(t, cancelOnFail(t, e)), queues' = queues, pc' = pc
       PROVE  DownloadInv'
  <2>1. SameElsewhere(Context(t), e) /\ Mine(t, e, {})
    BY <1>17 DEF Mine, F, R, n, k, SameSessions
  <2> QED
    BY <1>2, <1>4, <1>18, <2>1, FailStep
<1>19. ASSUME NEW o, NEW f \in feedChecked(t, c, o), NEW e \in MayFailToFinalize(t, f),
              Apply(t, requestMoreCdnFileHashes(e)), LeaveIfDone(t, f),
              pc' = IF f.x.done THEN Sending(DcOf[t]) ELSE pc
       PROVE  DownloadInv'
  <2>1. /\ SameSessions(k, f) /\ CtxOk(t, f, {}, F, R, n)
        /\ f.x.done => ~haveSentRequests(f.x)
        /\ f.d = DcOf[t]
    BY <1>17
  <2>2. /\ SameSessions(f, e) /\ CtxOk(t, e, {}, F, R, n) /\ e.d = f.d
        /\ AwaitedOk(t, f.x) => AwaitedOk(t, e.x)
        /\ haveSentRequests(e.x) <=> haveSentRequests(f.x)
    BY <1>5, <2>1, FinalizeOk
  <2> DEFINE g == requestMoreCdnFileHashes(e)
  <2>3. LET h == requestMoreCdnFileHashes(e)
        IN  /\ SameSessions(e, h) /\ CtxOk(t, h, {}, F, R, n) /\ h.d = e.d
            /\ AwaitedOk(t, h.x)
            /\ haveSentRequests(h.x) => haveSentRequests(e.x)
    BY <1>5, <2>2, MoreHashesOk
  <2>4. /\ SameSessions(e, g) /\ CtxOk(t, g, {}, F, R, n) /\ AwaitedOk(t, g.x)
        /\ haveSentRequests(g.x) => haveSentRequests(f.x)
        /\ Apply(t, g)
    BY <1>19, <2>2, <2>3
  <2> HIDE DEF g
  <2>5. SameSessions(k, e)
    BY <2>1, <2>2, SameChain
  <2>6. SameElsewhere(k, g)
    BY <2>4, <2>5, SameChain
  <2>7. Leaves(t, g)
    BY <2>4, <2>6 DEF Leaves, Mine, F, R, n, k
  <2>8. QueueStep(t, g.x)
    BY <1>2, <1>19, <2>1, <2>4, LeaveFact
  <2>9. pc' = pc \/ pc' = Sending(DcOf[t])
    BY <1>19
  <2> QED
    BY <1>2, <1>4, <2>4, <2>7, <2>8, <2>9, HandlerOk
<1> QED
  BY <1>6, <1>16, <1>18, <1>19

-----------------------------------------------------------------------------
(* The loops. *)
LEMMA RequestedFact ==
    ASSUME DownloadInv, NEW d \in DcIds
    PROVE  LET b == mgr.balance[d]
           IN  /\ b \in BalanceSet /\ Len(b.sessions) \in Nat /\ Len(b.sessions) >= 1
               /\ DOMAIN b.sessions = 1 .. Len(b.sessions)
               /\ \A k \in 1 .. Len(b.sessions) : b.sessions[k].requested \in Nat
<1> DEFINE b == mgr.balance[d]
           n == Len(b.sessions)
           closing == (pc = Removing(d))
<1>1. b \in BalanceSet
  BY DEF DownloadInv, MgrSet
<1>2. n \in Nat /\ DOMAIN b.sessions = 1 .. n
  BY <1>1, SessionsFact
<1>3. BalancedAt(task, mgr, d, closing) /\ closing \in BOOLEAN
  BY DEF DownloadInv, Balanced
<1>4. /\ n >= 1 /\ IsFiniteSet(FlyingIn(task, d))
      /\ \A k \in 1 .. n : b.sessions[k].requested =
           Cardinality(FlyingAt(task, d, k)) + Extra(closing, k, n)
  BY <1>3 DEF BalancedAt
<1> HIDE DEF closing
<1>5. ASSUME NEW k PROVE Cardinality(FlyingAt(task, d, k)) \in Nat
  <2>1. FlyingAt(task, d, k) \subseteq FlyingIn(task, d)
    BY DEF FlyingAt, FlyingIn, In
  <2>2. IsFiniteSet(FlyingAt(task, d, k))
    BY <1>4, <2>1, FS_Subset
  <2> QED
    BY <2>2, FS_CardinalityType
<1>6. ASSUME NEW k PROVE Extra(closing, k, n) \in Nat
  BY <1>3, ExtraFact
<1> HIDE DEF b, n
<1>7. \A k \in 1 .. n : b.sessions[k].requested \in Nat
  BY <1>4, <1>5, <1>6
<1> QED
  BY <1>1, <1>2, <1>4, <1>7 DEF b, n

LEMMA BestFact ==
    ASSUME NEW b \in BalanceSet, Len(b.sessions) \in Nat, Len(b.sessions) >= 1,
           DOMAIN b.sessions = 1 .. Len(b.sessions),
           \A k \in 1 .. Len(b.sessions) : b.sessions[k].requested \in Nat
    PROVE  /\ bestIndex(b) # 0 => bestIndex(b) \in 1 .. Len(b.sessions)
           /\ chooseSessionIndex(b) \in 1 .. Len(b.sessions)
<1> DEFINE n == Len(b.sessions)
           f == [i \in 1 .. n |->
                  IF b.sessions[i].requested < b.sessions[i].maxWaited
                    THEN b.sessions[i].requested ELSE MaxWaited]
           g == [i \in 1 .. n |-> b.sessions[i].requested]
<1>1. f \in [1 .. n -> Nat]
  BY BalanceAssumption
<1>2. g \in [1 .. n -> Nat]
  OBVIOUS
<1>3. /\ bestIndex(b) = IF b.sessions[FirstLeast(f)].requested + 1
                              <= b.sessions[FirstLeast(f)].maxWaited
                           THEN FirstLeast(f) ELSE 0
      /\ chooseSessionIndex(b) = FirstLeast(g)
  BY DEF bestIndex, chooseSessionIndex, Requested
<1> HIDE DEF f, g
<1>4. FirstLeast(f) \in 1 .. n /\ FirstLeast(g) \in 1 .. n
  BY <1>1, <1>2, FirstLeastFact
<1> QED
  BY <1>3, <1>4

LEMMA OtherwiseOk ==
    ASSUME DownloadInv, mgr' = mgr, task' = task, QueueOk',
           posted' \in Seq([dc : DcIds, index : Nat]), pc' = Idle \/
             pc' = pc \/ \E d \in DcIds : pc' = Sending(d),
           \A d \in DcIds : pc = Removing(d) => pc' = pc
    PROVE  DownloadInv'
<1>1. ASSUME NEW d \in DcIds PROVE (pc' = Removing(d)) <=> (pc = Removing(d))
  BY PcFact
<1>2. Balanced'
  <2>1. ASSUME NEW d \in DcIds PROVE BalancedAt(task', mgr', d, pc' = Removing(d))
    <3> DEFINE closing == (pc = Removing(d))
    <3>1. (pc' = Removing(d)) = closing
      BY <1>1
    <3>2. BalancedAt(task, mgr, d, closing)
      BY DEF DownloadInv, Balanced
    <3> HIDE DEF closing
    <3> QED
      BY <3>1, <3>2
  <2> QED
    BY <2>1 DEF Balanced, BalancedAt, FlyingIn, FlyingAt, In, Sits, Extra
<1>3. PcOk'
  <2>1. CASE pc' = pc
    BY <2>1 DEF PcOk, DownloadInv
  <2>2. CASE pc' # pc
    BY <2>2 DEF PcOk
  <2> QED
    BY <2>1, <2>2
<1>4. TasksOk'
  <2>1. \A u \in Tasks : TaskOk(u, task'[u])
    BY DEF DownloadInv, TasksOk
  <2> QED
    BY <2>1 DEF TasksOk
<1> QED
  BY <1>2, <1>3, <1>4 DEF DownloadInv, KillOk

(* A queue that stays as it is. *)
LEMMA SameQueues ==
    ASSUME DownloadInv, queues' = queues, task' = task
    PROVE  QueueOk'
<1>1. QueueOk
  BY DEF DownloadInv
<1> QED
  BY <1>1 DEF QueueOk, QueuedIn, haveSentRequests

(* One part is sent. *)
LEMMA SendOk ==
    ASSUME DownloadInv, NEW t \in Tasks, pc # Removing(DcOf[t]), NEW y, NEW o,
           Pend(t, y, {o}), AwaitedOk(t, y), SameRequests(task[t], y),
           NEW s \in 1 .. Len(mgr.balance[DcOf[t]].sessions),
           Apply(t, makeRequest(WithTask(Context(t), y), o, s)),
           t \in QueuedIn(queues[DcOf[t]]), queues' = queues, pc' = pc,
           posted' = posted
    PROVE  DownloadInv'
<1> DEFINE k == Context(t)
           F == MyF(t)
           R == MyR(t)
           n == MyN(t)
           a == WithTask(k, y)
           c == makeRequest(a, o, s)
<1>1. /\ RestOk(F, R, n) /\ CtxOk(t, k, {}, F, R, n) /\ k.x = task[t]
      /\ k.mgr = mgr /\ k.d = DcOf[t]
  BY StartOk DEF Mine
<1> HIDE DEF k, F, R, n
<1>2. SameSessions(k, WithTask(k, y)) /\ CtxOk(t, WithTask(k, y), {o}, F, R, n)
  <2>1. SameRequests(k.x, y)
    BY <1>1
  <2> QED
    BY <1>1, <2>1, WithOk
<1>3. a.x = y /\ s \in 1 .. Len(a.mgr.balance[a.d].sessions)
  <2>1. k \in CtxSet
    BY <1>1, CtxOkFact
  <2>2. a.x = y /\ a.mgr = k.mgr /\ a.d = k.d
    BY <2>1 DEF WithTask, CtxSet
  <2> QED
    BY <1>1, <2>2
<1>a. CtxOk(t, a, {o}, F, R, n) /\ SameSessions(k, a) /\ AwaitedOk(t, a.x)
  BY <1>2, <1>3
<1>b. Apply(t, c)
  BY DEF k
<1> HIDE DEF a
<1>4. LET f == makeRequest(a, o, s)
      IN  /\ SameSessions(a, f) /\ CtxOk(t, f, {}, F, R, n) /\ f.d = a.d
          /\ AwaitedOk(t, a.x) => AwaitedOk(t, f.x)
  BY <1>1, <1>3, <1>a, MakeOk
<1>5. SameElsewhere(k, c) /\ CtxOk(t, c, {}, F, R, n) /\ AwaitedOk(t, c.x)
  BY <1>4, <1>a, SameChain
<1> HIDE DEF c
<1>6. SameElsewhere(Context(t), c) /\ Mine(t, c, {})
  BY <1>5 DEF Mine, F, R, n, k
<1>7. QueueStep(t, c.x) /\ PcStep(t) /\ posted' \in Seq([dc : DcIds, index : Nat])
  BY DEF QueueStep, PcStep, DownloadInv
<1> QED
  BY <1>5, <1>6, <1>7, <1>b, StepOk

LEMMA TrySendOk ==
    ASSUME DownloadInv, NEW d \in DcIds, TrySendNextPart(d)
    PROVE  DownloadInv'
<1> DEFINE best == bestIndex(mgr.balance[d])
           may == Candidates(d)
           j == CHOOSE i \in may : \A m \in may : i <= m
           t == queues[d][j].task
           x == task[t]
<1>1. /\ pc = Sending(d) /\ queues' = queues /\ posted' = posted
      /\ posted \in Seq([dc : DcIds, index : Nat])
  BY DEF TrySendNextPart, DownloadInv
<1>2. IF best = 0 \/ may = {}
        THEN pc' = Idle /\ mgr' = mgr /\ task' = task
        ELSE /\ IF t \in Streams
                  THEN \E o \in x.wanted :
                         Apply(t, makeRequest(
                           [Context(t) EXCEPT !.x.wanted = @ \ {o}], o, best))
                  ELSE Apply(t, makeRequest(
                         [Context(t) EXCEPT !.x.next = @ + 1], x.next, best))
             /\ pc' = pc
  BY Zenon DEF TrySendNextPart
<1>3. CASE best = 0 \/ may = {}
  <2>1. pc' = Idle /\ mgr' = mgr /\ task' = task
    BY <1>2, <1>3
  <2>2. QueueOk'
    BY <1>1, <2>1, SameQueues
  <2>3. \A e \in DcIds : pc = Removing(e) => pc' = pc
    BY <1>1, PcFact
  <2> QED
    BY <1>1, <2>1, <2>2, <2>3, OtherwiseOk
<1>4. CASE ~(best = 0 \/ may = {})
  <2>1. best \in 1 .. Len(mgr.balance[d].sessions)
    <3> DEFINE b == mgr.balance[d]
    <3>1. /\ b \in BalanceSet /\ Len(b.sessions) \in Nat /\ Len(b.sessions) >= 1
          /\ DOMAIN b.sessions = 1 .. Len(b.sessions)
          /\ \A k \in 1 .. Len(b.sessions) : b.sessions[k].requested \in Nat
      BY RequestedFact
    <3>2. bestIndex(b) # 0
      BY <1>4
    <3> HIDE DEF b
    <3>3. bestIndex(b) \in 1 .. Len(b.sessions)
      BY <3>1, <3>2, BestFact
    <3> QED
      BY <3>3 DEF b
  <2>2. queues[d] \in Seq(Entry) /\ \A u \in QueuedIn(queues[d]) : DcOf[u] = d
    BY DEF DownloadInv, QueueOk
  <2>3. j \in may
    <3>1. may \in SUBSET Nat
      <4>1. DOMAIN queues[d] = 1 .. Len(queues[d])
        BY <2>2
      <4> QED
        BY <4>1 DEF Candidates
    <3> HIDE DEF may
    <3>2. \E i \in may : \A m \in may : i <= m
      BY <1>4, <3>1, LeastOf
    <3> QED
      BY <3>2
  <2>4. j \in DOMAIN queues[d] /\ readyToRequest(t)
    <3> HIDE DEF j
    <3>1. j \in Candidates(d)
      BY <2>3
    <3>2. j \in DOMAIN queues[d] /\ readyToRequest(queues[d][j].task)
      BY <3>1, Zenon DEF Candidates
    <3> QED
      BY <3>2
  <2>5. t \in QueuedIn(queues[d]) /\ t \in Tasks
    <3>1. queues[d][j] \in Entry
      BY <2>2, <2>4
    <3> QED
      BY <2>4, <3>1 DEF QueuedIn, Entry
  <2>6. DcOf[t] = d
    BY <2>2, <2>5
  <2>7. /\ IF t \in Streams
             THEN \E o \in x.wanted :
                    Apply(t, makeRequest(
                      [Context(t) EXCEPT !.x.wanted = @ \ {o}], o, best))
             ELSE Apply(t, makeRequest(
                    [Context(t) EXCEPT !.x.next = @ + 1], x.next, best))
        /\ pc' = pc
    BY <1>2, <1>4
  <2> HIDE DEF best, may, j, t
  <2>8. /\ TaskOk(t, x) /\ x \in TaskSet /\ Context(t).x = x
        /\ Pend(t, x, {}) /\ AwaitedOk(t, x)
    BY <2>5, StartOk DEF TaskOk
  <2>9. pc # Removing(DcOf[t])
    BY <1>1, PcFact
  <2>10. CASE t \in Streams
    <3>1. PICK o \in x.wanted :
            Apply(t, makeRequest([Context(t) EXCEPT !.x.wanted = @ \ {o}], o, best))
      BY <2>7, <2>10
    <3> DEFINE y == [x EXCEPT !.wanted = x.wanted \ {o}]
    <3>2. [Context(t) EXCEPT !.x.wanted = @ \ {o}] = WithTask(Context(t), y)
      BY <2>8 DEF WithTask, Context
    <3>3. x.wanted \in SUBSET Offsets
      BY <2>8, TaskFact
    <3> DEFINE W == x.wanted \ {o}
               P == {o}
    <3>4. /\ W \in SUBSET Offsets /\ P \in SUBSET Offsets
          /\ \A p \in W \cup P : p \in x.wanted \/ ~haveSentRequestForOffset(x, p)
          /\ \A p \in P : p \notin W
          /\ y = [x EXCEPT !.wanted = W]
      BY <3>3
    <3> HIDE DEF W, P, y
    <3>5. Pend(t, y, P) /\ AwaitedOk(t, y) /\ SameRequests(x, y)
      BY <2>8, <2>10, <3>4, WantedOk
    <3>6. Pend(t, y, {o}) /\ Apply(t, makeRequest(WithTask(Context(t), y), o, best))
      BY <3>1, <3>2, <3>5 DEF P
    <3> QED
      BY <1>1, <2>1, <2>5, <2>6, <2>7, <2>9, <3>5, <3>6, SendOk
  <2>11. CASE t \notin Streams
    <3> DEFINE y == [x EXCEPT !.next = x.next + 1]
    <3>1. Apply(t, makeRequest([Context(t) EXCEPT !.x.next = @ + 1], x.next, best))
      BY <2>7, <2>11
    <3>2. [Context(t) EXCEPT !.x.next = @ + 1] = WithTask(Context(t), y)
      BY <2>8 DEF WithTask, Context
    <3>3. /\ ~x.finished /\ ~x.last
          /\ x.known \/ ~haveSentRequests(x)
          /\ x.known => x.next <= Parts[t]
      BY <2>4, <2>11 DEF readyToRequest
    <3>4. y = [x EXCEPT !.next = x.next + 1] /\ t \in Tasks \ Streams
      BY <2>5, <2>11
    <3> HIDE DEF y
    <3>5. /\ x.next \in Offsets /\ Pend(t, y, {x.next}) /\ AwaitedOk(t, y)
          /\ SameRequests(x, y)
      BY <2>8, <3>3, <3>4, NextFile
    <3>6. Apply(t, makeRequest(WithTask(Context(t), y), x.next, best))
      BY <3>1, <3>2
    <3> QED
      BY <1>1, <2>1, <2>5, <2>6, <2>7, <2>9, <3>5, <3>6, SendOk
  <2> QED
    BY <2>10, <2>11
<1> QED
  BY <1>3, <1>4

(* Every session of a good context may be chosen. *)
LEMMA ChosenFact ==
    ASSUME NEW F, NEW R, NEW n, RestOk(F, R, n), NEW c, Good(c, F, R, n), n >= 1
    PROVE  chooseSessionIndex(c.mgr.balance[c.d]) \in
             1 .. Len(c.mgr.balance[c.d].sessions)
<1> DEFINE b == c.mgr.balance[c.d]
           s == c.x.sent
<1>1. c \in CtxSet /\ Len(b.sessions) >= n /\ Counted(b, s, F, R)
  BY DEF Good
<1>2. b \in BalanceSet /\ s \in Seq(SentSet)
  BY <1>1, CtxFact, TaskFact
<1> HIDE DEF b, s
<1>3. Len(b.sessions) \in Nat /\ DOMAIN b.sessions = 1 .. Len(b.sessions)
  BY <1>2, SessionsFact
<1>4. n \in Nat /\ \A k \in 1 .. Len(b.sessions) : F[k] \in Nat
  BY <1>3, RestFact
<1>5. \A k \in 1 .. Len(b.sessions) : b.sessions[k].requested \in Nat
  <2> TAKE k \in 1 .. Len(b.sessions)
  <2>1. b.sessions[k].requested = Cardinality(In(s, k)) + F[k]
    BY <1>1 DEF Counted
  <2>2. Cardinality(In(s, k)) \in Nat
    BY <1>2, InFinite
  <2> QED
    BY <1>4, <2>1, <2>2
<1>6. Len(b.sessions) >= 1
  BY <1>1, <1>3, <1>4
<1>7. chooseSessionIndex(b) \in 1 .. Len(b.sessions)
  BY <1>2, <1>3, <1>5, <1>6, BestFact
<1> QED
  BY <1>7 DEF b

LEMMA MoveOk ==
    ASSUME DownloadInv, NEW t \in Tasks, MoveRequest(t)
    PROVE  DownloadInv'
<1> DEFINE d == DcOf[t]
           n == Len(mgr.balance[d].sessions)
           x == task[t]
           k == Context(t)
           F == MyF(t)
           R == MyR(t)
           m == MyN(t)
           aside == {u \in x.unchecked : u.session = n}
           s == chooseSessionIndex(mgr.balance[d])
           i == CHOOSE j \in SentIn(x, n) : \A h \in SentIn(x, n) : j <= h
           c == cancelRequest(k, i)
           y == [x EXCEPT !.unchecked =
                   (x.unchecked \ aside) \cup {[u EXCEPT !.session = s] : u \in aside}]
           MoveAside ==
             /\ aside # {} /\ mgr' = mgr
             /\ task' = [task EXCEPT ![t].unchecked =
                  (@ \ aside) \cup {[u EXCEPT !.session = s] : u \in aside}]
           MoveSent ==
             /\ SentIn(x, n) # {}
             /\ Apply(t, IF isHashes(x.sent[i]) THEN c
                           ELSE makeRequest(c, x.sent[i].offset,
                                  chooseSessionIndex(c.mgr.balance[d])))
<1>1. /\ pc = Removing(d) /\ t \in QueuedIn(queues[d]) /\ queues' = queues /\ pc' = pc
      /\ posted' = posted /\ posted \in Seq([dc : DcIds, index : Nat])
  <2>1. /\ pc = Removing(d) /\ t \in QueuedIn(queues[d])
        /\ UNCHANGED <<queues, resets, pc, posted, events>>
    BY Zenon DEF MoveRequest, Queued, QueuedIn
  <2> QED
    BY <2>1 DEF DownloadInv
<1>2. MoveAside \/ MoveSent
  BY Zenon DEF MoveRequest
<1>3. /\ RestOk(F, R, m) /\ CtxOk(t, k, {}, F, R, m) /\ AwaitedOk(t, k.x)
      /\ k.x = x /\ x \in TaskSet /\ k.mgr = mgr /\ k.d = d /\ d \in DcIds
  BY StartOk DEF Mine
<1>4. m = n /\ m \in Nat /\ m >= 1
  <2>1. n \in Nat /\ n >= 1
    BY <1>3, RequestedFact
  <2> QED
    BY <2>1 DEF MyN, NOf
<1>5. Good(k, F, R, m) /\ k \in CtxSet
  BY <1>3, CtxOkFact
<1>6. \A z : QueueStep(t, z)
  BY <1>1 DEF QueueStep
<1>7. PcStep(t)
  BY <1>1 DEF PcStep
<1>8. ASSUME NEW e, SameSessions(k, e), CtxOk(t, e, {}, F, R, m), AwaitedOk(t, e.x),
             Apply(t, e)
      PROVE  DownloadInv'
  <2>1. Mine(t, e, {}) /\ SameElsewhere(Context(t), e) /\ SameSessions(Context(t), e)
    BY <1>8 DEF Mine, SameSessions
  <2> QED
    BY <1>1, <1>6, <1>7, <1>8, <2>1, StepOk
<1>9. s \in 1 .. n
  <2>1. chooseSessionIndex(k.mgr.balance[k.d]) \in 1 .. Len(k.mgr.balance[k.d].sessions)
    <3> HIDE DEF k, F, R, m
    <3> QED
      BY <1>3, <1>4, <1>5, ChosenFact
  <2> QED
    BY <1>3, <2>1
<1>10. CASE MoveAside
  <2>1. aside \in SUBSET x.unchecked
    OBVIOUS
  <2>2. Sits(x, n)
    BY <1>3, <1>5 DEF Good
  <2> HIDE DEF aside, s, n, x, k, F, R, m
  <2>3. Moved(x, [x EXCEPT !.unchecked =
                    (x.unchecked \ aside) \cup
                      {[u EXCEPT !.session = s] : u \in aside}], n)
    BY <1>3, <1>4, <1>9, <2>1, <2>2, MovedFact
  <2>4. task' = [task EXCEPT ![t] = y]
    BY <1>10 DEF x
  <2>5. Moved(x, y, n)
    BY <2>3
  <2> HIDE DEF y
  <2>6. Apply(t, WithTask(k, y)) /\ WithTask(k, y).x = y
    BY <1>10, <2>4, ApplyTask DEF k
  <2>7. Moved(k.x, y, Len(k.mgr.balance[k.d].sessions))
    BY <1>3, <2>5 DEF n
  <2>8. /\ SameSessions(k, WithTask(k, y)) /\ CtxOk(t, WithTask(k, y), {}, F, R, m)
        /\ AwaitedOk(t, k.x) => AwaitedOk(t, y)
        /\ haveSentRequests(y) => haveSentRequests(k.x)
    BY <1>3, <2>7, MoveAsideOk
  <2> DEFINE e == WithTask(k, y)
  <2>9. /\ SameSessions(k, e) /\ CtxOk(t, e, {}, F, R, m) /\ AwaitedOk(t, e.x)
        /\ Apply(t, e)
    BY <1>3, <2>6, <2>8
  <2> HIDE DEF e
  <2> QED
    BY <1>8, <2>9
<1>11. CASE MoveSent
  <2>1. i \in SentIn(x, n)
    <3> DEFINE S == SentIn(x, n)
    <3>1. S \in SUBSET Nat
      <4>1. DOMAIN x.sent = 1 .. Len(x.sent)
        BY <1>3, TaskFact
      <4> QED
        BY <4>1 DEF SentIn
    <3>2. S # {}
      BY <1>11, Zenon
    <3> HIDE DEF S
    <3>3. \E j \in S : \A h \in S : j <= h
      BY <3>1, <3>2, LeastOf
    <3> QED
      BY <3>3 DEF S
  <2>2. i \in DOMAIN k.x.sent /\ k.x.sent[i] = x.sent[i]
    <3> HIDE DEF i
    <3>1. i \in DOMAIN x.sent
      BY <2>1 DEF SentIn
    <3> QED
      BY <1>3, <3>1
  <2> DEFINE o == x.sent[i].offset
  <2>3. Apply(t, IF isHashes(x.sent[i]) THEN c
                   ELSE makeRequest(c, o, chooseSessionIndex(c.mgr.balance[d])))
    BY <1>11, Zenon
  <2> HIDE DEF i, k, F, R, m, x, n, d
  <2>4. CancelGives(t, k, i, F, R, m)
    BY <1>3, <2>2, CancelOk
  <2>5. /\ SameSessions(k, c) /\ AwaitedOk(t, c.x)
        /\ ~isHashes(x.sent[i]) => CtxOk(t, c, {o}, F, R, m)
        /\ isHashes(x.sent[i]) => CtxOk(t, c, {}, F, R, m)
    BY <1>3, <2>2, <2>4 DEF CancelGives
  <2> HIDE DEF c
  <2>6. CASE isHashes(x.sent[i])
    <3>1. Apply(t, c)
      BY <2>3, <2>6
    <3> QED
      BY <1>8, <2>5, <2>6, <3>1
  <2>7. CASE ~isHashes(x.sent[i])
    <3>1. CtxOk(t, c, {o}, F, R, m) /\ Good(c, F, R, m)
      BY <2>5, <2>7, CtxOkFact
    <3>2. c.d = d
      BY <1>3, <2>5 DEF SameSessions, SameElsewhere
    <3> DEFINE p == chooseSessionIndex(c.mgr.balance[c.d])
    <3>3. p \in 1 .. Len(c.mgr.balance[c.d].sessions)
      BY <1>3, <1>4, <3>1, ChosenFact
    <3> HIDE DEF p
    <3>4. LET f == makeRequest(c, o, p)
          IN  /\ SameSessions(c, f) /\ CtxOk(t, f, {}, F, R, m) /\ f.d = c.d
              /\ AwaitedOk(t, c.x) => AwaitedOk(t, f.x)
      BY <1>3, <3>1, <3>3, MakeOk
    <3> DEFINE e == makeRequest(c, o, p)
    <3>5. SameSessions(k, e)
      BY <2>5, <3>4, SameChain
    <3>6. CtxOk(t, e, {}, F, R, m) /\ AwaitedOk(t, e.x)
      BY <2>5, <3>4
    <3>7. Apply(t, e)
      BY <2>3, <2>7, <3>2 DEF p
    <3> HIDE DEF e
    <3> QED
      BY <1>8, <3>5, <3>6, <3>7
  <2> QED
    BY <2>6, <2>7
<1> HIDE DEF MoveAside, MoveSent
<1> QED
  BY <1>2, <1>10, <1>11

-----------------------------------------------------------------------------
(* What the owners do. *)
LEMMA TaskStepOk ==
    ASSUME DownloadInv, NEW t \in Tasks, pc = Idle, NEW y, SameRequests(task[t], y),
           Pend(t, y, {}), AwaitedOk(t, y), task' = [task EXCEPT ![t] = y],
           mgr' = mgr, QueueStep(t, y), pc' = pc \/ pc' = Sending(DcOf[t]),
           posted' = posted
    PROVE  DownloadInv'
<1> DEFINE k == Context(t)
           F == MyF(t)
           R == MyR(t)
           n == MyN(t)
           c == WithTask(k, y)
<1>1. /\ RestOk(F, R, n) /\ CtxOk(t, k, {}, F, R, n) /\ k.x = task[t]
  BY StartOk DEF Mine
<1>2. Apply(t, c) /\ c.x = y
  BY ApplyTask
<1> HIDE DEF k, F, R, n
<1>3. SameSessions(k, WithTask(k, y)) /\ CtxOk(t, WithTask(k, y), {}, F, R, n)
  <2>1. SameRequests(k.x, y)
    BY <1>1
  <2> QED
    BY <1>1, <2>1, WithOk
<1>4. Leaves(t, c)
  BY <1>2, <1>3 DEF Leaves, Mine, SameSessions, k, F, R, n
<1> HIDE DEF c
<1>5. QueueStep(t, c.x) /\ posted' \in Seq([dc : DcIds, index : Nat])
  BY <1>2 DEF DownloadInv
<1> QED
  BY <1>2, <1>4, <1>5, HandlerOk

LEMMA AddFacts ==
    ASSUME NEW t, NEW p \in Int, AddToQueue(t, p), NEW y
    PROVE  QueueStep(t, y) /\ pc' = Sending(DcOf[t])
  BY DEF AddToQueue, QueueStep

LEMMA UnchangedTask ==
    ASSUME DownloadInv, NEW t \in Tasks, task' = task
    PROVE  /\ task' = [task EXCEPT ![t] = task[t]] /\ SameRequests(task[t], task[t])
           /\ Pend(t, task[t], {}) /\ AwaitedOk(t, task[t])
<1>1. task \in [Tasks -> TaskSet]
  BY DEF DownloadInv
<1>2. TaskOk(t, task[t])
  BY StartOk
<1> QED
  BY <1>1, <1>2 DEF SameRequests, TaskOk

LEMMA StartLoadingOk ==
    ASSUME DownloadInv, NEW t \in Tasks, StartLoading(t)
    PROVE  DownloadInv'
<1> DEFINE y == task[t]
<1>1. /\ pc = Idle /\ mgr' = mgr /\ task' = task /\ posted' = posted
      /\ AddToQueue(t, 0) /\ 0 \in Int
  BY DEF StartLoading
<1>2. QueueStep(t, y) /\ pc' = Sending(DcOf[t])
  BY <1>1, AddFacts
<1>3. /\ task' = [task EXCEPT ![t] = y] /\ SameRequests(task[t], y)
      /\ Pend(t, y, {}) /\ AwaitedOk(t, y)
  BY <1>1, UnchangedTask
<1> HIDE DEF y
<1> QED
  BY <1>1, <1>2, <1>3, TaskStepOk

LEMMA PartialStep ==
    ASSUME DownloadInv, NEW t \in Tasks, NEW partial \in 1 .. Parts[t] - 1,
           StartLoadingWithPartial(t, partial)
    PROVE  DownloadInv'
<1> DEFINE x == task[t]
           g == [o \in Offsets |-> IF o <= partial THEN 1 ELSE 0]
           y == [x EXCEPT !.next = partial + 1, !.fed = g]
<1>1. /\ pc = Idle /\ mgr' = mgr /\ posted' = posted /\ t \in Tasks \ Streams
      /\ AddToQueue(t, 0) /\ 0 \in Int /\ ~x.finished /\ x.next = 1
      /\ task' = [task EXCEPT ![t].next = partial + 1, ![t].fed = g]
  BY DEF StartLoadingWithPartial
<1>2. QueueStep(t, y) /\ pc' = Sending(DcOf[t])
  BY <1>1, AddFacts
<1>3. task \in [Tasks -> TaskSet] /\ x \in TaskSet /\ Pend(t, x, {}) /\ AwaitedOk(t, x)
  BY StartOk DEF DownloadInv, TaskOk
<1>4. partial \in Nat
  BY DownloadAssumption
<1>5. Started(x, y, partial)
  <2>1. g \in [Offsets -> Nat] /\ \A o \in Offsets : g[o] = IF o <= partial THEN 1 ELSE 0
    OBVIOUS
  <2>2. y = [x EXCEPT !.next = partial + 1, !.fed = g]
    OBVIOUS
  <2> HIDE DEF x, g, y
  <2> QED
    BY <1>3, <1>4, <2>1, <2>2, StartedFact, Zenon
<1>6. task' = [task EXCEPT ![t] = y]
  <2> HIDE DEF g
  <2> QED
    BY <1>1, <1>3
<1> HIDE DEF y
<1>7. Pend(t, y, {}) /\ AwaitedOk(t, y) /\ SameRequests(task[t], y)
  <2>1. Pend(t, y, {}) /\ AwaitedOk(t, y) /\ SameRequests(x, y)
    <3> HIDE DEF x
    <3> QED
      BY <1>1, <1>3, <1>5, PartialOk
  <2> QED
    BY <2>1
<1> QED
  BY <1>1, <1>2, <1>6, <1>7, TaskStepOk

LEMMA CancelLoadingOk ==
    ASSUME DownloadInv, NEW t \in Tasks, CancelLoading(t)
    PROVE  DownloadInv'
<1> DEFINE k == Context(t)
           F == MyF(t)
           R == MyR(t)
           n == MyN(t)
           e == cancelOnFail(t, k)
<1>1. /\ RestOk(F, R, n) /\ CtxOk(t, k, {}, F, R, n) /\ k.x = task[t]
  BY StartOk DEF Mine
<1>2. /\ pc = Idle /\ pc' = pc /\ queues' = queues /\ Apply(t, e)
      /\ posted' = posted /\ posted \in Seq([dc : DcIds, index : Nat])
  BY DEF CancelLoading, DownloadInv
<1> HIDE DEF F, R, n, k
<1>3. FailGives(t, k, F, R, n)
  BY <1>1, FailOk
<1>4. Leaves(t, e)
  BY <1>3 DEF Leaves, Mine, SameSessions, F, R, n, k, FailGives
<1>5. haveSentRequests(e.x) => haveSentRequests(task[t])
  BY <1>1, <1>3 DEF FailGives
<1> HIDE DEF e
<1>6. QueueStep(t, e.x)
  BY <1>2, <1>5, QueuedSame
<1> QED
  BY <1>2, <1>4, <1>6, HandlerOk

LEMMA PartOffset ==
    ASSUME NEW t \in Tasks, NEW o \in 1 .. Parts[t]
    PROVE  o \in Offsets
<1>1. Parts[t] \in 1 .. MaxParts /\ MaxParts \in Nat
  BY DownloadAssumption
<1> QED
  BY <1>1 DEF Offsets

LEMMA LoadOk ==
    ASSUME DownloadInv, NEW t \in Tasks, NEW o \in 1 .. Parts[t], Load(t, o)
    PROVE  DownloadInv'
<1> DEFINE x == task[t]
           W == x.wanted \cup {o}
           y == [x EXCEPT !.wanted = W]
<1>1. /\ pc = Idle /\ mgr' = mgr /\ posted' = posted /\ t \in Streams
      /\ AddToQueue(t, x.priority) /\ ~haveSentRequestForOffset(x, o)
      /\ task' = [task EXCEPT ![t].wanted = @ \cup {o}]
  BY DEF Load
<1>2. task \in [Tasks -> TaskSet] /\ x \in TaskSet /\ Pend(t, x, {}) /\ AwaitedOk(t, x)
  BY StartOk DEF DownloadInv, TaskOk
<1>3. x.priority \in Int /\ x.wanted \in SUBSET Offsets
  BY <1>2 DEF TaskSet
<1>4. QueueStep(t, y) /\ pc' = Sending(DcOf[t])
  BY <1>1, <1>3, AddFacts
<1>5. task' = [task EXCEPT ![t] = y]
  BY <1>1, <1>2
<1>6. /\ W \in SUBSET Offsets /\ {} \in SUBSET Offsets
      /\ \A p \in W \cup {} : p \in x.wanted \/ ~haveSentRequestForOffset(x, p)
      /\ \A p \in {} : p \notin W
  BY <1>1, <1>3, PartOffset
<1>7. Pend(t, y, {}) /\ AwaitedOk(t, y) /\ SameRequests(x, y)
  <2>1. y = [x EXCEPT !.wanted = W]
    OBVIOUS
  <2> HIDE DEF x, W, y
  <2> QED
    BY <1>1, <1>2, <1>6, <2>1, WantedOk
<1> HIDE DEF y
<1> QED
  BY <1>1, <1>4, <1>5, <1>7, TaskStepOk

LEMMA CancelForOffsetOk ==
    ASSUME DownloadInv, NEW t \in Tasks, NEW o \in 1 .. Parts[t], CancelForOffset(t, o)
    PROVE  DownloadInv'
<1> DEFINE k == Context(t)
           F == MyF(t)
           R == MyR(t)
           n == MyN(t)
           x == task[t]
           e == CancelOffset(k, o)
<1>1. /\ RestOk(F, R, n) /\ CtxOk(t, k, {}, F, R, n) /\ k.x = x /\ AwaitedOk(t, k.x)
      /\ task \in [Tasks -> TaskSet] /\ x \in TaskSet /\ Pend(t, x, {})
  BY StartOk DEF Mine, DownloadInv, TaskOk
<1>2. o \in Offsets /\ x.priority \in Int /\ x.wanted \in SUBSET Offsets
  BY <1>1, PartOffset DEF TaskSet
<1>3. /\ pc = Idle /\ t \in Streams /\ posted' = posted
      /\ posted \in Seq([dc : DcIds, index : Nat])
  BY DEF CancelForOffset, DownloadInv
<1>4. CASE haveSentRequestForOffset(x, o)
  <2>1. /\ Apply(t, e)
        /\ AddToQueue(t, x.priority) \/ (queues' = queues /\ pc' = pc)
    BY <1>4 DEF CancelForOffset
  <2>2. haveSentRequests(x)
    BY <1>4 DEF haveSentRequestForOffset, haveSentRequests
  <2> HIDE DEF F, R, n, k
  <2>3. LET f == CancelOffset(k, o)
        IN  /\ SameSessions(k, f) /\ CtxOk(t, f, {}, F, R, n)
            /\ AwaitedOk(t, k.x) => AwaitedOk(t, f.x)
    BY <1>1, <1>2, <1>3, CancelOffsetOk
  <2>4. Leaves(t, e)
    BY <1>1, <2>3 DEF Leaves, Mine, SameSessions, F, R, n, k
  <2> HIDE DEF e
  <2>5. QueueStep(t, e.x) /\ (pc' = pc \/ pc' = Sending(DcOf[t]))
    <3>1. CASE AddToQueue(t, x.priority)
      BY <1>2, <3>1, AddFacts
    <3>2. CASE queues' = queues /\ pc' = pc
      BY <2>2, <3>2, QueuedSame
    <3> QED
      BY <2>1, <3>1, <3>2
  <2> QED
    BY <1>3, <2>1, <2>4, <2>5, HandlerOk
<1>5. CASE ~haveSentRequestForOffset(x, o)
  <2> DEFINE W == x.wanted \ {o}
             y == [x EXCEPT !.wanted = W]
  <2>1. /\ task' = [task EXCEPT ![t].wanted = @ \ {o}] /\ mgr' = mgr
        /\ queues' = queues /\ pc' = pc
    BY <1>5 DEF CancelForOffset
  <2>2. task' = [task EXCEPT ![t] = y]
    BY <1>1, <2>1
  <2>3. /\ W \in SUBSET Offsets /\ {} \in SUBSET Offsets
        /\ \A p \in W \cup {} : p \in x.wanted \/ ~haveSentRequestForOffset(x, p)
        /\ \A p \in {} : p \notin W
    BY <1>2
  <2>4. Pend(t, y, {}) /\ AwaitedOk(t, y) /\ SameRequests(x, y)
    <3>1. y = [x EXCEPT !.wanted = W] /\ AwaitedOk(t, x)
      BY <1>1
    <3> HIDE DEF x, W, y
    <3> QED
      BY <1>1, <1>3, <2>3, <3>1, WantedOk
  <2> HIDE DEF y
  <2>5. haveSentRequests(y) => haveSentRequests(task[t])
    BY <2>4 DEF SameRequests, haveSentRequests
  <2>6. QueueStep(t, y)
    BY <2>1, <2>5, QueuedSame
  <2> QED
    BY <1>3, <2>1, <2>2, <2>4, <2>6, TaskStepOk
<1> QED
  BY <1>4, <1>5

LEMMA RemoveFacts ==
    ASSUME NEW t, removeFromQueue(t), NEW y, ~haveSentRequests(y)
    PROVE  QueueStep(t, y) /\ pc' = Sending(DcOf[t])
  BY DEF removeFromQueue, QueueStep

(* A task that is emptied leaves the queue. *)
LEMMA EmptyOk ==
    ASSUME DownloadInv, NEW t \in Tasks, pc = Idle, NEW y,
           Emptied(t, cancelAllRequests(Context(t)).x, y),
           Apply(t, WithTask(cancelAllRequests(Context(t)), y)), removeFromQueue(t),
           WithTask(cancelAllRequests(Context(t)), y).x = y, posted' = posted
    PROVE  DownloadInv'
<1> DEFINE k == Context(t)
           F == MyF(t)
           R == MyR(t)
           n == MyN(t)
           c == WithTask(cancelAllRequests(k), y)
<1>1. /\ RestOk(F, R, n) /\ CtxOk(t, k, {}, F, R, n)
  BY StartOk DEF Mine
<1>2. Apply(t, c) /\ Emptied(t, cancelAllRequests(k).x, y) /\ c.x = y
  OBVIOUS
<1> HIDE DEF k, F, R, n
<1>3. LET e == WithTask(cancelAllRequests(k), y)
      IN  /\ SameSessions(k, e) /\ CtxOk(t, e, {}, F, R, n)
          /\ AwaitedOk(t, y) /\ ~haveSentRequests(y)
  BY <1>1, <1>2, ClearOk
<1>4. Leaves(t, c)
  BY <1>2, <1>3 DEF Leaves, Mine, SameSessions, F, R, n, k
<1> HIDE DEF c
<1>5. QueueStep(t, c.x) /\ pc' = Sending(DcOf[t])
  BY <1>2, <1>3, RemoveFacts
<1>6. posted' \in Seq([dc : DcIds, index : Nat])
  BY DEF DownloadInv
<1> QED
  BY <1>2, <1>4, <1>5, <1>6, HandlerOk

(* What remains of a task that is stopped, and of one that is gone. *)
LEMMA StoppedFact ==
    ASSUME NEW c \in CtxSet
    PROVE  LET y == [c.x EXCEPT !.wanted = {}]
           IN  /\ [c EXCEPT !.x.wanted = {}] = WithTask(c, y) /\ WithTask(c, y).x = y
               /\ \A t \in Streams : Emptied(t, c.x, y)
<1>1. c.x \in TaskSet
  BY CtxFact
<1>2. [c EXCEPT !.x.wanted = {}] = WithTask(c, [c.x EXCEPT !.wanted = {}])
  BY DEF CtxSet, WithTask
<1>3. WithTask(c, [c.x EXCEPT !.wanted = {}]).x = [c.x EXCEPT !.wanted = {}]
  BY DEF CtxSet, WithTask
<1>4. \A t \in Streams : Emptied(t, c.x, [c.x EXCEPT !.wanted = {}])
  BY <1>1 DEF Emptied, SameRequests, TaskSet
<1> QED
  BY <1>2, <1>3, <1>4

LEMMA GoneFact ==
    ASSUME NEW c \in CtxSet
    PROVE  LET y == [c.x EXCEPT !.alive = FALSE, !.finished = TRUE, !.wanted = {}]
           IN  /\ [c EXCEPT !.x.alive = FALSE, !.x.finished = TRUE, !.x.wanted = {}]
                    = WithTask(c, y)
               /\ WithTask(c, y).x = y /\ \A t : Emptied(t, c.x, y)
<1> DEFINE y == [c.x EXCEPT !.alive = FALSE, !.finished = TRUE, !.wanted = {}]
<1>1. c.x \in TaskSet
  BY CtxFact
<1>2. [c EXCEPT !.x.alive = FALSE, !.x.finished = TRUE, !.x.wanted = {}] = WithTask(c, y)
  BY DEF CtxSet, WithTask
<1>3. WithTask(c, y).x = y
  <2> HIDE DEF y
  <2> QED
    BY DEF CtxSet, WithTask
<1>4. \A t : Emptied(t, c.x, y)
  BY <1>1 DEF Emptied, SameRequests, TaskSet
<1> QED
  BY <1>2, <1>3, <1>4

LEMMA StopOk ==
    ASSUME DownloadInv, NEW t \in Tasks, Stop(t)
    PROVE  DownloadInv'
<1> DEFINE k == Context(t)
           a == cancelAllRequests(k)
           y == [a.x EXCEPT !.wanted = {}]
<1>1. /\ pc = Idle /\ t \in Streams /\ posted' = posted /\ removeFromQueue(t)
      /\ Apply(t, [a EXCEPT !.x.wanted = {}])
  BY DEF Stop
<1>2. a \in CtxSet
  <2>1. RestOk(MyF(t), MyR(t), MyN(t)) /\ Good(k, MyF(t), MyR(t), MyN(t))
    BY StartOk DEF Mine, CtxOk
  <2> HIDE DEF k
  <2>2. Good(cancelAllRequests(k), MyF(t), MyR(t), MyN(t))
    BY <2>1, CancelAllGood
  <2> QED
    BY <2>2 DEF Good
<1> HIDE DEF a
<1>3. LET z == [a.x EXCEPT !.wanted = {}]
      IN  /\ [a EXCEPT !.x.wanted = {}] = WithTask(a, z) /\ WithTask(a, z).x = z
          /\ \A u \in Streams : Emptied(u, a.x, z)
  BY <1>2, StoppedFact
<1>4. Apply(t, WithTask(a, y)) /\ WithTask(a, y).x = y /\ Emptied(t, a.x, y)
  BY <1>1, <1>3
<1> HIDE DEF y
<1> QED
  BY <1>1, <1>4, EmptyOk DEF a

LEMMA DestroyOk ==
    ASSUME DownloadInv, NEW t \in Tasks, Destroy(t)
    PROVE  DownloadInv'
<1> DEFINE k == Context(t)
           a == cancelAllRequests(k)
           y == [a.x EXCEPT !.alive = FALSE, !.finished = TRUE, !.wanted = {}]
<1>1. /\ pc = Idle /\ posted' = posted /\ removeFromQueue(t)
      /\ Apply(t, [a EXCEPT !.x.alive = FALSE, !.x.finished = TRUE, !.x.wanted = {}])
  BY Zenon DEF Destroy
<1>2. a \in CtxSet
  <2>1. RestOk(MyF(t), MyR(t), MyN(t)) /\ Good(k, MyF(t), MyR(t), MyN(t))
    BY StartOk DEF Mine, CtxOk
  <2> HIDE DEF k
  <2>2. Good(cancelAllRequests(k), MyF(t), MyR(t), MyN(t))
    BY <2>1, CancelAllGood
  <2> QED
    BY <2>2 DEF Good
<1> HIDE DEF a
<1>3. LET z == [a.x EXCEPT !.alive = FALSE, !.finished = TRUE, !.wanted = {}]
      IN  /\ [a EXCEPT !.x.alive = FALSE, !.x.finished = TRUE, !.x.wanted = {}]
               = WithTask(a, z)
          /\ WithTask(a, z).x = z /\ \A u : Emptied(u, a.x, z)
  BY <1>2, GoneFact, Zenon
<1>4. Apply(t, WithTask(a, y)) /\ WithTask(a, y).x = y /\ Emptied(t, a.x, y)
  BY <1>1, <1>3
<1> HIDE DEF y
<1> QED
  BY <1>1, <1>4, EmptyOk DEF a

LEMMA TryRemoveOk ==
    ASSUME DownloadInv, NEW t \in Tasks, TryRemoveFromQueue(t)
    PROVE  DownloadInv'
<1> DEFINE y == task[t]
<1>1. /\ pc = Idle /\ mgr' = mgr /\ task' = task /\ posted' = posted
      /\ removeFromQueue(t) /\ ~haveSentRequests(y)
  BY DEF TryRemoveFromQueue
<1>2. QueueStep(t, y) /\ pc' = Sending(DcOf[t])
  BY <1>1, RemoveFacts
<1>3. /\ task' = [task EXCEPT ![t] = y] /\ SameRequests(task[t], y)
      /\ Pend(t, y, {}) /\ AwaitedOk(t, y)
  BY <1>1, UnchangedTask
<1> HIDE DEF y
<1> QED
  BY <1>1, <1>2, <1>3, TaskStepOk

LEMMA PriorityOk ==
    ASSUME DownloadInv, NEW t \in Tasks, NEW p \in Int, setPriority(t, p)
    PROVE  DownloadInv'
<1> DEFINE k == Context(t)
           F == MyF(t)
           R == MyR(t)
           n == MyN(t)
           y == [task[t] EXCEPT !.priority = p]
<1>1. /\ pc = Idle /\ posted' = posted /\ mgr' = mgr
      /\ task' = [task EXCEPT ![t].priority = p]
      /\ IF haveSentRequests(task[t]) THEN AddToQueue(t, p)
           ELSE queues' = queues /\ pc' = pc
  BY DEF setPriority
<1>2. /\ RestOk(F, R, n) /\ CtxOk(t, k, {}, F, R, n) /\ k.x = task[t]
      /\ task \in [Tasks -> TaskSet] /\ task[t] \in TaskSet /\ AwaitedOk(t, k.x)
  BY StartOk DEF Mine, DownloadInv
<1>3. task' = [task EXCEPT ![t] = y]
  BY <1>1, <1>2
<1>4. SameRequests(task[t], y)
  BY <1>2 DEF SameRequests, TaskSet
<1>5. Pend(t, y, {}) /\ AwaitedOk(t, y)
  <2>1. y = [k.x EXCEPT !.priority = p]
    BY <1>2
  <2>2. k \in CtxSet
    BY <1>2, CtxOkFact
  <2>3. SameTask(k.x, y) /\ y.failed = k.x.failed /\ y.hashPosted = k.x.hashPosted
    <3> HIDE DEF y, k
    <3> QED
      BY <2>1, <2>2, FieldFact
  <2> HIDE DEF y, k, F, R, n
  <2>4. SameGives(t, k, y, {}, F, R, n)
    BY <1>2, <2>3, SameTaskOk
  <2> QED
    BY <1>2, <2>3, <2>4 DEF CtxOk, SameGives
<1> HIDE DEF y
<1>6. QueueStep(t, y) /\ (pc' = pc \/ pc' = Sending(DcOf[t]))
  <2>1. CASE haveSentRequests(task[t])
    BY <1>1, <2>1, AddFacts
  <2>2. CASE ~haveSentRequests(task[t])
    <3>1. ~haveSentRequests(y) /\ queues' = queues /\ pc' = pc
      BY <1>1, <1>4, <2>2 DEF SameRequests, haveSentRequests
    <3> QED
      BY <3>1 DEF QueueStep
  <2> QED
    BY <2>1, <2>2
<1> QED
  BY <1>1, <1>3, <1>4, <1>5, <1>6, TaskStepOk

-----------------------------------------------------------------------------
(* The sessions. *)
Rebalanced(a, b, closing) ==
    /\ b \in BalanceSet /\ Len(b.sessions) = Len(a.sessions) /\ b.total = a.total
    /\ \A k \in 1 .. Len(a.sessions) : b.sessions[k].requested =
         a.sessions[k].requested + Extra(closing, k, Len(a.sessions))

LEMMA RebalancedAt ==
    ASSUME NEW T, NEW g \in MgrSet, NEW d \in DcIds, BalancedAt(T, g, d, FALSE),
           NEW h, NEW closing \in BOOLEAN,
           Rebalanced(g.balance[d], h.balance[d], closing),
           \A k : Cardinality(FlyingAt(T, d, k)) \in Int
    PROVE  BalancedAt(T, h, d, closing)
<1> DEFINE a == g.balance[d]
           b == h.balance[d]
           n == Len(a.sessions)
<1>1. /\ n >= 1 /\ IsFiniteSet(FlyingIn(T, d))
      /\ \A t \in Tasks : DcOf[t] = d => Sits(T[t], n)
      /\ \A k \in 1 .. n : a.sessions[k].requested =
           Cardinality(FlyingAt(T, d, k)) + Extra(FALSE, k, n)
      /\ a.total = Cardinality(FlyingIn(T, d))
  BY Zenon DEF BalancedAt
<1>2. /\ Len(b.sessions) = n /\ b.total = a.total
      /\ \A k \in 1 .. n : b.sessions[k].requested =
           a.sessions[k].requested + Extra(closing, k, n)
  BY DEF Rebalanced
<1>3. ASSUME NEW k \in 1 .. n
      PROVE  b.sessions[k].requested =
               Cardinality(FlyingAt(T, d, k)) + Extra(closing, k, n)
  <2> DEFINE v == Cardinality(FlyingAt(T, d, k))
             w == Extra(closing, k, n)
             z == Extra(FALSE, k, n)
             p == a.sessions[k].requested
             q == b.sessions[k].requested
  <2>1. z = 0
    BY DEF Extra
  <2>2. v \in Int /\ w \in Int
    BY ExtraFact
  <2>3. p = v + z
    BY <1>1
  <2>4. q = p + w
    BY <1>2
  <2> HIDE DEF v, w, z, p, q
  <2>5. q = v + w
    BY <2>1, <2>2, <2>3, <2>4
  <2> QED
    BY <2>5 DEF v, w, q
<1>4. \A k \in 1 .. n : b.sessions[k].requested =
        Cardinality(FlyingAt(T, d, k)) + Extra(closing, k, n)
  BY <1>3
<1> QED
  BY <1>1, <1>2, <1>4 DEF BalancedAt

LEMMA FlyingCard ==
    ASSUME NEW T, NEW g, NEW d, NEW closing, BalancedAt(T, g, d, closing), NEW k
    PROVE  /\ IsFiniteSet(FlyingAt(T, d, k))
           /\ Cardinality(FlyingAt(T, d, k)) \in Nat
           /\ Cardinality(FlyingIn(T, d)) \in Nat
<1>1. IsFiniteSet(FlyingIn(T, d))
  BY DEF BalancedAt
<1>2. FlyingAt(T, d, k) \subseteq FlyingIn(T, d)
  BY DEF FlyingAt, FlyingIn, In
<1> QED
  BY <1>1, <1>2, FS_Subset, FS_CardinalityType

LEMMA RebalanceOk ==
    ASSUME DownloadInv, pc = Idle, NEW d \in DcIds, NEW b, NEW closing \in BOOLEAN,
           Rebalanced(mgr.balance[d], b, closing),
           mgr' = [mgr EXCEPT !.balance[d] = b], task' = task, queues' = queues,
           posted' \in Seq([dc : DcIds, index : Nat]),
           pc' = IF closing THEN Removing(d) ELSE Idle,
           closing => Len(b.sessions) > 1
    PROVE  DownloadInv'
<1>1. mgr \in MgrSet /\ task \in [Tasks -> TaskSet] /\ KillOk(mgr) /\ b \in BalanceSet
      /\ b.total = mgr.balance[d].total
  BY DEF DownloadInv, Rebalanced
<1>2. /\ mgr' \in MgrSet /\ mgr'.balance[d] = b /\ mgr'.kill = mgr.kill
      /\ \A e \in DcIds : e # d => mgr'.balance[e] = mgr.balance[e]
  BY <1>1 DEF MgrSet
<1>3. Balanced'
  <2>1. ASSUME NEW e \in DcIds PROVE BalancedAt(task', mgr', e, pc' = Removing(e))
    <3>1. BalancedAt(task, mgr, e, FALSE)
      <4>1. BalancedAt(task, mgr, e, pc = Removing(e)) /\ (pc = Removing(e)) = FALSE
        BY PcFact DEF DownloadInv, Balanced
      <4> QED
        BY <4>1
    <3>2. CASE e = d
      <4>1. (pc' = Removing(e)) = closing
        BY <3>2, PcFact
      <4>2. Rebalanced(mgr.balance[e], mgr'.balance[e], closing)
        BY <1>2, <3>2
      <4>3. \A k : Cardinality(FlyingAt(task, e, k)) \in Int
        <5>1. ASSUME NEW k PROVE Cardinality(FlyingAt(task, e, k)) \in Nat
          BY <3>1, FlyingCard, Zenon
        <5> QED
          BY <5>1
      <4>4. BalancedAt(task, mgr', e, closing)
        BY <1>1, <3>1, <4>2, <4>3, RebalancedAt
      <4> QED
        BY <4>1, <4>4
    <3>3. CASE e # d
      <4>1. (pc' = Removing(e)) = FALSE
        BY <3>3, PcFact
      <4>2. mgr'.balance[e] = mgr.balance[e]
        BY <1>2, <3>3
      <4>3. BalancedAt(task, mgr', e, FALSE)
        BY <3>1, <4>2 DEF BalancedAt
      <4> QED
        BY <4>1, <4>3
    <3> QED
      BY <3>2, <3>3
  <2> QED
    BY <2>1 DEF Balanced, BalancedAt, FlyingIn, FlyingAt, In, Sits, Extra
<1>4. PcOk'
  BY <1>2 DEF PcOk
<1>5. TasksOk'
  <2>1. \A u \in Tasks : TaskOk(u, task'[u])
    BY DEF DownloadInv, TasksOk
  <2> QED
    BY <2>1 DEF TasksOk
<1>6. QueueOk'
  BY SameQueues
<1>7. KillOk(mgr')
  <2>1. ASSUME NEW e \in mgr'.kill.when PROVE mgr'.balance[e].total = 0
    <3>1. e \in DcIds /\ e \in mgr.kill.when
      BY <1>1, <1>2, <2>1 DEF MgrSet
    <3>2. mgr.balance[e].total = 0
      BY <1>1, <3>1 DEF KillOk
    <3> QED
      BY <1>1, <1>2, <3>1, <3>2
  <2>2. mgr'.kill.when # {} => mgr'.kill.timer
    BY <1>1, <1>2 DEF KillOk
  <2> QED
    BY <2>1, <2>2 DEF KillOk
<1> QED
  BY <1>1, <1>2, <1>3, <1>4, <1>5, <1>6, <1>7 DEF DownloadInv, KillOk

LEMMA CountFact ==
    ASSUME NEW b \in BalanceSet
    PROVE  Rebalanced(b, countTimeout(b), FALSE)
<1> DEFINE c == resetSuccesses(b)
<1>1. Recount(b, c) /\ c \in BalanceSet
  BY RecountReset DEF Recount
<1>2. \A k, n : Extra(FALSE, k, n) = 0
  BY DEF Extra
<1>3. /\ DOMAIN b.sessions = 1 .. Len(b.sessions) /\ Len(b.sessions) \in Nat
      /\ \A k \in 1 .. Len(b.sessions) : b.sessions[k].requested \in Int
  BY SessionsFact
<1>4. \A k \in 1 .. Len(b.sessions) : b.sessions[k].requested =
        b.sessions[k].requested + Extra(FALSE, k, Len(b.sessions))
  <2>1. ASSUME NEW k \in 1 .. Len(b.sessions)
        PROVE  b.sessions[k].requested =
                 b.sessions[k].requested + Extra(FALSE, k, Len(b.sessions))
    <3> DEFINE z == Extra(FALSE, k, Len(b.sessions))
               q == b.sessions[k].requested
    <3>1. z = 0 /\ q \in Int
      BY <1>2, <1>3
    <3> HIDE DEF z, q
    <3>2. q = q + z
      BY <3>1
    <3> QED
      BY <3>2 DEF z, q
  <2> QED
    BY <2>1
<1> HIDE DEF c
<1>5. CASE countTimeout(b) = c
  BY <1>1, <1>4, <1>5 DEF Rebalanced, Recount
<1>6. CASE countTimeout(b) = [c EXCEPT !.timeouts = c.timeouts + 1]
  <2> DEFINE v == c.timeouts + 1
             e == [c EXCEPT !.timeouts = v]
  <2>1. v \in Int
    BY <1>1 DEF BalanceSet
  <2>2. countTimeout(b) = e
    BY <1>6
  <2> HIDE DEF v
  <2>3. e \in BalanceSet /\ e.sessions = c.sessions /\ e.total = c.total
    BY <1>1, <2>1 DEF BalanceSet
  <2> HIDE DEF e
  <2> QED
    BY <1>1, <1>4, <2>2, <2>3 DEF Rebalanced, Recount
<1> QED
  BY <1>5, <1>6 DEF countTimeout, c

LEMMA CloseFact ==
    ASSUME NEW b \in BalanceSet, Len(b.sessions) >= 1
    PROVE  Rebalanced(b, closeSession(b), TRUE)
<1> DEFINE c == resetSuccesses(b)
           n == Len(b.sessions)
           w == c.sessions[n].requested + Closed
           r == [c.sessions[n] EXCEPT !.requested = w]
           s == [c.sessions EXCEPT ![n] = r]
           e == [c EXCEPT !.timeouts = 0, !.sessions = s]
<1>1. Recount(b, c) /\ c \in BalanceSet
  BY RecountReset DEF Recount
<1>2. n \in Nat /\ n \in 1 .. n /\ Len(c.sessions) = n
  BY <1>1, SessionsFact DEF Recount
<1>3. /\ c.sessions \in Seq(SessionSet) /\ c.sessions[n] \in SessionSet
      /\ \A k \in 1 .. n : c.sessions[k].requested \in Int
  BY <1>1, <1>2, SessionsFact
<1>4. Closed \in Int
  BY ClosedFact
<1>5. closeSession(b) = IF b.removeIndex = n
        THEN [e EXCEPT !.removeTimes = Smaller(e.removeTimes + 1, MaxTrackedRemoves)]
        ELSE [e EXCEPT !.removeIndex = n, !.removeTimes = 1]
  <2>1. [c EXCEPT !.timeouts = 0, !.sessions[n].requested = @ + Closed] = e
    <3> HIDE DEF c
    <3> QED
      BY <1>1 DEF BalanceSet
  <2> HIDE DEF e
  <2>2. closeSession(b) = LET f == [c EXCEPT !.timeouts = 0, !.sessions[n].requested = @ + Closed]
        IN  IF b.removeIndex = n
              THEN [f EXCEPT !.removeTimes = Smaller(@ + 1, MaxTrackedRemoves)]
              ELSE [f EXCEPT !.removeIndex = n, !.removeTimes = 1]
    BY Zenon DEF closeSession
  <2> QED
    BY <2>1, <2>2
<1> HIDE DEF c
<1>6. r \in SessionSet /\ r.requested = c.sessions[n].requested + Closed
  <2>1. w \in Int
    BY <1>2, <1>3, <1>4
  <2> HIDE DEF w, n
  <2>2. r \in SessionSet /\ r.requested = w
    BY <1>3, <2>1 DEF SessionSet
  <2> QED
    BY <2>2 DEF w
<1> HIDE DEF r, n
<1>7. /\ s \in Seq(SessionSet) /\ Len(s) = n
      /\ \A k \in 1 .. n : s[k] = IF k = n THEN r ELSE c.sessions[k]
  BY <1>2, <1>3, <1>6, ReplaceFact
<1> HIDE DEF s
<1>8. e \in BalanceSet /\ e.sessions = s /\ e.total = c.total
      /\ e.removeTimes \in Int
  <2> DEFINE f == [c EXCEPT !.timeouts = 0]
  <2>1. f \in BalanceSet /\ f.total = c.total
    BY <1>1 DEF BalanceSet
  <2>2. e = [f EXCEPT !.sessions = s]
    OBVIOUS
  <2> HIDE DEF f, e
  <2> QED
    BY <1>7, <2>1, <2>2 DEF BalanceSet
<1> HIDE DEF e
<1>9. closeSession(b) \in BalanceSet /\ closeSession(b).sessions = s
      /\ closeSession(b).total = c.total
  <2>1. Smaller(e.removeTimes + 1, MaxTrackedRemoves) \in Int
    BY <1>8, BalanceAssumption DEF Smaller
  <2>2. CASE b.removeIndex = n
    <3> DEFINE m == Smaller(e.removeTimes + 1, MaxTrackedRemoves)
    <3>1. closeSession(b) = [e EXCEPT !.removeTimes = m] /\ m \in Int
      BY <1>5, <2>1, <2>2
    <3> HIDE DEF m
    <3> QED
      BY <1>8, <3>1 DEF BalanceSet
  <2>3. CASE b.removeIndex # n
    <3> DEFINE f == [e EXCEPT !.removeIndex = n]
    <3>1. f \in BalanceSet /\ f.sessions = s /\ f.total = c.total
      BY <1>2, <1>8 DEF BalanceSet
    <3>2. closeSession(b) = [f EXCEPT !.removeTimes = 1]
      BY <1>5, <2>3
    <3> HIDE DEF f
    <3> QED
      BY <3>1, <3>2 DEF BalanceSet
  <2> QED
    BY <2>2, <2>3
<1>10. \A k \in 1 .. n : s[k].requested = b.sessions[k].requested + Extra(TRUE, k, n)
  <2>1. ASSUME NEW k \in 1 .. n
        PROVE  s[k].requested = b.sessions[k].requested + Extra(TRUE, k, n)
    <3>1. c.sessions[k].requested = b.sessions[k].requested
          /\ c.sessions[k].requested \in Int
      BY <1>1, <1>3 DEF Recount, n
    <3> QED
      BY <1>4, <1>6, <1>7, <3>1 DEF Extra
  <2> QED
    BY <2>1
<1> QED
  BY <1>1, <1>2, <1>7, <1>9, <1>10 DEF Rebalanced, Recount, n

LEMMA TimedOutOk ==
    ASSUME DownloadInv, pc = Idle, NEW d \in DcIds, NEW index, TimedOut(d, index),
           task' = task, queues' = queues, posted' \in Seq([dc : DcIds, index : Nat])
    PROVE  DownloadInv'
<1> DEFINE b == mgr.balance[d]
<1>1. b \in BalanceSet /\ Len(b.sessions) \in Nat /\ Len(b.sessions) >= 1
  BY RequestedFact
<1> DEFINE A == mgr' = mgr /\ pc' = pc
           B == /\ removesSession(b) /\ pc' = Removing(d)
                /\ mgr' = [mgr EXCEPT !.balance[d] = closeSession(b)]
           C == mgr' = [mgr EXCEPT !.balance[d] = countTimeout(b)] /\ pc' = pc
<1>2. A \/ B \/ C
  BY DEF TimedOut
<1>3. CASE A
  <2>1. QueueOk'
    BY SameQueues
  <2> QED
    BY <1>3, <2>1, OtherwiseOk
<1>4. CASE B
  <2> DEFINE e == closeSession(b)
  <2>1. Rebalanced(b, e, TRUE)
    BY <1>1, CloseFact
  <2>2. mgr' = [mgr EXCEPT !.balance[d] = e] /\ pc' = Removing(d)
    BY <1>4
  <2>3. Len(e.sessions) > 1
    <3> DEFINE m == Len(b.sessions)
    <3>1. m # 1 /\ m \in Nat /\ m >= 1
      BY <1>1, <1>4 DEF removesSession, StartSessions
    <3>2. Len(e.sessions) = m
      BY <2>1 DEF Rebalanced
    <3> HIDE DEF m, e
    <3>3. m > 1
      BY <3>1
    <3> QED
      BY <3>2, <3>3
  <2> HIDE DEF e
  <2> QED
    BY <2>1, <2>2, <2>3, RebalanceOk
<1>5. CASE C
  <2> DEFINE e == countTimeout(b)
  <2>1. Rebalanced(b, e, FALSE)
    BY <1>1, CountFact
  <2>2. mgr' = [mgr EXCEPT !.balance[d] = e] /\ pc' = Idle
    BY <1>5
  <2> HIDE DEF e
  <2> QED
    BY <2>1, <2>2, RebalanceOk
<1> HIDE DEF A, B, C
<1> QED
  BY <1>2, <1>3, <1>4, <1>5

LEMMA RestartedOk ==
    ASSUME DownloadInv, NEW d \in DcIds, NEW i, SessionRestarted(d, i)
    PROVE  DownloadInv'
<1>1. /\ pc = Idle /\ TimedOut(d, i) /\ task' = task /\ queues' = queues
      /\ posted' \in Seq([dc : DcIds, index : Nat])
  BY DEF SessionRestarted, DownloadInv
<1> QED
  BY <1>1, TimedOutOk

LEMMA TimeoutPostedOk ==
    ASSUME DownloadInv, TimeoutPosted
    PROVE  DownloadInv'
<1> DEFINE S == [dc : DcIds, index : Nat]
<1>1. posted \in Seq(S) /\ posted # <<>> /\ posted' = Tail(posted) /\ pc = Idle
      /\ TimedOut(Head(posted).dc, Head(posted).index) /\ task' = task
      /\ queues' = queues
  BY DEF TimeoutPosted, DownloadInv
<1>2. Head(posted).dc \in DcIds
  <2>1. Head(posted) \in S
    <3> HIDE DEF S
    <3> QED
      BY <1>1
  <2> QED
    BY <2>1
<1>3. posted' \in Seq(S)
  <2> HIDE DEF S
  <2> QED
    BY <1>1
<1> QED
  BY <1>1, <1>2, <1>3, TimedOutOk

(* The requests of every task are in the same sessions. *)
SameFlying(T, U) ==
    \A t \in Tasks : /\ DOMAIN U[t].sent = DOMAIN T[t].sent
                     /\ \A i \in DOMAIN T[t].sent :
                          U[t].sent[i].session = T[t].sent[i].session

LEMMA FlyingSame ==
    ASSUME NEW T, NEW U, SameFlying(T, U), NEW d
    PROVE  /\ FlyingIn(U, d) = FlyingIn(T, d)
           /\ \A k : FlyingAt(U, d, k) = FlyingAt(T, d, k)
<1>1. ASSUME NEW t \in Tasks, NEW k
      PROVE  DOMAIN U[t].sent = DOMAIN T[t].sent /\ In(U[t].sent, k) = In(T[t].sent, k)
  BY DEF SameFlying, In
<1>2. FlyingIn(U, d) = FlyingIn(T, d)
  BY <1>1 DEF FlyingIn
<1>3. ASSUME NEW k PROVE FlyingAt(U, d, k) = FlyingAt(T, d, k)
  BY <1>1 DEF FlyingAt
<1> QED
  BY <1>2, <1>3

LEMMA PopFact ==
    ASSUME NEW b \in BalanceSet, Len(b.sessions) > 1
    PROVE  LET e == popSession(b)
           IN  /\ e \in BalanceSet /\ Len(e.sessions) = Len(b.sessions) - 1
               /\ e.total = b.total
               /\ \A k \in 1 .. Len(b.sessions) - 1 : e.sessions[k] = b.sessions[k]
<1> DEFINE s == b.sessions
           q == SubSeq(s, 1, Len(s) - 1)
           e == [b EXCEPT !.sessions = q, !.removed = TRUE]
<1>1. s \in Seq(SessionSet) /\ Len(s) \in Nat /\ Len(s) > 1
  BY SessionsFact
<1>2. /\ q \in Seq(SessionSet) /\ Len(q) = Len(s) - 1
      /\ \A k \in 1 .. Len(s) - 1 : q[k] = s[k]
  <2> HIDE DEF s
  <2> QED
    BY <1>1
<1> HIDE DEF q
<1>3. e \in BalanceSet /\ e.sessions = q /\ e.total = b.total
  <2> DEFINE f == [b EXCEPT !.sessions = q]
  <2>1. f \in BalanceSet /\ f.sessions = q /\ f.total = b.total
    BY <1>2 DEF BalanceSet
  <2>2. e = [f EXCEPT !.removed = TRUE]
    OBVIOUS
  <2> HIDE DEF f, e
  <2> QED
    BY <2>1, <2>2 DEF BalanceSet
<1>4. popSession(b) = e
  BY DEF popSession, q
<1> HIDE DEF e
<1> QED
  BY <1>2, <1>3, <1>4

(* Nothing is in the session that is removed. *)
LEMMA NoneInLast ==
    ASSUME DownloadInv, NEW d \in DcIds, SessionRemoved(d), NEW t \in Tasks,
           DcOf[t] = d
    PROVE  Sits(task[t], Len(mgr.balance[d].sessions) - 1)
<1> DEFINE n == Len(mgr.balance[d].sessions)
           x == task[t]
<1>1. n \in Nat /\ x \in TaskSet
  BY RequestedFact, StartOk
<1>2. Sits(x, n)
  BY DEF DownloadInv, Balanced, BalancedAt
<1>3. haveSentRequests(x) => t \in QueuedIn(queues[d])
  BY DEF DownloadInv, QueueOk
<1>4. t \in QueuedIn(queues[d]) => ~InSession(t, n)
  BY DEF SessionRemoved, Queued, QueuedIn
<1>5. ~InSession(t, n)
  <2>1. CASE haveSentRequests(x)
    BY <1>3, <1>4, <2>1
  <2>2. CASE ~haveSentRequests(x)
    BY <2>2 DEF haveSentRequests, InSession, SentIn
  <2> QED
    BY <2>1, <2>2
<1>6. ASSUME NEW i \in DOMAIN x.sent PROVE x.sent[i].session \in 1 .. n - 1
  <2>1. x.sent[i].session \in 1 .. n
    BY <1>2 DEF Sits
  <2>2. x.sent[i].session # n
    BY <1>5 DEF InSession, SentIn
  <2> HIDE DEF n, x
  <2> QED
    BY <1>1, <2>1, <2>2
<1>7. ASSUME NEW u \in x.unchecked PROVE u.session \in 1 .. n - 1
  <2>1. u.session \in 1 .. n
    BY <1>2 DEF Sits
  <2>2. u.session # n
    BY <1>5 DEF InSession
  <2> HIDE DEF n, x
  <2> QED
    BY <1>1, <2>1, <2>2
<1> QED
  BY <1>6, <1>7 DEF Sits

LEMMA SessionRemovedOk ==
    ASSUME DownloadInv, NEW d \in DcIds, SessionRemoved(d)
    PROVE  DownloadInv'
<1> DEFINE b == mgr.balance[d]
           n == Len(b.sessions)
           e == popSession(b)
<1>1. /\ pc = Removing(d) /\ mgr' = [mgr EXCEPT !.balance[d] = e] /\ pc' = Idle
      /\ queues' = queues /\ posted' = posted
      /\ task' = [t \in Tasks |->
           IF DcOf[t] = d
             THEN [task[t] EXCEPT !.sent = [i \in DOMAIN task[t].sent |->
                                              [task[t].sent[i] EXCEPT !.old = TRUE]]]
             ELSE task[t]]
  BY DEF SessionRemoved
<1>2. /\ mgr \in MgrSet /\ task \in [Tasks -> TaskSet] /\ KillOk(mgr)
      /\ posted \in Seq([dc : DcIds, index : Nat])
      /\ TasksOk /\ QueueOk /\ \A c \in DcIds : BalancedAt(task, mgr, c, pc = Removing(c))
  BY DEF DownloadInv, Balanced
<1>3. b \in BalanceSet /\ n \in Nat
  BY RequestedFact
<1>4. n > 1
  BY <1>1, PcFact DEF DownloadInv, PcOk
<1>5. /\ e \in BalanceSet /\ Len(e.sessions) = n - 1 /\ e.total = b.total
      /\ \A k \in 1 .. n - 1 : e.sessions[k] = b.sessions[k]
  BY <1>3, <1>4, PopFact
<1> HIDE DEF e
<1>6. /\ mgr' \in MgrSet /\ mgr'.balance[d] = e /\ mgr'.kill = mgr.kill
      /\ \A c \in DcIds : c # d => mgr'.balance[c] = mgr.balance[c]
  BY <1>1, <1>2, <1>5 DEF MgrSet
<1>7. ASSUME NEW t \in Tasks
      PROVE  /\ DcOf[t] = d => Aged(task[t], task'[t])
             /\ DcOf[t] # d => task'[t] = task[t]
             /\ task'[t] \in TaskSet /\ TaskOk(t, task'[t])
             /\ haveSentRequests(task'[t]) <=> haveSentRequests(task[t])
  <2> DEFINE x == task[t]
             y == [x EXCEPT !.sent = [i \in DOMAIN x.sent |->
                                        [x.sent[i] EXCEPT !.old = TRUE]]]
  <2>1. x \in TaskSet /\ TaskOk(t, x)
    BY <1>2 DEF TasksOk
  <2>2. task'[t] = IF DcOf[t] = d THEN y ELSE x
    BY <1>1, Zenon
  <2>3. Aged(x, y)
    <3> HIDE DEF x
    <3> QED
      BY <2>1, AgedFact
  <2> HIDE DEF y
  <2>4. TaskOk(t, y) /\ (haveSentRequests(y) <=> haveSentRequests(x)) /\ y \in TaskSet
    <3> HIDE DEF x
    <3> QED
      BY <2>1, <2>3, AgedOk DEF Aged
  <2> QED
    BY <2>1, <2>2, <2>3, <2>4
<1>8. task' \in [Tasks -> TaskSet]
  <2>1. DOMAIN task' = Tasks /\ task' = [t \in Tasks |-> task'[t]]
    BY <1>1, Zenon
  <2> QED
    BY <1>7, <2>1
<1>9. SameFlying(task, task')
  <2>1. ASSUME NEW t \in Tasks
        PROVE  /\ DOMAIN task'[t].sent = DOMAIN task[t].sent
               /\ \A i \in DOMAIN task[t].sent :
                    task'[t].sent[i].session = task[t].sent[i].session
    <3>1. CASE DcOf[t] # d
      BY <1>7, <3>1
    <3>2. CASE DcOf[t] = d
      <4>1. Aged(task[t], task'[t]) /\ task'[t] \in TaskSet /\ task[t] \in TaskSet
        BY <1>2, <1>7, <3>2
      <4>2. DOMAIN task'[t].sent = DOMAIN task[t].sent
        BY <4>1, TaskFact DEF Aged
      <4> QED
        BY <4>1, <4>2 DEF Aged
    <3> QED
      BY <3>1, <3>2
  <2> QED
    BY <2>1 DEF SameFlying
<1>10. \A c : /\ FlyingIn(task', c) = FlyingIn(task, c)
              /\ \A k : FlyingAt(task', c, k) = FlyingAt(task, c, k)
  BY <1>9, FlyingSame
<1>11. TasksOk'
  <2>1. \A t \in Tasks : TaskOk(t, task'[t])
    BY <1>7
  <2> QED
    BY <2>1 DEF TasksOk
<1>12. QueueOk'
  <2>1. \A t \in Tasks : haveSentRequests(task'[t]) => t \in QueuedIn(queues'[DcOf[t]])
    BY <1>1, <1>2, <1>7 DEF QueueOk
  <2> QED
    BY <1>1, <1>2, <2>1 DEF QueueOk, haveSentRequests, QueuedIn
<1>13. ASSUME NEW c \in DcIds PROVE BalancedAt(task', mgr', c, FALSE)
  <2>1. CASE c # d
    <3>1. BalancedAt(task, mgr, c, FALSE)
      <4>1. (pc = Removing(c)) = FALSE
        BY <1>1, <2>1, PcFact
      <4> QED
        BY <1>2, <4>1
    <3>2. \A t \in Tasks : DcOf[t] = c => task'[t] = task[t]
      BY <1>7, <2>1
    <3>3. mgr'.balance[c] = mgr.balance[c]
      BY <1>6, <2>1
    <3> QED
      BY <1>10, <3>1, <3>2, <3>3 DEF BalancedAt
  <2>2. CASE c = d
    <3>1. BalancedAt(task, mgr, d, TRUE)
      <4>1. (pc = Removing(d)) = TRUE
        BY <1>1
      <4> QED
        BY <1>2, <4>1
    <3>2. /\ IsFiniteSet(FlyingIn(task, d)) /\ b.total = Cardinality(FlyingIn(task, d))
          /\ \A k \in 1 .. n : b.sessions[k].requested =
               Cardinality(FlyingAt(task, d, k)) + Extra(TRUE, k, n)
      BY <3>1 DEF BalancedAt
    <3>3. ASSUME NEW k \in 1 .. n - 1
          PROVE  e.sessions[k].requested =
                   Cardinality(FlyingAt(task', d, k)) + Extra(FALSE, k, n - 1)
      <4> DEFINE v == Cardinality(FlyingAt(task, d, k))
                 p == Extra(TRUE, k, n)
                 q == Extra(FALSE, k, n - 1)
      <4>1. k \in 1 .. n /\ k # n
        BY <1>3
      <4>2. p = 0 /\ q = 0
        BY <4>1 DEF Extra
      <4>3. b.sessions[k].requested = v + p
        BY <3>2, <4>1
      <4>4. e.sessions[k].requested = b.sessions[k].requested
        BY <1>5
      <4> HIDE DEF p, q, v
      <4>5. e.sessions[k].requested = v + q
        BY <4>2, <4>3, <4>4
      <4> QED
        BY <1>10, <4>5 DEF v, q
    <3>4. ASSUME NEW t \in Tasks, DcOf[t] = d PROVE Sits(task'[t], n - 1)
      <4>1. Sits(task[t], n - 1)
        BY <3>4, NoneInLast
      <4>2. Aged(task[t], task'[t])
        BY <1>7, <3>4
      <4>3. \A i \in DOMAIN task'[t].sent : i \in DOMAIN task[t].sent
              /\ task'[t].sent[i].session = task[t].sent[i].session
        BY <1>9 DEF SameFlying
      <4>4. task'[t].unchecked = task[t].unchecked
        BY <4>2 DEF Aged, OnlySent
      <4> QED
        BY <4>1, <4>3, <4>4 DEF Sits
    <3>5. n - 1 >= 1
      BY <1>3, <1>4
    <3>6. BalancedAt(task', mgr', d, FALSE)
      <4>1. mgr'.balance[d] = e /\ Len(e.sessions) = n - 1 /\ e.total = b.total
        BY <1>5, <1>6
      <4> HIDE DEF b, n
      <4> QED
        BY <1>10, <3>2, <3>3, <3>4, <3>5, <4>1 DEF BalancedAt
    <3> QED
      BY <2>2, <3>6
  <2> QED
    BY <2>1, <2>2
<1>14. Balanced'
  <2>1. \A c \in DcIds : BalancedAt(task', mgr', c, pc' = Removing(c))
    <3>1. ASSUME NEW c \in DcIds PROVE BalancedAt(task', mgr', c, pc' = Removing(c))
      <4>1. (pc' = Removing(c)) = FALSE
        BY <1>1, PcFact
      <4> QED
        BY <1>13, <4>1
    <3> QED
      BY <3>1
  <2> QED
    BY <2>1 DEF Balanced, BalancedAt, FlyingIn, FlyingAt, In, Sits, Extra
<1>15. KillOk(mgr')
  <2>1. ASSUME NEW c \in mgr'.kill.when PROVE mgr'.balance[c].total = 0
    <3>1. c \in DcIds /\ c \in mgr.kill.when
      BY <1>2, <1>6, <2>1 DEF MgrSet
    <3>2. mgr.balance[c].total = 0
      BY <1>2, <3>1 DEF KillOk
    <3> QED
      BY <1>5, <1>6, <3>1, <3>2
  <2>2. mgr'.kill.when # {} => mgr'.kill.timer
    BY <1>2, <1>6 DEF KillOk
  <2> QED
    BY <2>1, <2>2 DEF KillOk
<1>16. PcOk'
  BY <1>1 DEF PcOk
<1> QED
  BY <1>1, <1>2, <1>6, <1>8, <1>11, <1>12, <1>14, <1>15, <1>16 DEF DownloadInv, KillOk

LEMMA StoppedBalance ==
    ASSUME NEW b \in BalanceSet, b.total = 0,
           \A k \in 1 .. Len(b.sessions) : b.sessions[k].requested = 0
    PROVE  Rebalanced(b, stopSessions(b), FALSE)
<1> DEFINE n == Len(b.sessions)
           s == [i \in DOMAIN b.sessions |-> NewSession]
           e == [NewBalance EXCEPT !.sessions = s]
<1>1. n \in Nat /\ DOMAIN b.sessions = 1 .. n
  BY SessionsFact
<1>2. NewSession \in SessionSet /\ NewSession.requested = 0
  BY BalanceAssumption DEF NewSession, SessionSet
<1>3. s \in Seq(SessionSet) /\ Len(s) = n /\ \A k \in 1 .. n : s[k] = NewSession
  <2> HIDE DEF n
  <2> QED
    BY <1>1, <1>2
<1> HIDE DEF s
<1>4. e \in BalanceSet /\ e.sessions = s /\ e.total = 0
  BY <1>3 DEF NewBalance, BalanceSet
<1>5. stopSessions(b) = e
  BY DEF stopSessions, s
<1> HIDE DEF e, n
<1>6. ASSUME NEW k \in 1 .. n
      PROVE  e.sessions[k].requested =
               b.sessions[k].requested + Extra(FALSE, k, n)
  <2> DEFINE z == Extra(FALSE, k, n)
  <2>1. z = 0
    BY DEF Extra
  <2>2. e.sessions[k].requested = 0 /\ b.sessions[k].requested = 0
    BY <1>2, <1>3, <1>4 DEF n
  <2> HIDE DEF z
  <2>3. e.sessions[k].requested = b.sessions[k].requested + z
    BY <2>1, <2>2
  <2> QED
    BY <2>3 DEF z
<1> QED
  BY <1>3, <1>4, <1>5, <1>6 DEF Rebalanced, n

LEMMA KillSessionsOk ==
    ASSUME DownloadInv, NEW due \in SUBSET DcIds, KillSessions(due)
    PROVE  DownloadInv'
<1>1. /\ pc = Idle /\ pc' = pc /\ due \subseteq mgr.kill.when /\ queues' = queues
      /\ posted' = posted /\ task' = task
      /\ mgr' = [balance |-> [d \in DcIds |->
                   IF d \in due THEN stopSessions(mgr.balance[d]) ELSE mgr.balance[d]],
                 kill |-> [when |-> mgr.kill.when \ due,
                           timer |-> mgr.kill.when \ due # {}]]
  BY DEF KillSessions
<1>2. /\ mgr \in MgrSet /\ task \in [Tasks -> TaskSet] /\ KillOk(mgr)
      /\ posted \in Seq([dc : DcIds, index : Nat])
      /\ TasksOk /\ \A c \in DcIds : BalancedAt(task, mgr, c, pc = Removing(c))
  BY DEF DownloadInv, Balanced
<1>3. /\ \A d \in DcIds : mgr'.balance[d] =
           IF d \in due THEN stopSessions(mgr.balance[d]) ELSE mgr.balance[d]
      /\ mgr'.kill = [when |-> mgr.kill.when \ due,
                      timer |-> mgr.kill.when \ due # {}]
  BY <1>1
<1>4. \A c \in DcIds : (pc = Removing(c)) = FALSE /\ (pc' = Removing(c)) = FALSE
  BY <1>1, PcFact
<1>5. ASSUME NEW c \in DcIds
      PROVE  /\ BalancedAt(task, mgr', c, FALSE) /\ mgr'.balance[c] \in BalanceSet
             /\ mgr.balance[c].total = 0 => mgr'.balance[c].total = 0
  <2>1. BalancedAt(task, mgr, c, FALSE)
    BY <1>2, <1>4
  <2>2. CASE c \notin due
    <3>1. mgr'.balance[c] = mgr.balance[c]
      BY <1>3, <2>2
    <3>2. mgr.balance[c] \in BalanceSet
      BY <1>2 DEF MgrSet
    <3> QED
      BY <2>1, <3>1, <3>2 DEF BalancedAt
  <2>3. CASE c \in due
    <3> DEFINE b == mgr.balance[c]
    <3>1. b \in BalanceSet /\ b.total = 0
      BY <1>1, <1>2, <2>3 DEF MgrSet, KillOk
    <3>2. ASSUME NEW k PROVE /\ Cardinality(FlyingAt(task, c, k)) \in Nat
                             /\ IsFiniteSet(FlyingAt(task, c, k))
      BY <2>1, FlyingCard, Zenon
    <3>3. IsFiniteSet(FlyingIn(task, c)) /\ Cardinality(FlyingIn(task, c)) = 0
      BY <2>1, <3>1 DEF BalancedAt
    <3>4. FlyingIn(task, c) = {}
      BY <3>3, FS_EmptySet
    <3>5. ASSUME NEW k PROVE Cardinality(FlyingAt(task, c, k)) = 0
      <4>1. FlyingAt(task, c, k) = {}
        BY <3>4 DEF FlyingAt, FlyingIn, In
      <4> QED
        BY <4>1, FS_EmptySet
    <3>6. ASSUME NEW k \in 1 .. Len(b.sessions) PROVE b.sessions[k].requested = 0
      <4> DEFINE z == Extra(FALSE, k, Len(b.sessions))
                 v == Cardinality(FlyingAt(task, c, k))
      <4>1. z = 0 /\ v = 0
        BY <3>5 DEF Extra
      <4>2. b.sessions[k].requested = v + z
        BY <2>1 DEF BalancedAt
      <4> HIDE DEF z, v
      <4> QED
        BY <4>1, <4>2
    <3>7. Rebalanced(b, stopSessions(b), FALSE)
      <4> HIDE DEF b
      <4> QED
        BY <3>1, <3>6, StoppedBalance
    <3>8. mgr'.balance[c] = stopSessions(b)
      BY <1>3, <2>3
    <3>9. Rebalanced(mgr.balance[c], mgr'.balance[c], FALSE)
      BY <3>7, <3>8
    <3>10. \A k : Cardinality(FlyingAt(task, c, k)) \in Int
      BY <3>2
    <3>11. BalancedAt(task, mgr', c, FALSE)
      BY <1>2, <2>1, <3>9, <3>10, RebalancedAt
    <3> QED
      BY <3>9, <3>11 DEF Rebalanced
  <2> QED
    BY <2>2, <2>3
<1>6. mgr' \in MgrSet
  <2>1. mgr'.balance \in [DcIds -> BalanceSet]
    <3>1. mgr'.balance = [d \in DcIds |-> mgr'.balance[d]]
      BY <1>1
    <3> QED
      BY <1>5, <3>1
  <2>2. mgr'.kill \in [when : SUBSET DcIds, timer : BOOLEAN]
    BY <1>2, <1>3 DEF MgrSet
  <2>3. mgr' = [balance |-> mgr'.balance, kill |-> mgr'.kill]
    BY <1>1
  <2> QED
    BY <2>1, <2>2, <2>3 DEF MgrSet
<1>7. Balanced'
  <2>1. ASSUME NEW c \in DcIds PROVE BalancedAt(task', mgr', c, pc' = Removing(c))
    BY <1>1, <1>4, <1>5
  <2> QED
    BY <2>1 DEF Balanced, BalancedAt, FlyingIn, FlyingAt, In, Sits, Extra
<1>8. KillOk(mgr')
  <2>1. ASSUME NEW c \in mgr'.kill.when PROVE mgr'.balance[c].total = 0
    <3>1. c \in DcIds /\ c \in mgr.kill.when
      BY <1>2, <1>3, <2>1 DEF MgrSet
    <3>2. mgr.balance[c].total = 0
      BY <1>2, <3>1 DEF KillOk
    <3> QED
      BY <1>5, <3>1, <3>2
  <2>2. mgr'.kill.when # {} => mgr'.kill.timer
    <3> DEFINE W == mgr.kill.when \ due
               T == W # {}
    <3>1. mgr'.kill = [when |-> W, timer |-> T]
      BY <1>3
    <3>2. W # {} => T
      OBVIOUS
    <3> HIDE DEF W, T
    <3>3. mgr'.kill.when = W /\ mgr'.kill.timer = T
      BY <3>1
    <3> QED
      BY <3>2, <3>3
  <2> QED
    BY <2>1, <2>2 DEF KillOk
<1>9. PcOk'
  BY <1>1 DEF PcOk
<1>10. TasksOk'
  <2>1. \A u \in Tasks : TaskOk(u, task'[u])
    BY <1>1, <1>2 DEF TasksOk
  <2> QED
    BY <2>1 DEF TasksOk
<1>11. QueueOk'
  BY <1>1, SameQueues
<1> QED
  BY <1>1, <1>2, <1>6, <1>7, <1>8, <1>9, <1>10, <1>11 DEF DownloadInv, KillOk

LEMMA ResetOk ==
    ASSUME DownloadInv, ResetGeneration
    PROVE  DownloadInv'
<1>1. /\ mgr' = mgr /\ task' = task /\ pc' = pc /\ posted' = posted
      /\ queues' = [d \in DcIds |-> resetGeneration(queues[d])]
  BY DEF ResetGeneration
<1>2. QueueOk /\ posted \in Seq([dc : DcIds, index : Nat])
  BY DEF DownloadInv
<1>3. ASSUME NEW d \in DcIds
      PROVE  /\ resetGeneration(queues[d]) \in Seq(Entry)
             /\ QueuedIn(queues'[d]) = QueuedIn(queues[d])
  BY <1>1, <1>2, ResetFact DEF QueueOk
<1>4. queues' \in [DcIds -> Seq(Entry)]
  BY <1>1, <1>3
<1>5. \A t \in Tasks :
        haveSentRequests(task'[t]) => t \in QueuedIn(queues'[DcOf[t]])
  BY <1>1, <1>2, <1>3, DownloadAssumption DEF QueueOk
<1>6. \A d \in DcIds : \A t \in QueuedIn(queues'[d]) : DcOf[t] = d
  BY <1>2, <1>3 DEF QueueOk
<1>7. QueueOk'
  BY <1>4, <1>5, <1>6 DEF QueueOk, haveSentRequests, QueuedIn
<1> QED
  BY <1>1, <1>2, <1>7, OtherwiseOk

-----------------------------------------------------------------------------
(* The invariant holds at the start. *)
LEMMA NewTaskOk ==
    ASSUME NEW t \in Tasks, NEW alive \in BOOLEAN
    PROVE  /\ NewTask(t, alive) \in TaskSet /\ TaskOk(t, NewTask(t, alive))
           /\ NewTask(t, alive).sent = <<>> /\ NewTask(t, alive).unchecked = {}
<1> DEFINE x == NewTask(t, alive)
<1>1. /\ x.sent = <<>> /\ x.unchecked = {} /\ x.wanted = {} /\ x.next = 1
      /\ x.last = FALSE /\ x.done = FALSE /\ x.cdn = FALSE /\ x.failed = FALSE
      /\ x.fed = [o \in Offsets |-> 0]
  BY DEF NewTask
<1>2. x \in TaskSet
  <2>1. [o \in Offsets |-> 0] \in [Offsets -> Nat]
    OBVIOUS
  <2>2. <<>> \in Seq(SentSet)
    OBVIOUS
  <2> DEFINE g == [o \in Offsets |-> 0]
  <2> HIDE DEF g
  <2> QED
    BY <2>1, <2>2 DEF NewTask, TaskSet, g
<1>3. Parts[t] \in Nat /\ \A o \in Offsets : o \in Nat /\ o >= 1 /\ x.fed[o] = 0
  BY <1>1, DownloadAssumption DEF Offsets
<1> HIDE DEF x
<1>4. /\ \A o : ~SentAt(x, o) /\ ~AsideAt(x, o)
      /\ ~haveSentRequests(x)
  BY <1>1 DEF SentAt, AsideAt, haveSentRequests
<1>5. FileOk(t, x, {})
  BY <1>1, <1>3, <1>4 DEF FileOk
<1>6. Strict(t, x, {})
  BY <1>1, <1>3, <1>4 DEF Strict
<1>7. TaskBase(t, x, {}) /\ AwaitedOk(t, x)
  BY <1>1, <1>2, <1>5 DEF TaskBase, AwaitedOk, Awaited
<1> QED
  BY <1>1, <1>2, <1>6, <1>7 DEF TaskOk, Pend, x

LEMMA InitOk ==
    ASSUME DownloadInit
    PROVE  DownloadInv
<1> DEFINE k0 == [when |-> {}, timer |-> FALSE]
<1>1. /\ mgr = [balance |-> [d \in DcIds |-> NewBalance], kill |-> k0]
      /\ queues = [d \in DcIds |-> <<>>] /\ pc = Idle /\ posted = <<>>
  BY DEF DownloadInit
<1>2. PICK there \in Together : task = [t \in Tasks |-> NewTask(t, t \in there)]
  BY DEF DownloadInit
<1>3. ASSUME NEW t \in Tasks
      PROVE  /\ task[t] \in TaskSet /\ TaskOk(t, task[t])
             /\ task[t].sent = <<>> /\ task[t].unchecked = {}
  <2> DEFINE alive == t \in there
  <2>1. task[t] = NewTask(t, alive) /\ alive \in BOOLEAN
    BY <1>2
  <2> HIDE DEF alive
  <2> QED
    BY <2>1, NewTaskOk
<1>4. task \in [Tasks -> TaskSet] /\ TasksOk
  <2>1. task = [t \in Tasks |-> task[t]]
    BY <1>2
  <2> QED
    BY <1>3, <2>1 DEF TasksOk
<1>5. NewSession \in SessionSet /\ NewSession.requested = 0
  BY BalanceAssumption DEF NewSession, SessionSet
<1>6. /\ NewBalance \in BalanceSet /\ NewBalance.total = 0
      /\ NewBalance.sessions = <<NewSession>>
  <2>1. <<NewSession>> \in Seq(SessionSet)
    BY <1>5
  <2> QED
    BY <2>1 DEF NewBalance, BalanceSet
<1>7. /\ \A d \in DcIds : mgr.balance[d] = NewBalance
      /\ mgr.kill.when = {}
  BY <1>1
<1>8. mgr \in MgrSet /\ KillOk(mgr)
  <2>1. k0 \in [when : SUBSET DcIds, timer : BOOLEAN]
    OBVIOUS
  <2>2. [d \in DcIds |-> NewBalance] \in [DcIds -> BalanceSet]
    BY <1>6
  <2>3. mgr \in MgrSet
    BY <1>1, <2>1, <2>2 DEF MgrSet
  <2> QED
    BY <1>7, <2>3 DEF KillOk
<1>9. QueueOk
  <2>1. queues \in [DcIds -> Seq(Entry)]
    BY <1>1
  <2>2. \A d \in DcIds : QueuedIn(queues[d]) = {}
    BY <1>1 DEF QueuedIn
  <2>3. \A t \in Tasks : ~haveSentRequests(task[t])
    BY <1>3 DEF haveSentRequests
  <2> QED
    BY <2>1, <2>2, <2>3 DEF QueueOk
<1>10. ASSUME NEW d \in DcIds PROVE BalancedAt(task, mgr, d, FALSE)
  <2>1. FlyingIn(task, d) = {}
    BY <1>3 DEF FlyingIn
  <2>2. \A k : FlyingAt(task, d, k) = {}
    BY <1>3 DEF FlyingAt, In
  <2>3. Cardinality({}) = 0 /\ IsFiniteSet({})
    BY FS_EmptySet
  <2>4. Len(NewBalance.sessions) = 1 /\ NewBalance.sessions[1] = NewSession
    BY <1>6
  <2>5. \A t \in Tasks : Sits(task[t], 1)
    BY <1>3 DEF Sits
  <2>6. ASSUME NEW k \in 1 .. 1
        PROVE  NewBalance.sessions[k].requested =
                 Cardinality(FlyingAt(task, d, k)) + Extra(FALSE, k, 1)
    <3> DEFINE z == Extra(FALSE, k, 1)
               v == Cardinality(FlyingAt(task, d, k))
    <3>1. z = 0
      BY DEF Extra
    <3>2. v = 0 /\ NewBalance.sessions[k].requested = 0
      BY <1>5, <2>2, <2>3, <2>4
    <3> HIDE DEF z, v
    <3>3. NewBalance.sessions[k].requested = v + z
      BY <3>1, <3>2
    <3> QED
      BY <3>3 DEF z, v
  <2>7. NewBalance.total = Cardinality(FlyingIn(task, d)) /\ IsFiniteSet(FlyingIn(task, d))
    BY <1>6, <2>1, <2>3
  <2>8. 1 >= 1 /\ mgr.balance[d] = NewBalance
    BY <1>7
  <2> QED
    BY <2>4, <2>5, <2>6, <2>7, <2>8 DEF BalancedAt
<1>11. Balanced
  <2>1. ASSUME NEW d \in DcIds PROVE BalancedAt(task, mgr, d, pc = Removing(d))
    <3>1. (pc = Removing(d)) = FALSE
      BY <1>1, PcFact
    <3> QED
      BY <1>10, <3>1
  <2> QED
    BY <2>1 DEF Balanced
<1>12. PcOk /\ posted \in Seq([dc : DcIds, index : Nat])
  BY <1>1 DEF PcOk
<1> QED
  BY <1>4, <1>8, <1>9, <1>11, <1>12 DEF DownloadInv

-----------------------------------------------------------------------------
LEMMA AnsweredOk ==
    ASSUME DownloadInv, NEW t \in Tasks, NEW i, Answered(t, i)
    PROVE  DownloadInv'
<1>1. CASE \E slow, early \in BOOLEAN :
             NormalPartLoaded(t, i, slow, early) \/ CdnPartLoaded(t, i, slow, early)
  BY <1>1, PartLoadedOk, CdnLoadedOk
<1>2. CASE \E early, bad \in BOOLEAN : CdnRedirect(t, i, early, bad)
  BY <1>2, RedirectOk
<1>3. CASE CdnReuploadNeeded(t, i)
  BY <1>3, ReuploadNeededOk
<1>4. CASE reuploadDone(t, i)
  BY <1>4, ReuploadDoneOk
<1>5. CASE getCdnFileHashesDone(t, i)
  BY <1>5, HashesDoneOk
<1>6. CASE CdnTokenInvalid(t, i)
  BY <1>6, TokenInvalidOk
<1>7. CASE RequestFailed(t, i)
  BY <1>7, RequestFailedOk
<1>8. CASE FileReferenceFailed(t, i)
  BY <1>8, ReferenceFailedOk
<1>9. CASE refreshFileReferenceFrom(t, i)
  BY <1>9, RefreshOk
<1> QED
  BY <1>1, <1>2, <1>3, <1>4, <1>5, <1>6, <1>7, <1>8, <1>9 DEF Answered

LEMMA OwnerOk ==
    ASSUME DownloadInv, NEW t \in Tasks, Owner(t)
    PROVE  DownloadInv'
<1>1. CASE StartLoading(t)
  BY <1>1, StartLoadingOk
<1>2. CASE \E partial \in 1 .. Parts[t] - 1 : StartLoadingWithPartial(t, partial)
  BY <1>2, PartialStep
<1>3. CASE CancelLoading(t)
  BY <1>3, CancelLoadingOk
<1>4. CASE \E o \in 1 .. Parts[t] : Load(t, o) \/ CancelForOffset(t, o)
  BY <1>4, LoadOk, CancelForOffsetOk
<1>5. CASE Stop(t)
  BY <1>5, StopOk
<1>6. CASE TryRemoveFromQueue(t)
  BY <1>6, TryRemoveOk
<1>7. CASE \E priority \in {0, 1} : setPriority(t, priority)
  <2>1. PICK p \in {0, 1} : setPriority(t, p)
    BY <1>7
  <2>2. p \in Int
    OBVIOUS
  <2> QED
    BY <2>1, <2>2, PriorityOk
<1>8. CASE Destroy(t)
  BY <1>8, DestroyOk
<1> QED
  BY <1>1, <1>2, <1>3, <1>4, <1>5, <1>6, <1>7, <1>8 DEF Owner

LEMMA StutterOk ==
    ASSUME DownloadInv, UNCHANGED downloadVars
    PROVE  DownloadInv'
<1>1. /\ mgr' = mgr /\ task' = task /\ queues' = queues /\ pc' = pc
      /\ posted' = posted /\ posted \in Seq([dc : DcIds, index : Nat])
  BY DEF downloadVars, DownloadInv
<1>2. QueueOk'
  BY <1>1, SameQueues
<1> QED
  BY <1>1, <1>2, OtherwiseOk

LEMMA NextOk ==
    ASSUME DownloadInv, DownloadNext
    PROVE  DownloadInv'
<1>1. CASE \E t \in Tasks : \E i \in DOMAIN task[t].sent : Answered(t, i)
  BY <1>1, AnsweredOk
<1>2. CASE Loops
  BY <1>2, TrySendOk, SessionRemovedOk, MoveOk DEF Loops
<1>3. CASE Posted
  BY <1>3, TimeoutPostedOk, HashesPostedOk, TooLateOk DEF Posted
<1>4. CASE \E d \in DcIds :
             \E i \in DOMAIN mgr.balance[d].sessions : SessionRestarted(d, i)
  BY <1>4, RestartedOk
<1>5. CASE \E due \in SUBSET DcIds : KillSessions(due)
  BY <1>5, KillSessionsOk
<1>6. CASE ResetGeneration
  BY <1>6, ResetOk
<1>7. CASE \E t \in Tasks : Owner(t)
  BY <1>7, OwnerOk
<1> QED
  BY <1>1, <1>2, <1>3, <1>4, <1>5, <1>6, <1>7 DEF DownloadNext

(* Whatever the server answers, and whenever the tasks are started,
   cancelled, stopped or dropped, the balance of every data center is what
   its tasks have in flight, and each task keeps its parts apart. *)
THEOREM AlwaysDownloadInv == DownloadSpec => []DownloadInv
<1>1. DownloadInit => DownloadInv
  BY InitOk
<1>2. DownloadInv /\ [DownloadNext]_downloadVars => DownloadInv'
  BY NextOk, StutterOk
<1> QED
  BY <1>1, <1>2, PTL DEF DownloadSpec

-----------------------------------------------------------------------------
(* What the invariant says of the properties. *)
LEMMA AllInFact ==
    ASSUME NEW d, NEW s, \A t \in Tasks : task[t] \in TaskSet
    PROVE  AllIn(d, s) = FlyingAt(task, d, s)
<1>1. \A t \in Tasks : SentIn(task[t], s) = In(task[t].sent, s)
  BY DEF SentIn, In
<1>2. ASSUME NEW t \in Tasks, NEW i \in In(task[t].sent, s) PROVE i \in Nat
  <2>1. DOMAIN task[t].sent = 1 .. Len(task[t].sent) /\ Len(task[t].sent) \in Nat
    BY TaskFact
  <2> QED
    BY <2>1 DEF In
<1>3. ASSUME NEW p \in AllIn(d, s) PROVE p \in FlyingAt(task, d, s)
  <2>1. PICK t \in Tasks :
          DcOf[t] = d /\ \E i \in In(task[t].sent, s) : p = <<t, i>>
    BY <1>1 DEF AllIn
  <2> QED
    BY <1>2, <2>1 DEF FlyingAt
<1>4. ASSUME NEW p \in FlyingAt(task, d, s) PROVE p \in AllIn(d, s)
  <2>1. /\ p \in Tasks \X Nat /\ DcOf[p[1]] = d /\ p = <<p[1], p[2]>>
        /\ p[2] \in SentIn(task[p[1]], s)
    BY <1>1 DEF FlyingAt
  <2> QED
    BY <2>1 DEF AllIn
<1> QED
  BY <1>3, <1>4

LEMMA UnionFact ==
    ASSUME DownloadInv, NEW d \in DcIds
    PROVE  UNION {AllIn(d, i) : i \in 1 .. Len(mgr.balance[d].sessions)}
             = FlyingIn(task, d)
<1> DEFINE n == Len(mgr.balance[d].sessions)
<1>1. \A t \in Tasks : task[t] \in TaskSet
  BY DEF DownloadInv
<1>2. \A i : AllIn(d, i) = FlyingAt(task, d, i)
  BY <1>1, AllInFact
<1>3. \A t \in Tasks : DcOf[t] = d => Sits(task[t], n)
  BY DEF DownloadInv, Balanced, BalancedAt
<1> HIDE DEF n
<1>4. ASSUME NEW i \in 1 .. n, NEW p \in AllIn(d, i) PROVE p \in FlyingIn(task, d)
  BY <1>2 DEF FlyingAt, FlyingIn, In
<1>5. ASSUME NEW p \in FlyingIn(task, d) PROVE \E i \in 1 .. n : p \in AllIn(d, i)
  <2>1. /\ p \in Tasks \X Nat /\ DcOf[p[1]] = d /\ p[1] \in Tasks
        /\ p[2] \in DOMAIN task[p[1]].sent
    BY DEF FlyingIn
  <2> DEFINE s == task[p[1]].sent[p[2]].session
  <2>2. s \in 1 .. n
    BY <1>3, <2>1 DEF Sits
  <2>3. p \in FlyingAt(task, d, s)
    BY <2>1 DEF FlyingAt, In
  <2> QED
    BY <1>2, <2>2, <2>3
<1> QED
  BY <1>4, <1>5 DEF n

LEMMA InvExact ==
    ASSUME DownloadInv
    PROVE  BalanceIsExact
<1>1. \A t \in Tasks : task[t] \in TaskSet
  BY DEF DownloadInv
<1>2. ASSUME NEW t \in Tasks, NEW r \in Range(task[t].sent) \cup task[t].unchecked
      PROVE  r.session \in DOMAIN mgr.balance[DcOf[t]].sessions
  <2>1. DcOf[t] \in DcIds
    BY StartOk
  <2>2. DOMAIN mgr.balance[DcOf[t]].sessions = 1 .. Len(mgr.balance[DcOf[t]].sessions)
    BY <2>1, RequestedFact
  <2>3. Sits(task[t], Len(mgr.balance[DcOf[t]].sessions))
    BY <2>1 DEF DownloadInv, Balanced, BalancedAt
  <2> QED
    BY <2>2, <2>3 DEF Sits, Range
<1>3. ASSUME NEW d \in DcIds
      PROVE  LET b == mgr.balance[d]
                 n == Len(b.sessions)
                 extra(i) == IF pc = Removing(d) /\ i = n THEN Closed ELSE 0
                 count(i) == Cardinality(AllIn(d, i))
             IN  /\ \A i \in 1 .. n : b.sessions[i].requested = count(i) + extra(i)
                 /\ b.total = Cardinality(UNION {AllIn(d, i) : i \in 1 .. n})
  <2> DEFINE b == mgr.balance[d]
             n == Len(b.sessions)
             extra(i) == IF pc = Removing(d) /\ i = n THEN Closed ELSE 0
             count(i) == Cardinality(AllIn(d, i))
  <2>1. /\ \A k \in 1 .. n : b.sessions[k].requested =
             Cardinality(FlyingAt(task, d, k)) + Extra(pc = Removing(d), k, n)
        /\ b.total = Cardinality(FlyingIn(task, d))
    BY DEF DownloadInv, Balanced, BalancedAt
  <2>2. \A i : count(i) = Cardinality(FlyingAt(task, d, i))
    BY <1>1, AllInFact
  <2>3. \A i : extra(i) = Extra(pc = Removing(d), i, n)
    BY DEF Extra
  <2>4. UNION {AllIn(d, i) : i \in 1 .. n} = FlyingIn(task, d)
    BY UnionFact
  <2>5. ASSUME NEW i \in 1 .. n
        PROVE  b.sessions[i].requested = count(i) + extra(i)
    <3>1. /\ b.sessions[i].requested =
               Cardinality(FlyingAt(task, d, i)) + Extra(pc = Removing(d), i, n)
          /\ count(i) = Cardinality(FlyingAt(task, d, i))
          /\ extra(i) = Extra(pc = Removing(d), i, n)
      BY <2>1, <2>2, <2>3
    <3> HIDE DEF b, n, extra, count
    <3> QED
      BY <3>1
  <2> QED
    BY <2>1, <2>4, <2>5
<1> QED
  BY <1>2, <1>3 DEF BalanceIsExact

LEMMA InvTasks ==
    ASSUME DownloadInv
    PROVE  /\ OneRequestPerOffset /\ FinishedIsWhole
           /\ UncheckedIsAwaited /\ StopsOnlyIdle
<1>1. ASSUME NEW t \in Tasks
      PROVE  /\ task[t] \in TaskSet
             /\ t \in Streams => ~task[t].done
             /\ t \notin Streams => FileOk(t, task[t], {})
             /\ t \notin TokenErrors => Strict(t, task[t], {}) /\ Awaited(task[t])
  BY DEF DownloadInv, TasksOk, TaskOk, Pend, TaskBase, AwaitedOk
<1>2. OneRequestPerOffset
  BY <1>1 DEF OneRequestPerOffset, Strict
<1>3. FinishedIsWhole
  <2>1. ASSUME NEW t \in Tasks, task[t].done
        PROVE  \A o \in 1 .. Parts[t] : task[t].fed[o] >= 1
    BY <1>1, <2>1 DEF FileOk
  <2>2. ASSUME NEW t \in Tasks, t \notin Streams \cup TokenErrors
        PROVE  \A o \in Offsets : task[t].fed[o] <= 1
    BY <1>1, <2>2 DEF Strict
  <2> QED
    BY <2>1, <2>2 DEF FinishedIsWhole
<1>4. UncheckedIsAwaited
  BY <1>1 DEF UncheckedIsAwaited, Awaited
<1>5. StopsOnlyIdle
  BY DEF DownloadInv, KillOk, StopsOnlyIdle
<1> QED
  BY <1>2, <1>3, <1>4, <1>5

(* The amount a session waits for is what the tasks have in flight in it,
   through redirects, cancels, moves and removed sessions. *)
THEOREM BalanceIsAlwaysExact == DownloadSpec => []BalanceIsExact
  BY AlwaysDownloadInv, InvExact, PTL

(* The sessions that are to be stopped have nothing in flight. *)
THEOREM AlwaysStopsOnlyIdle == DownloadSpec => []StopsOnlyIdle
  BY AlwaysDownloadInv, InvTasks, PTL

(* A part is asked for by one request at a time. *)
THEOREM AlwaysOneRequestPerOffset == DownloadSpec => []OneRequestPerOffset
  BY AlwaysDownloadInv, InvTasks, PTL

(* A file that is finished is whole, and no part was written twice. *)
THEOREM FinishedIsAlwaysWhole == DownloadSpec => []FinishedIsWhole
  BY AlwaysDownloadInv, InvTasks, PTL

(* A part that was put aside has its hashes asked for. *)
THEOREM UncheckedIsAlwaysAwaited == DownloadSpec => []UncheckedIsAwaited
  BY AlwaysDownloadInv, InvTasks, PTL

-----------------------------------------------------------------------------
(* That a data center with nothing in flight has nothing to ask for: when
   the last request of a data center is gone without a loop, its task can
   ask for nothing more, or is one that the property leaves out. *)
CanAsk(t, x) ==
    IF t \in Streams THEN x.wanted # {}
      ELSE /\ ~x.finished /\ ~x.last
           /\ x.known \/ ~haveSentRequests(x)
           /\ x.known => x.next <= Parts[t]

Lingers(t, x) ==
    IF t \in Streams THEN x.wanted = {} /\ ~haveSentRequests(x) ELSE x.finished

ServedIn(T, q, d) ==
    \/ \E t \in Tasks : DcOf[t] = d /\ T[t].sent # <<>>
    \/ \E t \in QueuedIn(q) : t \in OnCdn \/ Lingers(t, T[t])
    \/ \A t \in QueuedIn(q) : ~CanAsk(t, T[t])

Served == \A d \in DcIds : pc = Sending(d) \/ ServedIn(task, queues[d], d)

(* A task that keeps a loop from being needed, and one that does not need
   it more than before. *)
Settled(t, x) == x.sent # <<>> \/ t \in OnCdn \/ Lingers(t, x)

NoWorse(t, x, y) ==
    /\ x.sent # <<>> => y.sent # <<>>
    /\ Lingers(t, x) => Lingers(t, y)
    /\ CanAsk(t, y) => CanAsk(t, x)

LEMMA EasedServed ==
    ASSUME Served, \A d \in DcIds : pc # Sending(d),
           \A t \in Tasks : NoWorse(t, task[t], task'[t]),
           \A d \in DcIds : QueuedIn(queues'[d]) = QueuedIn(queues[d]),
           \A d \in DcIds : QueuedIn(queues[d]) \subseteq Tasks
    PROVE  Served'
<1>1. ASSUME NEW d \in DcIds PROVE ServedIn(task', queues'[d], d)
  <2> DEFINE Q == QueuedIn(queues[d])
             T == task
             U == task'
  <2>1. ServedIn(T, queues[d], d)
    BY DEF Served
  <2>2. Q = QueuedIn(queues'[d]) /\ Q \subseteq Tasks
    OBVIOUS
  <2>3. \A t \in Tasks : NoWorse(t, T[t], U[t])
    OBVIOUS
  <2> HIDE DEF T, U
  <2>4. CASE \E t \in Tasks : DcOf[t] = d /\ T[t].sent # <<>>
    BY <2>3, <2>4 DEF ServedIn, NoWorse, U
  <2>5. CASE \E t \in Q : t \in OnCdn \/ Lingers(t, T[t])
    BY <2>2, <2>3, <2>5 DEF ServedIn, NoWorse, U
  <2>6. CASE \A t \in Q : ~CanAsk(t, T[t])
    BY <2>2, <2>3, <2>6 DEF ServedIn, NoWorse, U
  <2> QED
    BY <2>1, <2>4, <2>5, <2>6 DEF ServedIn
<1> QED
  BY <1>1 DEF Served

LEMMA QueueFact ==
    ASSUME DownloadInv, NEW d \in DcIds
    PROVE  /\ queues[d] \in Seq(Entry) /\ QueuedIn(queues[d]) \subseteq Tasks
           /\ \A t \in QueuedIn(queues[d]) : DcOf[t] = d
           /\ \A t \in Tasks : DcOf[t] = d /\ haveSentRequests(task[t])
                => t \in QueuedIn(queues[d])
<1>1. /\ queues[d] \in Seq(Entry)
      /\ \A t \in QueuedIn(queues[d]) : DcOf[t] = d
      /\ \A t \in Tasks : DcOf[t] = d /\ haveSentRequests(task[t])
                => t \in QueuedIn(queues[d])
  BY DEF DownloadInv, QueueOk
<1>2. ASSUME NEW i \in DOMAIN queues[d] PROVE queues[d][i].task \in Tasks
  <2>1. queues[d][i] \in Entry
    BY <1>1
  <2> QED
    BY <2>1 DEF Entry
<1> QED
  BY <1>1, <1>2 DEF QueuedIn

(* A handler after which no loop is run. *)
LEMMA SettledServed ==
    ASSUME DownloadInv, Served, \A d \in DcIds : pc # Sending(d),
           NEW t \in Tasks, NEW y, Settled(t, y) \/ NoWorse(t, task[t], y),
           task' = [task EXCEPT ![t] = y], queues' = queues
    PROVE  Served'
<1>0. task \in [Tasks -> TaskSet]
  BY DEF DownloadInv
<1>1. /\ \A d \in DcIds : QueuedIn(queues'[d]) = QueuedIn(queues[d])
      /\ \A d \in DcIds : QueuedIn(queues[d]) \subseteq Tasks
  BY QueueFact
<1>2. task'[t] = y /\ \A u \in Tasks : u # t => task'[u] = task[u]
  BY <1>0
<1>3. CASE NoWorse(t, task[t], y)
  <2>1. \A u \in Tasks : NoWorse(u, task[u], task'[u])
    BY <1>2, <1>3 DEF NoWorse
  <2> QED
    BY <1>1, <2>1, EasedServed
<1>4. CASE Settled(t, y)
  <2>1. ASSUME NEW d \in DcIds PROVE ServedIn(task', queues'[d], d)
    <3> DEFINE Q == QueuedIn(queues[d])
               T == task
               U == task'
    <3>1. ServedIn(T, queues[d], d) /\ queues' = queues
      BY DEF Served
    <3>2. /\ Q \subseteq Tasks /\ \A u \in Q : DcOf[u] = d
          /\ \A u \in Tasks : DcOf[u] = d /\ haveSentRequests(T[u]) => u \in Q
      BY QueueFact
    <3>3. U[t] = y /\ \A u \in Tasks : u # t => U[u] = T[u]
      BY <1>2
    <3> HIDE DEF T, U
    <3>4. CASE t \in Q
      BY <1>4, <3>1, <3>2, <3>3, <3>4 DEF Settled, ServedIn, U
    <3>5. CASE t \notin Q
      <4>1. \A u \in Q : u # t /\ U[u] = T[u]
        BY <3>2, <3>3, <3>5
      <4>2. \A u \in Tasks : DcOf[u] = d /\ T[u].sent # <<>> => U[u] = T[u]
        BY <3>2, <3>3, <3>5 DEF haveSentRequests
      <4> QED
        BY <3>1, <4>1, <4>2 DEF ServedIn, U
    <3> QED
      BY <3>4, <3>5
  <2> QED
    BY <2>1 DEF Served
<1> QED
  BY <1>3, <1>4

(* ... and one that is followed by the loop. *)
LEMMA LoopServed ==
    ASSUME DownloadInv, Served, NEW t \in Tasks, NEW y,
           pc = Idle \/ pc = Sending(DcOf[t]), pc' = Sending(DcOf[t]),
           task' = [task EXCEPT ![t] = y],
           \A d \in DcIds : d # DcOf[t] => queues'[d] = queues[d]
    PROVE  Served'
<1>0. task \in [Tasks -> TaskSet]
  BY DEF DownloadInv
<1>1. ASSUME NEW d \in DcIds, d # DcOf[t] PROVE ServedIn(task', queues'[d], d)
  <2> DEFINE Q == QueuedIn(queues[d])
             T == task
             U == task'
  <2>1. ServedIn(T, queues[d], d) /\ queues'[d] = queues[d]
    <3>1. pc # Sending(d)
      BY <1>1, PcFact
    <3> QED
      BY <1>1, <3>1 DEF Served
  <2>2. Q \subseteq Tasks /\ \A u \in Q : DcOf[u] = d
    BY QueueFact
  <2>3. \A u \in Tasks : DcOf[u] = d => U[u] = T[u]
    BY <1>0, <1>1
  <2> HIDE DEF T, U
  <2> QED
    BY <2>1, <2>2, <2>3 DEF ServedIn, U
<1> QED
  BY <1>1 DEF Served

(* The requests that only a file on a CDN has. *)
LEMMA OnlyOnCdn ==
    ASSUME DownloadInv, NEW t \in Tasks, NEW i \in DOMAIN task[t].sent,
           isHashes(task[t].sent[i]) \/ task[t].sent[i].kind = "cdn"
    PROVE  t \in OnCdn
<1>1. t \in TokenErrors => t \in OnCdn
  BY DownloadAssumption
<1>2. ASSUME t \notin TokenErrors PROVE t \in OnCdn
  <2>1. Strict(t, task[t], {})
    BY <1>2, StartOk DEF TaskOk, Pend
  <2>2. task[t].cdn
    BY <2>1 DEF Strict, AsideAt
  <2> QED
    BY <2>1, <2>2 DEF Strict
<1> QED
  BY <1>1, <1>2

(* A request that was sent is there. *)
LEMMA PlacedFlies ==
    ASSUME NEW c \in CtxSet, NEW o, NEW s, NEW k
    PROVE  /\ placeSentRequest(c, o, s, k).x.sent # <<>>
           /\ makeRequest(c, o, s).x.sent # <<>>
<1>1. ASSUME NEW h PROVE placeSentRequest(c, o, s, h).x.sent # <<>>
  <2> DEFINE e == changeRequestedAmount(c, s, 1)
             r == [offset |-> o, kind |-> h, session |-> s, old |-> FALSE,
                   amount |-> e.mgr.balance[c.d].sessions[s].requested]
             S == SentSet \cup {r}
  <2>1. placeSentRequest(c, o, s, h) = [e EXCEPT !.x.sent = Append(@, r)]
    BY DEF placeSentRequest
  <2>2. PICK g : e = [c EXCEPT !.mgr = g]
    BY DEF changeRequestedAmount
  <2> HIDE DEF e, r
  <2>3. c.x \in TaskSet /\ c.x.sent \in Seq(SentSet)
    BY CtxFact, TaskFact
  <2>4. e = [mgr |-> g, x |-> c.x, d |-> c.d]
    BY <2>2 DEF CtxSet
  <2>5. [e EXCEPT !.x.sent = Append(@, r)].x.sent = Append(c.x.sent, r)
    BY <2>3, <2>4 DEF TaskSet
  <2>6. c.x.sent \in Seq(S) /\ r \in S
    BY <2>3
  <2> HIDE DEF S
  <2>7. Append(c.x.sent, r) # <<>>
    BY <2>6
  <2> QED
    BY <2>1, <2>5, <2>7
<1> QED
  BY <1>1 DEF makeRequest

(* A loader that failed is finished; a stream keeps what it asked for. *)
LEMMA FailSettles ==
    ASSUME NEW F, NEW R, NEW n, RestOk(F, R, n), NEW c, Good(c, F, R, n), NEW t
    PROVE  /\ t \notin Streams => /\ cancelOnFail(t, c).x.finished = TRUE
                                  /\ cancelOnFail(t, c) \in CtxSet
           /\ t \in Streams => NoWorse(t, c.x, cancelOnFail(t, c).x)
<1>0. c \in CtxSet /\ c.x \in TaskSet
  BY CtxFact DEF Good
<1>1. ASSUME t \notin Streams
      PROVE  cancelOnFail(t, c).x.finished = TRUE /\ cancelOnFail(t, c) \in CtxSet
  <2> DEFINE e == cancelAllRequests(c)
             y == [e.x EXCEPT !.finished = TRUE, !.done = FALSE]
  <2>1. e \in CtxSet /\ e.x \in TaskSet /\ e.mgr \in MgrSet /\ e.d \in DcIds
    <3>1. Good(e, F, R, n)
      BY CancelAllGood
    <3> HIDE DEF e
    <3> QED
      BY <3>1, CtxFact DEF Good
  <2>2. cancelOnFail(t, c) = [e EXCEPT !.x.finished = TRUE, !.x.done = FALSE]
    BY <1>1 DEF cancelOnFail
  <2> HIDE DEF e
  <2>3. y \in TaskSet /\ y.finished = TRUE
    BY <2>1 DEF TaskSet
  <2>4. cancelOnFail(t, c) = [mgr |-> e.mgr, x |-> y, d |-> e.d]
    BY <2>1, <2>2 DEF CtxSet
  <2> HIDE DEF y
  <2> QED
    BY <2>1, <2>3, <2>4 DEF CtxSet
<1>2. ASSUME t \in Streams PROVE NoWorse(t, c.x, cancelOnFail(t, c).x)
  <2>1. cancelOnFail(t, c) = [c EXCEPT !.x.failed = TRUE]
    BY <1>2 DEF cancelOnFail
  <2>2. /\ [c EXCEPT !.x.failed = TRUE].x.sent = c.x.sent
        /\ [c EXCEPT !.x.failed = TRUE].x.unchecked = c.x.unchecked
        /\ [c EXCEPT !.x.failed = TRUE].x.wanted = c.x.wanted
    BY <1>0 DEF CtxSet, TaskSet
  <2> QED
    BY <1>2, <2>1, <2>2 DEF NoWorse, Lingers, CanAsk, haveSentRequests
<1> QED
  BY <1>1, <1>2

LEMMA PartFailSettles ==
    ASSUME NEW F, NEW R, NEW n, RestOk(F, R, n), NEW t, NEW c,
           CtxOk(t, c, {}, F, R, n), NEW i \in DOMAIN c.x.sent
    PROVE  Settled(t, partFailed(t, c, i).x)
<1> DEFINE e == cancelOnFail(t, c)
<1>0. Good(c, F, R, n)
  BY CtxOkFact
<1>1. CASE t \notin Streams
  <2>1. partFailed(t, c, i) = e
    BY <1>1 DEF partFailed
  <2>2. e.x.finished = TRUE
    BY <1>0, <1>1, FailSettles
  <2> QED
    BY <1>1, <2>1, <2>2 DEF Settled, Lingers
<1>2. CASE t \in Streams
  <2>1. e.x.sent = c.x.sent /\ CtxOk(t, e, {}, F, R, n)
    BY <1>2, FailOk DEF FailGives
  <2>2. partFailed(t, c, i) = [e EXCEPT !.x.sent[i] = dead(@)]
    BY <1>2 DEF partFailed
  <2>3. e \in CtxSet /\ e.x \in TaskSet
    <3> HIDE DEF e
    <3> QED
      BY <2>1, CtxOkFact
  <2> HIDE DEF e
  <2> DEFINE z == dead(e.x.sent[i])
  <2>4. partFailed(t, c, i).x.sent = [e.x.sent EXCEPT ![i] = z]
    BY <2>2, <2>3 DEF CtxSet, TaskSet
  <2> HIDE DEF z
  <2>5. i \in DOMAIN [e.x.sent EXCEPT ![i] = z]
    BY <2>1
  <2>6. partFailed(t, c, i).x.sent # <<>>
    BY <2>4, <2>5
  <2> QED
    BY <2>6 DEF Settled
<1> QED
  BY <1>1, <1>2

-----------------------------------------------------------------------------
(* The handlers. *)
LEMMA StayServed ==
    ASSUME DownloadInv, Served, pc = Idle, NEW t \in Tasks, NEW c, Apply(t, c),
           queues' = queues, Settled(t, c.x) \/ NoWorse(t, task[t], c.x)
    PROVE  Served'
<1> DEFINE y == c.x
<1>1. task' = [task EXCEPT ![t] = y] /\ (Settled(t, y) \/ NoWorse(t, task[t], y))
  BY DEF Apply
<1>2. \A d \in DcIds : pc # Sending(d)
  BY PcFact
<1> HIDE DEF y
<1> QED
  BY <1>1, <1>2, SettledServed

LEMMA SendServed ==
    ASSUME DownloadInv, Served, pc = Idle, NEW t \in Tasks,
           \E y : task' = [task EXCEPT ![t] = y], pc' = Sending(DcOf[t]),
           queues' = queues \/ \E q : queues' = [queues EXCEPT ![DcOf[t]] = q]
    PROVE  Served'
<1>1. PICK y : task' = [task EXCEPT ![t] = y]
  OBVIOUS
<1>2. \A d \in DcIds : d # DcOf[t] => queues'[d] = queues[d]
  BY DEF DownloadInv, QueueOk
<1> QED
  BY <1>1, <1>2, LoopServed

LEMMA LeaveQueues ==
    ASSUME NEW t, NEW f, f.d = DcOf[t], LeaveIfDone(t, f)
    PROVE  queues' = queues \/ \E q : queues' = [queues EXCEPT ![DcOf[t]] = q]
  BY DEF LeaveIfDone

(* The context of a part that came is the one of its data center. *)
LEMMA SuccessDc ==
    ASSUME DownloadInv, NEW t \in Tasks, NEW i, NEW kind, InFlight(t, i, kind),
           kind \in {"part", "cdn"}, NEW slow, NEW early
    PROVE  /\ Success(t, i, slow, early) \in CtxSet
           /\ Success(t, i, slow, early).d = DcOf[t]
<1> DEFINE e == Success(t, i, slow, early)
<1>1. e.d = DcOf[t] /\ \E P : Mine(t, e, P)
  BY SuccessFact
<1> HIDE DEF e
<1>2. e \in CtxSet
  BY <1>1, CtxOkFact DEF Mine
<1> QED
  BY <1>1, <1>2 DEF e

LEMMA PartLoadedServed ==
    ASSUME DownloadInv, Served, NEW t \in Tasks, NEW i, NEW slow \in BOOLEAN,
           NEW early \in BOOLEAN, NormalPartLoaded(t, i, slow, early)
    PROVE  Served'
<1> DEFINE e == Success(t, i, slow, early)
           c == [e EXCEPT !.x.known = @ \/ t \in Web]
           o == task[t].sent[i].offset
<1>1. /\ pc = Idle /\ i \in DOMAIN task[t].sent /\ InFlight(t, i, "part")
      /\ pc' = Sending(DcOf[t])
  BY DEF NormalPartLoaded, InFlight, AfterAnswer
<1>2. e \in CtxSet /\ e.d = DcOf[t]
  BY <1>1, SuccessDc
<1>3. \/ \E short \in MayBeShort(t, o) :
           /\ \E z \in MayFailToFinalize(t, feedPart(t, c, o, short)) : Apply(t, z)
           /\ LeaveIfDone(t, feedPart(t, c, o, short))
      \/ Apply(t, cancelOnFail(t, c)) /\ queues' = queues
  BY Zenon DEF NormalPartLoaded
<1> HIDE DEF e
<1>4. c.d = DcOf[t] /\ c \in [mgr : {c.mgr}, x : {c.x}, d : {c.d}]
  BY <1>2 DEF CtxSet
<1> HIDE DEF c, o
<1>5. \A short : feedPart(t, c, o, short).d = DcOf[t]
  BY <1>4 DEF feedPart
<1>6. \E y : task' = [task EXCEPT ![t] = y]
  BY <1>3 DEF Apply
<1>7. queues' = queues \/ \E q : queues' = [queues EXCEPT ![DcOf[t]] = q]
  BY <1>3, <1>5, LeaveQueues
<1> QED
  BY <1>1, <1>6, <1>7, SendServed

LEMMA CdnLoadedServed ==
    ASSUME DownloadInv, Served, NEW t \in Tasks, NEW i, NEW slow \in BOOLEAN,
           NEW early \in BOOLEAN, CdnPartLoaded(t, i, slow, early)
    PROVE  Served'
<1> DEFINE c == Success(t, i, slow, early)
           r == task[t].sent[i]
<1>1. /\ pc = Idle /\ i \in DOMAIN task[t].sent /\ InFlight(t, i, "cdn")
      /\ pc' = Sending(DcOf[t])
  BY DEF CdnPartLoaded, InFlight, AfterAnswer
<1>2. c \in CtxSet /\ c.d = DcOf[t]
  BY <1>1, SuccessDc
<1>3. \/ Apply(t, putAside(c, r)) /\ queues' = queues
      \/ \E short \in MayBeShort(t, r.offset) :
           /\ \E z \in MayFailToFinalize(t, feedPart(t, c, r.offset, short)) :
                Apply(t, z)
           /\ LeaveIfDone(t, feedPart(t, c, r.offset, short))
      \/ Apply(t, cancelOnFail(t, c)) /\ queues' = queues
  BY Zenon DEF CdnPartLoaded
<1> HIDE DEF c, r
<1>4. c.d = DcOf[t] /\ c \in [mgr : {c.mgr}, x : {c.x}, d : {c.d}]
  BY <1>2 DEF CtxSet
<1>5. \A short : feedPart(t, c, r.offset, short).d = DcOf[t]
  BY <1>4 DEF feedPart
<1>6. \E y : task' = [task EXCEPT ![t] = y]
  BY <1>3 DEF Apply
<1>7. queues' = queues \/ \E q : queues' = [queues EXCEPT ![DcOf[t]] = q]
  BY <1>3, <1>5, LeaveQueues
<1> QED
  BY <1>1, <1>6, <1>7, SendServed

LEMMA RedirectServed ==
    ASSUME DownloadInv, Served, NEW t \in Tasks, NEW i, NEW early, NEW bad,
           CdnRedirect(t, i, early, bad)
    PROVE  Served'
<1>1. /\ pc = Idle /\ pc' = Sending(DcOf[t]) /\ queues' = queues
      /\ \E c : Apply(t, c)
  BY Zenon DEF CdnRedirect, InFlight, AfterAnswer
<1>2. \E y : task' = [task EXCEPT ![t] = y]
  BY <1>1 DEF Apply
<1> QED
  BY <1>1, <1>2, SendServed

LEMMA FinishCtx ==
    ASSUME DownloadInv, NEW t \in Tasks, NEW i \in DOMAIN task[t].sent
    PROVE  /\ finishSentRequest(Context(t), i) \in CtxSet
           /\ finishSentRequest(Context(t), i).d = DcOf[t]
           /\ Context(t) \in CtxSet /\ Mine(t, Context(t), {})
           /\ RestOk(MyF(t), MyR(t), MyN(t)) /\ i \in DOMAIN Context(t).x.sent
<1> DEFINE k == Context(t)
           F == MyF(t)
           R == MyR(t)
           n == MyN(t)
<1>1. /\ RestOk(F, R, n) /\ CtxOk(t, k, {}, F, R, n) /\ k.x = task[t] /\ k.d = DcOf[t]
  BY StartOk DEF Mine
<1>2. i \in DOMAIN k.x.sent
  BY <1>1
<1> HIDE DEF k, F, R, n
<1>3. Good(k, F, R, n) /\ k \in CtxSet
  BY <1>1, CtxOkFact
<1>4. Good(finishSentRequest(k, i), F, R, n) /\ finishSentRequest(k, i).d = k.d
  <2>1. Good(finishSentRequest(k, i), F, R, n) /\ SameSessions(k, finishSentRequest(k, i))
    BY <1>1, <1>2, <1>3, DropGood
  <2> DEFINE e == finishSentRequest(k, i)
  <2> HIDE DEF e
  <2>2. SameSessions(k, e)
    BY <2>1 DEF e
  <2>3. e.d = k.d
    BY <2>2 DEF SameSessions, SameElsewhere
  <2> QED
    BY <2>1, <2>3 DEF e
<1> QED
  BY <1>1, <1>2, <1>3, <1>4 DEF Good, Mine, k, F, R, n

LEMMA ReuploadNeededServed ==
    ASSUME DownloadInv, Served, NEW t \in Tasks, NEW i, CdnReuploadNeeded(t, i)
    PROVE  Served'
<1> DEFINE e == finishSentRequest(Context(t), i)
           r == task[t].sent[i]
           c == placeSentRequest(e, r.offset, r.session, "reupload")
<1>1. /\ pc = Idle /\ i \in DOMAIN task[t].sent /\ queues' = queues /\ Apply(t, c)
  BY DEF CdnReuploadNeeded, InFlight
<1>2. e \in CtxSet
  BY <1>1, FinishCtx
<1> HIDE DEF e, r
<1>3. Settled(t, c.x)
  BY <1>2, PlacedFlies DEF Settled
<1> HIDE DEF c
<1> QED
  BY <1>1, <1>3, StayServed

LEMMA HashesCtx ==
    ASSUME NEW c \in CtxSet, NEW H \in SUBSET Offsets
    PROVE  /\ [c EXCEPT !.x.hashes = @ \cup H] \in CtxSet
           /\ [c EXCEPT !.x.hashes = @ \cup H].d = c.d
<1> DEFINE y == [c.x EXCEPT !.hashes = c.x.hashes \cup H]
<1>1. c.x \in TaskSet /\ c.mgr \in MgrSet /\ c.d \in DcIds
  BY CtxFact
<1>2. y \in TaskSet
  BY <1>1 DEF TaskSet
<1>3. [c EXCEPT !.x.hashes = @ \cup H] = [c EXCEPT !.x = y]
  BY <1>1 DEF CtxSet, TaskSet
<1> HIDE DEF y
<1>4. [c EXCEPT !.x = y] = [mgr |-> c.mgr, x |-> y, d |-> c.d]
  BY DEF CtxSet
<1> QED
  BY <1>1, <1>2, <1>3, <1>4 DEF CtxSet

LEMMA ReuploadDoneServed ==
    ASSUME DownloadInv, Served, NEW t \in Tasks, NEW i, reuploadDone(t, i)
    PROVE  Served'
<1> DEFINE e == finishSentRequest(Context(t), i)
           r == task[t].sent[i]
<1>1. pc = Idle /\ i \in DOMAIN task[t].sent /\ queues' = queues
  BY DEF reuploadDone, InFlight
<1>2. PICK H \in SomeHashes(r.offset) :
        Apply(t, makeRequest([e EXCEPT !.x.hashes = @ \cup H], r.offset, r.session))
  BY DEF reuploadDone
<1>3. e \in CtxSet
  BY <1>1, FinishCtx
<1>4. H \in SUBSET Offsets
  <2>1. r \in SentSet
    BY <1>1, StartOk, TaskFact
  <2>2. r.offset \in Offsets
    BY <2>1 DEF SentSet
  <2> HIDE DEF r
  <2> QED
    BY <2>2, SomeHashesFact
<1> HIDE DEF e, r
<1> DEFINE g == [e EXCEPT !.x.hashes = @ \cup H]
           c == makeRequest(g, r.offset, r.session)
<1>5. g \in CtxSet
  BY <1>3, <1>4, HashesCtx
<1>6. Apply(t, c)
  BY <1>2
<1> HIDE DEF g
<1>7. Settled(t, c.x)
  BY <1>5, PlacedFlies DEF Settled
<1> HIDE DEF c
<1> QED
  BY <1>1, <1>6, <1>7, StayServed

LEMMA TokenInvalidServed ==
    ASSUME DownloadInv, Served, NEW t \in Tasks, NEW i, CdnTokenInvalid(t, i)
    PROVE  Served'
<1>1. pc = Idle /\ queues' = queues /\ t \in OnCdn /\ \E c : Apply(t, c)
  BY Zenon, DownloadAssumption DEF CdnTokenInvalid, InFlight
<1> QED
  BY <1>1, StayServed DEF Settled

LEMMA HashesDoneServed ==
    ASSUME DownloadInv, Served, NEW t \in Tasks, NEW i, getCdnFileHashesDone(t, i)
    PROVE  Served'
<1> DEFINE k(H) == [finishSentRequest(Context(t), i) EXCEPT !.x.hashes = @ \cup H]
           o == Parts[t] + 2
<1>1. pc = Idle /\ i \in DOMAIN task[t].sent /\ task[t].sent[i].kind = "hash"
  BY DEF getCdnFileHashesDone, InFlight
<1>2. t \in OnCdn
  BY <1>1, OnlyOnCdn DEF isHashes
<1>3. PICK H \in SomeHashes(task[t].sent[i].offset) :
        \/ \E c : Apply(t, c) /\ queues' = queues
        \/ \E f \in feedChecked(t, k(H), o) :
             /\ \E c : Apply(t, c)
             /\ LeaveIfDone(t, f)
             /\ pc' = IF f.x.done THEN Sending(DcOf[t]) ELSE pc
  BY Zenon DEF getCdnFileHashesDone
<1>4. CASE \E c : Apply(t, c) /\ queues' = queues
  BY <1>1, <1>2, <1>4, StayServed DEF Settled
<1>5. ASSUME NEW f \in feedChecked(t, k(H), o), \E c : Apply(t, c),
             LeaveIfDone(t, f), pc' = IF f.x.done THEN Sending(DcOf[t]) ELSE pc
      PROVE  Served'
  <2>1. CASE ~f.x.done
    <3>1. queues' = queues
      BY <1>5, <2>1 DEF LeaveIfDone
    <3> QED
      BY <1>1, <1>2, <1>5, <3>1, StayServed DEF Settled
  <2>2. CASE f.x.done
    <3>1. k(H).d = DcOf[t] /\ k(H) \in CtxSet
      <4> DEFINE e == finishSentRequest(Context(t), i)
      <4>1. e \in CtxSet /\ e.d = DcOf[t]
        BY <1>1, FinishCtx
      <4>2. task[t].sent[i] \in SentSet
        BY <1>1, StartOk, TaskFact
      <4>3. task[t].sent[i].offset \in Offsets
        BY <4>2 DEF SentSet
      <4>4. H \in SUBSET Offsets
        BY <4>3, SomeHashesFact
      <4> HIDE DEF e
      <4>5. /\ [e EXCEPT !.x.hashes = @ \cup H] \in CtxSet
            /\ [e EXCEPT !.x.hashes = @ \cup H].d = e.d
        BY <4>1, <4>4, HashesCtx
      <4> QED
        BY <4>1, <4>5 DEF e
    <3> DEFINE h == k(H)
    <3>2. h.d = DcOf[t] /\ h \in CtxSet /\ f \in feedChecked(t, h, o)
      BY <1>5, <3>1
    <3> HIDE DEF k, h, o
    <3>3. \E z : f = [h EXCEPT !.x = z]
      BY <3>2, Zenon DEF feedChecked
    <3>4. f.d = DcOf[t]
      BY <3>2, <3>3 DEF CtxSet
    <3>5. queues' = queues \/ \E q : queues' = [queues EXCEPT ![DcOf[t]] = q]
      BY <1>5, <3>4, LeaveQueues
    <3>6. pc' = Sending(DcOf[t]) /\ \E y : task' = [task EXCEPT ![t] = y]
      BY <1>5, <2>2 DEF Apply
    <3> QED
      BY <1>1, <3>5, <3>6, SendServed
  <2> QED
    BY <2>1, <2>2
<1> QED
  BY <1>3, <1>4, <1>5

LEMMA RequestFailedServed ==
    ASSUME DownloadInv, Served, NEW t \in Tasks, NEW i, RequestFailed(t, i)
    PROVE  Served'
<1> DEFINE c == partFailed(t, Context(t), i)
<1>1. /\ pc = Idle /\ i \in DOMAIN task[t].sent /\ queues' = queues /\ Apply(t, c)
  BY DEF RequestFailed, InFlight
<1>2. Settled(t, c.x)
  BY <1>1, FinishCtx, PartFailSettles DEF Mine
<1> HIDE DEF c
<1> QED
  BY <1>1, <1>2, StayServed

LEMMA ReferenceFailedServed ==
    ASSUME DownloadInv, Served, NEW t \in Tasks, NEW i, FileReferenceFailed(t, i)
    PROVE  Served'
<1> DEFINE x == task[t]
           r == [x.sent[i] EXCEPT !.kind = "refresh"]
           q == [x.sent EXCEPT ![i] = r]
           y == [x EXCEPT !.sent = q]
<1>1. /\ pc = Idle /\ i \in DOMAIN x.sent /\ queues' = queues
      /\ task' = [task EXCEPT ![t].sent[i].kind = "refresh"]
  BY DEF FileReferenceFailed, InFlight
<1>2. x \in TaskSet /\ task \in [Tasks -> TaskSet]
  BY DEF DownloadInv
<1>3. task' = [task EXCEPT ![t] = y]
  BY <1>1
<1> HIDE DEF r
<1>4. i \in DOMAIN q
  BY <1>1
<1> HIDE DEF q, x
<1>5. y.sent = q
  BY <1>2 DEF TaskSet
<1>6. Settled(t, y)
  BY <1>4, <1>5 DEF Settled
<1>7. \A d \in DcIds : pc # Sending(d)
  BY <1>1, PcFact
<1> HIDE DEF y
<1> QED
  BY <1>1, <1>3, <1>6, <1>7, SettledServed

(* A task that differs in nothing that matters here. *)
Alike(x, y) ==
    /\ y.sent = x.sent /\ y.unchecked = x.unchecked /\ y.wanted = x.wanted
    /\ y.finished = x.finished /\ y.known = x.known /\ y.last = x.last
    /\ y.next = x.next

LEMMA SameSettled ==
    ASSUME NEW t, NEW x, NEW y, Alike(x, y)
    PROVE  NoWorse(t, x, y) /\ (Settled(t, x) => Settled(t, y))
<1>1. haveSentRequests(x) <=> haveSentRequests(y)
  BY DEF haveSentRequests, Alike
<1> QED
  BY <1>1 DEF Settled, NoWorse, Lingers, CanAsk, Alike

LEMMA OrphansFact ==
    ASSUME NEW c \in CtxSet, NEW v \in Int, NEW b \in BOOLEAN
    PROVE  /\ Alike(c.x, [c EXCEPT !.x.orphans = v].x)
           /\ Alike(c.x, [c EXCEPT !.x.hashPosted = b].x)
<1>1. c.x \in TaskSet
  BY CtxFact
<1> QED
  BY <1>1 DEF CtxSet, TaskSet, Alike

LEMMA RefreshServed ==
    ASSUME DownloadInv, Served, NEW t \in Tasks, NEW i, refreshFileReferenceFrom(t, i)
    PROVE  Served'
<1> DEFINE r == task[t].sent[i]
           e == finishSentRequest(Context(t), i)
           a == makeRequest(e, r.offset, r.session)
           p == partFailed(t, Context(t), i)
           v == IF t \in Streams THEN p.x.orphans ELSE p.x.orphans - 1
           b == [p EXCEPT !.x.orphans = v]
<1>1. /\ pc = Idle /\ i \in DOMAIN task[t].sent /\ queues' = queues
  BY DEF refreshFileReferenceFrom, InFlight
<1>2. Apply(t, a) \/ Apply(t, b)
  BY DEF refreshFileReferenceFrom
<1>3. Settled(t, a.x)
  <2>1. e \in CtxSet
    BY <1>1, FinishCtx
  <2> HIDE DEF e, r
  <2> QED
    BY <2>1, PlacedFlies DEF Settled
<1>4. Settled(t, b.x)
  <2>1. Settled(t, p.x)
    BY <1>1, FinishCtx, PartFailSettles DEF Mine
  <2>2. CtxOk(t, p, {}, MyF(t), MyR(t), MyN(t))
    BY <1>1, FinishCtx, FailedOk DEF Mine
  <2> HIDE DEF p
  <2>3. p \in CtxSet /\ p.x \in TaskSet
    BY <2>2, CtxOkFact
  <2>4. v \in Int
    BY <2>3 DEF TaskSet
  <2> HIDE DEF v
  <2>5. Alike(p.x, b.x)
    BY <2>3, <2>4, OrphansFact
  <2> HIDE DEF b
  <2> QED
    BY <2>1, <2>5, SameSettled
<1> HIDE DEF a, b
<1> QED
  BY <1>1, <1>2, <1>3, <1>4, StayServed

(* The loader of a file that fails, or is cancelled. *)
LEMMA FailServed ==
    ASSUME DownloadInv, Served, NEW t \in Tasks, pc = Idle, queues' = queues,
           NEW c, Mine(t, c, {}), NoWorse(t, task[t], c.x),
           Apply(t, cancelOnFail(t, c))
    PROVE  Served'
<1> DEFINE F == MyF(t)
           R == MyR(t)
           n == MyN(t)
           e == cancelOnFail(t, c)
<1>1. RestOk(F, R, n) /\ Good(c, F, R, n)
  BY StartOk, CtxOkFact DEF Mine
<1> HIDE DEF F, R, n
<1>2. /\ t \notin Streams => e.x.finished = TRUE
      /\ t \in Streams => NoWorse(t, c.x, e.x)
  BY <1>1, FailSettles
<1> HIDE DEF e
<1>3. t \notin Streams => Settled(t, e.x)
  BY <1>2 DEF Settled, Lingers
<1>4. t \in Streams => NoWorse(t, task[t], e.x)
  BY <1>2 DEF NoWorse
<1>5. Apply(t, e)
  BY DEF e
<1> QED
  BY <1>3, <1>4, <1>5, StayServed

LEMMA TooLateServed ==
    ASSUME DownloadInv, Served, NEW t \in Tasks, RefreshTooLate(t)
    PROVE  Served'
<1> DEFINE k == Context(t)
           v == k.x.orphans - 1
           c == [k EXCEPT !.x.orphans = v]
<1>1. /\ pc = Idle /\ queues' = queues /\ (Apply(t, c) \/ Apply(t, cancelOnFail(t, c)))
  BY DEF RefreshTooLate
<1>2. Mine(t, k, {}) /\ RestOk(MyF(t), MyR(t), MyN(t)) /\ k.x = task[t]
  BY StartOk
<1> HIDE DEF k
<1>3. k \in CtxSet /\ k.x \in TaskSet
  BY <1>2, CtxOkFact DEF Mine
<1>4. v \in Int /\ TRUE \in BOOLEAN
  BY <1>3 DEF TaskSet
<1> HIDE DEF v
<1>5. NoWorse(t, k.x, c.x)
  <2>1. Alike(k.x, c.x)
    BY <1>3, <1>4, OrphansFact
  <2> HIDE DEF c
  <2> QED
    BY <2>1, SameSettled
<1>6. Mine(t, c, {})
  <2>1. Untouched(t, k, c, {}, MyF(t), MyR(t), MyN(t))
    BY <1>2, <1>4, FieldsOk DEF Mine
  <2> HIDE DEF c
  <2> QED
    BY <2>1 DEF Untouched, Mine
<1> HIDE DEF c
<1>7. NoWorse(t, task[t], c.x)
  BY <1>2, <1>5
<1> QED
  BY <1>1, <1>6, <1>7, StayServed, FailServed

LEMMA HashesPostedServed ==
    ASSUME DownloadInv, Served, NEW t \in Tasks, MoreHashesPosted(t)
    PROVE  Served'
<1> DEFINE k == Context(t)
           c == [k EXCEPT !.x.hashPosted = FALSE]
           e == requestMoreCdnFileHashes(c)
<1>1. pc = Idle /\ queues' = queues /\ Apply(t, e)
  BY DEF MoreHashesPosted
<1>2. Mine(t, k, {}) /\ RestOk(MyF(t), MyR(t), MyN(t)) /\ k.x = task[t]
  BY StartOk
<1> HIDE DEF k
<1>3. k \in CtxSet /\ k.x \in TaskSet /\ FALSE \in BOOLEAN /\ 0 \in Int
  BY <1>2, CtxOkFact DEF Mine
<1>4. Alike(k.x, c.x)
  BY <1>3, OrphansFact
<1>5. c \in CtxSet
  <2>1. Untouched(t, k, c, {}, MyF(t), MyR(t), MyN(t))
    BY <1>2, <1>3, FieldsOk DEF Mine
  <2> HIDE DEF c
  <2>2. Mine(t, c, {})
    BY <2>1 DEF Untouched, Mine
  <2> QED
    BY <2>2, CtxOkFact DEF Mine
<1> HIDE DEF c
<1>6. e = c \/ e.x.sent # <<>>
  BY <1>5, PlacedFlies DEF requestMoreCdnFileHashes
<1>7. NoWorse(t, task[t], c.x)
  BY <1>2, <1>4, SameSettled
<1>8. Settled(t, e.x) \/ NoWorse(t, task[t], e.x)
  BY <1>6, <1>7 DEF Settled
<1> HIDE DEF e
<1> QED
  BY <1>1, <1>8, StayServed

-----------------------------------------------------------------------------
(* The loops.  The one that sends the parts ends when no session has room,
   which is not so while nothing is in flight, or when no task can ask. *)
LEMMA RoomFact ==
    ASSUME DownloadInv, NEW d \in DcIds, pc # Removing(d),
           \A t \in Tasks : DcOf[t] = d => task[t].sent = <<>>
    PROVE  mgr.balance[d].total = 0 /\ bestIndex(mgr.balance[d]) # 0
<1> DEFINE b == mgr.balance[d]
           n == Len(b.sessions)
<1>1. FlyingIn(task, d) = {}
  BY DEF FlyingIn
<1>2. \A k : FlyingAt(task, d, k) = {}
  BY DEF FlyingAt, In
<1>3. Cardinality({}) = 0
  BY FS_EmptySet
<1>4. BalancedAt(task, mgr, d, FALSE)
  <2>1. (pc = Removing(d)) = FALSE
    OBVIOUS
  <2>2. BalancedAt(task, mgr, d, pc = Removing(d))
    BY DEF DownloadInv, Balanced
  <2> QED
    BY <2>1, <2>2
<1>5. b.total = 0
  BY <1>1, <1>3, <1>4 DEF BalancedAt
<1>6. ASSUME NEW k \in 1 .. n PROVE b.sessions[k].requested = 0
  <2> DEFINE v == Cardinality(FlyingAt(task, d, k))
             z == Extra(FALSE, k, n)
             w == b.sessions[k].requested
  <2>1. w = v + z
    BY <1>4 DEF BalancedAt
  <2>2. v = 0 /\ z = 0
    BY <1>2, <1>3 DEF Extra
  <2> HIDE DEF v, z, w
  <2>3. w = 0
    BY <2>1, <2>2
  <2> QED
    BY <2>3 DEF w
<1>7. /\ b \in BalanceSet /\ n \in Nat /\ n >= 1 /\ DOMAIN b.sessions = 1 .. n
  BY RequestedFact
<1>8. ASSUME NEW k \in 1 .. n PROVE b.sessions[k].maxWaited \in Nat \ {0}
  <2> HIDE DEF b
  <2>1. b.sessions[k] \in SessionSet
    BY <1>7, SessionsFact
  <2> QED
    BY <2>1 DEF SessionSet
<1> DEFINE f == [i \in 1 .. n |->
                   IF b.sessions[i].requested < b.sessions[i].maxWaited
                     THEN b.sessions[i].requested ELSE MaxWaited]
<1> HIDE DEF b, n
<1>9. f \in [1 .. n -> Nat]
  BY <1>6, BalanceAssumption
<1>10. bestIndex(b) = IF b.sessions[FirstLeast(f)].requested + 1
                            <= b.sessions[FirstLeast(f)].maxWaited
                         THEN FirstLeast(f) ELSE 0
  BY <1>7 DEF bestIndex
<1> HIDE DEF f
<1>11. FirstLeast(f) \in 1 .. n
  BY <1>7, <1>9, FirstLeastFact
<1>12. bestIndex(b) # 0
  BY <1>6, <1>7, <1>8, <1>10, <1>11
<1> QED
  BY <1>5, <1>12 DEF b

LEMMA ReadyFact ==
    ASSUME NEW t
    PROVE  readyToRequest(t) <=> CanAsk(t, task[t])
  BY DEF readyToRequest, CanAsk

LEMMA TrySendServed ==
    ASSUME DownloadInv, Served, NEW d \in DcIds, TrySendNextPart(d)
    PROVE  Served'
<1> DEFINE best == bestIndex(mgr.balance[d])
           may == Candidates(d)
           j == CHOOSE i \in may : \A m \in may : i <= m
           t == queues[d][j].task
<1>1. pc = Sending(d) /\ queues' = queues
  BY DEF TrySendNextPart
<1>2. IF best = 0 \/ may = {}
        THEN pc' = Idle /\ task' = task
        ELSE pc' = pc /\ \E c : Apply(t, c)
  BY Zenon DEF TrySendNextPart
<1>3. CASE best = 0 \/ may = {}
  <2>1. pc' = Idle /\ task' = task
    BY <1>2, <1>3
  <2>2. ASSUME NEW e \in DcIds, e # d PROVE ServedIn(task', queues'[e], e)
    <3>1. pc # Sending(e)
      BY <1>1, <2>2, PcFact
    <3> QED
      BY <1>1, <2>1, <3>1 DEF Served
  <2>3. ServedIn(task, queues[d], d)
    <3>1. SUFFICES ASSUME \A u \in Tasks : DcOf[u] = d => task[u].sent = <<>>
                   PROVE  \A u \in QueuedIn(queues[d]) : ~CanAsk(u, task[u])
      BY DEF ServedIn
    <3>2. pc # Removing(d)
      BY <1>1, PcFact
    <3>3. mgr.balance[d].total = 0 /\ best # 0
      BY <3>1, <3>2, RoomFact
    <3>4. Candidates(d) = {}
      BY <1>3, <3>3
    <3>5. ASSUME NEW i \in DOMAIN queues[d] PROVE ~readyToRequest(queues[d][i].task)
      <4>1. ~(mgr.balance[d].total > 0)
        BY <3>3
      <4> QED
        BY <3>4, <4>1 DEF Candidates
    <3> QED
      BY <3>5, ReadyFact DEF QueuedIn
  <2> QED
    BY <1>1, <2>1, <2>2, <2>3 DEF Served
<1>4. CASE ~(best = 0 \/ may = {})
  <2>1. pc' = pc /\ \E c : Apply(t, c)
    BY <1>2, <1>4
  <2>2. queues[d] \in Seq(Entry) /\ \A u \in QueuedIn(queues[d]) : DcOf[u] = d
    BY QueueFact
  <2>3. j \in DOMAIN queues[d]
    <3>1. DOMAIN queues[d] = 1 .. Len(queues[d])
      BY <2>2
    <3>2. may \in SUBSET Nat /\ may \subseteq DOMAIN queues[d]
      BY <3>1 DEF Candidates
    <3> HIDE DEF may
    <3>3. \E i \in may : \A m \in may : i <= m
      BY <1>4, <3>2, LeastOf
    <3> QED
      BY <3>2, <3>3
  <2> HIDE DEF j
  <2>4. t \in Tasks /\ DcOf[t] = d
    <3>1. queues[d][j] \in Entry
      BY <2>2, <2>3
    <3>2. t \in QueuedIn(queues[d])
      BY <2>3 DEF QueuedIn
    <3> QED
      BY <2>2, <3>1, <3>2 DEF Entry
  <2> HIDE DEF t
  <2>5. PICK y : task' = [task EXCEPT ![t] = y]
    BY <2>1 DEF Apply
  <2>6. \A e \in DcIds : e # DcOf[t] => queues'[e] = queues[e]
    BY <1>1
  <2>7. pc' = Sending(DcOf[t]) /\ pc = Sending(DcOf[t])
    BY <1>1, <2>1, <2>4
  <2> QED
    BY <2>4, <2>5, <2>6, <2>7, LoopServed
<1> QED
  BY <1>3, <1>4

LEMMA MoveServed ==
    ASSUME DownloadInv, Served, NEW t \in Tasks, MoveRequest(t)
    PROVE  Served'
<1> DEFINE d == DcOf[t]
           n == Len(mgr.balance[d].sessions)
           x == task[t]
           aside == {u \in x.unchecked : u.session = n}
           i == CHOOSE j \in SentIn(x, n) : \A h \in SentIn(x, n) : j <= h
           c == cancelRequest(Context(t), i)
           A == (x.unchecked \ aside) \cup
                  {[u EXCEPT !.session = chooseSessionIndex(mgr.balance[d])] : u \in aside}
<1>1. pc = Removing(d) /\ queues' = queues
  BY Zenon DEF MoveRequest
<1>2. \/ aside # {} /\ task' = [task EXCEPT ![t].unchecked = A]
      \/ /\ SentIn(x, n) # {}
         /\ Apply(t, IF isHashes(x.sent[i]) THEN c
                       ELSE makeRequest(c, x.sent[i].offset,
                              chooseSessionIndex(c.mgr.balance[d])))
  BY Zenon DEF MoveRequest
<1>3. x \in TaskSet /\ task \in [Tasks -> TaskSet]
  BY DEF DownloadInv
<1>4. \A e \in DcIds : pc # Sending(e)
  BY <1>1, PcFact
<1>5. CASE aside # {} /\ task' = [task EXCEPT ![t].unchecked = A]
  <2> DEFINE y == [x EXCEPT !.unchecked = A]
  <2>1. t \in OnCdn
    <3>1. x.unchecked # {}
      BY <1>5
    <3>2. t \in TokenErrors => t \in OnCdn
      BY DownloadAssumption
    <3>3. t \notin TokenErrors => Strict(t, x, {})
      BY StartOk DEF TaskOk, Pend
    <3> HIDE DEF x
    <3> QED
      BY <3>1, <3>2, <3>3 DEF Strict
  <2> HIDE DEF A
  <2>2. task' = [task EXCEPT ![t] = y]
    BY <1>5
  <2>3. Settled(t, y)
    BY <2>1 DEF Settled
  <2> HIDE DEF y
  <2> QED
    BY <1>1, <1>4, <2>2, <2>3, SettledServed
<1>6. CASE /\ SentIn(x, n) # {}
           /\ Apply(t, IF isHashes(x.sent[i]) THEN c
                         ELSE makeRequest(c, x.sent[i].offset,
                                chooseSessionIndex(c.mgr.balance[d])))
  <2>1. i \in SentIn(x, n)
    <3> DEFINE S == SentIn(x, n)
    <3>1. S \in SUBSET Nat
      <4>1. DOMAIN x.sent = 1 .. Len(x.sent)
        BY <1>3, TaskFact
      <4> QED
        BY <4>1 DEF SentIn
    <3>2. S # {}
      BY <1>6, Zenon
    <3> HIDE DEF S
    <3>3. \E j \in S : \A h \in S : j <= h
      BY <3>1, <3>2, LeastOf
    <3> QED
      BY <3>3 DEF S
  <2>2. i \in DOMAIN x.sent
    BY <2>1 DEF SentIn
  <2> DEFINE o == x.sent[i].offset
             g == IF isHashes(x.sent[i]) THEN c
                    ELSE makeRequest(c, o, chooseSessionIndex(c.mgr.balance[d]))
  <2>3. Apply(t, g)
    BY <1>6, Zenon
  <2> HIDE DEF i, n
  <2>4. isHashes(x.sent[i]) => t \in OnCdn
    BY <2>2, OnlyOnCdn
  <2>5. ASSUME ~isHashes(x.sent[i]) PROVE g.x.sent # <<>>
    <3>1. /\ Mine(t, Context(t), {}) /\ RestOk(MyF(t), MyR(t), MyN(t))
          /\ i \in DOMAIN Context(t).x.sent /\ Context(t).x = x
      BY <2>2, StartOk
    <3>2. ~isHashes(Context(t).x.sent[i])
      BY <2>5, <3>1
    <3>3. \E P : CtxOk(t, c, P, MyF(t), MyR(t), MyN(t))
      BY <3>1, <3>2, CancelOk DEF Mine, CancelGives
    <3> HIDE DEF c
    <3>4. c \in CtxSet
      BY <3>3, CtxOkFact
    <3> QED
      BY <2>5, <3>4, PlacedFlies
  <2> HIDE DEF g
  <2>6. Settled(t, g.x)
    BY <2>4, <2>5 DEF Settled
  <2> DEFINE y == g.x
  <2>7. task' = [task EXCEPT ![t] = y]
    BY <2>3 DEF Apply
  <2> HIDE DEF y
  <2>8. Settled(t, y)
    BY <2>6 DEF y
  <2> QED
    BY <1>1, <1>4, <2>7, <2>8, SettledServed
<1> QED
  BY <1>2, <1>5, <1>6

LEMMA SessionRemovedServed ==
    ASSUME DownloadInv, Served, NEW d \in DcIds, SessionRemoved(d)
    PROVE  Served'
<1> DEFINE Old(x) == [x EXCEPT !.sent =
                        [i \in DOMAIN x.sent |-> [x.sent[i] EXCEPT !.old = TRUE]]]
<1>1. /\ pc = Removing(d) /\ queues' = queues
      /\ \A t \in Tasks : task'[t] = IF DcOf[t] = d THEN Old(task[t]) ELSE task[t]
  BY DEF SessionRemoved
<1>2. ASSUME NEW t \in Tasks PROVE NoWorse(t, task[t], task'[t])
  <2>1. task[t] \in TaskSet /\ TaskOk(t, task[t])
    BY StartOk
  <2>2. Aged(task[t], Old(task[t]))
    BY <2>1, AgedFact
  <2> DEFINE x == task[t]
             y == Old(x)
  <2>3. Aged(x, y) /\ x \in TaskSet /\ TaskOk(t, x)
    BY <2>1, <2>2
  <2> HIDE DEF y, x
  <2>4. haveSentRequests(y) <=> haveSentRequests(x)
    BY <2>3, AgedOk
  <2>5. x.sent # <<>> => y.sent # <<>>
    BY <2>3, TaskFact DEF Aged
  <2>6. NoWorse(t, x, y)
    BY <2>3, <2>4, <2>5 DEF NoWorse, Lingers, CanAsk, Aged, OnlySent
  <2>7. NoWorse(t, x, x)
    BY DEF NoWorse
  <2>8. task'[t] = y \/ task'[t] = x
    BY <1>1 DEF x, y
  <2> QED
    BY <2>6, <2>7, <2>8 DEF x
<1>3. \A e \in DcIds : pc # Sending(e)
  BY <1>1, PcFact
<1>4. /\ \A e \in DcIds : QueuedIn(queues'[e]) = QueuedIn(queues[e])
      /\ \A e \in DcIds : QueuedIn(queues[e]) \subseteq Tasks
  BY <1>1, QueueFact
<1> QED
  BY <1>2, <1>3, <1>4, EasedServed

-----------------------------------------------------------------------------
(* The sessions and the timers leave the tasks and their queues. *)
LEMMA SameServed ==
    ASSUME DownloadInv, Served, pc = Idle, task' = task,
           \A d \in DcIds : QueuedIn(queues'[d]) = QueuedIn(queues[d])
    PROVE  Served'
<1>1. \A t \in Tasks : NoWorse(t, task[t], task'[t])
  BY DEF NoWorse
<1>2. \A d \in DcIds : pc # Sending(d) /\ QueuedIn(queues[d]) \subseteq Tasks
  BY PcFact, QueueFact
<1> QED
  BY <1>1, <1>2, EasedServed

LEMMA TimersServed ==
    ASSUME DownloadInv, Served,
           \/ \E d \in DcIds : \E i : SessionRestarted(d, i)
           \/ TimeoutPosted \/ ResetGeneration
           \/ \E due : KillSessions(due)
    PROVE  Served'
<1>1. pc = Idle /\ task' = task /\ (queues' = queues \/ ResetGeneration)
  BY DEF SessionRestarted, TimeoutPosted, ResetGeneration, KillSessions
<1>2. ASSUME NEW d \in DcIds PROVE QueuedIn(queues'[d]) = QueuedIn(queues[d])
  <2>1. CASE queues' = queues
    BY <2>1
  <2>2. CASE ResetGeneration
    <3>1. queues'[d] = resetGeneration(queues[d])
      BY <2>2 DEF ResetGeneration
    <3>2. queues[d] \in Seq(Entry)
      BY QueueFact
    <3> QED
      BY <3>1, <3>2, ResetFact
  <2> QED
    BY <1>1, <2>1, <2>2
<1> QED
  BY <1>1, <1>2, SameServed

-----------------------------------------------------------------------------
(* The owners: what they add to a queue, or take from it, is followed by
   the loop. *)
LEMMA OwnSendServed ==
    ASSUME DownloadInv, Served, NEW t \in Tasks, pc = Idle,
           \E y : task' = [task EXCEPT ![t] = y],
           (\E p : AddToQueue(t, p)) \/ removeFromQueue(t)
    PROVE  Served'
<1>1. pc' = Sending(DcOf[t]) /\ \E q : queues' = [queues EXCEPT ![DcOf[t]] = q]
  BY DEF AddToQueue, removeFromQueue
<1> QED
  BY <1>1, SendServed

LEMMA StartServed ==
    ASSUME DownloadInv, Served, NEW t \in Tasks,
           \/ StartLoading(t) \/ TryRemoveFromQueue(t) \/ Stop(t) \/ Destroy(t)
           \/ \E p : StartLoadingWithPartial(t, p)
           \/ \E o : Load(t, o)
    PROVE  Served'
<1>0. task \in [Tasks -> TaskSet]
  BY DEF DownloadInv
<1>1. CASE StartLoading(t) \/ TryRemoveFromQueue(t)
  <2>1. task' = [task EXCEPT ![t] = task[t]]
    BY <1>1, UnchangedTask DEF StartLoading, TryRemoveFromQueue
  <2>2. pc = Idle /\ ((\E p : AddToQueue(t, p)) \/ removeFromQueue(t))
    BY <1>1 DEF StartLoading, TryRemoveFromQueue
  <2> QED
    BY <2>1, <2>2, OwnSendServed
<1>2. CASE Stop(t) \/ Destroy(t)
  <2>1. pc = Idle /\ removeFromQueue(t) /\ \E c : Apply(t, c)
    BY <1>2, Zenon DEF Stop, Destroy
  <2>2. \E y : task' = [task EXCEPT ![t] = y]
    BY <2>1 DEF Apply
  <2> QED
    BY <2>1, <2>2, OwnSendServed
<1>3. CASE \E p : StartLoadingWithPartial(t, p)
  <2>1. PICK p : StartLoadingWithPartial(t, p)
    BY <1>3
  <2> DEFINE v == p + 1
             f == [o \in Offsets |-> IF o <= p THEN 1 ELSE 0]
  <2>2. pc = Idle /\ AddToQueue(t, 0) /\ task' = [task EXCEPT ![t].next = v, ![t].fed = f]
    BY <2>1 DEF StartLoadingWithPartial
  <2> HIDE DEF v, f
  <2>3. task' = [task EXCEPT ![t] = [task[t] EXCEPT !.next = v, !.fed = f]]
    BY <1>0, <2>2
  <2> QED
    BY <2>2, <2>3, OwnSendServed
<1>4. CASE \E o : Load(t, o)
  <2>1. PICK o : Load(t, o)
    BY <1>4
  <2> DEFINE w == task[t].wanted \cup {o}
  <2>2. /\ pc = Idle /\ AddToQueue(t, task[t].priority)
        /\ task' = [task EXCEPT ![t].wanted = w]
    BY <2>1 DEF Load
  <2> HIDE DEF w
  <2>3. task' = [task EXCEPT ![t] = [task[t] EXCEPT !.wanted = w]]
    BY <1>0, <2>2
  <2> QED
    BY <2>2, <2>3, OwnSendServed
<1> QED
  BY <1>1, <1>2, <1>3, <1>4

LEMMA CancelLoadingServed ==
    ASSUME DownloadInv, Served, NEW t \in Tasks, CancelLoading(t)
    PROVE  Served'
<1> DEFINE c == Context(t)
<1>1. pc = Idle /\ queues' = queues /\ Apply(t, cancelOnFail(t, c))
  BY DEF CancelLoading
<1>2. Mine(t, c, {}) /\ c.x = task[t]
  BY StartOk
<1> HIDE DEF c
<1>3. NoWorse(t, task[t], c.x)
  BY <1>2 DEF NoWorse
<1> QED
  BY <1>1, <1>2, <1>3, FailServed

LEMMA PriorityServed ==
    ASSUME DownloadInv, Served, NEW t \in Tasks, NEW p, setPriority(t, p)
    PROVE  Served'
<1> DEFINE y == [task[t] EXCEPT !.priority = p]
<1>0. task \in [Tasks -> TaskSet] /\ task[t] \in TaskSet
  BY DEF DownloadInv
<1>1. /\ pc = Idle /\ task' = [task EXCEPT ![t].priority = p]
      /\ AddToQueue(t, p) \/ queues' = queues
  BY DEF setPriority
<1>2. task' = [task EXCEPT ![t] = y]
  BY <1>0, <1>1
<1>3. CASE AddToQueue(t, p)
  BY <1>1, <1>2, <1>3, OwnSendServed
<1>4. CASE queues' = queues
  <2>1. NoWorse(t, task[t], y)
    <3>1. Alike(task[t], y)
      BY <1>0 DEF TaskSet, Alike
    <3> HIDE DEF y
    <3> QED
      BY <3>1, SameSettled
  <2>2. \A d \in DcIds : pc # Sending(d)
    BY <1>1, PcFact
  <2> HIDE DEF y
  <2> QED
    BY <1>2, <1>4, <2>1, <2>2, SettledServed
<1> QED
  BY <1>1, <1>3, <1>4

(* A part that is cancelled leaves what is wanted. *)
LEMMA CancelWanted ==
    ASSUME NEW F, NEW R, NEW n, RestOk(F, R, n), NEW t, NEW c,
           CtxOk(t, c, {}, F, R, n), NEW o
    PROVE  CancelOffset(c, o).x.wanted = c.x.wanted
<1> DEFINE i == CHOOSE i \in DOMAIN c.x.sent : c.x.sent[i].offset = o
           a == IF \E j \in DOMAIN c.x.sent : c.x.sent[j].offset = o
                  THEN cancelRequest(c, i) ELSE c
           A == {u \in a.x.unchecked : u.offset # o}
<1>0. c \in CtxSet /\ c.x \in TaskSet
  BY CtxOkFact
<1>1. CancelOffset(c, o) = [a EXCEPT !.x.unchecked = {u \in @ : u.offset # o}]
  BY DEF CancelOffset
<1>2. a \in CtxSet /\ a.x.wanted = c.x.wanted
  <2>1. CASE \E j \in DOMAIN c.x.sent : c.x.sent[j].offset = o
    <3>1. a = cancelRequest(c, i) /\ i \in DOMAIN c.x.sent
      BY <2>1
    <3> HIDE DEF i, a
    <3> DEFINE e == finishSentRequest(c, i)
               h == e.x.hashPosted \/ (isHashes(c.x.sent[i]) /\ c.x.unchecked # {})
               w == IF c.x.sent[i].kind = "refresh" THEN e.x.orphans + 1
                      ELSE e.x.orphans
    <3>2. OnlySent(c.x, e.x) /\ e \in CtxSet
      BY <3>1, FinishOk DEF FinishGives
    <3>3. cancelRequest(c, i) =
            [e EXCEPT !.x.hashPosted = @ \/ (isHashes(c.x.sent[i]) /\ c.x.unchecked # {}),
                      !.x.orphans = IF c.x.sent[i].kind = "refresh" THEN @ + 1 ELSE @]
      BY DEF cancelRequest
    <3> HIDE DEF e
    <3>4. e.x \in TaskSet
      BY <3>2, CtxFact
    <3>5. cancelRequest(c, i) = [e EXCEPT !.x = [e.x EXCEPT !.hashPosted = h, !.orphans = w]]
      BY <3>2, <3>3, <3>4 DEF CtxSet, TaskSet
    <3>6. h \in BOOLEAN /\ w \in Int
      BY <3>4 DEF TaskSet
    <3> HIDE DEF h, w
    <3> DEFINE y == [e.x EXCEPT !.hashPosted = h, !.orphans = w]
    <3>7. y \in TaskSet /\ y.wanted = e.x.wanted
      BY <3>4, <3>6 DEF TaskSet
    <3>8. cancelRequest(c, i) = [e EXCEPT !.x = y]
      BY <3>5
    <3> HIDE DEF y
    <3>9. cancelRequest(c, i) \in CtxSet /\ cancelRequest(c, i).x = y
      BY <3>2, <3>7, <3>8 DEF CtxSet
    <3> QED
      BY <3>1, <3>2, <3>7, <3>9 DEF OnlySent
  <2>2. CASE ~\E j \in DOMAIN c.x.sent : c.x.sent[j].offset = o
    BY <1>0, <2>2
  <2> QED
    BY <2>1, <2>2
<1> HIDE DEF a
<1>3. a.x \in TaskSet
  BY <1>2, CtxFact
<1>4. CancelOffset(c, o) = [a EXCEPT !.x = [a.x EXCEPT !.unchecked = A]]
  BY <1>1, <1>2, <1>3 DEF CtxSet, TaskSet
<1> HIDE DEF A
<1> QED
  BY <1>2, <1>3, <1>4 DEF CtxSet, TaskSet

LEMMA CancelForOffsetServed ==
    ASSUME DownloadInv, Served, NEW t \in Tasks, NEW o \in 1 .. Parts[t],
           CancelForOffset(t, o)
    PROVE  Served'
<1> DEFINE k == Context(t)
           F == MyF(t)
           R == MyR(t)
           n == MyN(t)
           x == task[t]
           e == CancelOffset(k, o)
<1>1. /\ RestOk(F, R, n) /\ CtxOk(t, k, {}, F, R, n) /\ k.x = x
      /\ task \in [Tasks -> TaskSet] /\ x \in TaskSet
  BY StartOk DEF Mine, DownloadInv
<1>2. pc = Idle /\ t \in Streams /\ o \in Offsets
  BY PartOffset DEF CancelForOffset
<1>3. CASE haveSentRequestForOffset(x, o)
  <2>1. /\ Apply(t, e)
        /\ AddToQueue(t, x.priority) \/ (x.wanted = {} /\ queues' = queues)
    BY <1>3 DEF CancelForOffset
  <2>2. CASE AddToQueue(t, x.priority)
    <3>1. \E y : task' = [task EXCEPT ![t] = y]
      BY <2>1 DEF Apply
    <3> QED
      BY <1>2, <2>2, <3>1, OwnSendServed
  <2>3. CASE x.wanted = {} /\ queues' = queues
    <3> HIDE DEF F, R, n, k
    <3>1. e.x.wanted = {}
      BY <1>1, <2>3, CancelWanted
    <3>2. CtxOk(t, e, {}, F, R, n)
      BY <1>1, <1>2, CancelOffsetOk
    <3> HIDE DEF e
    <3>3. t \in TokenErrors => t \in OnCdn
      BY DownloadAssumption
    <3>4. t \notin TokenErrors => Strict(t, e.x, {})
      BY <3>2, CtxOkFact
    <3>5. t \in OnCdn \/ e.x.unchecked = {}
      BY <3>3, <3>4 DEF Strict
    <3>6. Settled(t, e.x)
      BY <1>2, <3>1, <3>5 DEF Settled, Lingers, haveSentRequests
    <3> QED
      BY <1>2, <2>1, <2>3, <3>6, StayServed
  <2> QED
    BY <2>1, <2>2, <2>3
<1>4. CASE ~haveSentRequestForOffset(x, o)
  <2> DEFINE W == x.wanted \ {o}
             y == [x EXCEPT !.wanted = W]
  <2>1. task' = [task EXCEPT ![t].wanted = @ \ {o}] /\ queues' = queues
    BY <1>4 DEF CancelForOffset
  <2>2. task' = [task EXCEPT ![t] = y]
    BY <1>1, <2>1
  <2>3. x.wanted = {} => W = {}
    OBVIOUS
  <2> HIDE DEF W
  <2>4. y.sent = x.sent /\ y.unchecked = x.unchecked /\ y.wanted = W
    BY <1>1 DEF TaskSet
  <2> HIDE DEF y
  <2>5. NoWorse(t, x, y)
    BY <1>2, <2>3, <2>4 DEF NoWorse, Lingers, CanAsk, haveSentRequests
  <2>6. \A d \in DcIds : pc # Sending(d)
    BY <1>2, PcFact
  <2> QED
    BY <2>1, <2>2, <2>5, <2>6, SettledServed
<1> QED
  BY <1>3, <1>4

-----------------------------------------------------------------------------
LEMMA InitServed ==
    ASSUME DownloadInit
    PROVE  Served
<1>1. \A d \in DcIds : queues[d] = <<>>
  BY DEF DownloadInit
<1> QED
  BY <1>1 DEF Served, ServedIn, QueuedIn

LEMMA AnsweredServed ==
    ASSUME DownloadInv, Served, NEW t \in Tasks, NEW i, Answered(t, i)
    PROVE  Served'
<1>1. CASE \E slow, early \in BOOLEAN :
             NormalPartLoaded(t, i, slow, early) \/ CdnPartLoaded(t, i, slow, early)
  BY <1>1, PartLoadedServed, CdnLoadedServed
<1>2. CASE \E early, bad \in BOOLEAN : CdnRedirect(t, i, early, bad)
  BY <1>2, RedirectServed
<1>3. CASE CdnReuploadNeeded(t, i)
  BY <1>3, ReuploadNeededServed
<1>4. CASE reuploadDone(t, i)
  BY <1>4, ReuploadDoneServed
<1>5. CASE getCdnFileHashesDone(t, i)
  BY <1>5, HashesDoneServed
<1>6. CASE CdnTokenInvalid(t, i)
  BY <1>6, TokenInvalidServed
<1>7. CASE RequestFailed(t, i)
  BY <1>7, RequestFailedServed
<1>8. CASE FileReferenceFailed(t, i)
  BY <1>8, ReferenceFailedServed
<1>9. CASE refreshFileReferenceFrom(t, i)
  BY <1>9, RefreshServed
<1> QED
  BY <1>1, <1>2, <1>3, <1>4, <1>5, <1>6, <1>7, <1>8, <1>9 DEF Answered

LEMMA OwnerServed ==
    ASSUME DownloadInv, Served, NEW t \in Tasks, Owner(t)
    PROVE  Served'
  BY StartServed, CancelLoadingServed, CancelForOffsetServed, PriorityServed
  DEF Owner

LEMMA NextServed ==
    ASSUME DownloadInv, Served, DownloadNext
    PROVE  Served'
<1>1. CASE \E t \in Tasks : \E i \in DOMAIN task[t].sent : Answered(t, i)
  BY <1>1, AnsweredServed
<1>2. CASE Loops
  BY <1>2, TrySendServed, SessionRemovedServed, MoveServed DEF Loops
<1>3. CASE Posted
  BY <1>3, TimersServed, HashesPostedServed, TooLateServed DEF Posted
<1>4. CASE \/ \E d \in DcIds :
                \E i \in DOMAIN mgr.balance[d].sessions : SessionRestarted(d, i)
           \/ \E due \in SUBSET DcIds : KillSessions(due)
           \/ ResetGeneration
  BY <1>4, TimersServed
<1>5. CASE \E t \in Tasks : Owner(t)
  BY <1>5, OwnerServed
<1> QED
  BY <1>1, <1>2, <1>3, <1>4, <1>5 DEF DownloadNext

LEMMA StutterServed ==
    ASSUME Served, UNCHANGED downloadVars
    PROVE  Served'
<1>1. task' = task /\ queues' = queues /\ pc' = pc
  BY DEF downloadVars
<1> QED
  BY <1>1 DEF Served

(* With nothing in flight, only the third case is left. *)
LEMMA InvServed ==
    ASSUME DownloadInv, Served
    PROVE  IdleQueueIsServed
<1>1. SUFFICES ASSUME NEW d \in DcIds, pc = Idle, mgr.balance[d].total = 0,
                      Lingering(d) = {}, Queued(d) \cap OnCdn = {}
               PROVE  Candidates(d) = {}
  BY DEF IdleQueueIsServed
<1>2. ServedIn(task, queues[d], d)
  BY <1>1, PcFact DEF Served
<1>3. Queued(d) = QueuedIn(queues[d])
  BY DEF Queued, QueuedIn
<1>4. FlyingIn(task, d) = {}
  <2>1. /\ IsFiniteSet(FlyingIn(task, d))
        /\ mgr.balance[d].total = Cardinality(FlyingIn(task, d))
    BY DEF DownloadInv, Balanced, BalancedAt
  <2> QED
    BY <1>1, <2>1, FS_EmptySet
<1>5. ASSUME NEW t \in Tasks, DcOf[t] = d PROVE task[t].sent = <<>>
  <2>1. task[t].sent \in Seq(SentSet)
    BY TaskFact DEF DownloadInv
  <2>2. ASSUME task[t].sent # <<>> PROVE FALSE
    <3>1. 1 \in DOMAIN task[t].sent /\ 1 \in Nat
      BY <2>1, <2>2
    <3>2. <<t, 1>> \in FlyingIn(task, d)
      BY <1>5, <3>1 DEF FlyingIn
    <3> QED
      BY <1>4, <3>2
  <2> QED
    BY <2>2
<1>6. \A t \in QueuedIn(queues[d]) : t \notin OnCdn /\ ~Lingers(t, task[t])
  BY <1>1, <1>3 DEF Lingering, Lingers
<1>7. \A t \in QueuedIn(queues[d]) : ~readyToRequest(t)
  BY <1>2, <1>5, <1>6, ReadyFact DEF ServedIn
<1> QED
  BY <1>7 DEF Candidates, QueuedIn

(* A data center with nothing in flight and no loop to run has no task in
   its queue with a part to ask for: checkSendNext is called wherever room
   is made or a task is added, so that no loader waits for ever. *)
THEOREM IdleQueueIsAlwaysServed == DownloadSpec => []IdleQueueIsServed
<1>1. DownloadInit => Served
  BY InitServed
<1>2. DownloadInv /\ Served /\ [DownloadNext]_downloadVars => Served'
  BY NextServed, StutterServed
<1>3. DownloadInv /\ Served => IdleQueueIsServed
  BY InvServed
<1> QED
  BY <1>1, <1>2, <1>3, AlwaysDownloadInv, PTL DEF DownloadSpec
=============================================================================
