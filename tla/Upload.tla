------------------------------- MODULE Upload -------------------------------
(***************************************************************************)
(* Storage::Uploader: files are uploaded one after the other, several      *)
(* parts of the current one at a time over the upload sessions, and can be *)
(* paused, cancelled or fail meanwhile.                                    *)
(*                                                                         *)
(* The uploader runs in the main thread. sendNext() is called at the end   *)
(* of nearly everything and calls itself; so calls counts the calls of it  *)
(* that are still to be made, and nothing else happens before they are.    *)
(***************************************************************************)
EXTENDS UploadParts, FiniteSets, FiniteSetsExt

CONSTANTS
    Ids,         \* the messages, numbers from 1 (0 is no message)
    Dcs,         \* the upload sessions, numbers from 0
    PartsOf,     \* the sizes of the parts in memory: a photo or a thumbnail
    SizeOf,      \* the size of the document, 0 if there is none
    MaxParallel, \* kMaxUploadFileParallelSize
    RealSizes,   \* what the file on disk is found to be, -1: cannot open it
    MaxUploads   \* how many uploads begin

ASSUME UploadAssumption ==
    /\ Ids \subseteq Nat \ {0} /\ IsFiniteSet(Ids)
    /\ Dcs \subseteq Nat /\ 0 \in Dcs /\ IsFiniteSet(Dcs)
    /\ PartsOf \in [Ids -> Seq(Nat)] /\ SizeOf \in [Ids -> Nat]
    /\ MaxParallel \in Nat \ {0} /\ MaxUploads \in Nat
    /\ RealSizes \subseteq Int

VARIABLES
    queue,     \* for every queued message what is left of its file
    requests,  \* requestsSent and docRequestsSent
    dcMap,     \* the session that a request was sent to
    flying,    \* the requests that the instance has, and will answer
    sentSize, sentSizes, uploadingId, pausedId,
    nextTimer, stopTimer,
    calls,     \* calls of sendNext() to be made
    uploads,   \* uploads so far
    ready      \* the files that were announced with what the server has

vars == <<queue, requests, dcMap, flying, sentSize, sentSizes, uploadingId,
          pausedId, nextTimer, stopTimer, calls, uploads, ready>>

None == 0

(* A part in memory or a part of the document, the length that is sent and *)
(* the size that is counted for it.                                        *)
Request(id, kind, n, len, size) ==
    [id |-> id, kind |-> kind, n |-> n, len |-> len, size |-> size]

File(id, real) ==
    [id |-> id, taken |-> 0, docSentParts |-> 0, real |-> real, saved |-> {}]

Count(id) == IF SizeOf[id] = 0 THEN 0 ELSE docPartsCount(SizeOf[id])

Init ==
    /\ queue = <<>> /\ requests = {} /\ dcMap = <<>> /\ flying = {}
    /\ sentSize = 0 /\ sentSizes = [dc \in Dcs |-> 0]
    /\ uploadingId = None /\ pausedId = None
    /\ nextTimer = FALSE /\ stopTimer = FALSE
    /\ calls = 0 /\ uploads = 0 /\ ready = {}

Without(f, x) == [y \in DOMAIN f \ {x} |-> f[y]]
With(f, x, v) == [y \in DOMAIN f \cup {x} |-> IF y = x THEN v ELSE f[y]]

-----------------------------------------------------------------------------
Upload(id, real) ==
    /\ calls = 0 /\ uploads < MaxUploads
    /\ queue' = IF id \in DOMAIN queue THEN queue
                ELSE With(queue, id, File(id, real))
    /\ uploads' = uploads + 1 /\ calls' = 1
    /\ UNCHANGED <<requests, dcMap, flying, sentSize, sentSizes, uploadingId,
                   pausedId, nextTimer, stopTimer, ready>>

(* Mutant of cancelRequests: the sizes are not reset.                      *)
CancelKeepsSizes ==
    /\ flying' = flying \ requests
    /\ requests' = {} /\ dcMap' = <<>>
    /\ UNCHANGED <<sentSize, sentSizes>>

(* cancelRequests(), and the counters that are reset with it.              *)
cancelRequests ==
    /\ flying' = flying \ requests
    /\ requests' = {} /\ dcMap' = <<>>
    /\ sentSize' = 0 /\ sentSizes' = [dc \in Dcs |-> 0]

(* The call of sendNext() at its end is one more of the calls to be made.  *)
currentFailed(more) ==
    /\ queue' = Without(queue, uploadingId)
    /\ cancelRequests
    /\ uploadingId' = None
    /\ calls' = more + 1
    /\ UNCHANGED <<pausedId, nextTimer, stopTimer, uploads, ready>>

-----------------------------------------------------------------------------
(* sendNext()                                                              *)

Current ==
    IF uploadingId \in DOMAIN queue THEN uploadingId ELSE Min(DOMAIN queue)

todc == Min({dc \in Dcs : \A other \in Dcs : sentSizes[dc] <= sentSizes[other]})

Proceeds ==
    /\ calls > 0
    /\ sentSize < MaxParallel /\ pausedId = None /\ DOMAIN queue # {}

SendNothing ==
    /\ calls > 0
    /\ sentSize >= MaxParallel \/ pausedId # None \/ DOMAIN queue = {}
    /\ stopTimer' = (stopTimer \/ (sentSize < MaxParallel /\ pausedId = None))
    /\ calls' = calls - 1
    /\ UNCHANGED <<queue, requests, dcMap, flying, sentSize, sentSizes,
                   uploadingId, pausedId, nextTimer, uploads, ready>>

sendPart(request, file) ==
    /\ requests' = requests \cup {request}
    /\ flying' = flying \cup {request}
    /\ dcMap' = With(dcMap, request, todc)
    /\ sentSize' = sentSize + request.size
    /\ sentSizes' = [sentSizes EXCEPT ![todc] = @ + request.size]
    /\ queue' = [queue EXCEPT ![Current] = file]
    /\ uploadingId' = Current
    /\ nextTimer' = TRUE /\ stopTimer' = FALSE
    /\ calls' = calls - 1
    /\ UNCHANGED <<pausedId, uploads, ready>>

(* The parts in memory go first.                                           *)
SendPart ==
    LET file == queue[Current]
        n == file.taken + 1
        size == PartsOf[Current][n]
    IN  /\ Proceeds /\ file.taken < Len(PartsOf[Current])
        /\ sendPart(Request(Current, "part", n, size, size),
                    [file EXCEPT !.taken = n])

PartsSent == queue[Current].taken = Len(PartsOf[Current])

(* What is read of the document for the next part.                         *)
toSend ==
    LET part == docPartSize(SizeOf[Current])
        left == queue[Current].real - queue[Current].docSentParts * part
    IN  IF left < 0 THEN 0 ELSE IF left < part THEN left ELSE part

DocFails ==
    \/ queue[Current].real < 0
    \/ /\ toSend < docPartSize(SizeOf[Current])
       /\ queue[Current].docSentParts + 1 # Count(Current)

(* Mutant of SendDoc: a part that is cut short is sent.                    *)
SendAnyDoc ==
    LET file == queue[Current] IN
    /\ Proceeds /\ PartsSent /\ file.docSentParts < Count(Current)
    /\ sendPart(Request(Current, "doc", file.docSentParts, toSend,
                        docPartSize(SizeOf[Current])),
                [file EXCEPT !.docSentParts = @ + 1])

SendDoc ==
    LET file == queue[Current] IN
    /\ Proceeds /\ PartsSent /\ file.docSentParts < Count(Current) /\ ~DocFails
    /\ sendPart(Request(Current, "doc", file.docSentParts, toSend,
                        docPartSize(SizeOf[Current])),
                [file EXCEPT !.docSentParts = @ + 1])

(* currentFailed() for the file that sendNext() has made the current one.  *)
FailDoc ==
    /\ Proceeds /\ PartsSent
    /\ queue[Current].docSentParts < Count(Current) /\ DocFails
    /\ queue' = Without(queue, Current)
    /\ cancelRequests
    /\ uploadingId' = None /\ stopTimer' = FALSE
    /\ UNCHANGED <<calls, pausedId, nextTimer, uploads, ready>>

AllSent == PartsSent /\ queue[Current].docSentParts >= Count(Current)

Await ==
    /\ Proceeds /\ AllSent /\ requests # {}
    /\ uploadingId' = Current /\ stopTimer' = FALSE
    /\ calls' = calls - 1
    /\ UNCHANGED <<queue, requests, dcMap, flying, sentSize, sentSizes,
                   pausedId, nextTimer, uploads, ready>>

(* Everything is there, and sendNext() calls itself.                       *)
Ready ==
    /\ Proceeds /\ AllSent /\ requests = {}
    /\ ready' = ready \cup {queue[Current]}
    /\ queue' = Without(queue, Current)
    /\ uploadingId' = None /\ stopTimer' = FALSE
    /\ UNCHANGED <<requests, dcMap, flying, sentSize, sentSizes, pausedId,
                   nextTimer, calls, uploads>>

SendNext == SendNothing \/ SendPart \/ SendDoc \/ FailDoc \/ Await \/ Ready

-----------------------------------------------------------------------------
(* Mutant of PartLoaded: the next part is left to the timer.               *)
PartLoadedQuietly(request) ==
    /\ calls = 0 /\ request \in requests
    /\ flying' = flying \ {request}
    /\ requests' = requests \ {request}
    /\ dcMap' = Without(dcMap, request)
    /\ sentSize' = sentSize - request.size
    /\ sentSizes' = [sentSizes EXCEPT ![dcMap[request]] = @ - request.size]
    /\ queue' = [queue EXCEPT ![uploadingId].saved = @ \cup {request}]
    /\ UNCHANGED <<uploadingId, pausedId, nextTimer, stopTimer, calls, uploads,
                   ready>>

(* partLoaded() with true; it is of the current file, as is asserted.      *)
PartLoaded(request) ==
    /\ calls = 0 /\ request \in flying
    /\ flying' = flying \ {request}
    /\ calls' = 1
    /\ IF request \notin requests
       THEN UNCHANGED <<queue, requests, dcMap, sentSize, sentSizes>>
       ELSE /\ requests' = requests \ {request}
            /\ dcMap' = Without(dcMap, request)
            /\ sentSize' = sentSize - request.size
            /\ sentSizes' = [sentSizes EXCEPT ![dcMap[request]] =
                                @ - request.size]
            /\ queue' = [queue EXCEPT ![uploadingId].saved = @ \cup {request}]
    /\ UNCHANGED <<uploadingId, pausedId, nextTimer, stopTimer, uploads, ready>>

(* partLoaded() with false, or with more = 1 partFailed(), which calls     *)
(* sendNext() itself, too.                                                 *)
PartFailed(request, more) ==
    /\ calls = 0 /\ request \in flying
    /\ IF request \in requests THEN currentFailed(more)
       ELSE /\ flying' = flying \ {request}
            /\ calls' = 1
            /\ UNCHANGED <<queue, requests, dcMap, sentSize, sentSizes,
                           uploadingId, pausedId, nextTimer, stopTimer,
                           uploads, ready>>

NextTimer ==
    /\ calls = 0 /\ nextTimer
    /\ nextTimer' = FALSE /\ calls' = 1
    /\ UNCHANGED <<queue, requests, dcMap, flying, sentSize, sentSizes,
                   uploadingId, pausedId, stopTimer, uploads, ready>>

StopSessions ==
    /\ calls = 0 /\ stopTimer
    /\ stopTimer' = FALSE
    /\ UNCHANGED <<queue, requests, dcMap, flying, sentSize, sentSizes, calls,
                   uploadingId, pausedId, nextTimer, uploads, ready>>

Cancel(id) ==
    /\ calls = 0 /\ id \in DOMAIN queue
    /\ IF uploadingId = id THEN currentFailed(0)
       ELSE /\ queue' = Without(queue, id)
            /\ UNCHANGED <<requests, dcMap, flying, sentSize, sentSizes, calls,
                           uploadingId, pausedId, nextTimer, stopTimer,
                           uploads, ready>>

(* It pauses for a moment, so that nothing is sent before unpause().       *)
CancelAll ==
    /\ calls = 0
    /\ DOMAIN queue # {} \/ uploadingId # None
    /\ queue' = <<>>
    /\ cancelRequests
    /\ uploadingId' = None /\ pausedId' = None
    /\ stopTimer' = FALSE
    /\ calls' = 1
    /\ UNCHANGED <<nextTimer, uploads, ready>>

Pause(id) ==
    /\ calls = 0
    /\ pausedId' = id
    /\ UNCHANGED <<queue, requests, dcMap, flying, sentSize, sentSizes,
                   uploadingId, nextTimer, stopTimer, calls, uploads, ready>>

Unpause ==
    /\ calls = 0 /\ pausedId # None
    /\ pausedId' = None /\ calls' = 1
    /\ UNCHANGED <<queue, requests, dcMap, flying, sentSize, sentSizes,
                   uploadingId, nextTimer, stopTimer, uploads, ready>>

Next ==
    \/ SendNext
    \/ \E id \in Ids : \E real \in RealSizes \cup {SizeOf[id]} : Upload(id, real)
    \/ \E request \in flying :
         PartLoaded(request) \/ \E more \in 0 .. 1 : PartFailed(request, more)
    \/ NextTimer \/ StopSessions
    \/ \E id \in Ids : Cancel(id) \/ Pause(id)
    \/ CancelAll \/ Unpause

Spec == Init /\ [][Next]_vars

(* The code goes on, its timer fires and requests are answered.            *)
FairSpec ==
    /\ Spec
    /\ WF_vars(SendNext)
    /\ WF_vars(NextTimer)
    /\ WF_vars(\E request \in flying : PartLoaded(request))

-----------------------------------------------------------------------------
Requests == [id : Ids, kind : {"part", "doc"}, n : Nat, len : Nat, size : Nat]

TypeOK ==
    /\ DOMAIN queue \subseteq Ids
    /\ \A id \in DOMAIN queue :
         queue[id] \in [id : {id}, taken : 0 .. Len(PartsOf[id]),
                        docSentParts : 0 .. Count(id),
                        real : RealSizes \cup {SizeOf[id]},
                        saved : SUBSET Requests]
    /\ requests \subseteq Requests /\ flying \subseteq Requests
    /\ DOMAIN dcMap \subseteq Requests
    /\ sentSize \in Int /\ sentSizes \in [Dcs -> Int]
    /\ uploadingId \in Ids \cup {None} /\ pausedId \in Ids \cup {None}
    /\ nextTimer \in BOOLEAN /\ stopTimer \in BOOLEAN
    /\ calls \in 0 .. 2 /\ uploads \in 0 .. MaxUploads

(* "Assert(k != queue.cend())", "must not happen": the requests that are   *)
(* out are those of the current file, they are known with their session,   *)
(* and nothing else will be answered.                                      *)
RequestsOfCurrent ==
    /\ flying = requests /\ DOMAIN dcMap = requests
    /\ \A request \in requests :
         request.id = uploadingId /\ uploadingId \in DOMAIN queue

(* A file is announced when the server has all of its parts, each but the  *)
(* last one of the document in full length.                                *)
Whole(file) ==
    /\ \A n \in 1 .. Len(PartsOf[file.id]) :
         \E r \in file.saved : r.kind = "part" /\ r.n = n
    /\ \A n \in 0 .. Count(file.id) - 1 :
         \E r \in file.saved :
            /\ r.kind = "doc" /\ r.n = n
            /\ n + 1 = Count(file.id) \/ r.len = docPartSize(SizeOf[file.id])

ReadyIsWhole == \A file \in ready : Whole(file)

Share == MaxParallel \div Cardinality(Dcs)
SizeAt(dc) ==
    MapThenSumSet(LAMBDA r : r.size, {r \in requests : dcMap[r] = dc})

(* The sizes are those of the parts that are out, so uint32 never wraps.   *)
(* "max 512kb uploaded at the same time in each session": no session gets  *)
(* more than its share and one part.                                       *)
SizesOfRequests ==
    /\ \A request \in requests : dcMap[request] \in Dcs
    /\ \A dc \in Dcs : /\ sentSizes[dc] = SizeAt(dc)
                       /\ sentSizes[dc] < Share + PartSizes[5]
    /\ sentSize = MapThenSumSet(SizeAt, Dcs)

(* The sessions are not stopped under a part that is on its way.           *)
StopsIdle == stopTimer => flying = {}

(* Every file is announced, has failed or was cancelled in the end, unless *)
(* the user leaves the question about it open.                             *)
EventuallyEnds ==
    \A id \in Ids : id \in DOMAIN queue ~> id \notin DOMAIN queue \/ pausedId # None
=============================================================================
