------------------------------ MODULE SeqUpdates ------------------------------
(***************************************************************************)
(* The seq of Api::Updates.  The server numbers the containers of updates  *)
(* (updates, updatesCombined) it sends: a container covers the numbers     *)
(* start .. end.  The client applies a container when it is the next one,  *)
(* drops it when it is an old one, and otherwise puts it aside in          *)
(* _bySeqUpdates and fetches the difference if the missing ones do not     *)
(* come within a second.                                                   *)
(*                                                                         *)
(* The pts of the updates inside (module Updates) are left out: they       *)
(* appear as the getDifference calls feeding a container may make.         *)
(*                                                                         *)
(* history:  applied, the numbers whose containers were applied or are     *)
(*           covered by a state or difference the server sent.             *)
(***************************************************************************)
EXTENDS Integers

CONSTANTS
  Sizes,   \* how many numbers a container covers
  Kinds,   \* how containers come, see below
  MaxSeq   \* bound: the last number

(* pushed by the server; pushed with a notification of a forced logout;    *)
(* returned by a request of the client.                                    *)
AllKinds == {"push", "logout", "result"}

ASSUME SeqAssumption ==
  /\ Sizes \subseteq Nat \ {0}
  /\ Kinds \subseteq AllKinds
  /\ MaxSeq \in Nat

VARIABLES
  seq,         \* _updatesSeq
  bySeq,       \* _bySeqUpdates
  bySeqTimer,  \* _bySeqTimer is active
  requesting,  \* requestingDifference()
  request,     \* the request for the state or a difference
  reply,       \* what a request in state "done" brings
  afterFail,   \* _getDifferenceTimeAfterFail is not 0
  serverSeq,   \* server: the last number used
  log,         \* server: the values its seq took
  net,         \* containers on the way to the client
  applied

vars == <<seq, bySeq, bySeqTimer, requesting, request, reply, afterFail,
          serverSeq, log, net, applied>>

Container == [start : Nat, end : Nat]

Message == [container : Container, kind : AllKinds]

Numbers(c) == c.start .. c.end

NumbersOf(S) == UNION {Numbers(c) : c \in S}

server == <<serverSeq, log>>
difference == <<requesting, request, reply, afterFail>>

Init ==
  /\ seq = 0
  /\ bySeq = {}
  /\ bySeqTimer = FALSE
  /\ requesting = TRUE
  /\ request = "state"
  /\ reply = [seq |-> 0, final |-> TRUE]
  /\ afterFail = FALSE
  /\ serverSeq = 0
  /\ log = {0}
  /\ net = {}
  /\ applied = {}
-----------------------------------------------------------------------------
(* The server and the network (external). *)

NewContainer(n, kind) ==
  LET c == [start |-> serverSeq + 1, end |-> serverSeq + n]
  IN  /\ serverSeq + n <= MaxSeq
      /\ serverSeq' = serverSeq + n
      /\ log' = log \cup {serverSeq + n}
      /\ net' = net \cup {[container |-> c, kind |-> kind]}
      /\ UNCHANGED <<seq, bySeq, bySeqTimer, difference, applied>>

LoseContainer(m) ==
  /\ m.kind # "result"
  /\ net' = net \ {m}
  /\ UNCHANGED <<seq, bySeq, bySeqTimer, difference, server, applied>>

(* The state, or a difference: whole, or a slice that ends at s. *)
Answer(s) ==
  /\ s \in log
  /\ \/ request = "state" /\ s = serverSeq
     \/ request = "asked"
  /\ reply' = [seq |-> s, final |-> s = serverSeq]
  /\ request' = "done"
  /\ UNCHANGED <<seq, bySeq, bySeqTimer, requesting, afterFail, server, net,
                 applied>>

AnswerFail ==
  /\ request = "asked"
  /\ request' = "failed"
  /\ UNCHANGED <<seq, bySeq, bySeqTimer, requesting, reply, afterFail, server,
                 net, applied>>
-----------------------------------------------------------------------------
(* The containers of q that are not behind when the seq is s. *)
Ahead(q, s) == {c \in q : c.start > s}

(* The containers of q that setState applies one after the other when the  *)
(* seq becomes s: those up to which no number is missing.                  *)
Chain(q, s) ==
  {c \in Ahead(q, s) : (s + 1) .. c.end \subseteq NumbersOf(Ahead(q, s))}

(* The one seq there is once the containers of chain have followed s. *)
SeqAfter(chain, s) ==
  {t \in {s} \cup {c.end : c \in chain} : \A c \in chain : c.end <= t}

(* getDifference. *)
getDifference ==
  IF requesting
    THEN UNCHANGED <<bySeq, bySeqTimer, difference>>
    ELSE /\ bySeq' = {}
         /\ bySeqTimer' = FALSE
         /\ requesting' = TRUE
         /\ request' = "asked"
         /\ afterFail' = FALSE
         /\ UNCHANGED reply

(* setState, for a seq that is neither 0 nor the one the client has, with  *)
(* C applied before it: the containers waiting for it are applied, and the *)
(* timer is started again if some are still ahead.                         *)
setSeq(s, C) ==
  LET chain == Chain(bySeq, s)
      rest == Ahead(bySeq, s) \ chain
  IN  /\ seq' \in SeqAfter(chain, s)
      /\ bySeq' = rest
      /\ bySeqTimer' = (rest # {})
      /\ applied' = applied \cup C \cup NumbersOf(chain)

(* The same when an update inside the last container that is applied, or   *)
(* in c itself, needs the difference: getDifference forgets the rest.      *)
setSeqAsking(c) ==
  /\ ~requesting
  /\ \E last \in {c} \cup Chain(bySeq, c.end) :
       LET done == {c} \cup {d \in Chain(bySeq, c.end) : d.end <= last.end}
       IN  /\ seq' = last.end
           /\ applied' = applied \cup NumbersOf(done)
  /\ getDifference

(* Mutant of applyUpdates: a container ahead of its turn is applied. *)
applyUpdatesAhead(c) ==
  IF c.start <= seq
    THEN UNCHANGED <<seq, bySeq, bySeqTimer, difference, applied>>
    ELSE setSeq(c.end, Numbers(c)) /\ UNCHANGED difference

(* applyUpdates of a container. *)
applyUpdates(c) ==
  \/ /\ c.start <= seq
     /\ UNCHANGED <<seq, bySeq, bySeqTimer, difference, applied>>
  \/ /\ c.start > seq + 1
     /\ bySeq' = bySeq \cup {c}
     /\ bySeqTimer' = TRUE
     /\ UNCHANGED <<seq, difference, applied>>
  \/ /\ c.start = seq + 1
     /\ \/ setSeq(c.end, Numbers(c)) /\ UNCHANGED difference
        \/ setSeqAsking(c)

(* mtpUpdateReceived, and the results of requests. *)
ReceiveContainer(m) ==
  /\ net' = net \ {m}
  /\ \/ /\ m.kind = "push" /\ requesting
        /\ UNCHANGED <<seq, bySeq, bySeqTimer, difference, applied>>
     \/ /\ m.kind = "push" => ~requesting
        /\ applyUpdates(m.container)
  /\ UNCHANGED server

mtpNewSessionCreated ==
  /\ seq' = 0
  /\ getDifference
  /\ UNCHANGED <<server, net, applied>>

(* updatesTooLong, and the timers and updates of module Updates that ask   *)
(* for the difference of the common box.                                   *)
UpdatesTooLong ==
  /\ getDifference
  /\ UNCHANGED <<seq, server, net, applied>>

(* Mutant of fireBySeqTimer: the difference is not asked for. *)
fireBySeqTimerIdle ==
  /\ bySeqTimer
  /\ bySeqTimer' = FALSE
  /\ UNCHANGED <<seq, bySeq, difference, server, net, applied>>

(* _bySeqTimer calls getDifference. *)
fireBySeqTimer ==
  /\ bySeqTimer
  /\ IF requesting
       THEN bySeqTimer' = FALSE /\ UNCHANGED <<bySeq, difference>>
       ELSE getDifference
  /\ UNCHANGED <<seq, server, net, applied>>
-----------------------------------------------------------------------------
(* stateDone, differenceDone: setState while still requesting; a slice is  *)
(* followed by another request, which forgets what is put aside.           *)
differenceDone ==
  LET covered == 1 .. reply.seq
      chain == Chain(bySeq, reply.seq)
  IN  /\ request = "done"
      /\ IF reply.final
           THEN /\ requesting' = FALSE
                /\ request' = "none"
                /\ UNCHANGED afterFail
                /\ IF reply.seq \notin {0, seq}
                     THEN setSeq(reply.seq, covered)
                     ELSE /\ applied' = applied \cup covered
                          /\ UNCHANGED <<seq, bySeq, bySeqTimer>>
           ELSE /\ requesting' = TRUE
                /\ request' = "asked"
                /\ afterFail' = FALSE
                /\ bySeq' = {}
                /\ bySeqTimer' = FALSE
                /\ IF reply.seq \notin {0, seq}
                     THEN /\ seq' \in SeqAfter(chain, reply.seq)
                          /\ applied' = applied \cup covered \cup NumbersOf(chain)
                     ELSE /\ applied' = applied \cup covered
                          /\ UNCHANGED seq
      /\ UNCHANGED <<reply, server, net>>

(* Mutant of differenceFail: no retry is scheduled. *)
differenceFailForgotten ==
  /\ request = "failed"
  /\ request' = "none"
  /\ UNCHANGED <<seq, bySeq, bySeqTimer, requesting, reply, afterFail, server,
                 net, applied>>

differenceFail ==
  /\ request = "failed"
  /\ request' = "none"
  /\ afterFail' = TRUE
  /\ UNCHANGED <<seq, bySeq, bySeqTimer, requesting, reply, server, net,
                 applied>>

getDifferenceAfterFail ==
  /\ afterFail
  /\ afterFail' = FALSE
  /\ requesting' = TRUE
  /\ request' = "asked"
  /\ bySeq' = {}
  /\ bySeqTimer' = FALSE
  /\ UNCHANGED <<seq, reply, server, net, applied>>
-----------------------------------------------------------------------------
Next ==
  \/ \E n \in Sizes, k \in Kinds : NewContainer(n, k)
  \/ \E m \in net : LoseContainer(m) \/ ReceiveContainer(m)
  \/ \E s \in log : Answer(s)
  \/ AnswerFail
  \/ mtpNewSessionCreated
  \/ UpdatesTooLong
  \/ fireBySeqTimer
  \/ differenceDone
  \/ differenceFail
  \/ getDifferenceAfterFail

Spec == Init /\ [][Next]_vars

(* The timers fire, the handlers run, and a request that is repeated over  *)
(* and over is answered at last, slices being followed by the whole.       *)
Fairness ==
  /\ SF_vars(Answer(serverSeq))
  /\ WF_vars(fireBySeqTimer)
  /\ WF_vars(differenceDone)
  /\ WF_vars(differenceFail)
  /\ WF_vars(getDifferenceAfterFail)

FairSpec == Spec /\ Fairness
-----------------------------------------------------------------------------
(* Every variable has its type. *)
TypeOK ==
  /\ seq \in Nat
  /\ bySeq \in SUBSET Container
  /\ bySeqTimer \in BOOLEAN
  /\ requesting \in BOOLEAN
  /\ request \in {"none", "state", "asked", "done", "failed"}
  /\ reply \in [seq : Nat, final : BOOLEAN]
  /\ afterFail \in BOOLEAN
  /\ serverSeq \in Nat
  /\ log \in SUBSET Nat
  /\ net \in SUBSET Message
  /\ applied \in SUBSET Nat

(* The seq never passes a container that was neither applied nor part of a *)
(* state or difference, although a late difference may move it back, a new *)
(* session resets it, and containers that were put aside follow each other *)
(* in one call.                                                            *)
NoContainerSkipped == 1 .. seq \subseteq applied

(* What is put aside in _bySeqUpdates is really ahead of its turn:         *)
(* setState leaves no container there that could be applied, and none that *)
(* is behind and would stop the others.                                    *)
QueuedAhead == \A c \in bySeq : c.start > seq + 1

(* Containers that are put aside are waited for ("1s wait for skipped seq  *)
(* or pts in updates"): no step stops the timer and leaves some of them    *)
(* there, unless a difference is on its way.                               *)
TimerIsServed ==
  [][bySeqTimer /\ ~bySeqTimer' /\ bySeq' # {} => requesting']_vars

(* A container that was put aside while no difference was on its way is    *)
(* applied in the end, or covered by a difference, though the difference   *)
(* may fail, come in slices or be overtaken by a new session.              *)
QueuedEventuallyApplied ==
  \A n \in 1 .. MaxSeq :
    n \in NumbersOf(bySeq) /\ bySeqTimer /\ ~requesting ~> n \in applied
-----------------------------------------------------------------------------
(* The inductive invariant that NoContainerSkipped and QueuedAhead rest on: *)
(* the seqs the client works with are values the server's seq took, and no  *)
(* such value is inside a container.                                        *)
Fits(c, L) ==
  /\ c.start <= c.end
  /\ c.start - 1 \in L
  /\ c.end \in L
  /\ \A q \in L : q < c.start \/ q >= c.end

Inv ==
  /\ TypeOK
  /\ serverSeq \in log
  /\ \A q \in log : q <= serverSeq
  /\ 0 \in log
  /\ seq \in log
  /\ reply.seq \in log
  /\ \A c \in bySeq : Fits(c, log)
  /\ \A m \in net : Fits(m.container, log)
  /\ NoContainerSkipped
  /\ QueuedAhead
=============================================================================
