--------------------------- MODULE SeqUpdatesProofs ---------------------------
(***************************************************************************)
(* Proofs about module SeqUpdates.  The heart of it is ChainFollows: the   *)
(* containers setState applies in one go cover every number up to the new  *)
(* seq, and what it leaves is ahead of it.                                 *)
(***************************************************************************)
EXTENDS SeqUpdates, TLAPS

(* What is known of containers that the server numbered. *)
Lined(q, s, L) ==
  /\ q \in SUBSET Container
  /\ L \in SUBSET Nat
  /\ s \in L
  /\ \A c \in q : Fits(c, L)

(* The numbers s+1 .. t follow s in the chain; what is left is ahead. *)
Followed(q, s, t, chain, L) ==
  /\ t \in L
  /\ s <= t
  /\ (s + 1) .. t \subseteq NumbersOf(chain)
  /\ \A c \in Ahead(q, s) \ chain : c.start > t + 1

(* Every number up to the end of a container of the chain is covered by    *)
(* the chain.                                                              *)
LEMMA ChainCovers ==
  ASSUME NEW q, NEW s, NEW L, Lined(q, s, L), NEW c \in Chain(q, s)
  PROVE  /\ c \in q /\ c.end \in L /\ s < c.end
         /\ \A p \in (s + 1) .. c.end : \E d \in Chain(q, s) : p \in Numbers(d)
<1>1. /\ c \in q /\ c.start > s
      /\ (s + 1) .. c.end \subseteq NumbersOf(Ahead(q, s))
  BY DEF Chain, Ahead
<1>2. /\ c.start \in Nat /\ c.end \in Nat /\ s \in Nat
      /\ c.start <= c.end /\ c.end \in L
  BY <1>1 DEF Lined, Container, Fits
<1>3. ASSUME NEW p \in (s + 1) .. c.end
      PROVE  \E d \in Chain(q, s) : p \in Numbers(d)
  <2>1. PICK d \in Ahead(q, s) : p \in Numbers(d)
    BY <1>1, <1>3 DEF NumbersOf
  <2>2. /\ d \in q /\ d.start \in Nat /\ d.end \in Nat /\ Fits(d, L)
    BY <2>1 DEF Ahead, Lined, Container
  <2>3. d.end <= c.end
    BY <1>2, <1>3, <2>1, <2>2 DEF Fits, Numbers
  <2>4. (s + 1) .. d.end \subseteq (s + 1) .. c.end
    BY <1>2, <2>2, <2>3
  <2>5. d \in Chain(q, s)
    BY <1>1, <2>1, <2>4 DEF Chain
  <2> QED BY <2>1, <2>5
<1> QED BY <1>1, <1>2, <1>3

(* A container whose numbers go on where the chain ends is in it. *)
LEMMA ChainExtends ==
  ASSUME NEW q, NEW s, NEW L, Lined(q, s, L), NEW t \in L, s <= t,
         (s + 1) .. t \subseteq NumbersOf(Chain(q, s)),
         NEW c \in Ahead(q, s), c.start <= t + 1, c.end > t
  PROVE  c \in Chain(q, s)
<1>1. c \in q /\ c.start \in Nat /\ c.end \in Nat /\ s \in Nat /\ t \in Nat
  BY DEF Ahead, Lined, Container
<1>2. ASSUME NEW p \in (s + 1) .. c.end
      PROVE  p \in NumbersOf(Ahead(q, s))
  <2>1. CASE p <= t
    <3>1. p \in (s + 1) .. t
      BY <1>1, <2>1
    <3> QED BY <3>1 DEF NumbersOf, Chain
  <2>2. CASE p > t
    <3>1. p \in Numbers(c)
      BY <1>1, <2>2 DEF Numbers
    <3> QED BY <3>1 DEF NumbersOf
  <2> QED BY <1>1, <2>1, <2>2
<1> QED BY <1>2 DEF Chain

(* setState: the containers that follow the new seq are applied up to the  *)
(* first number that is missing.                                           *)
LEMMA ChainFollows ==
  ASSUME NEW q, NEW s, NEW L, Lined(q, s, L),
         NEW t \in SeqAfter(Chain(q, s), s)
  PROVE  Followed(q, s, t, Chain(q, s), L)
<1> DEFINE chain == Chain(q, s)
<1>1. s \in Nat /\ s \in L /\ L \in SUBSET Nat
  BY DEF Lined
<1>2. /\ t \in L /\ s <= t
      /\ \A p \in (s + 1) .. t : \E d \in chain : p \in Numbers(d)
  <2>1. CASE t = s
    <3>1. (s + 1) .. t = {}
      BY <1>1, <2>1
    <3> QED BY <1>1, <2>1, <3>1
  <2>2. CASE t # s
    <3>1. PICK c \in chain : t = c.end
      BY <2>2 DEF SeqAfter
    <3>2. \A p \in (s + 1) .. c.end : \E d \in chain : p \in Numbers(d)
      BY ChainCovers
    <3>3. c.end \in L /\ s < c.end
      BY ChainCovers
    <3> HIDE DEF chain
    <3>4. t \in L /\ s <= t
      <4>1. t \in L /\ s < t
        BY <3>1, <3>3, Zenon
      <4>2. t \in Nat
        BY <1>1, <4>1
      <4> QED BY <1>1, <4>1, <4>2
    <3>5. \A p \in (s + 1) .. t : \E d \in chain : p \in Numbers(d)
      BY <3>1, <3>2, Zenon
    <3> QED BY <3>4, <3>5
  <2> QED BY <2>1, <2>2
<1>3. (s + 1) .. t \subseteq NumbersOf(chain)
  BY <1>2 DEF NumbersOf
<1>4. ASSUME NEW c \in Ahead(q, s) \ chain
      PROVE  c.start > t + 1
  <2>1. /\ c \in q /\ c.start > s /\ c.start \in Nat /\ c.end \in Nat
        /\ Fits(c, L) /\ t \in Nat
    BY <1>1, <1>2, <1>4 DEF Ahead, Lined, Container
  <2>2. CASE c.start <= t + 1 /\ c.end > t
    <3>1. c \in chain
      BY <1>2, <1>3, <1>4, <2>2, ChainExtends
    <3> QED BY <1>4, <3>1
  <2>3. CASE c.start <= t + 1 /\ c.end <= t
    <3>1. (s + 1) .. c.end \subseteq (s + 1) .. t
      BY <1>1, <2>1, <2>3
    <3>2. NumbersOf(chain) \subseteq NumbersOf(Ahead(q, s))
      BY DEF Chain, NumbersOf
    <3>3. c \in chain
      BY <1>3, <1>4, <3>1, <3>2 DEF Chain
    <3> QED BY <1>4, <3>3
  <2> QED BY <2>1, <2>2, <2>3
<1> QED BY <1>2, <1>3, <1>4 DEF Followed
-----------------------------------------------------------------------------
(* What a step does to the seq and the containers put aside. *)
Moves ==
  /\ seq' \in log'
  /\ bySeq' \subseteq Container /\ \A c \in bySeq' : Fits(c, log')
  /\ applied' \subseteq Nat /\ applied \subseteq applied'
  /\ NoContainerSkipped'
  /\ QueuedAhead'

(* The containers put aside and on the way were numbered by the server. *)
LEMMA InvLined ==
  ASSUME Inv, NEW s \in log
  PROVE  Lined(bySeq, s, log)
BY DEF Inv, TypeOK, Lined

(* Numbers of containers are numbers. *)
LEMMA NumbersAreNat ==
  ASSUME NEW S \in SUBSET Container
  PROVE  NumbersOf(S) \subseteq Nat
<1> SUFFICES ASSUME NEW c \in S PROVE Numbers(c) \subseteq Nat
  BY DEF NumbersOf
<1>1. c.start \in Nat /\ c.end \in Nat
  BY DEF Container
<1> QED BY <1>1 DEF Numbers

(* setState with a seq up to which everything is applied. *)
LEMMA SetSeqMoves ==
  ASSUME Inv, NEW s \in log, NEW C \in SUBSET Nat, UNCHANGED log,
         setSeq(s, C), 1 .. s \subseteq applied \cup C
  PROVE  Moves
<1> DEFINE chain == Chain(bySeq, s)
<1>1. /\ seq' \in SeqAfter(chain, s)
      /\ bySeq' = Ahead(bySeq, s) \ chain
      /\ applied' = applied \cup C \cup NumbersOf(chain)
  BY DEF setSeq
<1>2. /\ s \in Nat /\ log \in SUBSET Nat /\ bySeq \in SUBSET Container
      /\ applied \in SUBSET Nat /\ \A c \in bySeq : Fits(c, log)
  BY DEF Inv, TypeOK
<1>3. Followed(bySeq, s, seq', chain, log)
  BY <1>1, InvLined, ChainFollows
<1>4. NumbersOf(chain) \subseteq Nat
  <2>1. chain \in SUBSET Container
    BY <1>2 DEF Chain, Ahead
  <2> HIDE DEF chain
  <2> QED BY <2>1, NumbersAreNat
<1> HIDE DEF chain
<1>5. NoContainerSkipped'
  <2> SUFFICES ASSUME NEW p \in 1 .. seq' PROVE p \in applied'
    BY DEF NoContainerSkipped
  <2>1. seq' \in Nat
    BY <1>2, <1>3 DEF Followed
  <2>2. CASE p <= s
    <3>1. p \in 1 .. s
      BY <1>2, <2>1, <2>2
    <3> QED BY <1>1, <3>1
  <2>3. CASE p > s
    <3>1. p \in (s + 1) .. seq'
      BY <1>2, <2>1, <2>3
    <3> QED BY <1>1, <1>3, <3>1 DEF Followed
  <2> QED BY <1>2, <2>1, <2>2, <2>3
<1>6. QueuedAhead'
  BY <1>1, <1>3 DEF QueuedAhead, Followed
<1>7. bySeq' \subseteq bySeq
  BY <1>1 DEF Ahead
<1> QED BY <1>1, <1>2, <1>3, <1>4, <1>5, <1>6, <1>7 DEF Moves, Followed

(* The last container that is applied before a difference is asked for. *)
LEMMA SetSeqAskingMoves ==
  ASSUME Inv, NEW c \in Container, Fits(c, log), c.start = seq + 1,
         UNCHANGED log, setSeqAsking(c)
  PROVE  Moves
<1> DEFINE chain == Chain(bySeq, c.end)
<1>1. PICK last \in {c} \cup chain :
        /\ seq' = last.end
        /\ applied' = applied
             \cup NumbersOf({c} \cup {d \in chain : d.end <= last.end})
  BY DEF setSeqAsking
<1> DEFINE done == {c} \cup {d \in chain : d.end <= last.end}
<1>2. bySeq' = {}
  BY DEF setSeqAsking, getDifference
<1>3. /\ log \in SUBSET Nat /\ bySeq \in SUBSET Container /\ seq \in Nat
      /\ applied \in SUBSET Nat /\ c.start \in Nat /\ c.end \in Nat
      /\ c.end \in log /\ 1 .. seq \subseteq applied
  BY DEF Inv, TypeOK, Container, Fits, NoContainerSkipped
<1>4. chain \subseteq bySeq /\ last \in Container
  BY <1>3 DEF Chain, Ahead
<1>5. Lined(bySeq, c.end, log)
  BY <1>3, InvLined
<1>6. /\ last.end \in log
      /\ \A p \in (c.end + 1) .. last.end : \E d \in chain : p \in Numbers(d)
  <2>1. CASE last = c
    <3>1. (c.end + 1) .. last.end = {}
      BY <1>3, <2>1
    <3> QED BY <1>3, <2>1, <3>1
  <2>2. CASE last \in chain
    BY <1>5, <2>2, ChainCovers
  <2> QED BY <2>1, <2>2
<1> HIDE DEF chain
<1>7. NumbersOf(done) \subseteq Nat
  <2>1. done \in SUBSET Container
    BY <1>3, <1>4
  <2> HIDE DEF done
  <2> QED BY <2>1, NumbersAreNat
<1>8. ASSUME NEW p \in 1 .. last.end
      PROVE  p \in applied \cup NumbersOf(done)
  <2>1. last.end \in Nat
    BY <1>3, <1>6
  <2>2. CASE p <= seq
    <3>1. p \in 1 .. seq
      BY <1>3, <2>1, <2>2
    <3> QED BY <1>3, <3>1
  <2>3. CASE seq < p /\ p <= c.end
    <3>1. p \in Numbers(c)
      BY <1>3, <2>1, <2>3 DEF Numbers
    <3> QED BY <3>1 DEF NumbersOf
  <2>4. CASE p > c.end
    <3>1. p \in (c.end + 1) .. last.end
      BY <1>3, <2>1, <2>4
    <3>2. PICK d \in chain : p \in Numbers(d)
      BY <1>6, <3>1
    <3>3. d.start \in Nat /\ d.end \in Nat /\ Fits(d, log)
      BY <1>3, <1>4 DEF Container, Inv
    <3>4. d.end <= last.end
      BY <1>3, <1>6, <2>1, <3>1, <3>2, <3>3 DEF Fits, Numbers
    <3> QED BY <3>2, <3>4 DEF NumbersOf
  <2> QED BY <1>3, <2>1, <2>2, <2>3, <2>4
<1>9. NoContainerSkipped'
  BY <1>1, <1>8 DEF NoContainerSkipped
<1> QED BY <1>1, <1>2, <1>3, <1>6, <1>7, <1>9 DEF Moves, QueuedAhead
-----------------------------------------------------------------------------
(* A step of the client that only consumes containers keeps the invariant. *)
LEMMA ClientKeepsInv ==
  ASSUME Inv, TypeOK', UNCHANGED server, net' \subseteq net,
         reply'.seq \in log, Moves
  PROVE  Inv'
BY DEF Inv, Moves, server

(* A step that may forget what is put aside, and nothing else. *)
LEMMA StayMoves ==
  ASSUME Inv, UNCHANGED <<log, applied>>, seq' \in {0, seq},
         bySeq' \in {{}, bySeq}
  PROVE  Moves
<1>1. /\ seq \in Nat /\ seq \in log /\ 0 \in log
      /\ bySeq \in SUBSET Container /\ applied \in SUBSET Nat
      /\ \A c \in bySeq : Fits(c, log)
      /\ 1 .. seq \subseteq applied
      /\ \A c \in bySeq : c.start \in Nat /\ c.start > seq + 1
  BY DEF Inv, TypeOK, Container, NoContainerSkipped, QueuedAhead
<1>2. 1 .. 0 = {}
  OBVIOUS
<1>3. NoContainerSkipped'
  BY <1>1, <1>2 DEF NoContainerSkipped
<1>4. QueuedAhead'
  BY <1>1 DEF QueuedAhead
<1> QED BY <1>1, <1>3, <1>4 DEF Moves

(* getDifference keeps types and forgets what is put aside, or nothing. *)
LEMMA GetDifferenceForgets ==
  ASSUME Inv, getDifference
  PROVE  /\ bySeq' \in {{}, bySeq}
         /\ bySeqTimer' \in BOOLEAN /\ requesting' \in BOOLEAN
         /\ request' \in {"none", "state", "asked", "done", "failed"}
         /\ afterFail' \in BOOLEAN /\ reply' = reply
BY DEF Inv, TypeOK, getDifference, difference

(* applyUpdates keeps the invariant's part about the client. *)
LEMMA ApplyUpdatesMoves ==
  ASSUME Inv, NEW c \in Container, Fits(c, log), UNCHANGED log,
         applyUpdates(c)
  PROVE  /\ Moves /\ reply' = reply
         /\ bySeqTimer' \in BOOLEAN /\ requesting' \in BOOLEAN
         /\ request' \in {"none", "state", "asked", "done", "failed"}
         /\ afterFail' \in BOOLEAN
<1>1. CASE UNCHANGED <<seq, bySeq, bySeqTimer, difference, applied>>
  BY <1>1, StayMoves DEF difference, Inv, TypeOK
<1>2. CASE /\ c.start > seq + 1
           /\ bySeq' = bySeq \cup {c}
           /\ bySeqTimer' = TRUE
           /\ UNCHANGED <<seq, difference, applied>>
  BY <1>2 DEF Moves, Inv, TypeOK, difference, NoContainerSkipped, QueuedAhead
<1>3. CASE c.start = seq + 1 /\ setSeq(c.end, Numbers(c)) /\ UNCHANGED difference
  <2>1. /\ c.start \in Nat /\ c.end \in Nat /\ c.end \in log /\ seq \in Nat
        /\ 1 .. seq \subseteq applied
    BY DEF Container, Fits, Inv, TypeOK, NoContainerSkipped
  <2>2. Numbers(c) \in SUBSET Nat
    BY <2>1 DEF Numbers
  <2>3. 1 .. c.end \subseteq applied \cup Numbers(c)
    BY <1>3, <2>1 DEF Numbers
  <2>4. Moves
    BY <1>3, <2>1, <2>2, <2>3, SetSeqMoves
  <2>5. bySeqTimer' \in BOOLEAN
    BY <1>3 DEF setSeq
  <2> QED BY <1>3, <2>4, <2>5 DEF difference, Inv, TypeOK
<1>4. CASE c.start = seq + 1 /\ setSeqAsking(c)
  <2>1. Moves
    BY <1>4, SetSeqAskingMoves
  <2>2. getDifference
    BY <1>4 DEF setSeqAsking
  <2> QED BY <2>1, <2>2, GetDifferenceForgets
<1> QED BY <1>1, <1>2, <1>3, <1>4 DEF applyUpdates

(* stateDone and differenceDone keep the invariant's part about the client. *)
LEMMA DifferenceDoneMoves ==
  ASSUME Inv, differenceDone
  PROVE  Moves
<1> DEFINE s == reply.seq
           chain == Chain(bySeq, s)
<1>1. /\ s \in Nat /\ s \in log /\ seq \in Nat /\ seq \in log
      /\ log \in SUBSET Nat /\ UNCHANGED log
      /\ bySeq \in SUBSET Container /\ applied \in SUBSET Nat
      /\ 1 .. seq \subseteq applied
      /\ \A c \in bySeq : Fits(c, log) /\ c.start > seq + 1
  BY DEF Inv, TypeOK, differenceDone, server, NoContainerSkipped, QueuedAhead
<1>2. 1 .. s \in SUBSET Nat
  BY <1>1
<1>3. CASE reply.final /\ s \notin {0, seq}
  <2>1. setSeq(s, 1 .. s)
    BY <1>3 DEF differenceDone
  <2> QED BY <1>1, <1>2, <2>1, SetSeqMoves
<1>4. CASE ~reply.final /\ s \notin {0, seq}
  <2>1. /\ bySeq' = {} /\ seq' \in SeqAfter(chain, s)
        /\ applied' = applied \cup (1 .. s) \cup NumbersOf(chain)
    BY <1>4 DEF differenceDone
  <2>2. Followed(bySeq, s, seq', chain, log)
    BY <1>1, <2>1, InvLined, ChainFollows
  <2>3. NumbersOf(chain) \subseteq Nat
    <3>1. chain \in SUBSET Container
      BY <1>1 DEF Chain, Ahead
    <3> HIDE DEF chain
    <3> QED BY <3>1, NumbersAreNat
  <2> HIDE DEF chain, s
  <2>4. seq' \in Nat /\ seq' \in log
    BY <1>1, <2>2 DEF Followed
  <2>5. NoContainerSkipped'
    <3> SUFFICES ASSUME NEW p \in 1 .. seq' PROVE p \in applied'
      BY DEF NoContainerSkipped
    <3>1. p \in 1 .. s \/ p \in (s + 1) .. seq'
      BY <1>1, <2>4
    <3> QED BY <2>1, <2>2, <3>1 DEF Followed
  <2> QED BY <1>1, <1>2, <2>1, <2>3, <2>4, <2>5 DEF Moves, QueuedAhead
<1>5. CASE s \in {0, seq}
  <2>1. /\ seq' = seq /\ bySeq' \in {{}, bySeq}
        /\ applied' = applied \cup (1 .. s)
    BY <1>5 DEF differenceDone
  <2> QED BY <1>1, <1>2, <2>1 DEF Moves, NoContainerSkipped, QueuedAhead
<1> QED BY <1>3, <1>4, <1>5 DEF Inv, TypeOK

(* The server numbers a new container: what was numbered before still      *)
(* fits.                                                                   *)
LEMMA NewContainerStep ==
  ASSUME Inv, NEW n \in Sizes, NEW k \in Kinds, NewContainer(n, k)
  PROVE  Inv'
<1> DEFINE c == [start |-> serverSeq + 1, end |-> serverSeq + n]
<1>1. n \in Nat /\ n > 0 /\ k \in AllKinds
  BY SeqAssumption
<1>2. /\ serverSeq \in Nat /\ serverSeq' = serverSeq + n
      /\ log \in SUBSET Nat /\ log' = log \cup {serverSeq + n}
      /\ serverSeq \in log /\ \A q \in log : q <= serverSeq
      /\ net' = net \cup {[container |-> c, kind |-> k]}
      /\ UNCHANGED <<seq, bySeq, bySeqTimer, difference, applied>>
  BY DEF NewContainer, Inv, TypeOK
<1>3. c \in Container /\ [container |-> c, kind |-> k] \in Message
  BY <1>1, <1>2 DEF Container, Message
<1>4. Fits(c, log')
  BY <1>1, <1>2 DEF Fits
<1>5. ASSUME NEW d \in Container, Fits(d, log)
      PROVE  Fits(d, log')
  <2>1. d.start \in Nat /\ d.end \in Nat /\ d.end <= serverSeq
    BY <1>2, <1>5 DEF Container, Fits
  <2> QED BY <1>1, <1>2, <1>5, <2>1 DEF Fits
<1>6. TypeOK'
  BY <1>1, <1>2, <1>3 DEF Inv, TypeOK, difference
<1>7. /\ \A d \in bySeq' : Fits(d, log')
      /\ \A m \in net' : Fits(m.container, log')
  <2>1. \A d \in bySeq : d \in Container /\ Fits(d, log)
    BY DEF Inv, TypeOK
  <2>2. \A m \in net : m.container \in Container /\ Fits(m.container, log)
    BY DEF Inv, TypeOK, Message
  <2>3. bySeq' = bySeq
    BY <1>2
  <2>4. \A d \in bySeq' : Fits(d, log')
    BY <1>5, <2>1, <2>3, Zenon
  <2>5. ASSUME NEW m \in net' PROVE Fits(m.container, log')
    <3>1. CASE m \in net
      BY <1>5, <2>2, <3>1, Zenon
    <3>2. CASE m = [container |-> c, kind |-> k]
      <4>1. m.container = c
        BY <3>2
      <4> HIDE DEF c
      <4> QED BY <1>4, <4>1, Zenon
    <3> QED BY <1>2, <3>1, <3>2, Zenon
  <2> QED BY <2>4, <2>5
<1>8. /\ serverSeq' \in log' /\ \A q \in log' : q <= serverSeq'
      /\ 0 \in log' /\ seq' \in log' /\ reply'.seq \in log'
  <2>1. /\ serverSeq' \in log' /\ \A q \in log' : q <= serverSeq'
    BY <1>1, <1>2
  <2>2. 0 \in log /\ seq \in log /\ reply.seq \in log
    BY DEF Inv
  <2>3. seq' = seq /\ reply' = reply /\ log \subseteq log'
    BY <1>2 DEF difference
  <2> QED BY <2>1, <2>2, <2>3
<1>9. NoContainerSkipped' /\ QueuedAhead'
  BY <1>2 DEF Inv, NoContainerSkipped, QueuedAhead
<1> QED BY <1>6, <1>7, <1>8, <1>9 DEF Inv

(* A container that arrives is dropped or applied: both keep the invariant. *)
LEMMA ReceiveStep ==
  ASSUME Inv, NEW m \in net, ReceiveContainer(m)
  PROVE  Inv'
<1>1. /\ net' = net \ {m} /\ UNCHANGED server
      /\ m.container \in Container /\ Fits(m.container, log)
  BY DEF ReceiveContainer, Inv, TypeOK, Message
<1>2. /\ Moves /\ reply' = reply
      /\ bySeqTimer' \in BOOLEAN /\ requesting' \in BOOLEAN
      /\ request' \in {"none", "state", "asked", "done", "failed"}
      /\ afterFail' \in BOOLEAN
  <2>1. CASE UNCHANGED <<seq, bySeq, bySeqTimer, difference, applied>>
    BY <1>1, <2>1, StayMoves DEF server, difference, Inv, TypeOK
  <2>2. CASE applyUpdates(m.container)
    BY <1>1, <2>2, ApplyUpdatesMoves DEF server
  <2> QED BY <2>1, <2>2 DEF ReceiveContainer
<1>3. TypeOK'
  BY <1>1, <1>2 DEF Moves, Inv, TypeOK, server
<1> QED BY <1>1, <1>2, <1>3, ClientKeepsInv DEF Inv

(* Every other step: requests, answers, timers and a new session. *)
LEMMA OtherStep ==
  ASSUME Inv,
         \/ \E m \in net : LoseContainer(m)
         \/ \E s \in log : Answer(s)
         \/ AnswerFail \/ mtpNewSessionCreated \/ UpdatesTooLong
         \/ fireBySeqTimer \/ differenceDone \/ differenceFail
         \/ getDifferenceAfterFail
  PROVE  Inv'
<1>1. TypeOK
  BY DEF Inv
<1>2. CASE \/ \E m \in net : LoseContainer(m)
           \/ AnswerFail \/ differenceFail
  <2>1. Moves
    BY <1>2, StayMoves DEF LoseContainer, AnswerFail, differenceFail, server
  <2>2. TypeOK' /\ UNCHANGED <<server, reply>> /\ net' \subseteq net
    BY <1>1, <1>2 DEF LoseContainer, AnswerFail, differenceFail, TypeOK,
                      server, difference
  <2> QED BY <2>1, <2>2, ClientKeepsInv DEF Inv
<1>3. CASE \E s \in log : Answer(s)
  <2>1. PICK s \in log : Answer(s)
    BY <1>3
  <2>2. Moves
    BY <2>1, StayMoves DEF Answer, server
  <2>3. /\ TypeOK' /\ UNCHANGED <<server, net>> /\ reply'.seq \in log
    BY <1>1, <2>1 DEF Answer, TypeOK, server
  <2> QED BY <2>2, <2>3, ClientKeepsInv
<1>4. CASE mtpNewSessionCreated \/ UpdatesTooLong \/ fireBySeqTimer
           \/ getDifferenceAfterFail
  <2>1. /\ bySeq' \in {{}, bySeq}
        /\ bySeqTimer' \in BOOLEAN /\ requesting' \in BOOLEAN
        /\ request' \in {"none", "state", "asked", "done", "failed"}
        /\ afterFail' \in BOOLEAN /\ reply' = reply
    BY <1>1, <1>4, GetDifferenceForgets
       DEF mtpNewSessionCreated, UpdatesTooLong, fireBySeqTimer,
           getDifferenceAfterFail, difference, TypeOK
  <2>2. /\ UNCHANGED <<server, net, applied>> /\ seq' \in {0, seq}
    BY <1>4 DEF mtpNewSessionCreated, UpdatesTooLong, fireBySeqTimer,
                getDifferenceAfterFail
  <2>3. Moves
    BY <2>1, <2>2, StayMoves DEF server
  <2>4. TypeOK'
    BY <1>1, <2>1, <2>2 DEF TypeOK, server
  <2> QED BY <2>1, <2>2, <2>3, <2>4, ClientKeepsInv DEF Inv
<1>5. CASE differenceDone
  <2>1. Moves
    BY <1>5, DifferenceDoneMoves
  <2>2. /\ UNCHANGED <<reply, server, net>>
        /\ bySeqTimer' \in BOOLEAN /\ requesting' \in BOOLEAN
        /\ request' \in {"none", "state", "asked", "done", "failed"}
        /\ afterFail' \in BOOLEAN
    BY <1>1, <1>5 DEF differenceDone, setSeq, TypeOK
  <2>3. TypeOK'
    BY <1>1, <2>1, <2>2 DEF Moves, TypeOK, server
  <2> QED BY <2>1, <2>2, <2>3, ClientKeepsInv DEF Inv
<1> QED BY <1>2, <1>3, <1>4, <1>5

(* The invariant holds in every state the client can reach. *)
THEOREM SeqInvariance == Spec => []Inv
<1>1. Init => Inv
  <2> SUFFICES ASSUME Init PROVE Inv
    OBVIOUS
  <2>1. TypeOK
    <3>1. [seq |-> 0, final |-> TRUE] \in [seq : Nat, final : BOOLEAN]
      OBVIOUS
    <3>2. /\ seq \in Nat /\ serverSeq \in Nat /\ log \in SUBSET Nat
          /\ applied \in SUBSET Nat
      BY DEF Init
    <3>3. /\ bySeq \in SUBSET Container /\ net \in SUBSET Message
          /\ request \in {"none", "state", "asked", "done", "failed"}
          /\ bySeqTimer \in BOOLEAN /\ requesting \in BOOLEAN
          /\ afterFail \in BOOLEAN
      BY DEF Init
    <3> QED BY <3>1, <3>2, <3>3 DEF Init, TypeOK
  <2>2. 1 .. 0 = {}
    OBVIOUS
  <2>3. NoContainerSkipped /\ QueuedAhead
    BY <2>2 DEF Init, NoContainerSkipped, QueuedAhead
  <2> QED BY <2>1, <2>3 DEF Init, Inv
<1>2. Inv /\ [Next]_vars => Inv'
  <2> SUFFICES ASSUME Inv, [Next]_vars PROVE Inv'
    OBVIOUS
  <2>1. CASE UNCHANGED vars
    BY <2>1 DEF vars, Inv, TypeOK, NoContainerSkipped, QueuedAhead
  <2>2. CASE Next
    BY <2>2, NewContainerStep, ReceiveStep, OtherStep DEF Next
  <2> QED BY <2>1, <2>2
<1> QED BY <1>1, <1>2, PTL DEF Spec

(* Types: what the containers and the differences carry are values of seq. *)
THEOREM SeqTyped == Spec => []TypeOK
<1>1. Inv => TypeOK
  BY DEF Inv
<1> QED BY <1>1, SeqInvariance, PTL

(* The seq never passes a container that was neither applied nor covered   *)
(* by a difference, for containers of any sizes, lost, late or repeated.   *)
THEOREM NoContainerIsSkipped == Spec => []NoContainerSkipped
<1>1. Inv => NoContainerSkipped
  BY DEF Inv
<1> QED BY <1>1, SeqInvariance, PTL

(* setState leaves nothing in _bySeqUpdates that could be applied. *)
THEOREM QueuedIsAhead == Spec => []QueuedAhead
<1>1. Inv => QueuedAhead
  BY DEF Inv
<1> QED BY <1>1, SeqInvariance, PTL

(* The timer of what is put aside is never lost: a step that stops it      *)
(* forgets the containers or leaves a difference on its way.               *)
THEOREM TimerIsAlwaysServed == Spec => TimerIsServed
<1> DEFINE Lost == bySeqTimer /\ ~bySeqTimer' /\ bySeq' # {} /\ ~requesting'
<1>1. [Next]_vars => ~Lost
  <2> SUFFICES ASSUME [Next]_vars, Lost PROVE FALSE
    OBVIOUS
  <2>1. ~UNCHANGED <<bySeq, bySeqTimer>>
    OBVIOUS
  <2>2. ASSUME NEW s, NEW C, setSeq(s, C) PROVE FALSE
    BY <2>2 DEF setSeq
  <2>3. ASSUME NEW c, setSeqAsking(c) PROVE FALSE
    BY <2>3 DEF setSeqAsking, getDifference
  <2>4. ASSUME NEW m, ReceiveContainer(m) PROVE FALSE
    BY <2>1, <2>2, <2>3, <2>4 DEF ReceiveContainer, applyUpdates
  <2>5. CASE fireBySeqTimer
    BY <2>5 DEF fireBySeqTimer, getDifference, difference
  <2>6. CASE mtpNewSessionCreated \/ UpdatesTooLong
    BY <2>1, <2>6 DEF mtpNewSessionCreated, UpdatesTooLong, getDifference
  <2>7. CASE differenceDone
    BY <2>1, <2>2, <2>7 DEF differenceDone, setSeq
  <2>8. CASE differenceFail \/ getDifferenceAfterFail \/ AnswerFail
    BY <2>1, <2>8 DEF differenceFail, getDifferenceAfterFail, AnswerFail
  <2>9. ASSUME NEW s, Answer(s) PROVE FALSE
    BY <2>1, <2>9 DEF Answer
  <2>10. ASSUME NEW n, NEW k, NewContainer(n, k) PROVE FALSE
    BY <2>1, <2>10 DEF NewContainer
  <2>11. ASSUME NEW m, LoseContainer(m) PROVE FALSE
    BY <2>1, <2>11 DEF LoseContainer
  <2>12. CASE UNCHANGED vars
    BY <2>1, <2>12 DEF vars
  <2> QED BY <2>4, <2>5, <2>6, <2>7, <2>8, <2>9, <2>10, <2>11, <2>12 DEF Next
<1>2. [Next]_vars => [bySeqTimer /\ ~bySeqTimer' /\ bySeq' # {} => requesting']_vars
  BY <1>1
<1> QED BY <1>2, PTL DEF Spec, TimerIsServed
=============================================================================
