----------------------------- MODULE MCSeqUpdates -----------------------------
(* Model values for SeqUpdates, and the loop of Updates::setState beside    *)
(* the closed form the model uses for it.                                   *)
EXTENDS SeqUpdates, FiniteSets

(* The while loop of setState: the first container of q (by start) is      *)
(* taken out while it is not ahead, and applied if it is the next.         *)
RECURSIVE Loop(_, _, _)
Loop(q, s, done) ==
  IF q = {} THEN [seq |-> s, rest |-> q, done |-> done]
  ELSE LET first == CHOOSE c \in q : \A d \in q : c.start <= d.start
       IN  CASE first.start > s + 1 -> [seq |-> s, rest |-> q, done |-> done]
             [] first.start = s + 1 ->
                  Loop(q \ {first}, first.end, done \cup {first})
             [] OTHER -> Loop(q \ {first}, s, done)

(* Sets of containers that share no number, as a server that numbers its   *)
(* containers sends them, and a seq that ends one.                         *)
Small == {c \in [start : 1 .. 6, end : 1 .. 6] : c.end - c.start \in 0 .. 1}

Apart(q, s) ==
  /\ \A c, d \in q : c # d => Numbers(c) \cap Numbers(d) = {}
  /\ \A c \in q : ~(c.start <= s /\ s < c.end)

ASSUME ChainIsLoop ==
  \A q \in {p \in SUBSET Small : Cardinality(p) <= 4}, s \in 0 .. 4 :
    Apart(q, s) =>
      LET chain == Chain(q, s)
          loop == Loop(q, s, {})
      IN  /\ {loop.seq} = SeqAfter(chain, s)
          /\ loop.rest = Ahead(q, s) \ chain
          /\ loop.done = chain
=============================================================================
