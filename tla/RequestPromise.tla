--------------------------- MODULE RequestPromise ---------------------------
(***************************************************************************)
(* What MTP::Sender and the rest of the program are promised about the     *)
(* requests they make with a done or fail handler: a request is made once, *)
(* its handler is called at most once and never after it was cancelled.    *)
(* How often it was sent and over how many connections is not seen here.   *)
(* MtpSession implements this specification.                               *)
(***************************************************************************)
CONSTANT Asking \* the requests that are made with a handler

VARIABLES
    asked,   \* the requests that were made
    waiting, \* those whose handler may still be called
    done     \* those whose handler was called

pvars == <<asked, waiting, done>>

Init == asked = {} /\ waiting = {} /\ done = {}

Ask(r) ==
    /\ r \notin asked
    /\ asked' = asked \cup {r} /\ waiting' = waiting \cup {r}
    /\ UNCHANGED done

Answer(r) ==
    /\ r \in waiting /\ r \notin done
    /\ waiting' = waiting \ {r} /\ done' = done \cup {r}
    /\ UNCHANGED asked

Cancel(r) ==
    /\ r \in waiting
    /\ waiting' = waiting \ {r}
    /\ UNCHANGED <<asked, done>>

Next == \E r \in Asking : Ask(r) \/ Answer(r) \/ Cancel(r)

Safe == Init /\ [][Next]_pvars
=============================================================================
