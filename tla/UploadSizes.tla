---------------------------- MODULE UploadSizes ----------------------------
(* What UploadParts promises of documents of every size up to a bound, and *)
(* of those in the queue.                                                  *)
EXTENDS Upload

CONSTANT MaxSize   \* bound: the size of the largest document

ASSUME SizesAssumption == MaxSize \in Nat

DocSizes == (0 .. MaxSize) \cup {SizeOf[id] : id \in DOMAIN queue}

(* The part sizes that keep a document of the size within the number of    *)
(* parts that the server takes, of those meant for the size.               *)
Fitting(size) ==
    {n \in 1 .. 5 : /\ size <= MaxPartsCount * PartSizes[n]
                    /\ n = 1 => size < Limit0
                    /\ n = 2 => size <= Limit1}

(* The server takes no more than MaxPartsCount parts: a document is sent   *)
(* in the smallest parts that fit, and in the largest if none does. There  *)
(* are as many as the document needs, and none is empty.                   *)
SmallestFits ==
    \A size \in DocSizes :
        LET part == docPartSize(size)
            count == docPartsCount(size)
        IN  /\ count * part >= size
            /\ size > 0 => (count - 1) * part < size
            /\ Fitting(size) = {} => part = PartSizes[5]
            /\ Fitting(size) # {} =>
                 \E n \in Fitting(size) :
                    part = PartSizes[n] /\ \A m \in Fitting(size) : n <= m
=============================================================================
