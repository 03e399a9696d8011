---------------------------- MODULE UploadParts ----------------------------
(***************************************************************************)
(* Storage::Uploader::File: into how many parts of which size a document   *)
(* is cut. The sizes are constants, for small instances; those of the code *)
(* are 32, 64, 128, 256 and 512 Kb, 4000 parts, 1 Mb and 32 Mb.            *)
(***************************************************************************)
EXTENDS Integers, Sequences

CONSTANTS
    PartSizes,     \* kDocumentUploadPartSize0 to 4
    MaxPartsCount, \* kDocumentMaxPartsCountDefault
    Limit0,        \* from this size on the first part size is not used
    Limit1         \* above this one the second is not used

ASSUME PartsAssumption ==
    /\ PartSizes \in [1 .. 5 -> Nat \ {0}]
    /\ MaxPartsCount \in Nat /\ Limit0 \in Nat /\ Limit1 \in Nat

PartsCount(size, part) == size \div part + (IF size % part # 0 THEN 1 ELSE 0)

(* Mutant of setPartSize: one part more is allowed.                        *)
SetPartSizeOneMore(size, part) == PartsCount(size, part) <= MaxPartsCount + 1

setPartSize(size, part) == PartsCount(size, part) <= MaxPartsCount

(* setDocSize(): the part size that the document is left with.             *)
docPartSize(size) ==
    IF size < Limit0 /\ setPartSize(size, PartSizes[1]) THEN PartSizes[1]
    ELSE IF size <= Limit1 /\ setPartSize(size, PartSizes[2]) THEN PartSizes[2]
    ELSE IF setPartSize(size, PartSizes[3]) THEN PartSizes[3]
    ELSE IF setPartSize(size, PartSizes[4]) THEN PartSizes[4]
    ELSE PartSizes[5]

docPartsCount(size) == PartsCount(size, docPartSize(size))
=============================================================================
