------------------------------ MODULE MCUpload ------------------------------
(* The instance of Upload that TLC checks. The unit of the sizes is 32 Kb, *)
(* the first part size; three parts are the most the server takes.         *)
EXTENDS UploadSizes

(* 32 to 512 Kb                                                            *)
Doubling == <<1, 2, 4, 8, 16>>

(* A document with a thumbnail, of more parts than the server takes, and a *)
(* photo.                                                                  *)
Parts == <<<<1>>, <<1, 1>>>>
Sizes == <<50, 0>>

(* The file cannot be opened, is cut short or has grown.                   *)
Changed == {-1, 17, 65}
=============================================================================
