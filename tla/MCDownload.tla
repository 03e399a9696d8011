----------------------------- MODULE MCDownload -----------------------------
(* Model values for Download: a stream and a web file of unknown size in   *)
(* one data center, a file and two streams on a CDN (the token of one may  *)
(* become invalid), a file in another data center.                         *)
EXTENDS Download

CONSTANTS d1, d2, stream, web, cdnFile, cdnStream, token, other

Files == {stream, web, cdnFile, cdnStream, token, other}
Scenes == {{stream, web}, {cdnFile}, {cdnStream}, {token},
           {web, other}}
Places == [t \in Files |-> IF t = other THEN d2 ELSE d1]
PartsOf == [t \in Files |-> IF t = cdnFile THEN 3 ELSE 1]
=============================================================================
