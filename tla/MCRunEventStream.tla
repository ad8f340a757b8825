--------------------------- MODULE MCRunEventStream ---------------------------
(* Small instances of RunEventStream for TLC. *)
EXTENDS RunEventStream, TLC

\* The first run has a second attempt and a note to report; the second, which may
\* be its replacement, has neither.
OneRetry == 1 :> 2 @@ 2 :> 1

OneNote == 1 :> 1 @@ 2 :> 0
=============================================================================
