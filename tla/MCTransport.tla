---------------------------- MODULE MCTransport -----------------------------
(***************************************************************************)
(* Callers a and b have mapped buffers, c has not.  Buffers of two blocks   *)
(* are the smallest that can be copied in part, and three calls leave older *)
(* commands and responses in the shared buffers.  Caller a fills its        *)
(* buffer; b sends a short command or one that may run over the whole of    *)
(* OutputBuffer; c sends nothing, or one block too many.                    *)
(***************************************************************************)
EXTENDS Transport, TLC

CONSTANTS a, b, c

MCWritten == a :> {2} @@ b :> {1, 4} @@ c :> {0, 3}
=============================================================================
