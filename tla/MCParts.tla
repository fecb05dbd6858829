------------------------------ MODULE MCParts -------------------------------
(***************************************************************************)
(* Parts for TLC.                                                          *)
(***************************************************************************)
EXTENDS Parts, TLC

CONSTANTS r, w, k1, k2  \* a read and a write observer; two threads

MCKindOf == (r :> "read") @@ (w :> "write")
\* Which observers the threads use: they share one, or each has its own.
UseShared == (k1 :> {r, w}) @@ (k2 :> {w})
UseOne == (k1 :> {r}) @@ (k2 :> {w})

=============================================================================
