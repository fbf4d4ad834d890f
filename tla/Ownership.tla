------------------------------ MODULE Ownership ------------------------------
(***************************************************************************)
(* What active/passive ownership promises of one stream, whatever keys,    *)
(* tokens and loops bring it about (worker/worker.py:144-226): the stream  *)
(* has one owner at a time, only the owner serves it, and ownership        *)
(* changes hands only through a state in which nobody owns the stream and  *)
(* nobody serves it.                                                       *)
(***************************************************************************)
CONSTANTS Node,     \* the workers that may own the stream
          None      \* no owner

VARIABLES owner,    \* the worker that owns the stream, or None
          serving   \* the workers that serve it

Init == owner = None /\ serving = {}

\* A worker takes a stream that is free, or goes on with its own; it may serve
\* it or, while FFmpeg is down or refuses, not.
Own(n) ==
    /\ owner \in {None, n}
    /\ owner' = n
    /\ serving' \in {{}, {n}}

\* An owner gives the stream up, or is found to be gone.
Yield ==
    /\ owner' = None
    /\ serving' = {}

Next == Yield \/ \E n \in Node : Own(n)

Spec == Init /\ [][Next]_<<owner, serving>>
=============================================================================
