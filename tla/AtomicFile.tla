----------------------------- MODULE AtomicFile -----------------------------
(***************************************************************************)
(* What atomic_write promises of a file: under its name there is always    *)
(* one whole version, it is replaced by a newer one in a single step, and  *)
(* a loss of power leaves it or goes back to the version that was flushed. *)
(***************************************************************************)
EXTENDS Naturals

CONSTANT Torn      \* a file that is not whole

VARIABLES
    content,    \* the version under the name, numbered
    durable     \* the version that is safe from a loss of power

vars == <<content, durable>>

Init == content = durable /\ content # Torn

Replace ==
    /\ content' # Torn /\ content'.n > content.n
    /\ UNCHANGED durable

Flush == durable' = content /\ UNCHANGED content

PowerLoss ==
    /\ content' = content \/ content' = durable
    /\ durable' = content'

Next == Replace \/ Flush \/ PowerLoss

Spec == Init /\ [][Next]_vars
=============================================================================
