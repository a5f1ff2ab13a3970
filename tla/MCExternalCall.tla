--------------------------- MODULE MCExternalCall ---------------------------
(* Small instances of ExternalCall for TLC.                                *)
EXTENDS ExternalCall

CONSTANTS k1, k2

\* One key of each kind, and two of the kind whose keys touch each other.
MCMixes ==
    LET Mix(a, b) == [k \in Key |-> IF k = k1 THEN a ELSE b]
    IN  {Mix("ask", "unused"), Mix("generate", "unused"), Mix("execute", "execute")}

=============================================================================
