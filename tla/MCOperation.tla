----------------------------- MODULE MCOperation -----------------------------
EXTENDS Operation

CONSTANTS a, b, c

\* b depends on a, c on either of them.
Diamond == {<<b, a>>, <<c, a>>, <<c, b>>}

\* One dependency.
Pair == {<<b, a>>}
=============================================================================
