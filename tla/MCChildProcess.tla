--------------------------- MODULE MCChildProcess ---------------------------
EXTENDS ChildProcess

\* One child that can fill a pipe on either stream and overrun the buffer,
\* and one that only lives and dies.
MCOutput == [c \in Child |-> IF c = 1 THEN 3 ELSE 0]
=============================================================================
