---------------------------- MODULE MCTransport ----------------------------
EXTENDS Transport

\* Two workers, a queue for one connection, and two clients: the first calls,
\* may stop the server or send it what it cannot read, and may come back once;
\* the second connects and may say nothing for ever. An abandoned connection and
\* the silent client together hold every worker while a third one is queued.
MCClient == {1, 2}
MCWorker == {1, 2}
MCCalls == [c \in MCClient |-> IF c = 1 THEN OpCode ELSE {}]
MCAttempts == [c \in MCClient |-> IF c = 1 THEN 2 ELSE 1]
MCBudget == [c \in MCClient |-> IF c = 1 THEN 1 ELSE 0]
=============================================================================
