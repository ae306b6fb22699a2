----------------------------- MODULE MCJournal -----------------------------
EXTENDS Journal

\* Images that grow, and one above the bound.
MCSize == <<1, 3, 2>>
=============================================================================
