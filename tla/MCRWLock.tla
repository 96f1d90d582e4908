------------------------------ MODULE MCRWLock ------------------------------
\* Three threads share one rw_lock: two can hold a count a third one expects.
EXTENDS RWLock

=============================================================================
