-------------------------- MODULE MCOrderbookDumper --------------------------
\* The program's two listeners, three failures.
EXTENDS OrderbookDumper

=============================================================================
