----------------------------- MODULE MCWorkset ------------------------------
\* Publishers and subscribers around a buffer of two entries: with five
\* pushes the publishers lap a subscriber more than once, and a handle can be
\* released and taken again at any point.
EXTENDS Workset

=============================================================================
