------------------------------ MODULE MCDumper ------------------------------
\* Volumes of 16 bytes: two short records, or a longer one, fill a volume.  A
\* record of 9 bytes is too long for its size field.
EXTENDS Dumper

=============================================================================
