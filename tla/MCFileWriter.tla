---------------------------- MODULE MCFileWriter ----------------------------
EXTENDS FileWriter

CONSTANTS s1, s2, p1, p2, d1

=============================================================================
