--------------------------- MODULE MCScanBundler ---------------------------
EXTENDS ScanBundler

CONSTANTS s1, s2, d1, d2, base

=============================================================================
