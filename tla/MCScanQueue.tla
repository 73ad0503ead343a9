---------------------------- MODULE MCScanQueue ----------------------------
EXTENDS ScanQueue

CONSTANTS a, b, c

=============================================================================
