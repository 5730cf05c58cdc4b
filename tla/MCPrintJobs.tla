---------------------------- MODULE MCPrintJobs ----------------------------
(* Documents of no chunk, a part of one, one, and one and a part; one too big. *)
EXTENDS PrintJobs

CONSTANTS laser, inkjet

TwoDests == {laser, inkjet}
OneDest  == {laser}
ChunkBoundaries == {0, 1, 2, 3, 5}
OneSize  == {1}
AnyOk    == {"ok", "ok-ignored-or-substituted"}
=============================================================================
