--------------------------- MODULE MCScanPipeline ---------------------------
(* A scan of a few files through channels smaller than their number.        *)
EXTENDS ScanPipeline
=============================================================================
