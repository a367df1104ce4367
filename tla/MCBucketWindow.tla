--------------------------- MODULE MCBucketWindow ---------------------------
(* TLC instance of BucketWindow; the constants are numbers given by the cfg. *)
EXTENDS BucketWindow
=============================================================================
