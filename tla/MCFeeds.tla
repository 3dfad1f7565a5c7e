------------------------------ MODULE MCFeeds -------------------------------
(* Instances of Feeds for TLC. *)
EXTENDS Feeds

MCStreams == Books \cup Prints \cup Fills
=============================================================================
