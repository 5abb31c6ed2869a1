---------------------------- MODULE MCWebService ----------------------------
(* Values of WebService's constants for TLC. *)
EXTENDS WebService

CONSTANTS r1, r2, s1, s2, d1, d2

MCOneRequest == {r1}
MCTwoRequests == {r1, r2}
MCOneStream == {s1}
MCTwoStreams == {s1, s2}
MCOneDownload == {d1}
MCTwoDownloads == {d1, d2}
MCNoRequests == {}

=============================================================================
