--------------------------- MODULE MCPollListener ---------------------------
(* Two IDs in use, the undefined ID (the largest), one queue and nullptr. *)
EXTENDS PollListener
MCQids == {0, 1, 3}
MCPointers == {"q", "nullptr"}
=============================================================================
