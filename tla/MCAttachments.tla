---------------------------- MODULE MCAttachments ----------------------------
(* An instance of Attachments for TLC: one file.  Its uploads compete for   *)
(* one permit, for a job that was locked away keeps its worker.             *)
EXTENDS Attachments

MCFile == {1}
==============================================================================
