----------------------- MODULE MCWorkerStateUploader -----------------------
(* Finite instances of WorkerStateUploader for TLC. *)
EXTENDS WorkerStateUploader

CONSTANTS status, details, mode, ultraplan

\* reportState writes two keys together; a change of the permission mode writes
\* one key of the metadata, or two.
ReportGroups == {{status, details}, {mode}, {mode, ultraplan}}
=============================================================================
