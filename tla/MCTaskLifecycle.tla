--------------------------- MODULE MCTaskLifecycle ---------------------------
(* Model instance of TaskLifecycle: a block with two tasks, so that one of *)
(* them can be handled when the other makes the block be retried.          *)
EXTENDS TaskLifecycle

CONSTANTS t1, t2

MCLogsOf == << <<t1, t2>> >>
=============================================================================
