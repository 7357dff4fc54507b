------------------------------ MODULE Process ------------------------------
(***************************************************************************)
(* The goprocess.Process that server.New creates (external to the          *)
(* repository) and the goroutine of server.New that turns its closing into *)
(* the cancellation of the workers' context.  The parts of the server run  *)
(* as children of the process: Close starts the shutdown and returns when  *)
(* every child has returned.                                               *)
(***************************************************************************)
VARIABLES
  closing,   \* process.Closing() is closed
  ctxDone,   \* the context of the workers is cancelled
  closed     \* every child has returned

process == <<closing, ctxDone, closed>>

ProcessInit == closing = FALSE /\ ctxDone = FALSE /\ closed = FALSE

\* Close, called by the owner of the server.
Close ==
  /\ ~closing
  /\ closing' = TRUE
  /\ UNCHANGED <<ctxDone, closed>>

\* The goroutine of New (<-px.Closing(); cancelFunc()), or the owner, who gave
\* New the context this one is derived from.
CancelCtx ==
  /\ ~ctxDone
  /\ ctxDone' = TRUE
  /\ UNCHANGED <<closing, closed>>

\* The process waits for its children.
ChildrenClosed(childrenDone) ==
  /\ closing /\ ~closed /\ childrenDone
  /\ closed' = TRUE
  /\ UNCHANGED <<closing, ctxDone>>
=============================================================================
