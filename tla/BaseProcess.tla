---------------------------- MODULE BaseProcess ----------------------------
(***************************************************************************)
(* BaseProcess.run: a forked process with an event loop of its own that     *)
(* runs lifespan around handle.  Unlike the life span of a job it has no    *)
(* finally: what failed and success raise skips on_shutdown.  on_startup    *)
(* opens the pool of the connection that the parent had cached.             *)
(***************************************************************************)
EXTENDS TortoiseRegistry

VARIABLE at   \* where lifespan is

Ends == {"ended", "died"}

\* register_db: without a cached connection this is a KeyError.
OnStartup(cached, raises) ==
  /\ at = "startup"
  /\ cached = 0 => raises
  /\ at' = IF raises THEN "died" ELSE "handle"
  /\ IF raises THEN UNCHANGED registry ELSE CreateConnection(cached)

\* handle, which may query models before it returns or raises.
Handle(uses, raises) ==
  /\ at = "handle"
  /\ at' = IF raises THEN "failed" ELSE "success"
  /\ IF uses THEN UseModels ELSE UNCHANGED registry

\* Mutant: on_shutdown only when handle succeeded.
OnHandledEndsFailed(raises) ==
  /\ at \in {"failed", "success"}
  /\ at' = IF raises THEN "died" ELSE IF at = "failed" THEN "ended" ELSE "shutdown"
  /\ UNCHANGED registry

\* failed, which raises the error again unless a subclass overrides it, and success.
OnHandled(raises) ==
  /\ at \in {"failed", "success"}
  /\ at' = IF raises THEN "died" ELSE "shutdown"
  /\ UNCHANGED registry

OnShutdown(raises) ==
  /\ at = "shutdown"
  /\ at' = IF raises THEN "died" ELSE "ended"
  /\ IF raises THEN UNCHANGED registry ELSE CloseConnections
=============================================================================
