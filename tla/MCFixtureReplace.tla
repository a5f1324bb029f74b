-------------------------- MODULE MCFixtureReplace --------------------------
(* Invocations on one fixture name.  SamePid is a container, where every     *)
(* invocation has the same process id; Wrapped is process 9 followed by      *)
(* process 10, whose decimal text sorts first.                               *)
EXTENDS FixtureReplace

CONSTANTS a, r, s, m, o

KindOf == [p \in Procs |-> CASE p = a -> "append"
                             [] p = r -> "rerecord"
                             [] p = m -> "migrate"
                             [] p = o -> "once"
                             [] p = s -> "sealed"]
StartNone == {{}}
StartOld == {{o}}
SamePid == [p \in Procs |-> 1]
Wrapped == [p \in Procs |-> IF p = r THEN 2 ELSE 1]
=============================================================================
