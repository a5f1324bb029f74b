-------------------------- MODULE FixturePublication --------------------------
(***************************************************************************)
(* What a recording promises about its fixture, and nothing about how: a   *)
(* flow is accepted or it is not, acceptance ends before publication, and  *)
(* the fixture becomes visible in one step as exactly the accepted flows.  *)
(***************************************************************************)
CONSTANT Flows

VARIABLES
  accepted,   \* flows whose append succeeded
  closed,     \* no further flow will be accepted
  visible,    \* the fixture exists under its name
  fixture     \* the flows a reader of that name finds

vars == <<accepted, closed, visible, fixture>>

Init == accepted = {} /\ closed = FALSE /\ visible = FALSE /\ fixture = {}

Accept(f) ==
  /\ ~closed
  /\ f \notin accepted
  /\ accepted' = accepted \cup {f}
  /\ UNCHANGED <<closed, visible, fixture>>

Close ==
  /\ ~closed
  /\ closed' = TRUE
  /\ UNCHANGED <<accepted, visible, fixture>>

Publish ==
  /\ closed /\ ~visible
  /\ visible' = TRUE
  /\ fixture' = accepted
  /\ UNCHANGED <<accepted, closed>>

Next == (\E f \in Flows : Accept(f)) \/ Close \/ Publish

Spec == Init /\ [][Next]_vars
=============================================================================
