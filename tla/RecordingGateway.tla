--------------------------- MODULE RecordingGateway ---------------------------
(***************************************************************************)
(* The recording session inside the lifecycle every product owner gives it *)
(* (`eggreplay record`, the record modes of `serve`, `intercept`, and the   *)
(* Python recorder's aclose):                                               *)
(*                                                                         *)
(*   ServerHandle::shutdown, wait, RecordingSession::shutdown,              *)
(*   drain_active_blobs, finish_recording_session.                          *)
(*                                                                         *)
(* The server is EggServe, outside this repository.  It is modelled from   *)
(* how the owners rely on it: shutdown stops admission, tracked tunnel      *)
(* tasks may be aborted, and wait returns when no handler is running.  A    *)
(* cancelled exchange may leave its request sink in the hands of the        *)
(* outbound client's body for a while longer, which is what                 *)
(* drain_active_blobs waits for, a bounded number of times.                 *)
(***************************************************************************)
EXTENDS RecordingSession

VARIABLE server   \* "serving", "stopping", "drained", "closed"

gvars == <<vars, server>>

GInit == Init /\ server = "serving"

Terminal == {"done", "failed"}

(* The sink of a request body, which the outbound client may still hold     *)
(* after the handler that opened it is gone.                                *)
OrphanSink(t) == req[t] = NoRef /\ pc[t] \in {"writing", "aborting"}

(* A handler runs only between its admission and wait; an orphaned request  *)
(* sink is dropped whenever the outbound client lets go of the body.        *)
GExchange(t) ==
  /\ \/ /\ server \in {"serving", "stopping"}
        /\ pc[t] = "idle" => server = "serving"
        /\ Exchange(t)
     \/ /\ server \in {"drained", "closed"} /\ OrphanSink(t)
        /\ AbortBody(t) \/ Release(t)
  /\ UNCHANGED server

(* Tunnel tasks are aborted only by the shutdown.                           *)
GConversation(w) ==
  /\ \/ (wpc[w] = "idle" => server = "serving") /\ Conversation(w)
     \/ server # "serving" /\ WsAbort(w)
  /\ UNCHANGED server

(* ServerHandle::shutdown                                                   *)
ServerShutdown ==
  /\ server = "serving"
  /\ server' = "stopping"
  /\ UNCHANGED vars

(* ServerHandle::wait returns                                               *)
ServerWait ==
  /\ server = "stopping"
  /\ \A t \in Tasks : pc[t] \in Terminal \cup {"idle"} \/ OrphanSink(t)
  /\ \A w \in WsTasks : wpc[w] \in Terminal \cup {"idle", "aborted"}
  /\ server' = "drained"
  /\ UNCHANGED vars

(* RecordingSession::shutdown                                               *)
SessionShutdown ==
  /\ server = "drained"
  /\ shutdown' = TRUE
  /\ server' = "closed"
  /\ UNCHANGED <<up, activeBlobs, logOpen, flowCount, totalBytes, events, convs, finalizers,
                 disk, task, ws, fin>>

(* drain_active_blobs gives up after 1000 yields, so finish may start with  *)
(* a sink still open.                                                       *)
GFinisher ==
  /\ server = "closed"
  /\ Finisher
  /\ UNCHANGED server

GNext ==
  /\ up
  /\ \/ \E t \in Tasks : GExchange(t)
     \/ \E w \in WsTasks : GConversation(w)
     \/ ServerShutdown \/ ServerWait \/ SessionShutdown
     \/ GFinisher
     \/ Crash /\ UNCHANGED server

(* Handlers and tunnel tasks end: EggServe drains them within its bounded   *)
(* post-shutdown budget and aborts the rest.  The owner awaits each step of *)
(* the shutdown sequence.                                                   *)
GFairness ==
  /\ \A t \in Tasks : WF_gvars(up /\ GExchange(t))
  /\ \A w \in WsTasks : WF_gvars(up /\ GConversation(w))
  /\ WF_gvars(up /\ (ServerWait \/ SessionShutdown \/ GFinisher))

GSpec == GInit /\ [][GNext]_gvars /\ GFairness

-----------------------------------------------------------------------------

(* In the owners' order, I/O errors apart, finish never fails after the     *)
(* rename, so a published fixture is one that reopens; and it refuses for   *)
(* two reasons only: a 101 flow has no conversation, or a request sink      *)
(* outlived its cancelled exchange.                                         *)
RefusalsJustified ==
  fpc = "err" =>
    /\ dirAt = "staging"
    /\ \/ \E w \in WsTasks : w \in LogIds /\ w \notin convs
       \/ \E t \in Tasks : req[t] = NoRef /\ pc[t] \in {"writing", "aborting", "failed"}

(* Every exchange whose client got its recorded answer, and every WebSocket *)
(* conversation relayed to its end, is in the fixture finish returns.       *)
AcknowledgedPublished ==
  fpc = "ok" => /\ \A t \in Tasks : pc[t] = "done" => t \in LogIds \cap exts.events
                /\ \A w \in WsTasks : wpc[w] = "done" => w \in LogIds \cap exts.convs

(* Shutdown ends: once the server is told to stop, finish returns.          *)
ShutdownTerminates == server = "stopping" ~> (fpc \in {"ok", "err", "ioerr"} \/ ~up)
=============================================================================
