------------------------- MODULE MCRecordingSession -------------------------
(* Two exchanges and one WebSocket upgrade against one session.  The bodies *)
(* are one the policy leaves alone, one it rewrites to the former, and one  *)
(* it rejects.                                                              *)
EXTENDS RecordingSession, TLC

CONSTANTS t1, t2, w1, clean, secret, opaque, blank

MCBodyLen == [d \in Digests |-> IF d = secret THEN 2 ELSE 1]
MCRedact  == [d \in Digests |-> CASE d = clean -> clean
                                  [] d = secret -> clean
                                  [] d = opaque -> Reject
                                  [] d = blank -> Empty]
MCWsRedact == [p \in Payloads |-> IF p = secret THEN clean ELSE p]
MCLineLen == [t \in Tasks \cup WsTasks |-> 1]
=============================================================================
