------------------------- MODULE MCRecordingGateway -------------------------
(* The bodies, tasks and limits of MCRecordingSession, chosen by the         *)
(* configuration, under the owners' shutdown order.                         *)
EXTENDS RecordingGateway, TLC

CONSTANTS t1, t2, w1, clean, secret, opaque, blank

MCBodyLen == [d \in Digests |-> IF d = secret THEN 2 ELSE 1]
MCRedact  == [d \in Digests |-> CASE d = clean -> clean
                                  [] d = secret -> clean
                                  [] d = opaque -> Reject
                                  [] d = blank -> Empty]
MCWsRedact == [p \in Payloads |-> IF p = secret THEN clean ELSE p]
MCLineLen == [t \in Tasks \cup WsTasks |-> 1]
=============================================================================
