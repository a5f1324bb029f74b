--------------------------- MODULE RecordingProofs ---------------------------
(***************************************************************************)
(* Proofs about the recording session, for any number of tasks, any bodies *)
(* and any limits: first what the store keeps by itself (RecordingSession), *)
(* then what the owners' shutdown order adds (RecordingGateway).            *)
(***************************************************************************)
EXTENDS RecordingGateway, FiniteSetTheorems, WellFoundedInduction, TLAPS

Inv1 == TypeOK /\ ActiveAccounting

LEMMA OpenFinite ==
  IsFiniteSet(Open) /\ Cardinality(Open) \in Nat
<1>1. Open \subseteq Tasks \cup WsTasks
  BY DEF Open
<1> QED
  BY <1>1, SessionAssumption, FS_Union, FS_Subset, FS_CardinalityType

(* A sink that becomes counted adds one to the cardinality.                 *)
LEMMA OpenGrows ==
  ASSUME TypeOK, NEW x \in (Tasks \cup WsTasks) \ Open, Open' = Open \cup {x}
  PROVE  Cardinality(Open') = Cardinality(Open) + 1
BY OpenFinite, FS_AddElement

(* One that stops being counted takes one away.                             *)
LEMMA OpenShrinks ==
  ASSUME TypeOK, NEW x \in Open, Open' = Open \ {x}
  PROVE  Cardinality(Open') = Cardinality(Open) - 1 /\ Cardinality(Open) # 0
BY OpenFinite, FS_RemoveElement, FS_EmptySet

(* Any other step of a task leaves the set alone.                           *)
LEMMA OpenSame ==
  ASSUME TypeOK, NEW t \in Tasks, NEW l, Goto(t, l), l \in Counted <=> pc[t] \in Counted, wpc' = wpc
  PROVE  Open' = Open
BY DEF TypeOK, Goto, Open

LEMMA WsOpenSame ==
  ASSUME TypeOK, NEW w \in WsTasks, NEW l, WGoto(w, l), l \in WsCounted <=> wpc[w] \in WsCounted,
         pc' = pc
  PROVE  Open' = Open
BY DEF TypeOK, WGoto, Open

LEMMA FlowBytesNat ==
  ASSUME NEW f \in Flow PROVE FlowBytes(f) \in Nat
BY SessionAssumption DEF Flow, FlowBytes, Len0

LEMMA LogFlowTypes ==
  ASSUME TypeOK, NEW f \in Flow, LogFlow(f)
  PROVE  flowLog' \in Seq(Flow) /\ flowCount' \in Nat /\ totalBytes' \in Nat
<1>1. FlowBytes(f) \in Nat
  BY FlowBytesNat
<1> QED
  BY <1>1 DEF LogFlow, TypeOK

LEMMA BlobFilesNat ==
  ASSUME TypeOK PROVE BlobFiles \in Nat
<1>1. IsFiniteSet(blobs) /\ IsFiniteSet(staged)
  <2>1. IsFiniteSet(Tasks \cup WsTasks)
    BY SessionAssumption, FS_Union
  <2> QED BY <2>1, SessionAssumption, FS_Subset DEF TypeOK
<1>2. Cardinality(blobs) \in Nat /\ Cardinality(staged) \in Nat
  BY <1>1, FS_CardinalityType
<1> QED
  BY <1>2 DEF BlobFiles

LEMMA InitInv1 == Init => Inv1
<1> SUFFICES ASSUME Init PROVE Inv1
  OBVIOUS
<1>1. TypeOK
  <2>1. /\ pc \in [Tasks -> TaskPcs] /\ body \in [Tasks -> Ref]
        /\ req \in [Tasks -> Ref] /\ resp \in [Tasks -> Ref]
        /\ wpc \in [WsTasks -> WsPcs] /\ msgs \in [WsTasks -> Seq(Digests)]
    BY DEF Init, TaskPcs, WsPcs, Ref
  <2>2. flowLog \in Seq(Flow)
    BY DEF Init
  <2>3. /\ exts \in [events : SUBSET Tasks, convs : SUBSET WsTasks]
        /\ manifest \in [written : BOOLEAN, flows : Nat, blobs : Nat]
        /\ counted \in Counts
    BY DEF Init, Counts
  <2> QED
    BY <2>1, <2>2, <2>3 DEF Init, TypeOK, FinPcs
<1>2. Open = {}
  BY DEF Init, Open, Counted, WsCounted
<1> QED
  BY <1>1, <1>2, FS_EmptySet DEF Inv1, ActiveAccounting, Init

(* Every step preserves the types and the count of open sinks.              *)
LEMMA NextInv1 == Inv1 /\ [Next]_vars => Inv1'
<1> SUFFICES ASSUME TypeOK, ActiveAccounting, [Next]_vars PROVE TypeOK' /\ ActiveAccounting'
  BY DEF Inv1
<1> USE DEF inner, disk, task, ws, fin
<1>open. activeBlobs = Cardinality(Open)
  BY DEF ActiveAccounting
<1>acc. ASSUME activeBlobs' = Cardinality(Open') PROVE ActiveAccounting'
  BY <1>acc DEF ActiveAccounting
<1>same. ASSUME activeBlobs' = activeBlobs, Open' = Open PROVE ActiveAccounting'
  BY <1>same, <1>open, <1>acc
<1>pcsame. ASSUME activeBlobs' = activeBlobs, pc' = pc, wpc' = wpc PROVE ActiveAccounting'
  BY <1>pcsame, <1>same DEF Open
<1>0. CASE UNCHANGED vars
  <2>1. TypeOK'
    BY <1>0 DEF vars, TypeOK
  <2> QED BY <1>0, <2>1, <1>pcsame DEF vars
<1>1. ASSUME NEW t \in Tasks, BeginBlob(t) PROVE TypeOK' /\ ActiveAccounting'
  <2>1. TypeOK'
    BY <1>1 DEF BeginBlob, TypeOK, Goto, TaskPcs, Ref
  <2>2. ActiveAccounting'
    <3>1. Open' = Open
      BY <1>1, OpenSame DEF BeginBlob, Counted
    <3> QED BY <1>1, <3>1, <1>same DEF BeginBlob
  <2> QED BY <2>1, <2>2
<1>2. ASSUME NEW t \in Tasks, CreateStaging(t) PROVE TypeOK' /\ ActiveAccounting'
  <2>1. TypeOK'
    BY <1>2 DEF CreateStaging, TypeOK, Goto, TaskPcs, Ref
  <2>2. ActiveAccounting'
    <3>1. Open' = Open
      BY <1>2, OpenSame DEF CreateStaging, Counted
    <3> QED BY <1>2, <3>1, <1>same DEF CreateStaging
  <2> QED BY <2>1, <2>2
<1>3. ASSUME NEW t \in Tasks, Reserve(t) PROVE TypeOK' /\ ActiveAccounting'
  <2>1. TypeOK'
    BY <1>3 DEF Reserve, TypeOK, Goto, TaskPcs, Ref
  <2>2. ActiveAccounting'
    <3>1. Open' = Open \cup {t} /\ t \notin Open
      BY <1>3, SessionAssumption DEF Reserve, Counted, Open, TypeOK, Goto
    <3> QED BY <1>3, <3>1, OpenGrows, <1>open, <1>acc DEF Reserve
  <2> QED BY <2>1, <2>2
<1>4. ASSUME NEW t \in Tasks, NEW d \in Digests \cup {Empty}, WriteBody(t, d) PROVE TypeOK' /\ ActiveAccounting'
  <2>1. TypeOK'
    BY <1>4 DEF WriteBody, TypeOK, Goto, TaskPcs, Ref
  <2>2. ActiveAccounting'
    <3>1. Open' = Open
      BY <1>4, OpenSame DEF WriteBody, Counted
    <3> QED BY <1>4, <3>1, <1>same DEF WriteBody
  <2> QED BY <2>1, <2>2
<1>5. ASSUME NEW t \in Tasks, AbortBody(t) PROVE TypeOK' /\ ActiveAccounting'
  <2>1. TypeOK'
    BY <1>5 DEF AbortBody, TypeOK, Goto, TaskPcs, Ref, RemoveStaging
  <2>2. ActiveAccounting'
    <3>1. Open' = Open
      BY <1>5, OpenSame DEF AbortBody, Counted
    <3> QED BY <1>5, <3>1, <1>same DEF AbortBody
  <2> QED BY <2>1, <2>2
<1>6. ASSUME NEW t \in Tasks, FinishSink(t) PROVE TypeOK' /\ ActiveAccounting'
  <2>1. TypeOK'
    <3>1. staged' \in SUBSET (Tasks \cup WsTasks)
      BY <1>6 DEF FinishSink, RemoveStaging, TypeOK
    <3>2. pc' \in [Tasks -> TaskPcs]
      BY <1>6 DEF FinishSink, TypeOK, Goto, TaskPcs
    <3>3. body[t] \in Digests => Redact[body[t]] \in Digests \cup {Empty, Reject}
      BY SessionAssumption
    <3>4. blobs' \in SUBSET Digests /\ body' \in [Tasks -> Ref]
      BY <1>6, <3>3 DEF FinishSink, TypeOK, Ref
    <3>5. req' \in [Tasks -> Ref] /\ resp' \in [Tasks -> Ref]
      BY <1>6 DEF FinishSink, SetRef, TypeOK, Ref
    <3> QED
      BY <1>6, <3>1, <3>2, <3>4, <3>5 DEF FinishSink, TypeOK
  <2>2. ActiveAccounting'
    <3>1. Open' = Open
      BY <1>6, OpenSame DEF FinishSink, Counted
    <3> QED BY <1>6, <3>1, <1>same DEF FinishSink
  <2> QED BY <2>1, <2>2
<1>7. ASSUME NEW t \in Tasks, Release(t) PROVE TypeOK' /\ ActiveAccounting'
  <2>0. PICK l \in TaskPcs \ Counted : Goto(t, l)
    BY <1>7 DEF Release, TaskPcs, Counted
  <2>1. pc[t] \in Counted
    BY <1>7 DEF Release, Counted
  <2>2. Cardinality(Open') = Cardinality(Open) - 1 /\ Cardinality(Open) # 0
    <3>1. Open' = Open \ {t} /\ t \in Open
      BY <1>7, <2>0, <2>1, SessionAssumption DEF Release, Open, TypeOK, Goto
    <3> QED BY <3>1, OpenShrinks
  <2>3. activeBlobs' = activeBlobs - 1
    BY <1>7 DEF Release
  <2>4. activeBlobs' \in Nat
    BY <2>2, <2>3, <1>open DEF TypeOK
  <2>5. /\ body' \in [Tasks -> Ref] /\ req' \in [Tasks -> Ref] /\ resp' \in [Tasks -> Ref]
    BY <1>7 DEF Release, TypeOK, Ref, SetRef
  <2>6. pc' \in [Tasks -> TaskPcs]
    BY <2>0 DEF TypeOK, Goto
  <2>7. TypeOK'
    BY <1>7, <2>4, <2>5, <2>6 DEF Release, TypeOK
  <2> QED BY <2>2, <2>3, <2>7, <1>open, <1>acc
<1>8. ASSUME NEW t \in Tasks, UpstreamOutcome(t) PROVE TypeOK' /\ ActiveAccounting'
  <2>1. TypeOK'
    BY <1>8 DEF UpstreamOutcome, TypeOK, Goto, TaskPcs, Ref
  <2>2. ActiveAccounting'
    <3>1. Open' = Open
      BY <1>8, OpenSame DEF UpstreamOutcome, Counted
    <3> QED BY <1>8, <3>1, <1>same DEF UpstreamOutcome
  <2> QED BY <2>1, <2>2
<1>9. ASSUME NEW t \in Tasks, AppendCheck(t) PROVE TypeOK' /\ ActiveAccounting'
  <2>1. TypeOK'
    BY <1>9 DEF AppendCheck, TypeOK, Goto, TaskPcs, Ref
  <2>2. ActiveAccounting'
    <3>1. Open' = Open
      BY <1>9, OpenSame DEF AppendCheck, Counted
    <3> QED BY <1>9, <3>1, <1>same DEF AppendCheck
  <2> QED BY <2>1, <2>2
<1>10. ASSUME NEW t \in Tasks, AppendFlow(t) PROVE TypeOK' /\ ActiveAccounting'
  <2> DEFINE f == [id |-> t, ws |-> FALSE, req |-> req[t], resp |-> resp[t]]
  <2>1. f \in Flow
    BY DEF TypeOK, Flow
  <2>2. flowLog' \in Seq(Flow) /\ flowCount' \in Nat /\ totalBytes' \in Nat
    <3>1. CASE LogFlow(f)
      BY <2>1, <3>1, LogFlowTypes
    <3>2. CASE UNCHANGED <<flowLog, flowCount, totalBytes>>
      BY <3>2 DEF TypeOK
    <3> QED BY <1>10, <3>1, <3>2 DEF AppendFlow
  <2>3. pc' \in [Tasks -> TaskPcs]
    BY <1>10 DEF AppendFlow, TypeOK, Goto, TaskPcs
  <2>4. TypeOK'
    BY <1>10, <2>2, <2>3 DEF AppendFlow, TypeOK
  <2>5. Open' = Open
    BY <1>10, OpenSame DEF AppendFlow, Counted
  <2> QED BY <1>10, <2>4, <2>5, <1>same DEF AppendFlow
<1>11. ASSUME NEW t \in Tasks, AppendEvents(t) PROVE TypeOK' /\ ActiveAccounting'
  <2>1. TypeOK'
    BY <1>11 DEF AppendEvents, TypeOK, Goto, TaskPcs, Ref
  <2>2. ActiveAccounting'
    <3>1. Open' = Open
      BY <1>11, OpenSame DEF AppendEvents, Counted
    <3> QED BY <1>11, <3>1, <1>same DEF AppendEvents
  <2> QED BY <2>1, <2>2
<1>12. ASSUME NEW w \in WsTasks, WsRegister(w) PROVE TypeOK' /\ ActiveAccounting'
  <2>1. TypeOK'
    BY <1>12 DEF WsRegister, WGoto, TypeOK, WsPcs
  <2>2. Open' = Open
    BY <1>12, WsOpenSame DEF WsRegister, WsCounted
  <2> QED BY <1>12, <2>1, <2>2, <1>same DEF WsRegister
<1>13. ASSUME NEW w \in WsTasks, WsAppendCheck(w) PROVE TypeOK' /\ ActiveAccounting'
  <2>1. TypeOK'
    BY <1>13 DEF WsAppendCheck, WGoto, TypeOK, WsPcs
  <2>2. Open' = Open
    BY <1>13, WsOpenSame DEF WsAppendCheck, WsCounted
  <2> QED BY <1>13, <2>1, <2>2, <1>same DEF WsAppendCheck
<1>14. ASSUME NEW w \in WsTasks, WsAppendFlow(w) PROVE TypeOK' /\ ActiveAccounting'
  <2> DEFINE f == [id |-> w, ws |-> TRUE, req |-> Empty, resp |-> Empty]
  <2>1. f \in Flow
    BY DEF Flow, Ref
  <2>2. flowLog' \in Seq(Flow) /\ flowCount' \in Nat /\ totalBytes' \in Nat
    <3>1. CASE LogFlow(f)
      BY <2>1, <3>1, LogFlowTypes
    <3>2. CASE UNCHANGED <<flowLog, flowCount, totalBytes>>
      BY <3>2 DEF TypeOK
    <3> QED BY <1>14, <3>1, <3>2 DEF WsAppendFlow
  <2>3. wpc' \in [WsTasks -> WsPcs] /\ signalled' \in SUBSET WsTasks
    BY <1>14 DEF WsAppendFlow, TypeOK, WGoto, WsPcs
  <2>4. TypeOK'
    BY <1>14, <2>2, <2>3 DEF WsAppendFlow, TypeOK
  <2>5. Open' = Open
    BY <1>14, WsOpenSame DEF WsAppendFlow, WsCounted
  <2> QED BY <1>14, <2>4, <2>5, <1>same DEF WsAppendFlow
<1>15. ASSUME NEW w \in WsTasks, WsAppendConversation(w) PROVE TypeOK' /\ ActiveAccounting'
  <2>1. TypeOK'
    BY <1>15 DEF WsAppendConversation, WGoto, TypeOK, WsPcs
  <2>2. Open' = Open
    BY <1>15, WsOpenSame DEF WsAppendConversation, WsCounted
  <2> QED BY <1>15, <2>1, <2>2, <1>same DEF WsAppendConversation
<1>16. ASSUME NEW w \in WsTasks, WsComplete(w) PROVE TypeOK' /\ ActiveAccounting'
  <2>1. TypeOK'
    BY <1>16 DEF WsComplete, WGoto, TypeOK, WsPcs
  <2>2. Open' = Open
    BY <1>16, WsOpenSame DEF WsComplete, WsCounted
  <2> QED BY <1>16, <2>1, <2>2, <1>same DEF WsComplete
<1>17. ASSUME NEW w \in WsTasks, WsAbort(w) PROVE TypeOK' /\ ActiveAccounting'
  <2>1. TypeOK'
    BY <1>17 DEF WsAbort, WGoto, TypeOK, WsPcs
  <2>2. Open' = Open
    BY <1>17, WsOpenSame DEF WsAbort, WsCounted
  <2> QED BY <1>17, <2>1, <2>2, <1>same DEF WsAbort
<1>18. CASE FinishStart
  <2>1. TypeOK'
    BY <1>18 DEF FinishStart, TypeOK, FinPcs
  <2> QED BY <1>18, <2>1, <1>pcsame DEF FinishStart
<1>19. CASE FinishCheckActive
  <2>1. TypeOK'
    BY <1>19 DEF FinishCheckActive, TypeOK, FinPcs
  <2> QED BY <1>19, <2>1, <1>pcsame DEF FinishCheckActive
<1>20. CASE FinishTakeFinalizers
  <2>1. TypeOK'
    BY <1>20 DEF FinishTakeFinalizers, TypeOK, FinPcs
  <2> QED BY <1>20, <2>1, <1>pcsame DEF FinishTakeFinalizers
<1>21. CASE FinishDrive
  <2>1. TypeOK'
    BY <1>21 DEF FinishDrive, TypeOK, FinPcs
  <2> QED BY <1>21, <2>1, <1>pcsame DEF FinishDrive
<1>22. CASE FinishTakeLog
  <2>1. TypeOK'
    BY <1>22 DEF FinishTakeLog, TypeOK, FinPcs, Counts
  <2> QED BY <1>22, <2>1, <1>pcsame DEF FinishTakeLog
<1>23. CASE FinishExtensions
  <2>1. TypeOK'
    BY <1>23 DEF FinishExtensions, TypeOK, FinPcs
  <2> QED BY <1>23, <2>1, <1>pcsame DEF FinishExtensions
<1>24. CASE FinishValidate
  <2>1. TypeOK'
    BY <1>24 DEF FinishValidate, TypeOK, FinPcs
  <2> QED BY <1>24, <2>1, <1>pcsame DEF FinishValidate
<1>25. CASE FinishCount
  <2>1. TypeOK'
    BY <1>25, BlobFilesNat DEF FinishCount, TypeOK, FinPcs, Counts
  <2> QED BY <1>25, <2>1, <1>pcsame DEF FinishCount
<1>26. CASE FinishManifest
  <2>1. TypeOK'
    BY <1>26 DEF FinishManifest, NewManifest, TypeOK, FinPcs, Counts
  <2> QED BY <1>26, <2>1, <1>pcsame DEF FinishManifest
<1>27. CASE FinishRename
  <2>1. TypeOK'
    BY <1>27 DEF FinishRename, TypeOK, FinPcs
  <2> QED BY <1>27, <2>1, <1>pcsame DEF FinishRename
<1>28. CASE FinishOpen
  <2>1. TypeOK'
    BY <1>28 DEF FinishOpen, TypeOK, FinPcs
  <2> QED BY <1>28, <2>1, <1>pcsame DEF FinishOpen
<1>29. CASE Crash
  <2>1. TypeOK'
    BY <1>29 DEF Crash, TypeOK
  <2> QED BY <1>29, <2>1, <1>pcsame DEF Crash
<1>30. ASSUME NEW w \in WsTasks, WsBeginBlob(w) PROVE TypeOK' /\ ActiveAccounting'
  <2>1. TypeOK'
    BY <1>30 DEF WsBeginBlob, WGoto, TypeOK, WsPcs
  <2>2. Open' = Open
    BY <1>30, WsOpenSame DEF WsBeginBlob, WsCounted
  <2> QED BY <1>30, <2>1, <2>2, <1>same DEF WsBeginBlob
<1>31. ASSUME NEW w \in WsTasks, WsCreateStaging(w) PROVE TypeOK' /\ ActiveAccounting'
  <2>1. TypeOK'
    BY <1>31 DEF WsCreateStaging, WGoto, TypeOK, WsPcs
  <2>2. Open' = Open
    BY <1>31, WsOpenSame DEF WsCreateStaging, WsCounted
  <2> QED BY <1>31, <2>1, <2>2, <1>same DEF WsCreateStaging
<1>32. ASSUME NEW w \in WsTasks, WsReserve(w) PROVE TypeOK' /\ ActiveAccounting'
  <2>1. TypeOK'
    BY <1>32 DEF WsReserve, WGoto, TypeOK, WsPcs
  <2>2. Open' = Open \cup {w} /\ w \notin Open
    BY <1>32, SessionAssumption DEF WsReserve, WsCounted, Open, TypeOK, WGoto
  <2> QED BY <1>32, <2>1, <2>2, OpenGrows, <1>open, <1>acc DEF WsReserve
<1>33. ASSUME NEW w \in WsTasks, WsFinishSink(w) PROVE TypeOK' /\ ActiveAccounting'
  <2>1. staged' \in SUBSET (Tasks \cup WsTasks)
    BY <1>33 DEF WsFinishSink, RemoveStaging, TypeOK
  <2>2. wpc' \in [WsTasks -> WsPcs]
    BY <1>33 DEF WsFinishSink, TypeOK, WGoto, WsPcs
  <2>3. blobs' \in SUBSET Digests /\ msgs' \in [WsTasks -> Seq(Digests)]
    <3>1. \A p \in Payloads : WsRedact[p] \in Digests
      BY SessionAssumption
    <3>2. ASSUME NEW p \in Payloads, msgs' = [msgs EXCEPT ![w] = Append(@, WsRedact[p])]
          PROVE  msgs' \in [WsTasks -> Seq(Digests)]
      BY <3>1, <3>2 DEF TypeOK
    <3> QED BY <1>33, <3>1, <3>2 DEF WsFinishSink, TypeOK
  <2>4. TypeOK'
    BY <1>33, <2>1, <2>2, <2>3 DEF WsFinishSink, TypeOK
  <2>5. Open' = Open
    BY <1>33, WsOpenSame DEF WsFinishSink, WsCounted
  <2> QED BY <1>33, <2>4, <2>5, <1>same DEF WsFinishSink
<1>34. ASSUME NEW w \in WsTasks, WsRelease(w) PROVE TypeOK' /\ ActiveAccounting'
  <2>1. Open' = Open \ {w} /\ w \in Open
    BY <1>34, SessionAssumption DEF WsRelease, WsCounted, Open, TypeOK, WGoto
  <2>2. Cardinality(Open') = Cardinality(Open) - 1 /\ Cardinality(Open) # 0
    BY <2>1, OpenShrinks
  <2>3. activeBlobs' = activeBlobs - 1 /\ activeBlobs' \in Nat
    BY <1>34, <2>2, <1>open DEF WsRelease, TypeOK
  <2>4. wpc' \in [WsTasks -> WsPcs]
    BY <1>34 DEF WsRelease, WGoto, TypeOK, WsPcs
  <2>5. TypeOK'
    BY <1>34, <2>3, <2>4 DEF WsRelease, TypeOK
  <2> QED BY <2>2, <2>3, <2>5, <1>open, <1>acc
<1>35. CASE FinishFails
  <2>1. TypeOK'
    <3>1. exts' \in [events : SUBSET Tasks, convs : SUBSET WsTasks]
      BY <1>35 DEF FinishFails, TypeOK
    <3>2. manifest' \in [written : BOOLEAN, flows : Nat, blobs : Nat]
      <4>1. manifest' \in {manifest, NewManifest}
        BY <1>35 DEF FinishFails
      <4>2. NewManifest \in [written : BOOLEAN, flows : Nat, blobs : Nat]
        BY DEF NewManifest, TypeOK, Counts
      <4> QED BY <4>1, <4>2 DEF TypeOK
    <3>3. logOpen' \in BOOLEAN /\ fpc' \in FinPcs
      BY <1>35 DEF FinishFails, TypeOK, FinPcs
    <3> QED BY <1>35, <3>1, <3>2, <3>3 DEF FinishFails, TypeOK
  <2> QED BY <1>35, <2>1, <1>pcsame DEF FinishFails
<1> QED
  BY <1>0, <1>1, <1>2, <1>3, <1>4, <1>5, <1>6, <1>7, <1>8, <1>9, <1>10, <1>11, <1>12, <1>13, <1>14, <1>15,
     <1>16, <1>17, <1>18, <1>19, <1>20, <1>21, <1>22, <1>23, <1>24, <1>25, <1>26, <1>27, <1>28, <1>29,
     <1>30, <1>31, <1>32, <1>33, <1>34, <1>35
  DEF Next, Exchange, Conversation, Finisher

(* TypeOK: no step of any task or of finish leaves a variable outside its   *)
(* type; active_blobs never wraps below zero.                               *)
THEOREM TypeCorrect == Spec => []TypeOK
<1>1. Inv1 => TypeOK
  BY DEF Inv1
<1> QED
  BY <1>1, InitInv1, NextInv1, PTL DEF Spec

(* ActiveAccounting: active_blobs is the number of open sinks.              *)
THEOREM ActiveBlobsExact == Spec => []ActiveAccounting
<1>1. Inv1 => ActiveAccounting
  BY DEF Inv1
<1> QED
  BY <1>1, InitInv1, NextInv1, PTL DEF Spec

-----------------------------------------------------------------------------
(* Publication.  What a task may touch, and when.                           *)

TaskStep ==
  \/ \E t \in Tasks : Exchange(t)
  \/ \E w \in WsTasks : Conversation(w) \/ WsAbort(w)

LogUnchanged == UNCHANGED <<flowLog, flowCount>>

LogAppends ==
  /\ logOpen /\ flowCount < MaxFlows
  /\ flowCount' = flowCount + 1
  /\ \E f \in Flow : flowLog' = Append(flowLog, f) /\ RefsPresent(f)

(* The blobs that tasks hold references to are published.                   *)
RefsPublished == \A t \in Tasks : {req[t], resp[t]} \cap Digests \subseteq blobs

(* A task leaves everything of finish alone, and the log changes only by an *)
(* append to the open log of a record whose bodies are published.           *)
LEMMA TaskFrame ==
  ASSUME Inv1, RefsPublished, TaskStep
  PROVE  /\ UNCHANGED <<logOpen, fpc, driven, counted, dirAt, exts, manifest>>
         /\ LogUnchanged \/ LogAppends
<1> USE DEF inner, disk, task, ws, fin
<1>1. UNCHANGED <<logOpen, fpc, driven, counted, dirAt, exts, manifest>>
  BY ZenonT(60) DEF TaskStep, Exchange, Conversation, BeginBlob, CreateStaging, Reserve, WriteBody,
     AbortBody, FinishSink, Release, UpstreamOutcome, AppendCheck, AppendFlow, AppendEvents,
     WsRegister, WsAppendCheck, WsAppendFlow, WsBeginBlob, WsCreateStaging, WsReserve, WsFinishSink, WsRelease,
     WsAppendConversation, WsComplete, WsAbort
<1>2. ASSUME NEW t \in Tasks, AppendFlow(t) PROVE LogUnchanged \/ LogAppends
  <2> DEFINE f == [id |-> t, ws |-> FALSE, req |-> req[t], resp |-> resp[t]]
  <2>1. f \in Flow
    BY DEF Inv1, TypeOK, Flow
  <2>2. RefsPresent(f)
    BY DEF RefsPublished, RefsPresent
  <2> QED
    BY <1>2, <2>1, <2>2 DEF AppendFlow, LogFlow, LogAccepts, LogUnchanged, LogAppends
<1>3. ASSUME NEW w \in WsTasks, WsAppendFlow(w) PROVE LogUnchanged \/ LogAppends
  <2> DEFINE f == [id |-> w, ws |-> TRUE, req |-> Empty, resp |-> Empty]
  <2>1. f \in Flow
    BY DEF Flow, Ref
  <2>2. RefsPresent(f)
    BY SessionAssumption DEF RefsPresent
  <2> QED
    BY <1>3, <2>1, <2>2 DEF WsAppendFlow, LogFlow, LogAccepts, LogUnchanged, LogAppends
<1>4. ASSUME NEW t \in Tasks, Exchange(t), ~AppendFlow(t) PROVE LogUnchanged
  BY <1>4 DEF Exchange, LogUnchanged, BeginBlob, CreateStaging, Reserve, WriteBody, AbortBody,
     FinishSink, Release, UpstreamOutcome, AppendCheck, AppendEvents
<1>5. ASSUME NEW w \in WsTasks, Conversation(w) \/ WsAbort(w), ~WsAppendFlow(w) PROVE LogUnchanged
  BY <1>5 DEF Conversation, LogUnchanged, WsRegister, WsAppendCheck,
     WsBeginBlob, WsCreateStaging, WsReserve, WsFinishSink, WsRelease,
     WsAppendConversation, WsComplete, WsAbort
<1> QED
  BY <1>1, <1>2, <1>3, <1>4, <1>5 DEF TaskStep

(* Blobs and staging files change only while the directory is staging.      *)
LEMMA TaskBlobs ==
  ASSUME Inv1, TaskStep
  PROVE  /\ blobs \subseteq blobs'
         /\ dirAt = "dest" => UNCHANGED <<blobs, staged>>
<1> USE DEF inner, disk, task, ws, fin
<1>1. ASSUME NEW t \in Tasks, FinishSink(t)
      PROVE  blobs \subseteq blobs' /\ (dirAt = "dest" => UNCHANGED <<blobs, staged>>)
  BY <1>1 DEF FinishSink, RemoveStaging
<1>2. ASSUME NEW t \in Tasks, Exchange(t), ~FinishSink(t)
      PROVE  blobs' = blobs /\ (dirAt = "dest" => UNCHANGED staged)
  BY <1>2 DEF Exchange, BeginBlob, CreateStaging, Reserve, WriteBody, AbortBody, RemoveStaging,
     Release, UpstreamOutcome, AppendCheck, AppendFlow, AppendEvents
<1>3. ASSUME NEW w \in WsTasks, Conversation(w) \/ WsAbort(w)
      PROVE  blobs \subseteq blobs' /\ (dirAt = "dest" => UNCHANGED <<blobs, staged>>)
  BY <1>3 DEF RemoveStaging, Conversation, WsRegister, WsAppendCheck, WsAppendFlow,
     WsBeginBlob, WsCreateStaging, WsReserve, WsFinishSink, WsRelease,
     WsAppendConversation, WsComplete, WsAbort
<1> QED
  BY <1>1, <1>2, <1>3 DEF TaskStep

LEMMA FinisherFrame ==
  ASSUME Finisher \/ Crash
  PROVE  UNCHANGED <<flowLog, flowCount, blobs, staged, pc, body, req, resp, wpc, msgs>>
BY DEF Finisher, Crash, FinishStart, FinishCheckActive, FinishTakeFinalizers, FinishDrive,
   FinishTakeLog, FinishExtensions, FinishValidate, FinishCount, FinishManifest, FinishRename,
   FinishOpen, FinishFails, inner, disk, task, ws, fin

Inv2 == RefsPublished /\ NoDanglingRef /\ RawNeverPublished

LEMMA InitInv2 == Init => Inv2
BY SessionAssumption DEF Init, Inv2, RefsPublished, NoDanglingRef, PayloadsPresent, RawNeverPublished

(* References are taken only to published blobs, and blobs never go away.   *)
LEMMA NextInv2 == Inv1 /\ Inv2 /\ [Next]_vars => Inv2'
<1> SUFFICES ASSUME Inv1, Inv2, [Next]_vars PROVE Inv2'
  OBVIOUS
<1> USE DEF inner, disk, task, ws, fin
<1>0. ASSUME UNCHANGED <<flowLog, msgs, blobs, req, resp>> PROVE Inv2'
  BY <1>0 DEF Inv2, RefsPublished, NoDanglingRef, RawNeverPublished, RefsPresent, PayloadsPresent, Kept
<1>1. CASE UNCHANGED vars
  BY <1>0, <1>1 DEF vars
<1>2. CASE Finisher \/ Crash
  BY <1>0, <1>2, FinisherFrame
<1>3. CASE TaskStep
  <2>1. blobs \subseteq blobs'
    BY <1>3, TaskBlobs
  <2>2. \A i \in 1..Len(flowLog') : {flowLog'[i].req, flowLog'[i].resp} \cap Digests \subseteq blobs'
    <3>1. CASE LogUnchanged
      BY <2>1, <3>1 DEF Inv2, NoDanglingRef, RefsPresent, LogUnchanged
    <3>2. CASE LogAppends
      <4>1. PICK f \in Flow : flowLog' = Append(flowLog, f) /\ RefsPresent(f)
        BY <3>2 DEF LogAppends
      <4>2. flowLog \in Seq(Flow)
        BY DEF Inv1, TypeOK
      <4> SUFFICES ASSUME NEW i \in 1..Len(flowLog')
                   PROVE  {flowLog'[i].req, flowLog'[i].resp} \cap Digests \subseteq blobs'
        OBVIOUS
      <4>3. CASE i \in 1..Len(flowLog)
        BY <2>1, <4>1, <4>2, <4>3 DEF Inv2, NoDanglingRef, RefsPresent
      <4>4. CASE i = Len(flowLog) + 1
        BY <2>1, <4>1, <4>2, <4>4 DEF RefsPresent
      <4> QED BY <4>1, <4>2, <4>3, <4>4
    <3> QED BY <1>3, <3>1, <3>2, TaskFrame DEF Inv2
  <2>3. ASSUME NEW t \in Tasks, Exchange(t) PROVE RefsPublished' /\ RawNeverPublished' /\ msgs' = msgs
    <3>1. CASE FinishSink(t)
      BY <2>1, <3>1, SessionAssumption
      DEF FinishSink, SetRef, Inv1, TypeOK, Inv2, RefsPublished, RawNeverPublished, Kept
    <3>2. CASE Release(t)
      BY <2>1, <3>2, SessionAssumption
      DEF Release, SetRef, Inv1, TypeOK, Inv2, RefsPublished, RawNeverPublished, Kept
    <3>3. CASE UpstreamOutcome(t)
      BY <2>1, <3>3, SessionAssumption
      DEF UpstreamOutcome, Inv1, TypeOK, Inv2, RefsPublished, RawNeverPublished, Kept
    <3>4. ASSUME ~FinishSink(t), ~Release(t), ~UpstreamOutcome(t)
          PROVE  UNCHANGED <<req, resp, blobs, msgs>>
      BY <2>3, <3>4 DEF Exchange, BeginBlob, CreateStaging, Reserve, WriteBody, AbortBody, AppendCheck,
         AppendFlow, AppendEvents
    <3>5. CASE UNCHANGED <<req, resp, blobs, msgs>>
      BY <3>5 DEF Inv2, RefsPublished, RawNeverPublished, Kept
    <3> QED BY <3>1, <3>2, <3>3, <3>4, <3>5
  <2>4. ASSUME NEW w \in WsTasks, Conversation(w) \/ WsAbort(w)
        PROVE  /\ RefsPublished' /\ RawNeverPublished'
               /\ \A u \in WsTasks : \A i \in 1..Len(msgs'[u]) : msgs'[u][i] \in blobs'
    <3>1. UNCHANGED <<req, resp>>
      BY <2>4 DEF Conversation, WsRegister, WsAppendCheck, WsAppendFlow, WsBeginBlob, WsCreateStaging,
         WsReserve, WsFinishSink, WsRelease, WsAppendConversation, WsComplete, WsAbort
    <3>2. RefsPublished'
      BY <2>1, <3>1 DEF Inv2, RefsPublished
    <3>3. CASE WsFinishSink(w)
      <4>1. blobs' \subseteq blobs \cup {WsRedact[p] : p \in Payloads}
        BY <3>3 DEF WsFinishSink
      <4>2. RawNeverPublished'
        BY <4>1 DEF Inv2, RawNeverPublished, Kept
      <4>3. ASSUME msgs' = msgs
            PROVE  \A u \in WsTasks : \A i \in 1..Len(msgs'[u]) : msgs'[u][i] \in blobs'
        BY <2>1, <4>3 DEF Inv2, NoDanglingRef, PayloadsPresent
      <4>4. ASSUME NEW d \in blobs', msgs' = [msgs EXCEPT ![w] = Append(@, d)]
            PROVE  \A u \in WsTasks : \A i \in 1..Len(msgs'[u]) : msgs'[u][i] \in blobs'
        <5> SUFFICES ASSUME NEW u \in WsTasks, NEW i \in 1..Len(msgs'[u]) PROVE msgs'[u][i] \in blobs'
          OBVIOUS
        <5>1. msgs \in [WsTasks -> Seq(Digests)] /\ \A j \in 1..Len(msgs[u]) : msgs[u][j] \in blobs'
          BY <2>1 DEF Inv1, TypeOK, Inv2, NoDanglingRef, PayloadsPresent
        <5>2. CASE u = w
          BY <4>4, <5>1, <5>2
        <5>3. CASE u # w
          BY <4>4, <5>1, <5>3
        <5> QED BY <5>2, <5>3
      <4> QED BY <3>2, <3>3, <4>2, <4>3, <4>4 DEF WsFinishSink
    <3>4. CASE ~WsFinishSink(w)
      <4>1. UNCHANGED <<blobs, msgs>>
        BY <2>4, <3>4 DEF Conversation, WsRegister, WsAppendCheck, WsAppendFlow, WsBeginBlob,
           WsCreateStaging, WsReserve, WsRelease, WsAppendConversation, WsComplete, WsAbort
      <4> QED BY <3>2, <4>1 DEF Inv2, NoDanglingRef, PayloadsPresent, RawNeverPublished, Kept
    <3> QED BY <3>3, <3>4
  <2>5. RefsPublished' /\ RawNeverPublished'
    BY <1>3, <2>3, <2>4 DEF TaskStep
  <2>6. \A u \in WsTasks : \A i \in 1..Len(msgs'[u]) : msgs'[u][i] \in blobs'
    BY <1>3, <2>1, <2>3, <2>4 DEF TaskStep, Inv2, NoDanglingRef, PayloadsPresent
  <2> QED BY <2>2, <2>5, <2>6 DEF Inv2, NoDanglingRef, RefsPresent, PayloadsPresent
<1> QED
  BY <1>1, <1>2, <1>3 DEF Next, TaskStep

(* NoDanglingRef: a record of flows.jsonl, and a message of a transcript,   *)
(* refers only to published blobs.                                          *)
THEOREM NoDangling == Spec => []NoDanglingRef
<1>1. Inv2 => NoDanglingRef
  BY DEF Inv2
<1> QED
  BY <1>1, InitInv1, NextInv1, InitInv2, NextInv2, PTL DEF Spec

(* RawNeverPublished: redaction is complete before a blob gets its name.    *)
THEOREM RedactionComplete == Spec => []RawNeverPublished
<1>1. Inv2 => RawNeverPublished
  BY DEF Inv2
<1> QED
  BY <1>1, InitInv1, NextInv1, InitInv2, NextInv2, PTL DEF Spec

-----------------------------------------------------------------------------
(* The order in which finish seals, describes and renames the directory.    *)

Sealed == {"extend", "validate", "count", "manifest", "rename", "open", "ok"}

Order ==
  /\ flowCount = Len(flowLog)
  /\ fpc \in Sealed => ~logOpen /\ counted.flows = Len(flowLog)
  /\ manifest.written => ~logOpen /\ manifest.flows = Len(flowLog)
  /\ fpc \in {"rename", "open", "ok"} => manifest.written
  /\ dirAt = "dest" => manifest.written /\ fpc \in {"open", "ok", "err", "ioerr"}
  /\ fpc \in {"open", "ok"} => dirAt = "dest"
  /\ fpc \in {"count", "manifest", "rename"} \/ dirAt = "dest" => exts.convs = LogIds \cap WsTasks

Inv3 == Order /\ OkStaysValid

(* Once published, no step changes the directory.                           *)
LEMMA PublishedStep ==
  ASSUME Inv1, Inv2, Inv3, [Next]_vars, dirAt = "dest"
  PROVE  UNCHANGED disk
<1> USE DEF inner, disk, task, ws, fin
<1>1. CASE UNCHANGED vars
  BY <1>1 DEF vars
<1>2. CASE TaskStep
  BY <1>2, TaskFrame, TaskBlobs DEF Inv2, Inv3, Order, LogUnchanged, LogAppends
<1>3. CASE Crash
  BY <1>3 DEF Crash
<1>4. CASE Finisher
  BY <1>4 DEF Finisher, FinishStart, FinishCheckActive, FinishTakeFinalizers, FinishDrive,
     FinishTakeLog, FinishExtensions, FinishValidate, FinishCount, FinishManifest, FinishRename,
     FinishOpen, FinishFails, Inv3, Order
<1> QED
  BY <1>1, <1>2, <1>3, <1>4 DEF Next, TaskStep

(* The payloads of a transcript are never missing, so a session is valid or *)
(* not by what is in the directory.                                         *)
LEMMA ValidFrame ==
  ASSUME Inv1, Inv1', NoDanglingRef, NoDanglingRef', UNCHANGED disk
  PROVE  ValidSession' = ValidSession
<1>1. /\ \A w \in exts.convs : PayloadsPresent(w)
      /\ \A w \in exts'.convs : PayloadsPresent(w)'
  BY DEF NoDanglingRef, Inv1, TypeOK
<1>2. WsFixtureValid' = WsFixtureValid
  BY <1>1 DEF disk, WsFixtureValid, LogIds
<1> QED
  BY <1>2 DEF disk, ValidSession, LogIds, LogBytes, FlowBytes, RefsPresent, BlobFiles

LEMMA InitInv3 == Init => Inv3
BY DEF Init, Inv3, Order, OkStaysValid, Sealed

LEMMA NextInv3 == Inv1 /\ Inv2 /\ Inv3 /\ [Next]_vars => Inv3'
<1> SUFFICES ASSUME Inv1, Inv2, Inv3, [Next]_vars PROVE Inv3'
  OBVIOUS
<1> USE DEF inner, disk, task, ws, fin
<1>1. Order'
  <2>1. CASE UNCHANGED vars
    BY <2>1 DEF vars, Inv3, Order, LogIds
  <2>2. CASE TaskStep
    <3>1. UNCHANGED <<logOpen, fpc, counted, dirAt, exts, manifest>>
      BY <2>2, TaskFrame DEF Inv2
    <3>2. CASE LogUnchanged
      BY <3>1, <3>2 DEF LogUnchanged, Inv3, Order, LogIds
    <3>3. CASE LogAppends
      <4>1. logOpen /\ flowLog \in Seq(Flow)
        BY <3>3 DEF LogAppends, Inv1, TypeOK
      <4>2. fpc \notin Sealed /\ ~manifest.written /\ dirAt # "dest"
        BY <4>1 DEF Inv3, Order
      <4>3. flowCount' = Len(flowLog')
        BY <3>3, <4>1 DEF LogAppends, Inv3, Order
      <4> QED
        BY <3>1, <4>2, <4>3 DEF Order, Sealed
    <3> QED BY <2>2, <3>2, <3>3, TaskFrame DEF Inv2
  <2>3. CASE Crash
    BY <2>3 DEF Crash, Inv3, Order, LogIds
  <2>4. CASE Finisher
    <3>1. UNCHANGED <<flowLog, flowCount>>
      BY <2>4, FinisherFrame
    <3>2. LogIds' = LogIds /\ LogIds \cap WsTasks = {f \in LogIds : f \in WsTasks}
      BY <3>1 DEF LogIds
    <3>3. CASE FinishStart \/ FinishCheckActive \/ FinishTakeFinalizers \/ FinishDrive
      BY <3>1, <3>2, <3>3 DEF FinishStart, FinishCheckActive, FinishTakeFinalizers, FinishDrive,
         Inv3, Order, Sealed
    <3>4. CASE FinishTakeLog
      BY <3>1, <3>2, <3>4 DEF FinishTakeLog, Inv1, TypeOK, Counts, Inv3, Order, Sealed
    <3>5. CASE FinishExtensions
      BY <3>1, <3>2, <3>5 DEF FinishExtensions, Inv3, Order, Sealed
    <3>6. CASE FinishValidate
      BY <3>1, <3>2, <3>6 DEF FinishValidate, WsFixtureValid, Inv3, Order, Sealed
    <3>7. CASE FinishCount
      BY <3>1, <3>2, <3>7 DEF FinishCount, Inv1, TypeOK, Counts, Inv3, Order, Sealed
    <3>8. CASE FinishManifest
      BY <3>1, <3>2, <3>8 DEF FinishManifest, NewManifest, Inv3, Order, Sealed
    <3>9. CASE FinishRename \/ FinishOpen
      BY <3>1, <3>2, <3>9 DEF FinishRename, FinishOpen, Inv3, Order, Sealed
    <3>10. CASE FinishFails
      BY <3>1, <3>2, <3>10 DEF FinishFails, NewManifest, Inv3, Order, Sealed
    <3> QED BY <2>4, <3>3, <3>4, <3>5, <3>6, <3>7, <3>8, <3>9, <3>10 DEF Finisher
  <2> QED BY <2>1, <2>2, <2>3, <2>4 DEF Next, TaskStep
<1>2. OkStaysValid'
  <2>0. Inv1' /\ NoDanglingRef' /\ NoDanglingRef
    BY NextInv1, NextInv2 DEF Inv2
  <2>1. CASE fpc = "ok"
    <3>1. dirAt = "dest" /\ ValidSession
      BY <2>1 DEF Inv3, Order, OkStaysValid
    <3> QED BY <2>0, <3>1, PublishedStep, ValidFrame DEF OkStaysValid
  <2>2. CASE fpc # "ok" /\ FinishOpen
    <3>1. UNCHANGED disk
      BY <2>2 DEF FinishOpen
    <3> QED BY <2>0, <2>2, <3>1, ValidFrame DEF FinishOpen, OkStaysValid
  <2>3. CASE fpc # "ok" /\ ~FinishOpen
    <3>1. fpc' # "ok"
      <4>1. CASE TaskStep
        BY <2>3, <4>1, TaskFrame DEF Inv2
      <4>2. CASE Finisher
        BY <2>3, <4>2 DEF Finisher, FinishStart, FinishCheckActive, FinishTakeFinalizers, FinishDrive,
           FinishTakeLog, FinishExtensions, FinishValidate, FinishCount, FinishManifest, FinishRename, FinishFails
      <4>3. CASE UNCHANGED vars \/ Crash
        BY <2>3, <4>3 DEF vars, Crash
      <4> QED BY <4>1, <4>2, <4>3 DEF Next, TaskStep
    <3> QED BY <3>1 DEF OkStaysValid
  <2> QED BY <2>1, <2>2, <2>3
<1> QED
  BY <1>1, <1>2 DEF Inv3

LEMMA Invariants == Spec => [](Inv1 /\ Inv2 /\ Inv3)
BY InitInv1, NextInv1, InitInv2, NextInv2, InitInv3, NextInv3, PTL DEF Spec

(* ManifestFlowsExact: the log is closed before its records are counted.    *)
THEOREM ManifestCounts == Spec => []ManifestFlowsExact
<1>1. Inv3 => ManifestFlowsExact
  BY DEF Inv3, Order, ManifestFlowsExact
<1> QED BY <1>1, Invariants, PTL

(* ManifestBeforePublication: the rename comes after the manifest.          *)
THEOREM ManifestLast == Spec => []ManifestBeforePublication
<1>1. Inv3 => ManifestBeforePublication
  BY DEF Inv3, Order, ManifestBeforePublication
<1> QED BY <1>1, Invariants, PTL

(* SessionSound: counts, references and manifest agree with the files at    *)
(* every step.                                                              *)
THEOREM BooksAgree == Spec => []SessionSound
<1>1. /\ TypeOK /\ ActiveAccounting /\ NoDanglingRef
      /\ ManifestFlowsExact /\ ManifestBeforePublication
      => SessionSound
  BY DEF SessionSound
<1> QED BY <1>1, TypeCorrect, ActiveBlobsExact, NoDangling, ManifestCounts, ManifestLast, PTL

(* PublishedConversationsComplete: no 101 flow is published without its     *)
(* conversation, nor the reverse.                                           *)
THEOREM ConversationsComplete == Spec => []PublishedConversationsComplete
<1>1. Inv3 => PublishedConversationsComplete
  BY DEF Inv3, Order, PublishedConversationsComplete
<1> QED BY <1>1, Invariants, PTL

(* OkStaysValid: no task that outlives finish can make the returned session *)
(* invalid.                                                                 *)
THEOREM ReturnedSessionStaysValid == Spec => []OkStaysValid
<1>1. Inv3 => OkStaysValid
  BY DEF Inv3
<1> QED BY <1>1, Invariants, PTL

(* PublishedImmutable: a directory under its name never changes again.      *)
THEOREM PublishedForGood == Spec => PublishedImmutable
<1>1. Inv1 /\ Inv2 /\ Inv3 /\ [Next]_vars => [dirAt = "dest" => UNCHANGED disk]_vars
  BY PublishedStep
<1> QED BY <1>1, Invariants, PTL DEF Spec, PublishedImmutable

-----------------------------------------------------------------------------
(* The session implements FixturePublication.                               *)

Logged   == {"events", "done", "failed"}
Relaying == {"relay", "opening", "created", "writing", "stored", "dropping", "ended"}
WsLogged == Relaying \cup {"appended", "done", "aborted"}

(* A task that has not appended its flow has no record in the log.          *)
Inv4 ==
  /\ \A t \in Tasks : t \in LogIds => pc[t] \in Logged
  /\ \A w \in WsTasks : w \in LogIds => wpc[w] \in WsLogged

LEMMA LogIdsAppend ==
  ASSUME Inv1, NEW f \in Flow, flowLog' = Append(flowLog, f)
  PROVE  LogIds' = LogIds \cup {f.id}
<1>1. flowLog \in Seq(Flow)
  BY DEF Inv1, TypeOK
<1>2. Len(flowLog') = Len(flowLog) + 1 /\ Len(flowLog) \in Nat
  BY <1>1
<1>3. \A i \in 1..Len(flowLog) : flowLog'[i] = flowLog[i]
  BY <1>1
<1>4. flowLog'[Len(flowLog) + 1] = f
  BY <1>1
<1>5. LogIds' \subseteq LogIds \cup {f.id}
  BY <1>2, <1>3, <1>4 DEF LogIds
<1>6. LogIds \cup {f.id} \subseteq LogIds'
  BY <1>2, <1>3, <1>4 DEF LogIds
<1> QED BY <1>5, <1>6

LEMMA InitInv4 == Init => Inv4
BY DEF Init, Inv4, LogIds

LEMMA NextInv4 == Inv1 /\ Inv4 /\ [Next]_vars => Inv4'
<1> SUFFICES ASSUME Inv1, Inv4, [Next]_vars PROVE Inv4'
  OBVIOUS
<1> USE DEF inner, disk, task, ws, fin
<1>1. CASE UNCHANGED vars
  BY <1>1 DEF vars, Inv4, LogIds
<1>2. CASE Finisher \/ Crash
  BY <1>2, FinisherFrame DEF Inv4, LogIds
<1>3. ASSUME NEW t \in Tasks, AppendFlow(t) PROVE Inv4'
  <2> DEFINE f == [id |-> t, ws |-> FALSE, req |-> req[t], resp |-> resp[t]]
  <2>1. f \in Flow /\ f.id = t
    BY DEF Inv1, TypeOK, Flow
  <2>2. wpc' = wpc /\ LogIds' \subseteq LogIds \cup {t}
    <3>1. CASE LogFlow(f)
      BY <1>3, <2>1, <3>1, LogIdsAppend DEF LogFlow, AppendFlow
    <3>2. CASE flowLog' = flowLog
      BY <1>3, <3>2 DEF AppendFlow, LogIds
    <3> QED BY <1>3, <3>1, <3>2 DEF AppendFlow
  <2>3. pc'[t] \in Logged /\ \A u \in Tasks : u # t => pc'[u] = pc[u]
    BY <1>3 DEF AppendFlow, Goto, Inv1, TypeOK, Logged
  <2> QED BY <2>2, <2>3, SessionAssumption DEF Inv4
<1>4. ASSUME NEW w \in WsTasks, WsAppendFlow(w) PROVE Inv4'
  <2> DEFINE f == [id |-> w, ws |-> TRUE, req |-> Empty, resp |-> Empty]
  <2>1. f \in Flow /\ f.id = w
    BY DEF Flow, Ref
  <2>2. CASE LogFlow(f) /\ WGoto(w, "relay")
    <3>1. pc' = pc /\ LogIds' = LogIds \cup {w}
      BY <1>4, <2>1, <2>2, LogIdsAppend DEF LogFlow, WsAppendFlow
    <3>2. wpc'[w] \in WsLogged /\ \A u \in WsTasks : u # w => wpc'[u] = wpc[u]
      BY <2>2 DEF WGoto, Inv1, TypeOK, WsLogged, Relaying
    <3> QED BY <3>1, <3>2, SessionAssumption DEF Inv4
  <2>3. CASE flowLog' = flowLog /\ WGoto(w, "failed")
    <3>1. w \notin LogIds
      BY <1>4 DEF WsAppendFlow, Inv4, WsLogged, Relaying
    <3>2. pc' = pc /\ LogIds' = LogIds
      BY <1>4, <2>3 DEF WsAppendFlow, LogIds
    <3>3. \A u \in WsTasks : u # w => wpc'[u] = wpc[u]
      BY <2>3 DEF WGoto, Inv1, TypeOK
    <3> QED BY <3>1, <3>2, <3>3 DEF Inv4
  <2> QED BY <1>4, <2>2, <2>3 DEF WsAppendFlow
<1>5. ASSUME NEW t \in Tasks, Exchange(t), ~AppendFlow(t) PROVE Inv4'
  <2>1. UNCHANGED <<flowLog, wpc>>
    BY <1>5 DEF Exchange, BeginBlob, CreateStaging, Reserve, WriteBody, AbortBody, FinishSink,
       Release, UpstreamOutcome, AppendCheck, AppendEvents
  <2>2. /\ pc[t] \in Logged => pc'[t] \in Logged
        /\ \A u \in Tasks : u # t => pc'[u] = pc[u]
    BY <1>5 DEF Exchange, BeginBlob, CreateStaging, Reserve, WriteBody, AbortBody, FinishSink,
       Release, UpstreamOutcome, AppendCheck, AppendEvents, Goto, Logged, Inv1, TypeOK
  <2> QED BY <2>1, <2>2 DEF Inv4, LogIds
<1>6. ASSUME NEW w \in WsTasks, Conversation(w) \/ WsAbort(w), ~WsAppendFlow(w) PROVE Inv4'
  <2>1. UNCHANGED <<flowLog, pc>>
    BY <1>6 DEF Conversation, WsRegister, WsAppendCheck,
       WsBeginBlob, WsCreateStaging, WsReserve, WsFinishSink, WsRelease,
       WsAppendConversation, WsComplete, WsAbort
  <2>2. /\ wpc[w] \in WsLogged => wpc'[w] \in WsLogged
        /\ \A u \in WsTasks : u # w => wpc'[u] = wpc[u]
    BY <1>6 DEF Conversation, WsRegister, WsAppendCheck,
       WsBeginBlob, WsCreateStaging, WsReserve, WsFinishSink, WsRelease,
       WsAppendConversation, WsComplete, WsAbort,
       WGoto, WsLogged, Relaying, Inv1, TypeOK
  <2> QED BY <2>1, <2>2 DEF Inv4, LogIds
<1> QED
  BY <1>1, <1>2, <1>3, <1>4, <1>5, <1>6 DEF Next

(* The abstract state is a function of the log, its being open and the     *)
(* directory's name.                                                        *)
LEMMA PublicationFrame ==
  ASSUME UNCHANGED <<flowLog, logOpen, dirAt>> PROVE UNCHANGED Publication!vars
<1>1. LogIds' = LogIds
  BY DEF LogIds
<1> QED BY <1>1 DEF Publication!vars

LEMMA RefinementStep ==
  ASSUME Inv1, Inv2, Inv3, Inv4, [Next]_vars
  PROVE  [Publication!Next]_(Publication!vars)
<1> USE DEF inner, disk, task, ws, fin
<1>1. CASE UNCHANGED vars
  BY <1>1 DEF vars, Publication!vars, LogIds
<1>2. CASE Crash
  BY <1>2 DEF Crash, Publication!vars, LogIds
<1>3. ASSUME NEW g \in Tasks \cup WsTasks, NEW f \in Flow, f.id = g, g \notin LogIds,
             LogFlow(f), UNCHANGED <<logOpen, dirAt>>
      PROVE  Publication!Next
  <2>1. LogIds' = LogIds \cup {g} /\ logOpen
    BY <1>3, LogIdsAppend DEF LogFlow, LogAccepts
  <2>2. dirAt # "dest"
    BY <2>1 DEF Inv3, Order
  <2> QED BY <1>3, <2>1, <2>2 DEF Publication!Next, Publication!Accept
<1>4. ASSUME NEW t \in Tasks, AppendFlow(t) PROVE [Publication!Next]_(Publication!vars)
  <2> DEFINE f == [id |-> t, ws |-> FALSE, req |-> req[t], resp |-> resp[t]]
  <2>1. f \in Flow /\ f.id = t /\ t \notin LogIds
    BY <1>4 DEF AppendFlow, Inv1, TypeOK, Flow, Inv4, Logged
  <2>2. CASE LogFlow(f)
    BY <1>4, <2>1, <2>2, <1>3 DEF AppendFlow
  <2>3. CASE flowLog' = flowLog
    BY <1>4, <2>3 DEF AppendFlow, Publication!vars, LogIds
  <2> QED BY <1>4, <2>2, <2>3 DEF AppendFlow
<1>5. ASSUME NEW w \in WsTasks, WsAppendFlow(w) PROVE [Publication!Next]_(Publication!vars)
  <2> DEFINE f == [id |-> w, ws |-> TRUE, req |-> Empty, resp |-> Empty]
  <2>1. f \in Flow /\ f.id = w /\ w \notin LogIds
    BY <1>5 DEF WsAppendFlow, Flow, Ref, Inv4, WsLogged, Relaying
  <2>2. CASE LogFlow(f)
    BY <1>5, <2>1, <2>2, <1>3 DEF WsAppendFlow
  <2>3. CASE flowLog' = flowLog
    BY <1>5, <2>3 DEF WsAppendFlow, Publication!vars, LogIds
  <2> QED BY <1>5, <2>2, <2>3 DEF WsAppendFlow
<1>6. ASSUME NEW t \in Tasks, Exchange(t), ~AppendFlow(t) PROVE UNCHANGED Publication!vars
  <2>1. UNCHANGED <<flowLog, logOpen, dirAt>>
    BY <1>6 DEF Exchange, BeginBlob, CreateStaging, Reserve, WriteBody, AbortBody, FinishSink,
       Release, UpstreamOutcome, AppendCheck, AppendEvents
  <2> QED BY <2>1, PublicationFrame
<1>7. ASSUME NEW w \in WsTasks, Conversation(w) \/ WsAbort(w), ~WsAppendFlow(w)
      PROVE  UNCHANGED Publication!vars
  <2>1. UNCHANGED <<flowLog, logOpen, dirAt>>
    BY <1>7 DEF Conversation, WsRegister, WsAppendCheck,
       WsBeginBlob, WsCreateStaging, WsReserve, WsFinishSink, WsRelease,
       WsAppendConversation, WsComplete, WsAbort
  <2> QED BY <2>1, PublicationFrame
<1>8. CASE FinishTakeLog
  <2>1. UNCHANGED <<dirAt, LogIds>> /\ ~logOpen' /\ dirAt # "dest"
    BY <1>8 DEF FinishTakeLog, LogIds, Inv3, Order
  <2> QED BY <2>1 DEF Publication!Next, Publication!Close, Publication!vars
<1>9. CASE FinishRename
  <2>1. dirAt # "dest" /\ dirAt' = "dest" /\ ~logOpen /\ UNCHANGED <<logOpen, LogIds>>
    BY <1>9 DEF FinishRename, LogIds, Inv3, Order, Sealed
  <2> QED BY <2>1 DEF Publication!Next, Publication!Publish
<1>11. CASE FinishFails
  <2>1. UNCHANGED <<dirAt, LogIds>> /\ (logOpen' = logOpen \/ (~logOpen' /\ dirAt # "dest"))
    BY <1>11 DEF FinishFails, LogIds, Inv3, Order
  <2> QED BY <2>1 DEF Publication!Next, Publication!Close, Publication!vars
<1>10. CASE Finisher /\ ~FinishTakeLog /\ ~FinishRename /\ ~FinishFails
  <2>1. UNCHANGED <<flowLog, logOpen, dirAt>>
    BY <1>10 DEF Finisher, FinishStart, FinishCheckActive, FinishTakeFinalizers, FinishDrive,
       FinishExtensions, FinishValidate, FinishCount, FinishManifest, FinishOpen
  <2> QED BY <2>1, PublicationFrame
<1> QED
  BY <1>1, <1>2, <1>4, <1>5, <1>6, <1>7, <1>8, <1>9, <1>10, <1>11 DEF Next

(* RefinesPublication: flows are accepted until the log is closed, and the  *)
(* fixture becomes visible at once as exactly the accepted flows.           *)
THEOREM Refinement == Spec => RefinesPublication
<1>1. Init => Publication!Init
  BY DEF Init, Publication!Init, LogIds
<1>2. Spec => []Inv4
  BY InitInv1, NextInv1, InitInv4, NextInv4, PTL DEF Spec
<1>3. Inv1 /\ Inv2 /\ Inv3 /\ Inv4 /\ [Next]_vars => [Publication!Next]_(Publication!vars)
  BY RefinementStep
<1> QED
  BY <1>1, <1>2, <1>3, Invariants, PTL DEF Spec, RefinesPublication, Publication!Spec
-----------------------------------------------------------------------------
(* The limits.  LogBytes sums the log from its first record, the session    *)
(* adds up as it appends: the two agree by induction on the log.            *)

(* Induction over the naturals, in terms of a set.                          *)
LEMMA SetInduction ==
  ASSUME NEW S \in SUBSET Nat, 0 \in S, \A n \in S : n + 1 \in S
  PROVE  S = Nat
<1> DEFINE T == Nat \ S
<1> DEFINE R == {ss \in Nat \X Nat : ss[1] < ss[2]}
<1> SUFFICES ASSUME T # {} PROVE FALSE
  OBVIOUS
<1>1. IsWellFoundedOn(R, Nat)
  BY NatLessThanWellFounded DEF OpToRel
<1> HIDE DEF R
<1>2. PICK x \in T : \A y \in T : ~(<<y, x>> \in R)
  BY <1>1, WFMin
<1>3. \A y \in T : ~(y < x)
  BY <1>2 DEF R
<1>4. x - 1 \in Nat /\ x - 1 < x
  OBVIOUS
<1>5. x - 1 \in S
  BY <1>3, <1>4
<1> QED BY <1>4, <1>5

(* g[n] is the number of body bytes of the first n flows of s.              *)
Sums(g, s) == g = [n \in 0..Len(s) |-> IF n = 0 THEN 0 ELSE g[n-1] + FlowBytes(s[n])]

(* There is one such function, so it is the one LogBytes chooses.           *)
LEMMA SumsUnique ==
  ASSUME NEW s \in Seq(Flow), NEW g, NEW h, Sums(g, s), Sums(h, s)
  PROVE  g = h
<1> DEFINE S == {n \in Nat : n <= Len(s) => g[n] = h[n]}
<1>0. Len(s) \in Nat
  OBVIOUS
<1>1. DOMAIN g = 0..Len(s) /\ DOMAIN h = 0..Len(s)
  BY DEF Sums
<1>2. /\ \A n \in 0..Len(s) : g[n] = IF n = 0 THEN 0 ELSE g[n-1] + FlowBytes(s[n])
      /\ \A n \in 0..Len(s) : h[n] = IF n = 0 THEN 0 ELSE h[n-1] + FlowBytes(s[n])
  BY DEF Sums
<1>3. 0 \in S
  BY <1>0, <1>2
<1>4. ASSUME NEW n \in S PROVE n + 1 \in S
  <2>1. CASE n + 1 <= Len(s)
    <3>1. n + 1 \in 0..Len(s) /\ n + 1 # 0 /\ (n + 1) - 1 = n /\ g[n] = h[n]
      BY <1>0, <2>1
    <3>2. g[n+1] = g[n] + FlowBytes(s[n+1]) /\ h[n+1] = h[n] + FlowBytes(s[n+1])
      BY <1>2, <3>1
    <3> QED BY <3>1, <3>2
  <2> QED BY <2>1
<1>5. S = Nat
  BY <1>3, <1>4, SetInduction
<1>6. \A n \in 0..Len(s) : g[n] = h[n]
  BY <1>0, <1>5
<1>7. g = [n \in 0..Len(s) |-> g[n]] /\ h = [n \in 0..Len(s) |-> h[n]]
  BY DEF Sums
<1> QED BY <1>6, <1>7

LEMMA LogBytesSums ==
  ASSUME TypeOK, NEW g, Sums(g, flowLog)
  PROVE  LogBytes = g[Len(flowLog)]
<1> DEFINE c == CHOOSE c : Sums(c, flowLog)
<1>1. Sums(c, flowLog)
  OBVIOUS
<1>2. c = g
  BY <1>1, SumsUnique DEF TypeOK
<1>3. LogBytes = c[Len(flowLog)]
  BY DEF LogBytes, Sums
<1> QED BY <1>2, <1>3

(* The log and its counters move together, by one LogFlow.                  *)
LEMMA LogStep ==
  ASSUME TypeOK, [Next]_vars
  PROVE  \/ UNCHANGED <<flowLog, flowCount, totalBytes>>
         \/ \E f \in Flow : LogFlow(f)
<1> USE DEF inner, disk, task, ws, fin
<1>1. CASE UNCHANGED vars
  BY <1>1 DEF vars
<1>2. CASE Finisher \/ Crash
  BY <1>2 DEF Finisher, Crash, FinishStart, FinishCheckActive, FinishTakeFinalizers, FinishDrive,
     FinishTakeLog, FinishExtensions, FinishValidate, FinishCount, FinishManifest, FinishRename,
     FinishOpen, FinishFails
<1>3. ASSUME NEW t \in Tasks, AppendFlow(t)
      PROVE  UNCHANGED <<flowLog, flowCount, totalBytes>> \/ \E f \in Flow : LogFlow(f)
  <2> DEFINE f == [id |-> t, ws |-> FALSE, req |-> req[t], resp |-> resp[t]]
  <2>1. f \in Flow
    BY DEF TypeOK, Flow
  <2> QED BY <1>3, <2>1 DEF AppendFlow
<1>4. ASSUME NEW w \in WsTasks, WsAppendFlow(w)
      PROVE  UNCHANGED <<flowLog, flowCount, totalBytes>> \/ \E f \in Flow : LogFlow(f)
  <2> DEFINE f == [id |-> w, ws |-> TRUE, req |-> Empty, resp |-> Empty]
  <2>1. f \in Flow
    BY DEF Flow, Ref
  <2> QED BY <1>4, <2>1 DEF WsAppendFlow
<1>5. ASSUME NEW t \in Tasks, Exchange(t), ~AppendFlow(t) PROVE UNCHANGED <<flowLog, flowCount, totalBytes>>
  BY <1>5 DEF Exchange, BeginBlob, CreateStaging, Reserve, WriteBody, AbortBody,
     FinishSink, Release, UpstreamOutcome, AppendCheck, AppendEvents
<1>6. ASSUME NEW w \in WsTasks, Conversation(w) \/ WsAbort(w), ~WsAppendFlow(w)
      PROVE  UNCHANGED <<flowLog, flowCount, totalBytes>>
  BY <1>6 DEF Conversation, WsRegister, WsAppendCheck,
     WsBeginBlob, WsCreateStaging, WsReserve, WsFinishSink, WsRelease,
     WsAppendConversation, WsComplete, WsAbort
<1> QED
  BY <1>1, <1>2, <1>3, <1>4, <1>5, <1>6 DEF Next

Inv5 ==
  /\ flowCount = Len(flowLog) /\ flowCount <= MaxFlows
  /\ totalBytes <= MaxTotalBytes
  /\ \E g : Sums(g, flowLog) /\ g[Len(flowLog)] = totalBytes

LEMMA InitInv5 == Init => Inv5
<1> SUFFICES ASSUME Init PROVE Inv5
  OBVIOUS
<1>1. Sums([n \in 0..Len(flowLog) |-> 0], flowLog)
  BY DEF Init, Sums
<1>2. [n \in 0..Len(flowLog) |-> 0][Len(flowLog)] = totalBytes
  BY DEF Init
<1> QED BY <1>1, <1>2, SessionAssumption DEF Init, Inv5

LEMMA NextInv5 == Inv1 /\ Inv5 /\ [Next]_vars => Inv5'
<1> SUFFICES ASSUME Inv1, Inv5, [Next]_vars PROVE Inv5'
  OBVIOUS
<1>1. CASE UNCHANGED <<flowLog, flowCount, totalBytes>>
  BY <1>1 DEF Inv5, Sums
<1>2. ASSUME NEW f \in Flow, LogFlow(f) PROVE Inv5'
  <2>1. PICK g : Sums(g, flowLog) /\ g[Len(flowLog)] = totalBytes
    BY DEF Inv5
  <2> DEFINE n == Len(flowLog)
             h == [i \in 0..(n+1) |-> IF i = n + 1 THEN g[n] + FlowBytes(f) ELSE g[i]]
  <2>2. flowLog \in Seq(Flow) /\ n \in Nat /\ flowLog' = Append(flowLog, f) /\ Len(flowLog') = n + 1
    BY <1>2 DEF LogFlow, Inv1, TypeOK
  <2>3. flowLog'[n+1] = f /\ \A i \in 1..n : flowLog'[i] = flowLog[i]
    BY <2>2
  <2>4. \A i \in 0..n : g[i] = IF i = 0 THEN 0 ELSE g[i-1] + FlowBytes(flowLog[i])
    BY <2>1 DEF Sums
  <2>5. ASSUME NEW i \in 0..(n+1)
        PROVE  h[i] = IF i = 0 THEN 0 ELSE h[i-1] + FlowBytes(flowLog'[i])
    <3>1. CASE i = n + 1
      BY <2>2, <2>3, <3>1
    <3>2. CASE i \in 1..n
      BY <2>2, <2>3, <2>4, <3>2
    <3>3. CASE i = 0
      BY <2>2, <2>4, <3>3
    <3> QED BY <2>2, <3>1, <3>2, <3>3
  <2>6. h = [i \in 0..(n+1) |-> IF i = 0 THEN 0 ELSE h[i-1] + FlowBytes(flowLog'[i])]
    BY <2>5
  <2>7. Sums(h, flowLog')
    BY <2>2, <2>6 DEF Sums
  <2>8. h[Len(flowLog')] = totalBytes'
    BY <1>2, <2>1, <2>2 DEF LogFlow
  <2>9. flowCount' = Len(flowLog') /\ flowCount' <= MaxFlows /\ totalBytes' <= MaxTotalBytes
    BY <1>2, <2>2, SessionAssumption DEF LogFlow, LogAccepts, Inv5, Inv1, TypeOK
  <2>10. \E k : Sums(k, flowLog') /\ k[Len(flowLog')] = totalBytes'
    BY <2>7, <2>8
  <2> QED BY <2>9, <2>10 DEF Inv5, Sums, FlowBytes
<1> QED BY <1>1, <1>2, LogStep DEF Inv1

(* LimitsExact: flow_count and total_bytes, checked and advanced under the  *)
(* flow-log lock, are what a reader of flows.jsonl counts and sums, and     *)
(* neither limit is ever passed.                                            *)
THEOREM LimitsHold == Spec => []LimitsExact
<1>1. Inv1 /\ Inv5 => LimitsExact
  <2> SUFFICES ASSUME Inv1, Inv5 PROVE LimitsExact
    OBVIOUS
  <2>1. PICK g : Sums(g, flowLog) /\ g[Len(flowLog)] = totalBytes
    BY DEF Inv5
  <2>2. totalBytes = LogBytes
    BY <2>1, LogBytesSums DEF Inv1
  <2> QED BY <2>2 DEF Inv5, LimitsExact
<1> QED
  BY <1>1, InitInv1, NextInv1, InitInv5, NextInv5, PTL DEF Spec

-----------------------------------------------------------------------------
(* The owners' shutdown order: what the store alone cannot promise, because *)
(* a sink may outlive finish, holds once finish runs after                  *)
(* ServerHandle::wait.                                                      *)

(* What the session keeps true of tasks, log and registries: an acknowledged *)
(* exchange is logged and its events registered, ids are logged once, and    *)
(* a staging file belongs to a sink that has not been finished.              *)
Inv6 ==
  /\ \A t \in Tasks : pc[t] \in {"events", "done"} => t \in LogIds
  /\ \A t \in Tasks : pc[t] = "done" => t \in events
  /\ \A w \in WsTasks : wpc[w] \in Relaying \cup {"appended", "done"} => w \in LogIds
  /\ events \subseteq LogIds /\ convs \subseteq LogIds
  /\ \A i, j \in 1..Len(flowLog) : flowLog[i].id = flowLog[j].id => i = j
  /\ dirAt = "staging" =>
       /\ \A t \in staged \cap Tasks : pc[t] \in {"created", "writing", "staged"}
       /\ \A w \in staged \cap WsTasks : wpc[w] \in {"created", "writing"}

(* After wait, a task has ended, was never admitted, or is an orphaned sink. *)
Drained ==
  /\ \A t \in Tasks : pc[t] \in Terminal \cup {"idle"} \/ OrphanSink(t)
  /\ \A w \in WsTasks : wpc[w] \in Terminal \cup {"idle", "aborted"}

(* No sink is open and none can be opened.                                   *)
Quiet == staged = {} /\ \A t \in Tasks : pc[t] \in Terminal \cup {"idle"}

(* The progress of shutdown and finish.                                      *)
Closing ==
  /\ server \in {"serving", "stopping", "drained", "closed"}
  /\ server \in {"drained", "closed"} => Drained
  /\ fpc # "idle" => server = "closed"
  /\ fpc \notin {"idle", "active", "err"} \/ dirAt = "dest" => Quiet
  /\ fpc \in {"validate", "count", "manifest", "rename", "open", "ok"} =>
       exts.events = events /\ exts.convs = convs
  /\ fpc \in {"count", "manifest", "rename", "open"} => WsFixtureValid
  /\ fpc = "manifest" => counted.blobs = BlobFiles
  /\ fpc \in {"rename", "open"} => manifest.blobs = BlobFiles

(* No flow record is exactly max_line_bytes long: append_flow would take it, *)
(* and finish refuse it, since a reader counts the newline.                  *)
NoBoundaryLine == \A t \in Tasks \cup WsTasks : LineLen[t] # MaxLineBytes

(* Records of the log passed append_flow's check of their length.            *)
LinesAdmitted ==
  /\ \A t \in LogIds : LineLen[t] <= MaxLineBytes
  /\ \A t \in Tasks : pc[t] = "logging" => LineLen[t] <= MaxLineBytes
  /\ \A w \in WsTasks : wpc[w] = "logging" => LineLen[w] <= MaxLineBytes
-----------------------------------------------------------------------------
(* Inv6 holds of the session by itself.                                      *)

LEMMA InitInv6 == Init => Inv6 /\ LinesAdmitted
BY DEF Init, Inv6, LinesAdmitted, LogIds, Relaying

(* Appending a flow whose id is new keeps the ids distinct.                  *)
LEMMA DistinctAppend ==
  ASSUME Inv1, Inv6, NEW f \in Flow, f.id \notin LogIds, flowLog' = Append(flowLog, f)
  PROVE  \A i, j \in 1..Len(flowLog') : flowLog'[i].id = flowLog'[j].id => i = j
<1>1. flowLog \in Seq(Flow)
  BY DEF Inv1, TypeOK
<1>2. /\ Len(flowLog) \in Nat /\ Len(flowLog') = Len(flowLog) + 1
      /\ flowLog'[Len(flowLog) + 1] = f
      /\ \A i \in 1..Len(flowLog) : flowLog'[i] = flowLog[i] /\ flowLog'[i].id \in LogIds
  BY <1>1 DEF LogIds
<1> QED BY <1>2 DEF Inv6

LEMMA NextInv6 == Inv1 /\ Inv4 /\ Inv6 /\ LinesAdmitted /\ [Next]_vars => Inv6' /\ LinesAdmitted'
<1> SUFFICES ASSUME Inv1, Inv4, Inv6, LinesAdmitted, [Next]_vars PROVE Inv6' /\ LinesAdmitted'
  OBVIOUS
<1> USE DEF inner, disk, task, ws, fin
<1>1. CASE UNCHANGED vars
  BY <1>1 DEF vars, Inv6, LinesAdmitted, LogIds
<1>2. CASE Finisher \/ Crash
  <2>1. UNCHANGED <<flowLog, staged, pc, wpc, events, convs>> /\ (dirAt' = "staging" => dirAt = "staging")
    BY <1>2 DEF Finisher, Crash, FinishStart, FinishCheckActive, FinishTakeFinalizers, FinishDrive,
       FinishTakeLog, FinishExtensions, FinishValidate, FinishCount, FinishManifest, FinishRename,
       FinishOpen, FinishFails
  <2> QED BY <2>1 DEF Inv6, LinesAdmitted, LogIds
<1>3. ASSUME NEW t \in Tasks, AppendFlow(t) PROVE Inv6' /\ LinesAdmitted'
  <2> DEFINE f == [id |-> t, ws |-> FALSE, req |-> req[t], resp |-> resp[t]]
  <2>1. f \in Flow /\ f.id = t /\ t \notin LogIds
    BY <1>3 DEF AppendFlow, Inv1, TypeOK, Flow, Inv4, Logged
  <2>2. UNCHANGED <<wpc, events, convs, dirAt, staged>> /\ pc[t] = "logging"
    BY <1>3 DEF AppendFlow
  <2>3. CASE LogFlow(f) /\ Goto(t, "events")
    <3>1. LogIds' = LogIds \cup {t}
      BY <2>1, <2>3, LogIdsAppend DEF LogFlow
    <3>2. \A i, j \in 1..Len(flowLog') : flowLog'[i].id = flowLog'[j].id => i = j
      BY <2>1, <2>3, DistinctAppend DEF LogFlow
    <3>3. pc' = [pc EXCEPT ![t] = "events"] /\ pc \in [Tasks -> TaskPcs]
      BY <2>3 DEF Goto, Inv1, TypeOK
    <3> QED BY <2>2, <3>1, <3>2, <3>3 DEF Inv6, LinesAdmitted
  <2>4. CASE flowLog' = flowLog /\ Goto(t, "failed")
    <3>1. pc' = [pc EXCEPT ![t] = "failed"] /\ pc \in [Tasks -> TaskPcs]
      BY <2>4 DEF Goto, Inv1, TypeOK
    <3> QED BY <2>2, <2>4, <3>1 DEF Inv6, LinesAdmitted, LogIds
  <2> QED BY <1>3, <2>3, <2>4 DEF AppendFlow
<1>4. ASSUME NEW w \in WsTasks, WsAppendFlow(w) PROVE Inv6' /\ LinesAdmitted'
  <2> DEFINE f == [id |-> w, ws |-> TRUE, req |-> Empty, resp |-> Empty]
  <2>1. f \in Flow /\ f.id = w /\ w \notin LogIds
    BY <1>4 DEF WsAppendFlow, Flow, Ref, Inv4, WsLogged, Relaying
  <2>2. UNCHANGED <<pc, events, convs, dirAt, staged>> /\ wpc[w] = "logging"
    BY <1>4 DEF WsAppendFlow
  <2>3. CASE LogFlow(f) /\ WGoto(w, "relay")
    <3>1. LogIds' = LogIds \cup {w}
      BY <2>1, <2>3, LogIdsAppend DEF LogFlow
    <3>2. \A i, j \in 1..Len(flowLog') : flowLog'[i].id = flowLog'[j].id => i = j
      BY <2>1, <2>3, DistinctAppend DEF LogFlow
    <3>3. wpc' = [wpc EXCEPT ![w] = "relay"] /\ wpc \in [WsTasks -> WsPcs]
      BY <2>3 DEF WGoto, Inv1, TypeOK
    <3> QED BY <2>2, <3>1, <3>2, <3>3 DEF Inv6, LinesAdmitted, Relaying
  <2>4. CASE flowLog' = flowLog /\ WGoto(w, "failed")
    <3>1. wpc' = [wpc EXCEPT ![w] = "failed"] /\ wpc \in [WsTasks -> WsPcs]
      BY <2>4 DEF WGoto, Inv1, TypeOK
    <3> QED BY <2>2, <2>4, <3>1 DEF Inv6, LinesAdmitted, LogIds, Relaying
  <2> QED BY <1>4, <2>3, <2>4 DEF WsAppendFlow
<1>5. ASSUME NEW t \in Tasks, Exchange(t), ~AppendFlow(t) PROVE Inv6' /\ LinesAdmitted'
  <2> USE DEF Goto, Inv1, TypeOK
  <2>0. UNCHANGED <<flowLog, wpc, convs, dirAt>>
    BY <1>5 DEF Exchange, BeginBlob, CreateStaging, Reserve, WriteBody, AbortBody, FinishSink,
       Release, UpstreamOutcome, AppendCheck, AppendEvents
  <2>1. \A u \in Tasks : u # t => pc'[u] = pc[u]
    BY <1>5 DEF Exchange, BeginBlob, CreateStaging, Reserve, WriteBody, AbortBody, FinishSink,
       Release, UpstreamOutcome, AppendCheck, AppendEvents
  <2>2. CASE AppendEvents(t)
    <3>1. t \in LogIds
      BY <2>2 DEF AppendEvents, Inv6
    <3>2. /\ pc'[t] \in {"done", "failed"} /\ staged' = staged
          /\ events' \subseteq events \cup {t} /\ events \subseteq events'
          /\ pc'[t] = "done" => t \in events'
          /\ pc[t] = "events"
      BY <2>2 DEF AppendEvents
    <3>3. LogIds' = LogIds
      BY <2>0 DEF LogIds
    <3> QED BY <2>0, <2>1, <3>1, <3>2, <3>3 DEF Inv6, LinesAdmitted
  <2>3. CASE ~AppendEvents(t)
    <3>1. events' = events
      BY <1>5, <2>3 DEF Exchange, BeginBlob, CreateStaging, Reserve, WriteBody, AbortBody, FinishSink,
         Release, UpstreamOutcome, AppendCheck
    <3>2. /\ pc'[t] \notin {"events", "done"}
          /\ pc'[t] = "logging" => LineLen[t] <= MaxLineBytes
      BY <1>5, <2>3, SessionAssumption DEF Exchange, BeginBlob, CreateStaging, Reserve, WriteBody, AbortBody,
         FinishSink, Release, UpstreamOutcome, AppendCheck
    <3>3. /\ dirAt = "staging" => staged' \subseteq staged \cup {t}
          /\ dirAt = "staging" /\ t \in staged' => pc'[t] \in {"created", "writing", "staged"}
      BY <1>5, <2>3 DEF Exchange, BeginBlob, CreateStaging, Reserve, WriteBody, AbortBody,
         FinishSink, Release, UpstreamOutcome, AppendCheck, RemoveStaging, Inv6
    <3>4. LogIds' = LogIds
      BY <2>0 DEF LogIds
    <3>5. dirAt = "staging" => \A w \in staged' \cap WsTasks : wpc[w] \in {"created", "writing"}
      BY <3>3, SessionAssumption DEF Inv6
    <3>6. dirAt = "staging" => \A u \in staged' \cap Tasks : pc'[u] \in {"created", "writing", "staged"}
      BY <2>1, <3>3 DEF Inv6
    <3> QED BY <2>0, <2>1, <3>1, <3>2, <3>4, <3>5, <3>6 DEF Inv6, LinesAdmitted
  <2> QED BY <2>2, <2>3
<1>6. ASSUME NEW w \in WsTasks, Conversation(w) \/ WsAbort(w), ~WsAppendFlow(w)
      PROVE  Inv6' /\ LinesAdmitted'
  <2> USE DEF WGoto, Inv1, TypeOK
  <2>1. UNCHANGED <<flowLog, pc, events, dirAt>>
    BY <1>6 DEF Conversation, WsRegister, WsAppendCheck, WsBeginBlob, WsCreateStaging, WsReserve,
       WsFinishSink, WsRelease, WsAppendConversation, WsComplete, WsAbort
  <2>2. \A u \in WsTasks : u # w => wpc'[u] = wpc[u]
    BY <1>6 DEF Conversation, WsRegister, WsAppendCheck, WsBeginBlob, WsCreateStaging, WsReserve,
       WsFinishSink, WsRelease, WsAppendConversation, WsComplete, WsAbort
  <2>3. /\ wpc'[w] \in Relaying \cup {"appended", "done"} => wpc[w] \in Relaying \cup {"appended", "done"}
        /\ wpc'[w] = "logging" => LineLen[w] <= MaxLineBytes
    BY <1>6, SessionAssumption DEF Conversation, WsRegister, WsAppendCheck, WsBeginBlob, WsCreateStaging, WsReserve,
       WsFinishSink, WsRelease, WsAppendConversation, WsComplete, WsAbort, Relaying
  <2>4. convs' \subseteq convs \cup {w} /\ (convs' # convs => wpc[w] \in Relaying)
    BY <1>6 DEF Conversation, WsRegister, WsAppendCheck, WsBeginBlob, WsCreateStaging, WsReserve,
       WsFinishSink, WsRelease, WsAppendConversation, WsComplete, WsAbort, Relaying
  <2>5. /\ dirAt = "staging" => staged' \subseteq staged \cup {w}
        /\ dirAt = "staging" /\ w \in staged' => wpc'[w] \in {"created", "writing"}
    BY <1>6 DEF Conversation, WsRegister, WsAppendCheck, WsBeginBlob, WsCreateStaging, WsReserve,
       WsFinishSink, WsRelease, WsAppendConversation, WsComplete, WsAbort, RemoveStaging, Inv6
  <2>6. LogIds' = LogIds
    BY <2>1 DEF LogIds
  <2>7. convs' \subseteq LogIds
    BY <2>4 DEF Inv6
  <2>8. dirAt = "staging" => \A u \in staged' \cap WsTasks : wpc'[u] \in {"created", "writing"}
    BY <2>2, <2>5 DEF Inv6
  <2>9. dirAt = "staging" => \A t \in staged' \cap Tasks : pc[t] \in {"created", "writing", "staged"}
    BY <2>5, SessionAssumption DEF Inv6
  <2> QED BY <2>1, <2>2, <2>3, <2>6, <2>7, <2>8, <2>9 DEF Inv6, LinesAdmitted
<1> QED
  BY <1>1, <1>2, <1>3, <1>4, <1>5, <1>6 DEF Next

-----------------------------------------------------------------------------
(* A step of the gateway is a step of the session, or the session's          *)
(* shutdown flag set ahead of finish, which no invariant depends on.         *)

SessionInv == Inv1 /\ Inv2 /\ Inv3 /\ Inv4 /\ Inv5 /\ Inv6 /\ LinesAdmitted

LEMMA GStep ==
  ASSUME [GNext]_gvars PROVE [Next]_vars \/ SessionShutdown
<1>1. CASE UNCHANGED gvars
  BY <1>1 DEF gvars
<1>2. CASE GNext
  BY <1>2 DEF GNext, GExchange, GConversation, GFinisher, ServerShutdown, ServerWait, Next, Exchange
<1> QED BY <1>1, <1>2

LEMMA ShutdownFrame ==
  ASSUME SessionShutdown, SessionInv PROVE SessionInv'
<1> USE DEF inner, disk, task, ws, fin
<1>0. /\ UNCHANGED <<up, activeBlobs, logOpen, flowCount, totalBytes, events, convs, finalizers,
                 disk, task, ws, fin>>
      /\ shutdown' \in BOOLEAN
  BY DEF SessionShutdown
<1>1. Inv1'
  BY <1>0 DEF SessionInv, Inv1, TypeOK, ActiveAccounting, Open
<1>2. Inv2'
  BY <1>0 DEF SessionInv, Inv2, RefsPublished, NoDanglingRef, RawNeverPublished, RefsPresent,
     PayloadsPresent, Kept
<1>3. Inv3'
  <2>1. Order'
    BY <1>0 DEF SessionInv, Inv3, Order, LogIds
  <2>2. OkStaysValid'
    BY <1>0, <1>1, <1>2, ValidFrame DEF SessionInv, Inv2, Inv3, OkStaysValid
  <2> QED BY <2>1, <2>2 DEF Inv3
<1>4. Inv4' /\ Inv5'
  BY <1>0 DEF SessionInv, Inv4, LogIds, Inv5, Sums
<1>5. Inv6' /\ LinesAdmitted'
  BY <1>0 DEF SessionInv, Inv6, LogIds, LinesAdmitted
<1> QED BY <1>1, <1>2, <1>3, <1>4, <1>5 DEF SessionInv

LEMMA GatewaySession == GSpec => []SessionInv
<1>1. GInit => SessionInv
  BY InitInv1, InitInv2, InitInv3, InitInv4, InitInv5, InitInv6 DEF GInit, SessionInv
<1>2. SessionInv /\ [GNext]_gvars => SessionInv'
  <2> SUFFICES ASSUME SessionInv, [GNext]_gvars PROVE SessionInv'
    OBVIOUS
  <2>1. CASE [Next]_vars
    BY <2>1, NextInv1, NextInv2, NextInv3, NextInv4, NextInv5, NextInv6 DEF SessionInv
  <2> QED BY <2>1, ShutdownFrame, GStep
<1> QED BY <1>1, <1>2, PTL DEF GSpec
-----------------------------------------------------------------------------
(* The owners' shutdown order.                                               *)

(* Why finish refused: RefusalsJustified, with the boundary line as a third  *)
(* reason.                                                                   *)
Refused ==
  fpc = "err" =>
    /\ dirAt = "staging"
    /\ \/ \E w \in WsTasks : w \in LogIds /\ w \notin convs
       \/ \E t \in Tasks : req[t] = NoRef /\ pc[t] \in {"writing", "aborting", "failed"}
       \/ \E t \in LogIds : LineLen[t] = MaxLineBytes

(* Once wait has returned only orphaned sinks still move.                    *)
LEMMA AfterWait ==
  ASSUME SessionInv, Closing, server \in {"drained", "closed"}
  PROVE  /\ \A w \in WsTasks : ~GConversation(w)
         /\ \A t \in Tasks : GExchange(t) => OrphanSink(t) /\ (AbortBody(t) \/ Release(t))
<1>1. ASSUME NEW w \in WsTasks PROVE ~GConversation(w)
  <2>1. wpc[w] \in {"done", "failed", "idle", "aborted"}
    BY DEF Closing, Drained, Terminal
  <2> QED BY <2>1 DEF GConversation, Conversation, WsRegister, WsAppendCheck, WsAppendFlow,
       WsBeginBlob, WsCreateStaging, WsReserve, WsFinishSink, WsRelease,
     WsAppendConversation, WsComplete, WsAbort
<1>2. ASSUME NEW t \in Tasks, GExchange(t) PROVE OrphanSink(t) /\ (AbortBody(t) \/ Release(t))
  BY <1>2 DEF GExchange
<1> QED BY <1>1, <1>2

(* What an orphaned sink does: it is aborted and released, and leaves the    *)
(* log, the registries and finish alone.                                     *)
LEMMA OrphanStep ==
  ASSUME Inv1, NEW t \in Tasks, OrphanSink(t), AbortBody(t) \/ Release(t)
  PROVE  /\ UNCHANGED <<fpc, dirAt, flowLog, events, convs, exts, counted, manifest, wpc, req>>
         /\ pc'[t] \in {"aborting", "failed"}
         /\ \A u \in Tasks : u # t => pc'[u] = pc[u]
BY DEF OrphanSink, AbortBody, Release, Goto, Inv1, TypeOK, inner, disk, task, ws, fin

LEMMA LogIdsType ==
  ASSUME Inv1
  PROVE  /\ \A i \in 1..Len(flowLog) : flowLog[i].id \in LogIds
         /\ LogIds \subseteq Tasks \cup WsTasks
<1>1. \A i \in 1..Len(flowLog) : flowLog[i] \in Flow
  BY DEF Inv1, TypeOK
<1>2. \A f \in Flow : f.id \in Tasks \cup WsTasks
  BY DEF Flow
<1> QED BY <1>1, <1>2 DEF LogIds

LEMMA NextClosing ==
  ASSUME SessionInv, Closing, Refused, [GNext]_gvars PROVE Closing' /\ Refused'
<1> USE DEF inner, disk, task, ws, fin
<1>inv. Inv1 /\ Inv2 /\ Order /\ Inv5 /\ Inv6 /\ LinesAdmitted
  BY DEF SessionInv, Inv3
<1>early. ASSUME fpc = "idle", fpc' = "idle", dirAt' = dirAt,
                 server' \in {"serving", "stopping", "drained", "closed"},
                 server' \in {"drained", "closed"} => Drained'
          PROVE  Closing' /\ Refused'
  BY <1>early, <1>inv DEF Closing, Refused, Order
<1>idle. ASSUME server # "closed" PROVE fpc = "idle" /\ dirAt # "dest"
  BY <1>idle, <1>inv DEF Closing, Order
<1>1. CASE UNCHANGED <<inner, disk, task, ws, fin, server>>
  BY <1>1 DEF Closing, Refused, Drained, OrphanSink, Quiet, WsFixtureValid, PayloadsPresent, LogIds, BlobFiles
<1>2. ASSUME NEW t \in Tasks, GExchange(t) PROVE Closing' /\ Refused'
  <2>1. CASE server \in {"serving", "stopping"}
    <3>1. UNCHANGED <<fpc, dirAt, server>>
      BY <1>2, <2>1 DEF GExchange, Exchange, BeginBlob, CreateStaging, Reserve, WriteBody,
         AbortBody, FinishSink, Release, UpstreamOutcome, AppendCheck, AppendFlow, AppendEvents
    <3> QED BY <1>early, <1>idle, <2>1, <3>1
  <2>2. CASE server \in {"drained", "closed"}
    <3>1. OrphanSink(t) /\ (AbortBody(t) \/ Release(t)) /\ UNCHANGED server
      BY <1>2, <2>2, AfterWait DEF GExchange
    <3>2. /\ UNCHANGED <<fpc, dirAt, flowLog, events, convs, exts, counted, manifest, wpc, req>>
          /\ pc'[t] \in {"aborting", "failed"}
          /\ \A u \in Tasks : u # t => pc'[u] = pc[u]
      BY <3>1, <1>inv, OrphanStep
    <3>3. fpc \in {"idle", "active", "err"} /\ dirAt # "dest"
      BY <3>1 DEF Closing, Quiet, OrphanSink, Terminal
    <3>4. Drained'
      BY <2>2, <3>1, <3>2 DEF Closing, Drained, OrphanSink, Terminal
    <3>5. LogIds' = LogIds
      BY <3>2 DEF LogIds
    <3>6. Closing'
      BY <2>2, <3>1, <3>2, <3>3, <3>4 DEF Closing
    <3>7. Refused'
      <4>1. CASE fpc = "err" /\ \E w \in WsTasks : w \in LogIds /\ w \notin convs
        BY <4>1, <3>2, <3>5 DEF Refused
      <4>2. CASE fpc = "err" /\ \E u \in LogIds : LineLen[u] = MaxLineBytes
        BY <4>2, <3>2, <3>5 DEF Refused
      <4>3. CASE fpc = "err" /\ \E u \in Tasks : req[u] = NoRef /\ pc[u] \in {"writing", "aborting", "failed"}
        BY <4>3, <3>1, <3>2 DEF Refused, OrphanSink
      <4> QED BY <3>2, <4>1, <4>2, <4>3 DEF Refused
    <3> QED BY <3>6, <3>7
  <2> QED BY <2>1, <2>2 DEF Closing
<1>3. ASSUME NEW w \in WsTasks, GConversation(w) PROVE Closing' /\ Refused'
  <2>1. server \notin {"drained", "closed"}
    BY <1>3, AfterWait
  <2>2. UNCHANGED <<fpc, dirAt, server>>
    BY <1>3 DEF GConversation, Conversation, WsRegister, WsAppendCheck, WsAppendFlow,
       WsBeginBlob, WsCreateStaging, WsReserve, WsFinishSink, WsRelease,
     WsAppendConversation, WsComplete, WsAbort
  <2> QED BY <1>early, <1>idle, <2>1, <2>2 DEF Closing
<1>4. CASE ServerShutdown
  BY <1>4, <1>early, <1>idle DEF ServerShutdown, vars
<1>5. CASE ServerWait
  <2>1. Drained'
    BY <1>5 DEF ServerWait, Drained, OrphanSink, vars
  <2> QED BY <1>5, <2>1, <1>early, <1>idle DEF ServerWait, vars
<1>6. CASE SessionShutdown
  <2>1. Drained'
    BY <1>6 DEF SessionShutdown, Closing, Drained, OrphanSink
  <2> QED BY <1>6, <2>1, <1>early, <1>idle DEF SessionShutdown
<1>7. CASE GFinisher
  <2>0. server = "closed" /\ server' = server /\ Drained
    BY <1>7 DEF GFinisher, Closing
  <2>1. UNCHANGED <<flowLog, blobs, staged, pc, req, wpc, msgs>>
    BY <1>7, FinisherFrame DEF GFinisher
  <2>2. LogIds' = LogIds /\ BlobFiles' = BlobFiles /\ Drained' /\ (Quiet => Quiet')
    BY <2>0, <2>1 DEF LogIds, BlobFiles, Drained, OrphanSink, Quiet
  <2>3. CASE FinishStart
    BY <2>0, <2>1, <2>2, <2>3, <1>inv DEF FinishStart, Closing, Refused, Order
  <2>4. CASE FinishCheckActive
    <3>1. CASE activeBlobs = 0
      <4>1. \A t \in Tasks : pc[t] \notin Counted
        <5>1. Open = {}
          BY <3>1, <1>inv, OpenFinite, FS_EmptySet DEF Inv1, ActiveAccounting
        <5> QED BY <5>1 DEF Open
      <4>2. \A t \in Tasks : pc[t] \in Terminal \cup {"idle"}
        BY <4>1, <2>0 DEF Drained, OrphanSink, Counted
      <4>3. dirAt = "staging"
        BY <2>4, <1>inv DEF FinishCheckActive, Order, Inv1, TypeOK
      <4>4. staged = {}
        BY <2>0, <4>2, <4>3, <1>inv DEF Inv6, Inv1, TypeOK, Terminal, Drained
      <4>5. Quiet'
        BY <4>2, <4>4, <2>2 DEF Quiet
      <4> QED BY <2>0, <2>2, <2>4, <3>1, <4>3, <4>5 DEF FinishCheckActive, Closing, Refused
    <3>2. CASE activeBlobs # 0
      <4>1. PICK t \in Tasks : pc[t] \in Counted
        <5>1. Open # {}
          BY <3>2, <1>inv, FS_EmptySet DEF Inv1, ActiveAccounting
        <5> QED BY <5>1, <2>0 DEF Open, Drained, Terminal, WsCounted
      <4>2. OrphanSink(t)
        BY <4>1, <2>0 DEF Drained, Counted, Terminal
      <4>3. dirAt = "staging"
        BY <2>4, <1>inv DEF FinishCheckActive, Order, Inv1, TypeOK
      <4>4. req'[t] = NoRef /\ pc'[t] \in {"writing", "aborting", "failed"}
        BY <4>2, <2>1 DEF OrphanSink
      <4> QED BY <2>0, <2>2, <2>4, <3>2, <4>3, <4>4 DEF FinishCheckActive, Closing, Refused
    <3> QED BY <3>1, <3>2
  <2>5. CASE FinishTakeFinalizers \/ FinishDrive \/ FinishTakeLog
    BY <2>0, <2>2, <2>5 DEF FinishTakeFinalizers, FinishDrive, FinishTakeLog, Closing, Refused
  <2>6. CASE FinishExtensions
    BY <2>0, <2>2, <2>6 DEF FinishExtensions, Closing, Refused
  <2>7. CASE FinishValidate
    <3>0. Quiet' /\ UNCHANGED <<events, convs, exts>> /\ dirAt' = dirAt /\ dirAt = "staging"
          /\ exts.events = events /\ exts.convs = convs
      BY <2>2, <2>7, <1>inv DEF FinishValidate, Closing, Order, Inv1, TypeOK
    <3>1. CASE WsFixtureValid
      <4>1. WsFixtureValid'
        BY <2>1, <2>2, <3>0, <3>1 DEF WsFixtureValid, PayloadsPresent
      <4> QED BY <2>0, <2>2, <2>7, <3>0, <3>1, <4>1 DEF FinishValidate, Closing, Refused
    <3>2. CASE ~WsFixtureValid
      <4>1. CASE \E i \in 1..Len(flowLog) : ~(LineLen[flowLog[i].id] + 1 <= MaxLineBytes)
        <5>1. PICK i \in 1..Len(flowLog) : ~(LineLen[flowLog[i].id] + 1 <= MaxLineBytes)
          BY <4>1
        <5>2. flowLog[i].id \in LogIds /\ flowLog[i].id \in Tasks \cup WsTasks
          BY <1>inv, LogIdsType
        <5>3. LineLen[flowLog[i].id] \in Nat /\ MaxLineBytes \in Nat
          BY <5>2, SessionAssumption
        <5>4. LineLen[flowLog[i].id] = MaxLineBytes
          BY <5>1, <5>2, <5>3, <1>inv DEF LinesAdmitted
        <5> QED BY <2>0, <2>2, <2>7, <3>0, <3>2, <5>2, <5>4 DEF FinishValidate, Closing, Refused
      <4>2. CASE {f \in LogIds : f \in WsTasks} # exts.convs
        <5>1. \E w \in WsTasks : w \in LogIds /\ w \notin convs
          BY <4>2, <3>0, <1>inv DEF Inv6, Inv1, TypeOK
        <5> QED BY <2>0, <2>2, <2>7, <3>0, <3>2, <5>1 DEF FinishValidate, Closing, Refused
      <4>3. \A w \in exts.convs : PayloadsPresent(w)
        BY <1>inv DEF Inv2, NoDanglingRef, Inv1, TypeOK
      <4> QED BY <3>2, <4>1, <4>2, <4>3 DEF WsFixtureValid
    <3> QED BY <3>1, <3>2
  <2>8. CASE FinishCount
    <3>1. WsFixtureValid'
      BY <2>1, <2>2, <2>8 DEF FinishCount, Closing, WsFixtureValid, PayloadsPresent
    <3> QED BY <2>0, <2>2, <2>8, <3>1, <1>inv DEF FinishCount, Closing, Refused, Inv1, TypeOK, Counts
  <2>9. CASE FinishManifest
    <3>1. WsFixtureValid'
      BY <2>1, <2>2, <2>9 DEF FinishManifest, Closing, WsFixtureValid, PayloadsPresent
    <3> QED BY <2>0, <2>2, <2>9, <3>1 DEF FinishManifest, NewManifest, Closing, Refused
  <2>10. CASE FinishRename
    <3>1. WsFixtureValid'
      BY <2>1, <2>2, <2>10 DEF FinishRename, Closing, WsFixtureValid, PayloadsPresent
    <3> QED BY <2>0, <2>2, <2>10, <3>1 DEF FinishRename, Closing, Refused
  <2>11. CASE FinishOpen
    <3>1. Len(flowLog) <= MaxFlows /\ LogBytes <= MaxTotalBytes
      <4>1. PICK g : Sums(g, flowLog) /\ g[Len(flowLog)] = totalBytes
        BY <1>inv DEF Inv5
      <4>2. LogBytes = totalBytes
        BY <4>1, <1>inv, LogBytesSums DEF Inv1
      <4> QED BY <4>2, <1>inv DEF Inv5
    <3>2. ValidSession
      BY <2>11, <3>1, <1>inv DEF FinishOpen, ValidSession, Closing, Order, Inv2, NoDanglingRef, Inv6
    <3>3. fpc' = "ok"
      BY <2>11, <3>2 DEF FinishOpen
    <3> QED BY <2>0, <2>2, <2>11, <3>3 DEF FinishOpen, Closing, Refused
  <2>12. CASE FinishFails
    BY <2>0, <2>2, <2>12, <1>inv DEF FinishFails, Closing, Refused, Order
  <2> QED BY <1>7, <2>3, <2>4, <2>5, <2>6, <2>7, <2>8, <2>9, <2>10, <2>11, <2>12 DEF GFinisher, Finisher
<1> QED
  BY <1>1, <1>2, <1>3, <1>4, <1>5, <1>6, <1>7 DEF GNext, gvars, vars, Crash

LEMMA GatewayInvariants == GSpec => [](SessionInv /\ Closing /\ Refused)
<1>1. GInit => Closing /\ Refused
  BY DEF GInit, Init, Closing, Refused
<1>2. SessionInv /\ Closing /\ Refused /\ [GNext]_gvars => Closing' /\ Refused'
  BY NextClosing
<1> QED BY <1>1, <1>2, GatewaySession, PTL DEF GSpec

(* NoStagingPublished: when finish runs after wait it either meets an open   *)
(* sink and refuses, or no sink can be opened any more, so the directory it  *)
(* renames holds no staging file.                                            *)
THEOREM StagingNeverPublished == GSpec => []NoStagingPublished
<1>1. Closing => NoStagingPublished
  BY DEF Closing, Quiet, NoStagingPublished
<1> QED BY <1>1, GatewayInvariants, PTL

(* AcknowledgedPublished: an exchange or a conversation whose client was     *)
(* answered is in the fixture that finish returns, events and transcript     *)
(* included.                                                                 *)
THEOREM AcknowledgedArePublished == GSpec => []AcknowledgedPublished
<1>1. SessionInv /\ Closing => AcknowledgedPublished
  BY DEF SessionInv, Inv3, Order, Inv6, Closing, AcknowledgedPublished
<1> QED BY <1>1, GatewayInvariants, PTL

(* RefusalsJustified: finish refuses only before the rename, and only for an *)
(* incomplete conversation or a request sink that outlived its exchange;     *)
(* provided no record is exactly max_line_bytes long, which append_flow      *)
(* admits and finish refuses.                                                *)
THEOREM RefusalsAreJustified ==
  ASSUME NoBoundaryLine PROVE GSpec => []RefusalsJustified
<1>1. SessionInv /\ Refused => RefusalsJustified
  <2> SUFFICES ASSUME SessionInv, Refused PROVE RefusalsJustified
    OBVIOUS
  <2>1. \A t \in LogIds : LineLen[t] # MaxLineBytes
    BY LogIdsType DEF NoBoundaryLine, SessionInv
  <2> QED BY <2>1 DEF Refused, RefusalsJustified
<1> QED BY <1>1, GatewayInvariants, PTL
==============================================================================
