-------------------------- MODULE DownloadsProofs --------------------------
(* What downloads leave on disk and tell their listeners, for any files,     *)
(* downloads, streams and capacities.                                       *)
EXTENDS Downloads, SequenceTheorems, TLAPS

\* Without a server there are no tasks and no streams; before it runs, the
\* file that is fetched is the one asked for.
Quiet ==
  /\ process # "up" => waiting = <<>> /\ attached = {}
  /\ process = "off" => out = "closed"
  /\ process = "boot" => model \in Files /\ out # "unlinked"

\* The open file belongs to the task that holds the lock.
Writer ==
  process = "up" /\ out # "closed" =>
    waiting # <<>> /\ status[Head(waiting)] = "downloading"

\* A file that is fetched at the start is usable only when it is whole.
Fetched ==
  process = "boot" /\ out = "closed" => ~Usable(model) \/ file[model] = "complete"

\* The files before and during the first start.
FirstFiles ==
  /\ starts = 0 => process = "off" /\ \A f \in Files : file[f] = "none"
  /\ starts = 1 /\ process = "boot" =>
       \A f \in Files : file[f] = "partial" => f = model /\ out = "open"

\* A stream follows a download that there is.
Follows ==
  \A l \in attached : watching[l] \in Downloads /\ status[watching[l]] # "absent"

FilesInv == Quiet /\ Writer /\ Fetched /\ FirstFiles /\ PartialHasCause
ViewInv  == Follows /\ ViewReachesStatus

-----------------------------------------------------------------------------
\* Sequences of events.

\* Events that fit are appended, others cut off.
LEMMA FittingType ==
  ASSUME NEW v \in Seq(Statuses), NEW events \in Seq(Statuses)
  PROVE  /\ Fitting(v, events) \in Seq(Statuses)
         /\ Len(v) + Len(events) <= Cap + 1 /\ events # <<>> =>
              /\ Fitting(v, events) # <<>>
              /\ Fitting(v, events)[Len(Fitting(v, events))] = events[Len(events)]
<1>1. /\ v \o events \in Seq(Statuses) /\ Len(v \o events) = Len(v) + Len(events)
      /\ \A i \in 1..Len(events) : (v \o events)[Len(v) + i] = events[i]
  BY ConcatProperties
<1>2. Cap \in Nat \ {0}
  BY DownloadsAssumption
<1>3. CASE Len(v) + Len(events) <= Cap + 1
  <2>1. Fitting(v, events) = v \o events
    BY <1>3 DEF Fitting
  <2>2. events # <<>> => Len(events) \in 1..Len(events) /\ Len(v \o events) > 0
    BY <1>1, EmptySeq, LenProperties
  <2> QED
    BY <1>1, <2>1, <2>2
<1>4. CASE ~(Len(v) + Len(events) <= Cap + 1)
  <2>1. Fitting(v, events) = SubSeq(v \o events, 1, Cap + 1)
    BY <1>4 DEF Fitting
  <2>2. Len(v) \in Nat /\ Len(events) \in Nat
    OBVIOUS
  <2>3. Cap + 1 <= Len(v \o events)
    BY <1>1, <1>2, <1>4, <2>2
  <2>4. SubSeq(v \o events, 1, Cap + 1) \in Seq(Statuses)
    BY <1>1, <1>2, <2>2, <2>3, SubSeqProperties
  <2> QED
    BY <1>4, <2>1, <2>4
<1> QED
  BY <1>3, <1>4

\* A broadcast keeps types, and streams that stay attached end in its last event.
LEMMA BroadcastType ==
  ASSUME DownloadsTypeOK, NEW d \in Downloads, NEW events \in Seq(Statuses),
         Broadcast(d, events)
  PROVE  /\ view' \in [Listeners -> Seq(Statuses)] /\ attached' \subseteq attached
         /\ watching' = watching
         /\ events # <<>> =>
              \A l \in attached' : watching[l] = d =>
                /\ view'[l] # <<>>
                /\ view'[l][Len(view'[l])] = events[Len(events)]
         /\ \A l \in attached' : watching[l] # d => view'[l] = view[l]
<1> USE DEF DownloadsTypeOK
<1>1. /\ view' = [l \in Listeners |->
                    IF l \in Following(d) THEN Fitting(view[l], events) ELSE view[l]]
      /\ attached' = Kept(d, events) /\ watching' = watching
  BY DEF Broadcast
<1>2. \A l \in Listeners : view[l] \in Seq(Statuses)
  OBVIOUS
<1>3. view' \in [Listeners -> Seq(Statuses)]
  BY <1>1, <1>2, FittingType
<1>4. attached' \subseteq attached /\ attached' \subseteq Listeners
  BY <1>1 DEF Kept
<1>5. ASSUME NEW l \in attached', watching[l] = d, events # <<>>
      PROVE  /\ view'[l] # <<>>
             /\ view'[l][Len(view'[l])] = events[Len(events)]
  <2>1. l \in Following(d) /\ l \in Listeners /\ Len(view[l]) + Len(events) <= Cap + 1
    BY <1>1, <1>4, <1>5 DEF Following, Kept
  <2>2. view'[l] = Fitting(view[l], events)
    BY <1>1, <2>1
  <2> QED
    BY <1>2, <1>5, <2>1, <2>2, FittingType
<1>6. \A l \in attached' : watching[l] # d => view'[l] = view[l]
  BY <1>1, <1>4 DEF Following
<1> QED
  BY <1>1, <1>3, <1>4, <1>5, <1>6

\* The end of a task: its last event is its last status.
LEMMA EndsFact ==
  ASSUME DownloadsTypeOK, NEW d \in Downloads, NEW got \in BOOLEAN,
         NEW events \in Seq(Statuses), Ends(d, got, events), waiting # <<>>
  PROVE  \E end \in Final :
           /\ status' = [status EXCEPT ![d] = end]
           /\ waiting' = Tail(waiting) /\ waiting' \in Seq(Downloads)
           /\ Append(events, end) \in Seq(Statuses) /\ Append(events, end) # <<>>
           /\ Append(events, end)[Len(Append(events, end))] = end
           /\ Broadcast(d, Append(events, end))
<1> DEFINE end == IF d \in flags THEN "cancelled" ELSE IF got THEN "completed" ELSE "failed"
<1>1. end \in Final /\ end \in Statuses
  BY DEF Final, Statuses
<1>2. /\ status' = [status EXCEPT ![d] = end] /\ waiting' = Tail(waiting)
      /\ Broadcast(d, Append(events, end))
  BY DEF Ends
<1> HIDE DEF end
<1>3. /\ Append(events, end) \in Seq(Statuses) /\ Append(events, end) # <<>>
      /\ Append(events, end)[Len(Append(events, end))] = end
  BY <1>1, AppendProperties
<1>4. waiting' \in Seq(Downloads)
  BY <1>2, HeadTailProperties DEF DownloadsTypeOK
<1> QED
  BY <1>1, <1>2, <1>3, <1>4

-----------------------------------------------------------------------------
\* Types.

LEMMA HolderFact ==
  ASSUME DownloadsTypeOK, NEW d \in Downloads, NEW s, Holder(d, s)
  PROVE  /\ waiting # <<>> /\ d = Head(waiting) /\ status[d] = s
         /\ Tail(waiting) \in Seq(Downloads)
BY HeadTailProperties DEF Holder, DownloadsTypeOK

LEMMA GoneType == ASSUME Gone PROVE
  /\ process' = "off" /\ model' = None /\ waiting' = <<>> /\ out' = "closed" /\ attached' = {}
  /\ status' \in [Downloads -> Statuses \cup {"absent"}] /\ error' = {} /\ flags' = {}
  /\ watching' \in [Listeners -> Downloads \cup {None}]
  /\ view' \in [Listeners -> Seq(Statuses)]
BY EmptySeq DEF Gone

LEMMA DeletedType ==
  ASSUME DownloadsTypeOK, NEW f \in Files, Delete(f)
  PROVE  /\ process = "up" /\ hashed' \subseteq hashed
         /\ file' = [file EXCEPT ![f] = "none"]
         /\ out' = Unlinked(f) /\ out' \in {"closed", "open", "unlinked"}
         /\ UNCHANGED <<process, starts, model, taskVars, listenVars>>
BY DEF Delete, Unlinked, DownloadsTypeOK

LEMMA TypeInduction ==
  ASSUME DownloadsTypeOK, Quiet, [DownloadsNext]_downloadVars
  PROVE  DownloadsTypeOK'
<1> USE DownloadsAssumption DEF DownloadsTypeOK
<1>1. \A s \in Statuses : <<s>> \in Seq(Statuses)
  OBVIOUS
<1>2. {"searching", "downloading", "failed"} \subseteq Statuses
  BY DEF Statuses, Final
<1>3. ASSUME NEW d \in Downloads, StartDownload(d) \/ CancelDownload(d)
      PROVE  DownloadsTypeOK'
  <2>1. CASE StartDownload(d)
    <3>1. Append(waiting, d) \in Seq(Downloads)
      BY AppendProperties
    <3> QED
      BY <2>1, <3>1 DEF StartDownload, fileVars, listenVars, Statuses
  <2>2. CASE CancelDownload(d)
    BY <2>2 DEF CancelDownload, fileVars, listenVars
  <2> QED
    BY <1>3, <2>1, <2>2
<1>4. ASSUME NEW d \in Downloads, Search(d) \/ Request(d)
      PROVE  DownloadsTypeOK'
  <2>1. PICK s \in {"searching", "downloading"} :
          status' = [status EXCEPT ![d] = s] /\ Broadcast(d, <<s>>)
    BY <1>4 DEF Search, Request
  <2>2. s \in Statuses /\ <<s>> \in Seq(Statuses)
    BY <1>1, <1>2
  <2>3. UNCHANGED <<fileVars, error, flags, waiting>>
    BY <1>4 DEF Search, Request
  <2>4. view' \in [Listeners -> Seq(Statuses)] /\ attached' \subseteq attached /\ watching' = watching
    BY <2>1, <2>2, BroadcastType
  <2> QED
    BY <2>1, <2>2, <2>3, <2>4 DEF fileVars
<1>5. ASSUME NEW d \in Downloads, SearchFails(d)
      PROVE  DownloadsTypeOK'
  <2>1. view' \in [Listeners -> Seq(Statuses)] /\ attached' \subseteq attached /\ watching' = watching
    <3>1. Broadcast(d, <<"failed">>) /\ <<"failed">> \in Seq(Statuses)
      BY <1>1, <1>2, <1>5 DEF SearchFails
    <3> QED
      BY <3>1, BroadcastType
  <2>2. waiting' \in Seq(Downloads)
    BY <1>5, HolderFact DEF SearchFails
  <2> QED
    BY <1>2, <1>5, <2>1, <2>2 DEF SearchFails, fileVars
<1>6. ASSUME NEW d \in Downloads, NEW got \in BOOLEAN, NEW events \in Seq(Statuses),
             Ends(d, got, events), waiting # <<>>,
             file' \in [Files -> {"none", "partial", "complete"}],
             out' \in {"closed", "open", "unlinked"}, error' \subseteq Downloads,
             UNCHANGED <<process, starts, model, hashed, flags>>
      PROVE  DownloadsTypeOK'
  <2>1. PICK end \in Final : /\ status' = [status EXCEPT ![d] = end]
                             /\ waiting' \in Seq(Downloads)
                             /\ Append(events, end) \in Seq(Statuses)
                             /\ Broadcast(d, Append(events, end))
    BY <1>6, EndsFact
  <2>2. view' \in [Listeners -> Seq(Statuses)] /\ attached' \subseteq attached /\ watching' = watching
    BY <2>1, BroadcastType
  <2> QED
    BY <1>6, <2>1, <2>2 DEF Statuses
<1>7. ASSUME NEW d \in Downloads,
             FoundOnDisk(d) \/ ChunkCancelled(d) \/ Received(d) \/ Breaks(d)
      PROVE  DownloadsTypeOK'
  <2>1. <<>> \in Seq(Statuses) /\ <<"downloading">> \in Seq(Statuses) /\ waiting # <<>>
    <3>1. Holder(d, "searching") \/ Holder(d, "downloading")
      BY <1>7 DEF FoundOnDisk, ChunkCancelled, Received, Breaks
    <3>2. <<>> \in Seq(Statuses) /\ <<"downloading">> \in Seq(Statuses)
      BY <1>1, <1>2
    <3> QED
      BY <3>1, <3>2 DEF Holder
  <2>2. CASE FoundOnDisk(d)
    BY <1>6, <2>1, <2>2 DEF FoundOnDisk, fileVars
  <2>3. CASE ChunkCancelled(d)
    BY <1>6, <2>1, <2>3 DEF ChunkCancelled
  <2>4. CASE Received(d)
    BY <1>6, <2>1, <2>4 DEF Received
  <2>5. CASE Breaks(d)
    BY <1>6, <2>1, <2>5 DEF Breaks
  <2> QED
    BY <1>7, <2>2, <2>3, <2>4, <2>5
<1>8. ASSUME NEW d \in Downloads, Respond(d)
      PROVE  DownloadsTypeOK'
  BY <1>8 DEF Respond, taskVars, listenVars
<1>9. ASSUME NEW d \in Downloads, Chunk(d)
      PROVE  DownloadsTypeOK'
  <2>1. view' \in [Listeners -> Seq(Statuses)] /\ attached' \subseteq attached /\ watching' = watching
    BY <1>1, <1>2, <1>9, BroadcastType DEF Chunk
  <2> QED
    BY <1>9, <2>1 DEF Chunk, fileVars, taskVars
<1>10. ASSUME NEW l \in Listeners, NEW d \in Downloads, Listen(l, d)
       PROVE  DownloadsTypeOK'
  <2>1. <<status[d]>> \in Seq(Statuses)
    BY <1>10 DEF Listen
  <2> QED
    BY <1>10, <2>1 DEF Listen, fileVars, taskVars
<1>11. ASSUME NEW l \in Listeners, Closes(l), UNCHANGED <<fileVars, taskVars>>
       PROVE  DownloadsTypeOK'
  BY <1>11, EmptySeq DEF Closes, fileVars, taskVars
<1>12. ASSUME NEW l \in Listeners, Send(l) \/ Disconnect(l)
       PROVE  DownloadsTypeOK'
  <2>1. CASE view' = [view EXCEPT ![l] = Tail(@)] /\ Len(view[l]) > 1
             /\ UNCHANGED <<watching, attached, fileVars, taskVars>>
    <3>1. view[l] \in Seq(Statuses) /\ view[l] # <<>>
      BY <2>1
    <3>2. Tail(view[l]) \in Seq(Statuses)
      BY <3>1, HeadTailProperties
    <3> QED
      BY <2>1, <3>2 DEF fileVars, taskVars
  <2> QED
    BY <1>11, <1>12, <2>1 DEF Send, Disconnect
<1>13. ASSUME NEW f \in Files, Delete(f)
       PROVE  DownloadsTypeOK'
  BY <1>13, DeletedType DEF taskVars, listenVars
<1>14. ASSUME NEW f \in Files \cup {None}, Start(f)
       PROVE  DownloadsTypeOK'
  BY <1>14 DEF Start, taskVars, listenVars
<1>15. CASE BootOpens \/ BootReceives
  BY <1>15 DEF BootOpens, BootReceives, taskVars, listenVars
<1>16. CASE BootSaves
  <2>1. hashed' \subseteq Files
    BY <1>16 DEF BootSaves, Quiet
  <2> QED
    BY <1>16, <2>1 DEF BootSaves, taskVars, listenVars
<1>17. CASE Stop \/ StopInSave
  <2>1. Gone /\ starts' = starts /\ hashed' \subseteq hashed
        /\ file' \in [Files -> {"none", "partial", "complete"}]
    BY <1>17 DEF Stop, StopInSave
  <2> QED
    BY <2>1, GoneType
<1>18. CASE UNCHANGED downloadVars
  BY <1>18 DEF downloadVars, fileVars, taskVars, listenVars
<1> QED
  BY <1>3, <1>4, <1>5, <1>7, <1>8, <1>9, <1>10, <1>12, <1>13, <1>14, <1>15, <1>16,
     <1>17, <1>18 DEF DownloadsNext, Work

-----------------------------------------------------------------------------
\* The files.

\* What touches no file, and not the holder of the lock while it writes, keeps
\* all that is said of files.
LEMMA FilesUntouched ==
  ASSUME FilesInv, UNCHANGED fileVars, error \subseteq error',
         process = "up" \/ UNCHANGED <<waiting, attached>>,
         process = "up" /\ out # "closed" =>
           /\ waiting' # <<>> /\ Head(waiting') = Head(waiting)
           /\ status'[Head(waiting)] = status[Head(waiting)]
  PROVE  FilesInv'
<1> USE DEF FilesInv, fileVars
<1>1. Quiet'
  BY DEF Quiet
<1>2. Writer'
  BY DEF Writer
<1>3. Fetched' /\ FirstFiles'
  BY DEF Fetched, FirstFiles, Usable
<1>4. PartialHasCause'
  BY DEF PartialHasCause
<1> QED
  BY <1>1, <1>2, <1>3, <1>4

\* A task that is not downloading has no open file.
LEMMA NoOpenFile ==
  ASSUME DownloadsTypeOK, FilesInv, NEW d \in Downloads, NEW s, Holder(d, s)
  PROVE  /\ process = "up" /\ waiting # <<>> /\ Head(waiting) = d
         /\ s # "downloading" => out = "closed"
BY HolderFact DEF FilesInv, Quiet, Writer

\* When the holder of the lock ends, its file is closed; the others are as
\* before, and its own is not partial, or it reports an error.
LEMMA FilesAtEnd ==
  ASSUME DownloadsTypeOK, FilesInv, NEW d \in Downloads, Holder(d, "downloading"),
         out' = "closed", error \subseteq error',
         UNCHANGED <<process, starts, model, hashed>>,
         \A f \in Files : f # FileOf[d] => file'[f] = file[f],
         \/ file'[FileOf[d]] # "partial" \/ d \in error'
         \/ out # "open" /\ file'[FileOf[d]] = file[FileOf[d]]
  PROVE  FilesInv'
<1> USE DEF FilesInv
<1>1. process = "up" /\ waiting # <<>> /\ Head(waiting) = d
  BY NoOpenFile
<1>2. Quiet' /\ Writer' /\ Fetched' /\ FirstFiles'
  BY <1>1 DEF Quiet, Writer, Fetched, FirstFiles
<1>3. PartialHasCause'
  <2> SUFFICES ASSUME starts = 1, NEW f \in Files, file'[f] = "partial"
               PROVE  \E e \in error' : FileOf[e] = f
    BY DEF PartialHasCause
  <2>1. CASE f = FileOf[d] /\ d \in error'
    BY <2>1
  <2>2. CASE f # FileOf[d] \/ (out # "open" /\ file'[f] = file[f])
    <3>1. file[f] = "partial" /\ ~(out = "open" /\ FileOf[Head(waiting)] = f)
      BY <1>1, <2>2
    <3> QED
      BY <1>1, <3>1 DEF PartialHasCause
  <2> QED
    BY <2>1, <2>2
<1> QED
  BY <1>2, <1>3

LEMMA FilesInduction ==
  ASSUME DownloadsTypeOK, FilesInv, [DownloadsNext]_downloadVars
  PROVE  FilesInv'
<1>0. /\ FileOf \in [Downloads -> Files] /\ None \notin Files
      /\ file \in [Files -> {"none", "partial", "complete"}]
  BY DownloadsAssumption DEF DownloadsTypeOK
<1>1. ASSUME NEW d \in Downloads, StartDownload(d)
      PROVE  FilesInv'
  <2>1. process = "up" /\ UNCHANGED fileVars /\ error' = error
    BY <1>1 DEF StartDownload
  <2>2. ASSUME out # "closed"
        PROVE  /\ waiting' # <<>> /\ Head(waiting') = Head(waiting)
               /\ status'[Head(waiting)] = status[Head(waiting)]
    <3>1. waiting # <<>> /\ status[Head(waiting)] = "downloading"
      BY <2>1, <2>2 DEF FilesInv, Writer
    <3>2. waiting \in Seq(Downloads) /\ Head(waiting) \in Downloads
      BY <3>1, HeadTailProperties DEF DownloadsTypeOK
    <3>3. waiting' = Append(waiting, d) /\ status[d] = "absent"
          /\ status' = [status EXCEPT ![d] = "pending"]
      BY <1>1 DEF StartDownload
    <3>4. waiting' # <<>> /\ Head(waiting') = Head(waiting)
      BY <3>1, <3>2, <3>3, AppendProperties, HeadTailAppend
    <3>5. status'[Head(waiting)] = status[Head(waiting)]
      BY <3>1, <3>2, <3>3 DEF DownloadsTypeOK
    <3> QED
      BY <3>4, <3>5
  <2> QED
    BY <2>1, <2>2, FilesUntouched
<1>2. ASSUME NEW d \in Downloads, Search(d) \/ Request(d)
      PROVE  FilesInv'
  <2>1. out = "closed" /\ process = "up"
    BY <1>2, NoOpenFile DEF Search, Request
  <2>2. UNCHANGED fileVars /\ error' = error
    BY <1>2 DEF Search, Request
  <2> QED
    BY <2>1, <2>2, FilesUntouched
<1>3. ASSUME NEW d \in Downloads, SearchFails(d) \/ FoundOnDisk(d)
      PROVE  FilesInv'
  <2>1. out = "closed" /\ process = "up"
    <3>1. Holder(d, "searching")
      BY <1>3 DEF SearchFails, FoundOnDisk
    <3> QED
      BY <3>1, NoOpenFile
  <2>2. UNCHANGED fileVars /\ error \subseteq error'
    BY <1>3 DEF SearchFails, FoundOnDisk
  <2> QED
    BY <2>1, <2>2, FilesUntouched
<1>4. ASSUME NEW d \in Downloads, CancelDownload(d) \/ Chunk(d)
      PROVE  FilesInv'
  <2>1. UNCHANGED <<fileVars, status, waiting, error>>
    BY <1>4 DEF CancelDownload, Chunk, taskVars
  <2>2. process = "up"
    BY <1>4, NoOpenFile DEF CancelDownload, Chunk
  <2>3. process = "up" /\ out # "closed" => waiting # <<>>
    BY DEF FilesInv, Writer
  <2> QED
    BY <2>1, <2>2, <2>3, FilesUntouched
<1>5. ASSUME UNCHANGED <<fileVars, taskVars>>, attached' \subseteq attached \/ process = "up"
      PROVE  FilesInv'
  <2>1. process = "up" \/ attached' = attached
    BY <1>5 DEF FilesInv, Quiet
  <2>2. process = "up" /\ out # "closed" => waiting # <<>>
    BY DEF FilesInv, Writer
  <2> QED
    BY <1>5, <2>1, <2>2, FilesUntouched DEF taskVars
<1>6. ASSUME NEW l \in Listeners,
             Send(l) \/ Disconnect(l) \/ \E d \in Downloads : Listen(l, d)
      PROVE  FilesInv'
  BY <1>5, <1>6 DEF Send, Disconnect, Listen, Closes
<1>7. ASSUME NEW d \in Downloads, Respond(d)
      PROVE  FilesInv'
  <2>1. /\ process = "up" /\ waiting # <<>> /\ Head(waiting) = d
        /\ status[d] = "downloading"
    BY <1>7, NoOpenFile, HolderFact DEF Respond
  <2>2. /\ file' = [file EXCEPT ![FileOf[d]] = "partial"] /\ out' = "open"
        /\ UNCHANGED <<process, starts, model, hashed, taskVars, listenVars>>
    BY <1>7 DEF Respond
  <2>3. Quiet' /\ Writer' /\ Fetched' /\ FirstFiles'
    BY <2>1, <2>2 DEF FilesInv, Quiet, Writer, Fetched, FirstFiles, taskVars, listenVars
  <2>4. PartialHasCause'
    <3>1. out = "closed"
      BY <1>7 DEF Respond
    <3>2. \A f \in Files : f # FileOf[d] => file'[f] = file[f]
      BY <1>0, <2>2
    <3> QED
      BY <2>1, <2>2, <3>1, <3>2 DEF FilesInv, PartialHasCause, taskVars
  <2> QED
    BY <2>3, <2>4 DEF FilesInv
<1>8. ASSUME NEW d \in Downloads, ChunkCancelled(d) \/ Received(d) \/ Breaks(d)
      PROVE  FilesInv'
  <2>1. /\ Holder(d, "downloading") /\ out' = "closed" /\ error \subseteq error'
        /\ UNCHANGED <<process, starts, model, hashed>>
    BY <1>8 DEF ChunkCancelled, Received, Breaks
  <2>2. CASE ChunkCancelled(d)
    <3>1. file' = [file EXCEPT ![FileOf[d]] = "none"]
      BY <2>2 DEF ChunkCancelled
    <3> QED
      BY <1>0, <2>1, <3>1, FilesAtEnd
  <2>3. CASE Received(d)
    <3>1. file' = IF out = "open" THEN [file EXCEPT ![FileOf[d]] = "complete"] ELSE file
      BY <2>3 DEF Received
    <3> QED
      BY <1>0, <2>1, <3>1, FilesAtEnd
  <2>4. CASE Breaks(d)
    <3>1. file' = file /\ d \in error'
      BY <2>4 DEF Breaks
    <3> QED
      BY <1>0, <2>1, <3>1, FilesAtEnd
  <2> QED
    BY <1>8, <2>2, <2>3, <2>4
<1>9. ASSUME NEW f \in Files, Delete(f)
      PROVE  FilesInv'
  <2>1. /\ process = "up" /\ file' = [file EXCEPT ![f] = "none"] /\ out' = Unlinked(f)
        /\ UNCHANGED <<process, starts, model, taskVars, listenVars>>
    BY <1>9, DeletedType
  <2>2. out = "closed" => out' = "closed"
    BY <2>1 DEF Unlinked
  <2>3. Quiet' /\ Writer' /\ Fetched' /\ FirstFiles'
    BY <2>1, <2>2 DEF FilesInv, Quiet, Writer, Fetched, FirstFiles, taskVars, listenVars
  <2>4. PartialHasCause'
    <3>1. \A g \in Files : file'[g] = "partial" => g # f /\ file[g] = "partial"
      BY <1>0, <2>1
    <3>2. out = "open" /\ FileOf[Head(waiting)] # f => out' = "open"
      BY <2>1 DEF Unlinked
    <3> QED
      BY <2>1, <3>1, <3>2 DEF FilesInv, PartialHasCause, taskVars
  <2> QED
    BY <2>3, <2>4 DEF FilesInv
<1>10. ASSUME NEW f \in Files \cup {None}, Start(f)
       PROVE  FilesInv'
  <2>1. /\ process = "off" /\ starts' = starts + 1 /\ model' = f /\ starts \in Nat
        /\ UNCHANGED <<file, hashed, out, taskVars, listenVars>>
    BY <1>10 DEF Start, DownloadsTypeOK
  <2>2. process' = IF f = None THEN "up" ELSE IF Usable(f) THEN "up" ELSE "boot"
    BY <1>10 DEF Start
  <2>3. out = "closed" /\ waiting = <<>> /\ attached = {}
    BY <2>1 DEF FilesInv, Quiet
  <2>4. Quiet' /\ Writer'
    BY <2>1, <2>2, <2>3 DEF Quiet, Writer, taskVars, listenVars
  <2>5. Fetched'
    BY <2>1, <2>2 DEF Fetched, Usable
  <2>6. starts' = 1 => \A g \in Files : file'[g] = "none"
    BY <2>1 DEF FilesInv, FirstFiles
  <2>7. FirstFiles' /\ PartialHasCause'
    BY <2>1, <2>6 DEF FirstFiles, PartialHasCause
  <2> QED
    BY <2>4, <2>5, <2>7 DEF FilesInv
<1>11. CASE BootOpens \/ BootReceives
  <2>1. /\ process = "boot" /\ model \in Files /\ out' \in {"open", "closed"}
        /\ UNCHANGED <<process, starts, model, hashed, taskVars, listenVars>>
    BY <1>11 DEF BootOpens, BootReceives, FilesInv, Quiet
  <2>2. Quiet' /\ Writer' /\ PartialHasCause'
    BY <2>1 DEF FilesInv, Quiet, Writer, PartialHasCause, taskVars, listenVars
  <2>3. CASE BootOpens
    <3>1. file' = [file EXCEPT ![model] = "partial"] /\ out' = "open" /\ out = "closed"
      BY <2>3 DEF BootOpens
    <3> QED
      BY <1>0, <2>1, <2>2, <3>1 DEF FilesInv, Fetched, FirstFiles
  <2>4. CASE BootReceives
    <3>1. file' = [file EXCEPT ![model] = "complete"] /\ out' = "closed"
      BY <2>4 DEF BootReceives
    <3>2. file'[model'] = "complete"
      BY <1>0, <2>1, <3>1
    <3> QED
      BY <1>0, <2>1, <2>2, <3>1, <3>2 DEF FilesInv, Fetched, FirstFiles
  <2> QED
    BY <1>11, <2>3, <2>4
<1>12. CASE BootSaves
  <2>1. /\ process = "boot" /\ process' = "up" /\ out = "closed" /\ out' = "closed"
        /\ UNCHANGED <<starts, model, file, taskVars, listenVars>>
    BY <1>12 DEF BootSaves
  <2>2. starts = 1 => \A f \in Files : file[f] # "partial"
    BY <2>1 DEF FilesInv, FirstFiles
  <2> QED
    BY <2>1, <2>2 DEF FilesInv, Quiet, Writer, Fetched, FirstFiles, PartialHasCause,
                      taskVars, listenVars
<1>13. CASE Stop \/ StopInSave
  <2>1. /\ Gone /\ starts' = starts /\ process # "off"
    BY <1>13 DEF Stop, StopInSave
  <2> QED
    BY <2>1, GoneType DEF FilesInv, Quiet, Writer, Fetched, FirstFiles, PartialHasCause
<1>14. CASE UNCHANGED downloadVars
  BY <1>5, <1>14 DEF downloadVars, listenVars
<1> QED
  BY <1>1, <1>2, <1>3, <1>4, <1>6, <1>7, <1>8, <1>9, <1>10, <1>11, <1>12, <1>13, <1>14
  DEF DownloadsNext, Work

-----------------------------------------------------------------------------
\* What listeners are told.

\* A broadcast that ends in the new status keeps every stream up to date.
LEMMA ViewBroadcast ==
  ASSUME DownloadsTypeOK, ViewInv, NEW d \in Downloads, NEW s \in Statuses,
         NEW events \in Seq(Statuses), events # <<>>, events[Len(events)] = s,
         status' = [status EXCEPT ![d] = s], Broadcast(d, events)
  PROVE  ViewInv'
<1>1. /\ attached' \subseteq attached /\ watching' = watching
      /\ \A l \in attached' : watching[l] = d =>
           view'[l] # <<>> /\ view'[l][Len(view'[l])] = s
      /\ \A l \in attached' : watching[l] # d => view'[l] = view[l]
  BY BroadcastType
<1>2. /\ status'[d] = s /\ s # "absent"
      /\ \A e \in Downloads : e # d => status'[e] = status[e]
  BY DEF DownloadsTypeOK, Statuses, Final
<1>3. \A l \in attached' : watching[l] \in Downloads /\ status[watching[l]] # "absent"
  BY <1>1 DEF ViewInv, Follows
<1>4. Follows'
  BY <1>1, <1>2, <1>3 DEF Follows
<1>5. ViewReachesStatus'
  <2> SUFFICES ASSUME NEW l \in attached'
               PROVE  view'[l] # <<>> /\ view'[l][Len(view'[l])] = status'[watching[l]]
    BY <1>1 DEF ViewReachesStatus
  <2>1. CASE watching[l] = d
    BY <1>1, <1>2, <2>1
  <2>2. CASE watching[l] # d
    <3>1. view'[l] = view[l] /\ status'[watching[l]] = status[watching[l]]
      BY <1>1, <1>2, <1>3, <2>2
    <3> QED
      BY <1>1, <3>1 DEF ViewInv, ViewReachesStatus
  <2> QED
    BY <2>1, <2>2
<1> QED
  BY <1>4, <1>5 DEF ViewInv

\* So does a stream that closes.
LEMMA ViewCloses ==
  ASSUME DownloadsTypeOK, ViewInv, NEW l \in Listeners, Closes(l), status' = status
  PROVE  ViewInv'
<1>1. /\ attached' = attached \ {l}
      /\ \A m \in attached' : watching'[m] = watching[m] /\ view'[m] = view[m]
  BY DEF Closes, DownloadsTypeOK
<1> QED
  BY <1>1 DEF ViewInv, Follows, ViewReachesStatus

LEMMA ViewInduction ==
  ASSUME DownloadsTypeOK, ViewInv, [DownloadsNext]_downloadVars
  PROVE  ViewInv'
<1>1. ASSUME UNCHANGED <<status, listenVars>>
      PROVE  ViewInv'
  BY <1>1 DEF ViewInv, Follows, ViewReachesStatus, listenVars
<1>2. ASSUME NEW d \in Downloads, StartDownload(d)
      PROVE  ViewInv'
  <2>1. \A e \in Downloads : status[e] # "absent" => status'[e] = status[e]
    BY <1>2 DEF StartDownload, DownloadsTypeOK
  <2>2. \A l \in attached : status'[watching[l]] = status[watching[l]]
    BY <2>1 DEF ViewInv, Follows
  <2>3. UNCHANGED listenVars
    BY <1>2 DEF StartDownload
  <2> QED
    BY <2>2, <2>3 DEF ViewInv, Follows, ViewReachesStatus, listenVars
<1>3. ASSUME NEW d \in Downloads, NEW s \in {"searching", "downloading", "failed"},
             status' = [status EXCEPT ![d] = s], Broadcast(d, <<s>>)
      PROVE  ViewInv'
  <2>1. s \in Statuses /\ <<s>> \in Seq(Statuses)
    BY DEF Statuses, Final
  <2>2. <<s>> # <<>> /\ <<s>>[Len(<<s>>)] = s
    OBVIOUS
  <2> QED
    BY <1>3, <2>1, <2>2, ViewBroadcast
<1>4. ASSUME NEW d \in Downloads, Search(d) \/ Request(d) \/ SearchFails(d)
      PROVE  ViewInv'
  <2>1. CASE Search(d)
    BY <1>3, <2>1 DEF Search
  <2>2. CASE Request(d)
    BY <1>3, <2>2 DEF Request
  <2>3. CASE SearchFails(d)
    BY <1>3, <2>3 DEF SearchFails
  <2> QED
    BY <1>4, <2>1, <2>2, <2>3
<1>5. ASSUME NEW d \in Downloads, Chunk(d)
      PROVE  ViewInv'
  <2>1. status[d] = "downloading" /\ status' = status /\ Broadcast(d, <<"downloading">>)
    BY <1>5 DEF Chunk, Holder, taskVars
  <2>2. status' = [status EXCEPT ![d] = "downloading"]
    BY <2>1 DEF DownloadsTypeOK
  <2> QED
    BY <1>3, <2>1, <2>2
<1>6. ASSUME NEW d \in Downloads, NEW got \in BOOLEAN, NEW events \in Seq(Statuses),
             Ends(d, got, events), waiting # <<>>
      PROVE  ViewInv'
  <2>1. PICK end \in Final :
          /\ status' = [status EXCEPT ![d] = end]
          /\ Append(events, end) \in Seq(Statuses) /\ Append(events, end) # <<>>
          /\ Append(events, end)[Len(Append(events, end))] = end
          /\ Broadcast(d, Append(events, end))
    BY <1>6, EndsFact
  <2>2. end \in Statuses
    BY DEF Statuses
  <2> QED
    BY <2>1, <2>2, ViewBroadcast
<1>7. ASSUME NEW d \in Downloads,
             FoundOnDisk(d) \/ ChunkCancelled(d) \/ Received(d) \/ Breaks(d)
      PROVE  ViewInv'
  <2>1. waiting # <<>>
    BY <1>7 DEF FoundOnDisk, ChunkCancelled, Received, Breaks, Holder
  <2>2. <<>> \in Seq(Statuses) /\ <<"downloading">> \in Seq(Statuses)
    BY DEF Statuses
  <2>3. \E got \in BOOLEAN, events \in {<<>>, <<"downloading">>} : Ends(d, got, events)
    BY <1>7 DEF FoundOnDisk, ChunkCancelled, Received, Breaks
  <2> QED
    BY <1>6, <2>1, <2>2, <2>3
<1>8. ASSUME NEW l \in Listeners, NEW d \in Downloads, Listen(l, d)
      PROVE  ViewInv'
  <2>1. /\ status[d] # "absent" /\ status' = status
        /\ watching' = [watching EXCEPT ![l] = d] /\ attached' = attached \cup {l}
        /\ view' = [view EXCEPT ![l] = <<status[d]>>]
    BY <1>8 DEF Listen, taskVars
  <2>2. /\ watching'[l] = d /\ view'[l] = <<status[d]>>
        /\ \A m \in attached : m # l => watching'[m] = watching[m] /\ view'[m] = view[m]
    BY <2>1 DEF DownloadsTypeOK
  <2>3. <<status[d]>> # <<>> /\ <<status[d]>>[Len(<<status[d]>>)] = status[d]
    OBVIOUS
  <2> QED
    BY <2>1, <2>2, <2>3 DEF ViewInv, Follows, ViewReachesStatus
<1>9. ASSUME NEW l \in Listeners, Send(l) \/ Disconnect(l)
      PROVE  ViewInv'
  <2>1. CASE Closes(l) /\ UNCHANGED taskVars
    BY <2>1, ViewCloses DEF taskVars
  <2>2. CASE /\ view' = [view EXCEPT ![l] = Tail(@)] /\ Len(view[l]) > 1
             /\ UNCHANGED <<watching, attached, status>>
    <3>1. view[l] \in Seq(Statuses) /\ view[l] # <<>> /\ Len(view[l]) \in Nat
      BY <2>2 DEF DownloadsTypeOK
    <3>2. /\ Tail(view[l]) \in Seq(Statuses) /\ Len(Tail(view[l])) = Len(view[l]) - 1
          /\ \A i \in 1..Len(Tail(view[l])) : Tail(view[l])[i] = view[l][i + 1]
      BY <3>1, HeadTailProperties
    <3>3. Len(Tail(view[l])) \in 1..Len(Tail(view[l])) /\ Len(Tail(view[l])) + 1 = Len(view[l])
      BY <2>2, <3>1, <3>2
    <3>4. /\ Tail(view[l]) # <<>>
          /\ Tail(view[l])[Len(Tail(view[l]))] = view[l][Len(view[l])]
      <4> DEFINE rest == Tail(view[l])
                 n == Len(rest)
      <4>1. n \in 1..n /\ n + 1 = Len(view[l]) /\ rest \in Seq(Statuses)
        BY <3>2, <3>3
      <4>2. rest[n] = view[l][n + 1]
        BY <3>2, <4>1
      <4> HIDE DEF rest
      <4>3. rest # <<>>
        BY <4>1
      <4>4. rest[n] = view[l][Len(view[l])]
        BY <4>1, <4>2
      <4> QED
        BY <4>3, <4>4 DEF rest
    <3>5. /\ view'[l] = Tail(view[l])
          /\ \A m \in attached : m # l => view'[m] = view[m]
      BY <2>2 DEF DownloadsTypeOK
    <3>6. Follows'
      BY <2>2 DEF ViewInv, Follows
    <3>7. ViewReachesStatus'
      <4> SUFFICES ASSUME NEW m \in attached
                   PROVE  view'[m] # <<>> /\ view'[m][Len(view'[m])] = status[watching[m]]
        BY <2>2 DEF ViewReachesStatus
      <4>1. view[m][Len(view[m])] = status[watching[m]] /\ view[m] # <<>>
        BY DEF ViewInv, ViewReachesStatus
      <4>2. CASE m = l
        BY <3>4, <3>5, <4>1, <4>2
      <4>3. CASE m # l
        BY <3>5, <4>1, <4>3
      <4> QED
        BY <4>2, <4>3
    <3> QED
      BY <3>6, <3>7 DEF ViewInv
  <2> QED
    BY <1>9, <2>1, <2>2 DEF Send, Disconnect, taskVars
<1>10. CASE Stop \/ StopInSave
  <2>1. attached' = {}
    BY <1>10, GoneType DEF Stop, StopInSave
  <2> QED
    BY <2>1 DEF ViewInv, Follows, ViewReachesStatus
<1>11. ASSUME NEW d \in Downloads, CancelDownload(d) \/ Respond(d)
       PROVE  ViewInv'
  BY <1>1, <1>11 DEF CancelDownload, Respond, taskVars
<1>12. ASSUME NEW f \in Files \cup {None}, Delete(f) \/ Start(f)
       PROVE  ViewInv'
  BY <1>1, <1>12 DEF Delete, Start, taskVars
<1>13. CASE BootOpens \/ BootReceives \/ BootSaves \/ UNCHANGED downloadVars
  BY <1>1, <1>13 DEF BootOpens, BootReceives, BootSaves, downloadVars, taskVars
<1> QED
  BY <1>2, <1>4, <1>5, <1>7, <1>8, <1>9, <1>10, <1>11, <1>12, <1>13
  DEF DownloadsNext, Work

-----------------------------------------------------------------------------
\* Theorems.

DownloadsInv == DownloadsTypeOK /\ FilesInv /\ ViewInv

LEMMA DownloadsInvInit == DownloadsInit => DownloadsInv
<1> SUFFICES ASSUME DownloadsInit PROVE DownloadsInv
  OBVIOUS
<1>1. DownloadsTypeOK
  BY EmptySeq DEF DownloadsInit, DownloadsTypeOK
<1>2. FilesInv
  BY DEF DownloadsInit, FilesInv, Quiet, Writer, Fetched, FirstFiles, PartialHasCause
<1>3. ViewInv
  BY DEF DownloadsInit, ViewInv, Follows, ViewReachesStatus
<1> QED
  BY <1>1, <1>2, <1>3 DEF DownloadsInv

LEMMA DownloadsInvAlways == DownloadsSpec => []DownloadsInv
<1>1. DownloadsInv /\ [DownloadsNext]_downloadVars => DownloadsInv'
  <2> SUFFICES ASSUME DownloadsInv, [DownloadsNext]_downloadVars PROVE DownloadsInv'
    OBVIOUS
  <2>1. DownloadsTypeOK' /\ FilesInv' /\ ViewInv'
    BY TypeInduction, FilesInduction, ViewInduction DEF DownloadsInv, FilesInv
  <2> QED
    BY <2>1 DEF DownloadsInv
<1> QED
  BY <1>1, DownloadsInvInit, PTL DEF DownloadsSpec

\* Every variable keeps its type: in particular a queue holds statuses only,
\* and the lock is waited for by downloads that there are.
THEOREM DownloadsTypeCorrect == DownloadsSpec => []DownloadsTypeOK
BY DownloadsInvAlways, PTL DEF DownloadsInv

\* Neither cancellation, deletion nor the end of other downloads leaves a
\* partial file behind in the first life of the process: there is a reported
\* error, or somebody who is writing.
THEOREM PartialCorrect == DownloadsSpec => []PartialHasCause
BY DownloadsInvAlways, PTL DEF DownloadsInv, FilesInv

\* A stream that is attached leads its client to the present status.
THEOREM ViewCorrect == DownloadsSpec => []ViewReachesStatus
BY DownloadsInvAlways, PTL DEF DownloadsInv, ViewInv

\* No start serves a file that differs from its stored hash.
THEOREM VerifiedCorrect == DownloadsSpec => VerifiedStart
<1> DEFINE Verified == process # "up" /\ process' = "up" /\ model' \in hashed' =>
                         file'[model'] = "complete"
<1>1. DownloadsInv /\ [DownloadsNext]_downloadVars => [Verified]_downloadVars
  <2> SUFFICES ASSUME DownloadsTypeOK, FilesInv, DownloadsNext,
                      process # "up", process' = "up", model' \in hashed'
               PROVE  file'[model'] = "complete"
    BY DEF DownloadsInv
  <2>1. ASSUME NEW d \in Downloads, StartDownload(d) \/ CancelDownload(d) \/ Work(d) \/ Chunk(d)
        PROVE  FALSE
    <3>1. process' = process
      BY <2>1 DEF StartDownload, CancelDownload, Work, Chunk, Search, SearchFails,
                  FoundOnDisk, Request, Respond, ChunkCancelled, Received, Breaks,
                  fileVars
    <3> QED
      BY <3>1
  <2>2. ASSUME NEW l \in Listeners,
               Send(l) \/ Disconnect(l) \/ \E d \in Downloads : Listen(l, d)
        PROVE  FALSE
    BY <2>2 DEF Send, Disconnect, Listen, fileVars
  <2>3. ~(\E f \in Files : Delete(f)) /\ ~BootOpens /\ ~BootReceives /\ ~Stop /\ ~StopInSave
    BY DEF Delete, BootOpens, BootReceives, Stop, StopInSave, Gone
  <2>4. ASSUME NEW f \in Files \cup {None}, Start(f)
        PROVE  file'[model'] = "complete"
    <3>1. model' = f /\ UNCHANGED <<file, hashed>> /\ (f # None => Usable(f))
      BY <2>4 DEF Start
    <3>2. f # None
      BY <3>1, DownloadsAssumption DEF DownloadsTypeOK
    <3> QED
      BY <3>1, <3>2 DEF Usable
  <2>5. CASE BootSaves
    BY <2>5 DEF BootSaves, FilesInv, Fetched
  <2> QED
    BY <2>1, <2>2, <2>3, <2>4, <2>5 DEF DownloadsNext
<1> QED
  BY <1>1, DownloadsInvAlways, PTL DEF DownloadsSpec, VerifiedStart

-----------------------------------------------------------------------------
(* The line at _download_lock.  What EveryDownloadEnds needs of safety: no   *)
(* download is forgotten, and the holder of the lock can go on.              *)

Unfinished == {"pending", "searching", "downloading"}

\* The downloads that have not ended are those in the line, each once, and only
\* the first of them is under way.
Line ==
  /\ \A i, j \in 1..Len(waiting) : waiting[i] = waiting[j] => i = j
  /\ \A i \in 2..Len(waiting) : status[waiting[i]] = "pending"
  /\ \A d \in Downloads :
       status[d] \in Unfinished <=> \E i \in 1..Len(waiting) : waiting[i] = d

\* The holder of the lock goes on: the rest of the line stays as it is.
LEMMA LineGoesOn ==
  ASSUME DownloadsTypeOK, Line, NEW d \in Downloads, NEW s, Holder(d, s),
         NEW t \in Unfinished, status' = [status EXCEPT ![d] = t], waiting' = waiting
  PROVE  Line'
<1>1. waiting \in Seq(Downloads) /\ Len(waiting) \in Nat \ {0} /\ waiting[1] = d
  BY DEF Holder, DownloadsTypeOK
<1>2. \A i \in 2..Len(waiting) : waiting[i] # d /\ waiting[i] \in Downloads
  BY <1>1 DEF Line
<1>3. \E i \in 1..Len(waiting) : waiting[i] = d
  BY <1>1
<1> QED
  BY <1>2, <1>3 DEF Line, DownloadsTypeOK

\* The holder of the lock ends: the next in line has it.
LEMMA LineMovesUp ==
  ASSUME DownloadsTypeOK, Line, NEW d \in Downloads, NEW s, Holder(d, s),
         NEW t \in Final, status' = [status EXCEPT ![d] = t], waiting' = Tail(waiting)
  PROVE  Line'
<1>1. waiting \in Seq(Downloads) /\ Len(waiting) \in Nat \ {0} /\ waiting[1] = d
  BY DEF Holder, DownloadsTypeOK
<1>2. /\ Len(waiting') = Len(waiting) - 1
      /\ \A i \in 1..Len(waiting') : waiting'[i] = waiting[i + 1]
  BY <1>1
<1>3. \A i \in 2..Len(waiting) : waiting[i] # d /\ waiting[i] \in Downloads
  BY <1>1 DEF Line
<1>4. \A i \in 1..Len(waiting') : i + 1 \in 2..Len(waiting)
  BY <1>1, <1>2
<1>5. \A i, j \in 1..Len(waiting') : waiting'[i] = waiting'[j] => i = j
  <2> SUFFICES ASSUME NEW i \in 1..Len(waiting'), NEW j \in 1..Len(waiting'),
                      waiting'[i] = waiting'[j]
               PROVE  i = j
    OBVIOUS
  <2>1. i + 1 \in 1..Len(waiting) /\ j + 1 \in 1..Len(waiting)
    BY <1>1, <1>4
  <2>2. i + 1 = j + 1
    BY <1>2, <2>1 DEF Line
  <2> QED
    BY <1>1, <1>2, <2>2
<1>6. \A i \in 2..Len(waiting') : status'[waiting'[i]] = "pending"
  <2> SUFFICES ASSUME NEW i \in 2..Len(waiting') PROVE status'[waiting'[i]] = "pending"
    OBVIOUS
  <2>1. i \in 1..Len(waiting') /\ i + 1 \in 2..Len(waiting)
    BY <1>1, <1>2
  <2>2. waiting'[i] = waiting[i + 1] /\ status[waiting[i + 1]] = "pending"
    BY <1>2, <2>1 DEF Line
  <2> QED
    BY <1>3, <2>1, <2>2 DEF DownloadsTypeOK
<1>7. ASSUME NEW e \in Downloads
      PROVE  status'[e] \in Unfinished <=> \E i \in 1..Len(waiting') : waiting'[i] = e
  <2>1. CASE e = d
    <3>1. status'[e] \notin Unfinished
      BY <2>1 DEF DownloadsTypeOK, Final, Unfinished
    <3>2. \A i \in 1..Len(waiting') : waiting'[i] # e
      BY <1>2, <1>3, <1>4, <2>1
    <3> QED
      BY <3>1, <3>2
  <2>2. CASE e # d
    <3>1. status'[e] = status[e]
      BY <2>2 DEF DownloadsTypeOK
    <3>2. ASSUME NEW i \in 1..Len(waiting), waiting[i] = e
          PROVE  \E j \in 1..Len(waiting') : waiting'[j] = e
      <4>1. i # 1
        BY <1>1, <2>2, <3>2
      <4>2. i - 1 \in 1..Len(waiting') /\ (i - 1) + 1 = i
        BY <1>1, <1>2, <4>1
      <4> QED
        BY <1>2, <3>2, <4>2
    <3>3. ASSUME NEW j \in 1..Len(waiting'), waiting'[j] = e
          PROVE  \E i \in 1..Len(waiting) : waiting[i] = e
      <4>1. j + 1 \in 1..Len(waiting)
        BY <1>1, <1>4
      <4> QED
        BY <1>2, <3>3, <4>1
    <3> QED
      BY <3>1, <3>2, <3>3 DEF Line
  <2> QED
    BY <2>1, <2>2
<1> QED
  BY <1>5, <1>6, <1>7 DEF Line

LEMMA LineInduction ==
  ASSUME DownloadsTypeOK, Line, [DownloadsNext]_downloadVars
  PROVE  Line'
<1>1. ASSUME NEW d \in Downloads, StartDownload(d) PROVE Line'
  <2>1. /\ status[d] = "absent" /\ status' = [status EXCEPT ![d] = "pending"]
        /\ waiting' = Append(waiting, d) /\ waiting \in Seq(Downloads)
    BY <1>1 DEF StartDownload, DownloadsTypeOK
  <2>2. /\ Len(waiting') = Len(waiting) + 1 /\ Len(waiting) \in Nat
        /\ \A i \in 1..Len(waiting') :
             waiting'[i] = IF i = Len(waiting) + 1 THEN d ELSE waiting[i]
    BY <2>1
  <2>3. \A i \in 1..Len(waiting) : waiting[i] # d /\ waiting[i] \in Downloads
    BY <2>1 DEF Line, Unfinished
  <2>4. \A i \in 1..Len(waiting') : i = Len(waiting) + 1 \/ i \in 1..Len(waiting)
    BY <2>2
  <2>5. \A i, j \in 1..Len(waiting') : waiting'[i] = waiting'[j] => i = j
    BY <2>2, <2>3, <2>4 DEF Line
  <2>6. \A i \in 2..Len(waiting') : status'[waiting'[i]] = "pending"
    <3> SUFFICES ASSUME NEW i \in 2..Len(waiting') PROVE status'[waiting'[i]] = "pending"
      OBVIOUS
    <3>1. CASE i = Len(waiting) + 1
      BY <2>1, <2>2, <3>1 DEF DownloadsTypeOK
    <3>2. CASE i # Len(waiting) + 1
      <4>1. i \in 2..Len(waiting) /\ i \in 1..Len(waiting) /\ i \in 1..Len(waiting')
        BY <2>2, <3>2
      <4>2. waiting'[i] = waiting[i] /\ waiting[i] # d /\ waiting[i] \in Downloads
        BY <2>2, <2>3, <3>2, <4>1
      <4> QED
        BY <2>1, <4>1, <4>2 DEF Line, DownloadsTypeOK
    <3> QED
      BY <3>1, <3>2
  <2>7. ASSUME NEW e \in Downloads
        PROVE  status'[e] \in Unfinished <=> \E i \in 1..Len(waiting') : waiting'[i] = e
    <3>1. CASE e = d
      BY <2>1, <2>2, <3>1 DEF DownloadsTypeOK, Unfinished
    <3>2. CASE e # d
      <4>1. status'[e] = status[e]
        BY <2>1, <3>2 DEF DownloadsTypeOK
      <4>2. (\E i \in 1..Len(waiting') : waiting'[i] = e)
              <=> \E i \in 1..Len(waiting) : waiting[i] = e
        BY <2>2, <2>4, <3>2
      <4> QED
        BY <4>1, <4>2 DEF Line
    <3> QED
      BY <3>1, <3>2
  <2> QED
    BY <2>5, <2>6, <2>7 DEF Line
<1>2. ASSUME NEW d \in Downloads, Search(d) \/ Request(d) PROVE Line'
  <2>1. CASE Search(d)
    BY <2>1, LineGoesOn DEF Search, Unfinished
  <2>2. CASE Request(d)
    BY <2>2, LineGoesOn DEF Request, Unfinished
  <2> QED
    BY <1>2, <2>1, <2>2
<1>3. ASSUME NEW d \in Downloads,
             SearchFails(d) \/ FoundOnDisk(d) \/ ChunkCancelled(d) \/ Received(d) \/ Breaks(d)
      PROVE  Line'
  <2>1. PICK s \in Statuses : Holder(d, s)
    BY <1>3 DEF SearchFails, FoundOnDisk, ChunkCancelled, Received, Breaks, Statuses
  <2>2. waiting' = Tail(waiting) /\ \E t \in Final : status' = [status EXCEPT ![d] = t]
    BY <1>3 DEF SearchFails, FoundOnDisk, ChunkCancelled, Received, Breaks, Ends, Final
  <2> QED
    BY <2>1, <2>2, LineMovesUp
<1>4. CASE Stop \/ StopInSave
  <2>1. waiting' = <<>> /\ \A d \in Downloads : status'[d] = "absent"
    BY <1>4 DEF Stop, StopInSave, Gone
  <2> QED
    BY <2>1 DEF Line, Unfinished
<1>5. CASE UNCHANGED <<status, waiting>>
  BY <1>5 DEF Line
<1>6. ASSUME NEW d \in Downloads, CancelDownload(d) \/ Respond(d) \/ Chunk(d) PROVE Line'
  BY <1>5, <1>6 DEF CancelDownload, Respond, Chunk, taskVars
<1>7. ASSUME NEW l \in Listeners,
             Send(l) \/ Disconnect(l) \/ \E d \in Downloads : Listen(l, d)
      PROVE  Line'
  BY <1>5, <1>7 DEF Send, Disconnect, Listen, taskVars
<1>8. ASSUME NEW f, Delete(f) \/ Start(f) PROVE Line'
  BY <1>5, <1>8 DEF Delete, Start, taskVars
<1>9. CASE BootOpens \/ BootReceives \/ BootSaves \/ UNCHANGED downloadVars
  BY <1>5, <1>9 DEF BootOpens, BootReceives, BootSaves, downloadVars, taskVars
<1> QED
  BY <1>1, <1>2, <1>3, <1>4, <1>6, <1>7, <1>8, <1>9 DEF DownloadsNext, Work

\* No download is forgotten and none overtakes the first: those that have not
\* ended are in line for the lock, each once, and only its holder is under way.
THEOREM LineCorrect == DownloadsSpec => []Line
<1>1. DownloadsInit => Line
  BY DEF DownloadsInit, Line, Unfinished
<1> QED
  BY <1>1, DownloadsTypeCorrect, LineInduction, PTL DEF DownloadsSpec
=============================================================================
