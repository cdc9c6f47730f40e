----------------------------- MODULE Downloads -----------------------------
(***************************************************************************)
(* Model files on a node: inference_node/download_manager.py (downloads     *)
(* asked for over HTTP, one at a time, with their progress streams) and     *)
(* inference_node/hf_downloader.py (the download of `run <model>` before     *)
(* the server starts), which write the same files at their final paths.     *)
(*                                                                         *)
(* The manager's downloads are asyncio tasks: the code between two awaits   *)
(* is one action.  _broadcast_progress never suspends.  The start is         *)
(* synchronous; only the end of the process can come between its steps.     *)
(* Which file a download means is known from its repository, quantization   *)
(* and file name.  A transfer that breaks off is reported by the transport. *)
(***************************************************************************)
EXTENDS Naturals, Sequences

CONSTANTS
  Files,      \* local paths
  Downloads,  \* download ids
  FileOf,     \* FileOf[d]: get_local_model_path of d
  Listeners,  \* progress streams
  None,       \* no file, no download
  Cap,        \* maxsize of a progress queue
  MaxStarts   \* bound on the starts of the process

ASSUME DownloadsAssumption ==
  /\ FileOf \in [Downloads -> Files]
  /\ None \notin Files /\ None \notin Downloads
  /\ Cap \in Nat \ {0}
  /\ MaxStarts \in Nat

VARIABLES
  process,   \* "off", "boot" (before the server runs) or "up"
  starts,    \* how often the process has started
  model,     \* the file the process was started with, or None
  file,      \* what is at a path
  hashed,    \* files whose hash is in models_metadata.json
  status,    \* DownloadTask.status; "absent": not in active_downloads
  error,     \* downloads with an error_message
  flags,     \* downloads whose _cancel_flags is set
  waiting,   \* tasks at _download_lock in order, its holder first
  out,       \* the open file: "closed", "open", or "unlinked" meanwhile
  watching,  \* watching[l]: the download stream l follows, or None
  attached,  \* streams whose queue is in progress_queues
  view       \* view[l]: the status l has been sent last, then its queue

fileVars == <<process, starts, model, file, hashed, out>>
taskVars == <<status, error, flags, waiting>>
listenVars == <<watching, attached, view>>
downloadVars == <<fileVars, taskVars, listenVars>>

Final == {"completed", "failed", "cancelled"}
Statuses == {"pending", "searching", "downloading"} \cup Final

DownloadsTypeOK ==
  /\ process \in {"off", "boot", "up"}
  /\ starts \in Nat
  /\ model \in Files \cup {None}
  /\ file \in [Files -> {"none", "partial", "complete"}]
  /\ hashed \subseteq Files
  /\ status \in [Downloads -> Statuses \cup {"absent"}]
  /\ error \subseteq Downloads
  /\ flags \subseteq Downloads
  /\ waiting \in Seq(Downloads)
  /\ out \in {"closed", "open", "unlinked"}
  /\ watching \in [Listeners -> Downloads \cup {None}]
  /\ attached \subseteq Listeners
  /\ view \in [Listeners -> Seq(Statuses)]

DownloadsInit ==
  /\ process = "off" /\ starts = 0 /\ model = None
  /\ file = [f \in Files |-> "none"]
  /\ hashed = {}
  /\ status = [d \in Downloads |-> "absent"]
  /\ error = {} /\ flags = {} /\ waiting = <<>> /\ out = "closed"
  /\ watching = [l \in Listeners |-> None]
  /\ attached = {}
  /\ view = [l \in Listeners |-> <<>>]

-----------------------------------------------------------------------------
(* Progress streams.                                                       *)

Following(d) == {l \in attached : watching[l] = d}

\* Mutant: a full queue loses the event and keeps its place.
KeepsFull(d, events) == attached

\* A queue that cannot take an event is removed.
Kept(d, events) ==
  {l \in attached : watching[l] = d => Len(view[l]) + Len(events) <= Cap + 1}

Fitting(v, events) ==
  IF Len(v) + Len(events) <= Cap + 1
  THEN v \o events
  ELSE SubSeq(v \o events, 1, Cap + 1)

\* _broadcast_progress, for each of the events.
Broadcast(d, events) ==
  /\ view' = [l \in Listeners |->
                IF l \in Following(d) THEN Fitting(view[l], events) ELSE view[l]]
  /\ attached' = Kept(d, events)
  /\ UNCHANGED watching

\* register_progress_listener, and the current status as the first event.
Listen(l, d) ==
  /\ process = "up" /\ watching[l] = None /\ status[d] # "absent"
  /\ watching' = [watching EXCEPT ![l] = d]
  /\ attached' = attached \cup {l}
  /\ view' = [view EXCEPT ![l] = <<status[d]>>]
  /\ UNCHANGED <<fileVars, taskVars>>

Closes(l) ==
  /\ watching' = [watching EXCEPT ![l] = None]
  /\ attached' = attached \ {l}
  /\ view' = [view EXCEPT ![l] = <<>>]

\* The stream sends the next event, and ends after a final one.
Send(l) ==
  /\ Len(view[l]) > 1
  /\ IF view[l][2] \in Final
     THEN Closes(l)
     ELSE /\ view' = [view EXCEPT ![l] = Tail(@)]
          /\ UNCHANGED <<watching, attached>>
  /\ UNCHANGED <<fileVars, taskVars>>

Disconnect(l) ==
  /\ watching[l] # None
  /\ Closes(l)
  /\ UNCHANGED <<fileVars, taskVars>>

-----------------------------------------------------------------------------
(* Downloads.                                                              *)

StartDownload(d) ==
  /\ process = "up" /\ status[d] = "absent"
  /\ status' = [status EXCEPT ![d] = "pending"]
  /\ waiting' = Append(waiting, d)
  /\ UNCHANGED <<fileVars, error, flags, listenVars>>

\* cancel_download: also for a download that has ended, which stays listed.
CancelDownload(d) ==
  /\ process = "up" /\ status[d] # "absent"
  /\ flags' = flags \cup {d}
  /\ UNCHANGED <<fileVars, status, error, waiting, listenVars>>

Holder(d, s) == waiting # <<>> /\ Head(waiting) = d /\ status[d] = s

\* The lock is ours.
Search(d) ==
  /\ Holder(d, "pending")
  /\ status' = [status EXCEPT ![d] = "searching"]
  /\ Broadcast(d, <<"searching">>)
  /\ UNCHANGED <<fileVars, error, flags, waiting>>

\* The end of _execute_download: got says whether there is a file path.
\* events are those of the same step.
Ends(d, got, events) ==
  LET end == IF d \in flags THEN "cancelled"
             ELSE IF got THEN "completed" ELSE "failed"
  IN /\ status' = [status EXCEPT ![d] = end]
     /\ waiting' = Tail(waiting)
     /\ Broadcast(d, Append(events, end))

\* Mutant: a search that fails returns without releasing the lock.
FailedKeepsLock(d) ==
  /\ Holder(d, "searching")
  /\ status' = [status EXCEPT ![d] = "failed"]
  /\ error' = error \cup {d}
  /\ Broadcast(d, <<"failed">>)
  /\ UNCHANGED <<fileVars, flags, waiting>>

\* get_model_info fails, or the repository has no GGUF file.
SearchFails(d) ==
  /\ Holder(d, "searching")
  /\ status' = [status EXCEPT ![d] = "failed"]
  /\ error' = error \cup {d}
  /\ waiting' = Tail(waiting)
  /\ Broadcast(d, <<"failed">>)
  /\ UNCHANGED <<fileVars, flags>>

\* A file at the path is taken for the download, whatever is in it.
FoundOnDisk(d) ==
  /\ Holder(d, "searching")
  /\ file[FileOf[d]] # "none"
  /\ Ends(d, TRUE, <<"downloading">>)
  /\ UNCHANGED <<fileVars, error, flags>>

Request(d) ==
  /\ Holder(d, "searching")
  /\ file[FileOf[d]] = "none"
  /\ status' = [status EXCEPT ![d] = "downloading"]
  /\ Broadcast(d, <<"downloading">>)
  /\ UNCHANGED <<fileVars, error, flags, waiting>>

\* The response has begun: the file is created at its final path.
Respond(d) ==
  /\ Holder(d, "downloading") /\ out = "closed"
  /\ file' = [file EXCEPT ![FileOf[d]] = "partial"]
  /\ out' = "open"
  /\ UNCHANGED <<process, starts, model, hashed, taskVars, listenVars>>

\* A chunk is written and, twice a second, its progress reported.
Chunk(d) ==
  /\ Holder(d, "downloading") /\ out # "closed" /\ d \notin flags
  /\ Broadcast(d, <<"downloading">>)
  /\ UNCHANGED <<fileVars, taskVars>>

\* Mutant: the file of a cancelled download is left behind.
CancelledLeavesFile(d) ==
  /\ Holder(d, "downloading") /\ out # "closed" /\ d \in flags
  /\ out' = "closed"
  /\ Ends(d, FALSE, <<>>)
  /\ UNCHANGED <<process, starts, model, file, hashed, error, flags>>

\* A chunk arrives and the flag is set: the file is removed.
ChunkCancelled(d) ==
  /\ Holder(d, "downloading") /\ out # "closed" /\ d \in flags
  /\ file' = [file EXCEPT ![FileOf[d]] = "none"]
  /\ out' = "closed"
  /\ Ends(d, FALSE, <<>>)
  /\ UNCHANGED <<process, starts, model, hashed, error, flags>>

\* The response is read to its end.
Received(d) ==
  /\ Holder(d, "downloading") /\ out # "closed"
  /\ file' = IF out = "open" THEN [file EXCEPT ![FileOf[d]] = "complete"] ELSE file
  /\ out' = "closed"
  /\ Ends(d, TRUE, <<>>)
  /\ UNCHANGED <<process, starts, model, hashed, error, flags>>

\* No response, a broken transfer or a full disk: what is there stays.
Breaks(d) ==
  /\ Holder(d, "downloading")
  /\ out' = "closed"
  /\ error' = error \cup {d}
  /\ Ends(d, FALSE, <<>>)
  /\ UNCHANGED <<process, starts, model, file, hashed, flags>>

\* The file d writes is the one at f: unlinking leaves d an anonymous file.
Unlinked(f) ==
  IF out = "open" /\ waiting # <<>> /\ FileOf[Head(waiting)] = f
  THEN "unlinked" ELSE out

\* delete_local_model: a file with metadata by its key, which is removed and
\* saved, or any file by its path, which leaves the metadata alone.
Delete(f) ==
  /\ process = "up"
  /\ \/ f \in hashed /\ hashed' = hashed \ {f}
     \/ file[f] # "none" /\ UNCHANGED hashed
  /\ file' = [file EXCEPT ![f] = "none"]
  /\ out' = Unlinked(f)
  /\ UNCHANGED <<process, starts, model, taskVars, listenVars>>

-----------------------------------------------------------------------------
(* The start of the process, and its end.                                  *)

\* Mutant: a file whose hash is known is not read again.
TrustsHashed(f) == file[f] # "none"

\* download_model uses what is there, unless its hash is known and wrong.
Usable(f) ==
  /\ file[f] # "none"
  /\ f \in hashed => file[f] = "complete"

\* Without `run`, with a usable file, or with one that has to be fetched.
Start(f) ==
  /\ process = "off" /\ starts < MaxStarts
  /\ starts' = starts + 1
  /\ model' = f
  /\ process' = IF f = None THEN "up" ELSE IF Usable(f) THEN "up" ELSE "boot"
  /\ UNCHANGED <<file, hashed, out, taskVars, listenVars>>

\* HFModelDownloader._download_with_progress overwrites the file in place.
BootOpens ==
  /\ process = "boot" /\ out = "closed" /\ ~Usable(model)
  /\ file' = [file EXCEPT ![model] = "partial"]
  /\ out' = "open"
  /\ UNCHANGED <<process, starts, model, hashed, taskVars, listenVars>>

BootReceives ==
  /\ process = "boot" /\ out = "open"
  /\ file' = [file EXCEPT ![model] = "complete"]
  /\ out' = "closed"
  /\ UNCHANGED <<process, starts, model, hashed, taskVars, listenVars>>

\* The hash is stored, and the server starts.
BootSaves ==
  /\ process = "boot" /\ out = "closed" /\ Usable(model)
  /\ hashed' = hashed \cup {model}
  /\ process' = "up"
  /\ UNCHANGED <<starts, model, file, out, taskVars, listenVars>>

Gone ==
  /\ process' = "off"
  /\ model' = None
  /\ status' = [d \in Downloads |-> "absent"]
  /\ error' = {} /\ flags' = {} /\ waiting' = <<>> /\ out' = "closed"
  /\ watching' = [l \in Listeners |-> None]
  /\ attached' = {}
  /\ view' = [l \in Listeners |-> <<>>]

\* The process ends, or the first download fails (sys.exit): tasks, flags and
\* streams are lost, and files stay as they are.
Stop ==
  /\ process # "off"
  /\ Gone
  /\ UNCHANGED <<starts, file, hashed>>

\* _save_metadata truncates the file before it writes: a process that ends
\* in between has no metadata when it starts again.
StopInSave ==
  /\ \/ process = "boot" /\ out = "closed" /\ Usable(model) /\ UNCHANGED file
     \/ /\ process = "up"
        /\ \E f \in hashed : file' = [file EXCEPT ![f] = "none"]
  /\ hashed' = {}
  /\ Gone
  /\ UNCHANGED starts

Work(d) ==
  \/ Search(d) \/ SearchFails(d) \/ FoundOnDisk(d) \/ Request(d) \/ Respond(d)
  \/ ChunkCancelled(d) \/ Received(d) \/ Breaks(d)

DownloadsNext ==
  \/ \E d \in Downloads :
       StartDownload(d) \/ CancelDownload(d) \/ Work(d) \/ Chunk(d)
  \/ \E l \in Listeners :
       (\E d \in Downloads : Listen(l, d)) \/ Send(l) \/ Disconnect(l)
  \/ \E f \in Files : Delete(f)
  \/ \E f \in Files \cup {None} : Start(f)
  \/ BootOpens \/ BootReceives \/ BootSaves \/ Stop \/ StopInSave

DownloadsSpec == DownloadsInit /\ [][DownloadsNext]_downloadVars

\* Ready tasks run, the executor's request and the transfer have timeouts
\* (30 seconds; 30 to connect and 60 between two reads), and files are finite.
FairDownloads == DownloadsSpec /\ \A d \in Downloads : WF_downloadVars(Work(d))

-----------------------------------------------------------------------------
(* Properties.                                                             *)

\* A file at its final path that nobody is writing is whole, as long as the
\* process is in its first life and no download of the file has reported an
\* error: cancellation and deletion at any time, and the end of other
\* downloads, leave no partial file that the next download takes for whole.
PartialHasCause ==
  process = "up" /\ starts = 1 =>
    \A f \in Files : file[f] = "partial" =>
      \/ out = "open" /\ FileOf[Head(waiting)] = f
      \/ \E d \in error : FileOf[d] = f

\* A node does not start with a broken file whose hash is known, although
\* files are written in place, may be deleted behind the back of the metadata
\* and fetched again, and the process may end at any time.
VerifiedStart ==
  [][process # "up" /\ process' = "up" /\ model' \in hashed' =>
       file'[model'] = "complete"]_downloadVars

\* What a progress stream has sent and still holds leads to the present
\* status of its download, for one that was not thrown out for being full;
\* in particular it will send the end, or has sent it as its first event.
ViewReachesStatus ==
  \A l \in attached :
    /\ view[l] # <<>>
    /\ view[l][Len(view[l])] = status[watching[l]]

\* Every download ends, whatever happens to those before it in the queue.
EveryDownloadEnds ==
  \A d \in Downloads :
    status[d] = "pending" ~> status[d] \in Final \cup {"absent"}
=============================================================================
