------------------------------ MODULE Downloads -----------------------------
(***************************************************************************)
(* Downloads of the browser (flumi/Scripts/Browser/DownloadManager.gd) and *)
(* the tasks of the Godot extension that carry them out                    *)
(* (protocol/gdextension/src/lib.rs, over GurtClient::stream_request).     *)
(*                                                                         *)
(* A gurt:// download has a client, a runtime and an event queue of its    *)
(* own; a timer of the main thread empties the queue every 0.2 seconds.    *)
(* An http:// download is a node of the engine.  A download ends for the   *)
(* manager when its entry is erased from active_downloads, which also lets *)
(* go of the client and thereby stops the task.                            *)
(*                                                                         *)
(* A file is an inode, named after the download that created it: opening   *)
(* a path that exists truncates the inode that is there, and a file that   *)
(* is removed lives on for those that hold it.  Only the two events that   *)
(* end a download are kept; the others just move the progress bar.         *)
(***************************************************************************)
EXTENDS Naturals, Sequences

CONSTANTS
    Downloads,      \* downloads that scripts may ask for
    Paths,          \* where they may be saved
    MaxChunks,      \* bound: reads a body takes
    NoFile          \* nothing there

ASSUME DownloadsAssumption ==
    /\ MaxChunks \in Nat
    /\ NoFile \notin Downloads \cup Paths

VARIABLES
    entry,      \* "asked" in the dialog, "active" in active_downloads, "gone" after
    verdict,    \* what the manager has told the user
    save,       \* save_path
    stream,     \* the task of a download, and its DLState
    events,     \* event_queue
    flagged,    \* cancel_flags
    disk,       \* the inode at each path
    content,    \* who wrote each chunk of an inode
    cut         \* history: streams the server closed early

downloadVars == <<entry, verdict, save, stream, events, flagged, disk, content, cut>>

-----------------------------------------------------------------------------
Stages  == {"off", "connect", "tls", "sent", "body", "check", "write"}
Content == [1 .. MaxChunks -> Downloads \cup {NoFile}]
Nothing == [k \in 1 .. MaxChunks |-> NoFile]

(* first: the first chunk came in the read that held the headers.           *)
Stream == [scheme : {"gurt", "http"}, stage : Stages, ok : BOOLEAN,
           size : 0 .. MaxChunks, given : 0 .. MaxChunks, first : BOOLEAN,
           file : Downloads \cup {NoFile}]
NewStream(scheme, stage) ==
    [scheme |-> scheme, stage |-> stage, ok |-> FALSE, size |-> 0, given |-> 0,
     first |-> FALSE, file |-> NoFile]

DownloadsTypeOK ==
    /\ entry \in [Downloads -> {"none", "asked", "active", "gone"}]
    /\ verdict \in [Downloads -> {"none", "completed", "failed", "cancelled"}]
    /\ save \in [Downloads -> Paths \cup {NoFile}]
    /\ stream \in [Downloads -> Stream]
    /\ events \in [Downloads -> Seq({"failed", "completed"})]
    /\ flagged \subseteq Downloads /\ cut \subseteq Downloads
    /\ disk \in [Paths -> Downloads \cup {NoFile}]
    /\ content \in [Downloads -> Content]

DownloadsInit ==
    /\ entry = [d \in Downloads |-> "none"]
    /\ verdict = [d \in Downloads |-> "none"]
    /\ save = [d \in Downloads |-> NoFile]
    /\ stream = [d \in Downloads |-> NewStream("gurt", "off")]
    /\ events = [d \in Downloads |-> <<>>]
    /\ flagged = {} /\ cut = {}
    /\ disk = [p \in Paths |-> NoFile]
    /\ content = [d \in Downloads |-> Nothing]

Stage(d, s) == stream' = [stream EXCEPT ![d].stage = s]
Push(d, e)  == events' = [events EXCEPT ![d] = @ \o e]

(* File::create, and the file of the engine's HTTPRequest: an inode that is  *)
(* there already is emptied.                                                *)
Inode(d) == IF disk[save[d]] = NoFile THEN d ELSE disk[save[d]]
Open(d) ==
    /\ disk' = [disk EXCEPT ![save[d]] = Inode(d)]
    /\ content' = [content EXCEPT ![Inode(d)] = Nothing]

(* write_all, through the handle, behind what this download wrote before.   *)
WriteChunk(d) ==
    content' = IF stream[d].file = NoFile THEN content
               ELSE [content EXCEPT ![stream[d].file][stream[d].given + 1] = d]

(* active_downloads.erase: the task of the client ends with it.             *)
Erase(d, v) ==
    /\ entry' = [entry EXCEPT ![d] = "gone"]
    /\ verdict' = [verdict EXCEPT ![d] = v]
    /\ events' = [events EXCEPT ![d] = <<>>]
    /\ Stage(d, "off")

RemoveFile(d) == disk' = [disk EXCEPT ![save[d]] = NoFile]

-----------------------------------------------------------------------------
(* The manager, on the main thread *)

(* handle_download_request; unless the settings skip it, a dialog opens.    *)
AskDownload(d) ==
    /\ entry[d] = "none"
    /\ entry' = [entry EXCEPT ![d] = "asked"]
    /\ UNCHANGED <<verdict, save, stream, events, flagged, disk, content, cut>>

DismissDownload(d) ==
    /\ entry[d] = "asked"
    /\ entry' = [entry EXCEPT ![d] = "gone"]
    /\ UNCHANGED <<verdict, save, stream, events, flagged, disk, content, cut>>

(* _start_download; create_client_with_dns or the request may fail at once. *)
StartDownload(d, scheme, p) ==
    /\ entry[d] = "asked"
    /\ save' = [save EXCEPT ![d] = p]
    /\ \/ /\ entry' = [entry EXCEPT ![d] = "active"]
          /\ stream' = [stream EXCEPT ![d] = NewStream(scheme, "connect")]
          /\ UNCHANGED verdict
       \/ /\ entry' = [entry EXCEPT ![d] = "gone"]
          /\ verdict' = [verdict EXCEPT ![d] = "failed"]
          /\ UNCHANGED stream
    /\ UNCHANGED <<events, flagged, disk, content, cut>>

(* Mutant: the handler of a completed download does not erase its entry. *)
PollKeepsEntry(d) ==
    /\ entry[d] = "active" /\ events[d] # <<>>
    /\ verdict' = [verdict EXCEPT ![d] = Head(events[d])]
    /\ events' = [events EXCEPT ![d] = Tail(@)]
    /\ IF Head(events[d]) = "failed" THEN RemoveFile(d) ELSE UNCHANGED disk
    /\ UNCHANGED <<entry, save, stream, flagged, content, cut>>

(* Mutant: a failed download leaves its file. *)
PollKeepsFile(d) ==
    /\ entry[d] = "active" /\ events[d] # <<>>
    /\ Erase(d, Head(events[d]))
    /\ UNCHANGED <<save, flagged, disk, content, cut>>

(* poll_events hands on the whole queue.  The first event that ends the      *)
(* download erases the entry, and the handlers ignore those that follow.    *)
(* A failed download removes whatever is at its path.                       *)
Poll(d) ==
    /\ entry[d] = "active" /\ events[d] # <<>>
    /\ Erase(d, Head(events[d]))
    /\ IF Head(events[d]) = "failed" THEN RemoveFile(d) ELSE UNCHANGED disk
    /\ UNCHANGED <<save, flagged, content, cut>>

(* _on_gurt_download_progress_cancelled only sets the flag; an http download *)
(* is over at once, and its file stays.                                     *)
CancelDownload(d) ==
    /\ entry[d] = "active" /\ d \notin flagged
    /\ IF stream[d].scheme = "gurt"
       THEN flagged' = flagged \cup {d} /\ UNCHANGED <<entry, verdict, events, stream>>
       ELSE Erase(d, "cancelled") /\ UNCHANGED flagged
    /\ UNCHANGED <<save, disk, content, cut>>

-----------------------------------------------------------------------------
(* The task of a gurt:// download *)
Gurt(d, stages) == stream[d].scheme = "gurt" /\ stream[d].stage \in stages

Connected(d) ==
    /\ Gurt(d, {"connect"})
    /\ Stage(d, "tls")
    /\ UNCHANGED <<entry, verdict, save, events, flagged, disk, content, cut>>

(* upgrade_to_tls waits for the server without a timeout.  The lookup of the *)
(* host, which may need such a handshake with the name server, counts as the *)
(* same wait.                                                               *)
Encrypted(d) ==
    /\ Gurt(d, {"tls"})
    /\ \/ Stage(d, "sent") /\ UNCHANGED events
       \/ Stage(d, "off") /\ Push(d, <<"failed">>)
    /\ UNCHANGED <<entry, verdict, save, flagged, disk, content, cut>>

(* Mutant: the error of stream_request is dropped. *)
GurtFailsSilently(d) ==
    /\ Gurt(d, {"connect", "sent", "body"})
    /\ Stage(d, "off")
    /\ UNCHANGED <<entry, verdict, save, events, flagged, disk, content, cut>>

(* stream_request fails, at the latest by its timeout.                      *)
GurtFails(d) ==
    /\ Gurt(d, {"connect", "sent", "body"})
    /\ Stage(d, "off")
    /\ Push(d, <<"failed">>)
    /\ UNCHANGED <<entry, verdict, save, flagged, disk, content, cut>>

(* The server closes the stream: that is success, however little has come.  *)
GurtEnds(d) ==
    /\ Gurt(d, {"sent", "body"})
    /\ Stage(d, "off")
    /\ Push(d, <<"completed">>)
    /\ cut' = IF stream[d].stage = "body" /\ stream[d].given = stream[d].size
              THEN cut ELSE cut \cup {d}
    /\ UNCHANGED <<entry, verdict, save, flagged, disk, content>>

(* on_head, for a response of n chunks, of which the first may have come     *)
(* along.  The stream is read on whatever on_head finds.                    *)
ResponseHead(d, ok, n, first) ==
    LET with(f) == stream' = [stream EXCEPT ![d] =
                     [@ EXCEPT !.stage = IF first THEN "check" ELSE "body",
                               !.ok = ok, !.size = n, !.first = first, !.file = f]]
    IN  /\ Gurt(d, {"sent"})
        /\ first => n > 0
        /\ \/ ok /\ Open(d) /\ with(Inode(d)) /\ UNCHANGED events
           \/ with(NoFile) /\ Push(d, <<"failed">>) /\ UNCHANGED <<disk, content>>
        /\ UNCHANGED <<entry, verdict, save, flagged, cut>>

(* Mutant: what is read beyond the announced length is delivered. *)
NextChunkAlways(d) ==
    /\ Gurt(d, {"body"})
    /\ Stage(d, "check")
    /\ UNCHANGED <<entry, verdict, save, events, flagged, disk, content, cut>>

NextChunk(d) ==
    /\ Gurt(d, {"body"})
    /\ stream[d].given < stream[d].size
    /\ Stage(d, "check")
    /\ UNCHANGED <<entry, verdict, save, events, flagged, disk, content, cut>>

(* on_chunk looks at the flag, and goes on without the lock.                *)
ChunkCheck(d) ==
    /\ Gurt(d, {"check"})
    /\ IF d \in flagged THEN Stage(d, "off") /\ Push(d, <<"failed">>)
       ELSE Stage(d, "write") /\ UNCHANGED events
    /\ UNCHANGED <<entry, verdict, save, flagged, disk, content, cut>>

(* Whether this was the last chunk is not asked when it came with the       *)
(* headers.                                                                 *)
AfterChunk(d) ==
    LET n == stream[d].given + 1
        last == n = stream[d].size /\ ~(stream[d].first /\ n = 1)
    IN  /\ stream' = [stream EXCEPT ![d] =
                        [@ EXCEPT !.given = n, !.stage = IF last THEN "off" ELSE "body"]]
        /\ IF last THEN Push(d, <<"completed">>) ELSE UNCHANGED events

(* Mutant: the bytes that came with the headers are not delivered. *)
ChunkWriteSkipsFirst(d) ==
    /\ Gurt(d, {"write"})
    /\ AfterChunk(d)
    /\ IF stream[d].given = 0 THEN UNCHANGED content ELSE WriteChunk(d)
    /\ UNCHANGED <<entry, verdict, save, flagged, disk, cut>>

ChunkWrite(d) ==
    /\ Gurt(d, {"write"})
    /\ AfterChunk(d)
    /\ WriteChunk(d)
    /\ UNCHANGED <<entry, verdict, save, flagged, disk, cut>>

(* The disk is full: announced by on_chunk, and once more as Cancelled.     *)
ChunkWriteFails(d) ==
    /\ Gurt(d, {"write"})
    /\ stream[d].file # NoFile
    /\ Stage(d, "off")
    /\ Push(d, <<"failed", "failed">>)
    /\ UNCHANGED <<entry, verdict, save, flagged, disk, content, cut>>

-----------------------------------------------------------------------------
(* The engine's HTTPRequest *)
Http(d, stages) == stream[d].scheme = "http" /\ stream[d].stage \in stages

(* A response that has a body is saved, whatever its status.                *)
HttpHead(d, ok, n) ==
    /\ Http(d, {"connect"})
    /\ stream' = [stream EXCEPT ![d] =
                    [@ EXCEPT !.stage = "body", !.ok = ok, !.size = n,
                              !.file = IF n = 0 THEN NoFile ELSE Inode(d)]]
    /\ IF n = 0 THEN UNCHANGED <<disk, content>> ELSE Open(d)
    /\ UNCHANGED <<entry, verdict, save, events, flagged, cut>>

HttpChunk(d) ==
    /\ Http(d, {"body"})
    /\ stream[d].given < stream[d].size
    /\ stream' = [stream EXCEPT ![d].given = @ + 1]
    /\ WriteChunk(d)
    /\ UNCHANGED <<entry, verdict, save, events, flagged, disk, cut>>

(* _on_download_completed, after the whole body ...                         *)
HttpDone(d) ==
    /\ Http(d, {"body"})
    /\ stream[d].ok /\ stream[d].given = stream[d].size
    /\ Erase(d, IF disk[save[d]] = NoFile THEN "failed" ELSE "completed")
    /\ UNCHANGED <<save, flagged, disk, content, cut>>

(* ... and after an error or another status.                                *)
HttpFails(d) ==
    /\ Http(d, {"connect", "body"})
    /\ Erase(d, "failed")
    /\ RemoveFile(d)
    /\ UNCHANGED <<save, flagged, content, cut>>

-----------------------------------------------------------------------------
Manager(d) ==
    \/ AskDownload(d) \/ DismissDownload(d)
    \/ \E scheme \in {"gurt", "http"}, p \in Paths : StartDownload(d, scheme, p)
    \/ CancelDownload(d)

(* What a task does by itself, each wait being under a timeout.             *)
GurtTask(d) ==
    \/ Connected(d) \/ GurtFails(d) \/ GurtEnds(d)
    \/ \E ok, first \in BOOLEAN, n \in 0 .. MaxChunks : ResponseHead(d, ok, n, first)
    \/ NextChunk(d) \/ ChunkCheck(d) \/ ChunkWrite(d) \/ ChunkWriteFails(d)

HttpTask(d) ==
    \/ \E ok \in BOOLEAN, n \in 0 .. MaxChunks : HttpHead(d, ok, n)
    \/ HttpChunk(d) \/ HttpDone(d) \/ HttpFails(d)

DownloadsNext ==
    \E d \in Downloads :
        Manager(d) \/ Poll(d) \/ GurtTask(d) \/ Encrypted(d) \/ HttpTask(d)

DownloadsSpec == DownloadsInit /\ [][DownloadsNext]_downloadVars

(* The runtime polls its task, and the timer of the main thread goes on.    *)
DownloadsFairness ==
    \A d \in Downloads :
        WF_downloadVars(Poll(d)) /\ WF_downloadVars(GurtTask(d))

-----------------------------------------------------------------------------
(* A download ends once: although a refused, failed or cancelled one may be  *)
(* announced several times, and even as completed after it failed (on_head,  *)
(* on_chunk), the user is told one result and it stays.                     *)
OneVerdict == [][\A d \in Downloads : verdict[d] # "none" => verdict'[d] = verdict[d]]_downloadVars

(* Nothing that a failed download wrote is left on the disk, whoever else    *)
(* saves to the same path (_on_gurt_download_failed, _on_download_completed). *)
NoLeftovers ==
    \A d \in Downloads : verdict[d] = "failed" =>
        \A p \in Paths : disk[p] # NoFile =>
            \A k \in 1 .. MaxChunks : content[disk[p]][k] # d

(* A download is called complete when its file holds the whole body and      *)
(* nothing else, unless the server closed the stream early or another        *)
(* download uses the same path.                                             *)
Alone(d) == \A e \in Downloads \ {d} : save[e] # save[d]
Whole(d) ==
    /\ disk[save[d]] # NoFile
    /\ content[disk[save[d]]] =
         [k \in 1 .. MaxChunks |-> IF k <= stream[d].size THEN d ELSE NoFile]
CompletedIsWhole ==
    [][\A d \in Downloads :
         verdict[d] # "completed" /\ verdict'[d] = "completed" =>
            d \in cut \/ ~Alone(d) \/ Whole(d)]_downloadVars

(* Every gurt:// download ends, cancelled or not, except that it may wait    *)
(* for ever for the server's part of the TLS handshake.                     *)
DownloadEnds ==
    \A d \in Downloads :
        entry[d] = "active" /\ stream[d].scheme = "gurt"
        ~> entry[d] = "gone" \/ [](stream[d].stage = "tls")
=============================================================================
