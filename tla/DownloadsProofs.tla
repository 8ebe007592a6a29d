--------------------------- MODULE DownloadsProofs ---------------------------
(* Proofs about Downloads, for any number of downloads and paths and bodies  *)
(* of any length.                                                            *)
EXTENDS Downloads, TLAPS

-----------------------------------------------------------------------------
(* The life of a download: until it is active it has no path, and only then  *)
(* it has a task, events, and no result.                                     *)
Early == {"connect", "tls", "sent"}

Life(d) ==
    /\ entry[d] \in {"none", "asked"} => save[d] = NoFile /\ verdict[d] = "none"
    /\ entry[d] = "active" => save[d] \in Paths /\ verdict[d] = "none"
    /\ entry[d] # "active" => events[d] = <<>> /\ stream[d].stage = "off"
    /\ stream[d].stage \in {"check", "write"} => stream[d].given < stream[d].size
    /\ stream[d].stage \in Early => stream[d].given = 0 /\ stream[d].file = NoFile

LifeInv ==
    /\ DownloadsTypeOK
    /\ \A d \in Downloads : Life(d)

-----------------------------------------------------------------------------
(* An inode stays at the path of the download that created it; who holds it  *)
(* and who wrote to it saves to the same path.                               *)
PathsAgree ==
    /\ \A p \in Paths : disk[p] # NoFile => save[disk[p]] = p
    /\ \A d \in Downloads : stream[d].file # NoFile => save[stream[d].file] = save[d] /\ save[d] # NoFile
    /\ \A i \in Downloads, k \in 1 .. MaxChunks :
         content[i][k] # NoFile => save[content[i][k]] = save[i] /\ save[i] # NoFile

FilesInv == LifeInv /\ PathsAgree /\ NoLeftovers

-----------------------------------------------------------------------------
(* While nobody else saves to its path, the file of a download holds what    *)
(* its task has given on so far.                                             *)
OwnFile(d) ==
    Alone(d) /\ entry[d] = "active" /\ stream[d].file # NoFile =>
        /\ stream[d].file = d /\ disk[save[d]] = d
        /\ content[d] = [k \in 1 .. MaxChunks |-> IF k <= stream[d].given THEN d ELSE NoFile]

(* A task that has no file has said so; one that has announced anything and  *)
(* goes on has announced a failure; and "completed" is announced first only  *)
(* when all of the body was given on, or the server closed the stream early. *)
Honest(d) ==
    stream[d].scheme = "gurt" =>
        /\ stream[d].stage # "off" /\ events[d] # <<>> => Head(events[d]) = "failed"
        /\ stream[d].stage \in {"body", "check", "write"} /\ stream[d].file = NoFile => events[d] # <<>>
        /\ events[d] # <<>> /\ Head(events[d]) = "completed" =>
             d \in cut \/ (stream[d].file # NoFile /\ stream[d].given = stream[d].size)

(* The engine saves every body that has a chunk, and has none before.        *)
Saved(d) ==
    stream[d].scheme = "http" =>
        /\ events[d] = <<>>
        /\ stream[d].stage = "body" /\ stream[d].file = NoFile => stream[d].size = 0

(* What is at a path was opened by the one it is named after.                *)
Creators == \A p \in Paths : disk[p] # NoFile => stream[disk[p]].file = disk[p]

WholeInv ==
    /\ FilesInv /\ Creators
    /\ \A d \in Downloads : OwnFile(d) /\ Honest(d) /\ Saved(d)

-----------------------------------------------------------------------------
(* Lemmas about the operators that several actions are made of *)

(* A task that is at d may have changed in all but the fields fs.            *)
SameBody(d) ==
    /\ stream'[d].scheme = stream[d].scheme /\ stream'[d].ok = stream[d].ok
    /\ stream'[d].size = stream[d].size /\ stream'[d].given = stream[d].given
    /\ stream'[d].first = stream[d].first /\ stream'[d].file = stream[d].file

OnlyStream(d) == stream' \in [Downloads -> Stream] /\ \A e \in Downloads : e # d => stream'[e] = stream[e]
OnlyEvents(d) ==
    /\ events' \in [Downloads -> Seq({"failed", "completed"})]
    /\ \A e \in Downloads : e # d => events'[e] = events[e]

LEMMA StageIs ==
    ASSUME DownloadsTypeOK, NEW d \in Downloads, NEW s \in Stages, Stage(d, s)
    PROVE  OnlyStream(d) /\ SameBody(d) /\ stream'[d].stage = s
<1> DEFINE x == [stream[d] EXCEPT !.stage = s]
<1>1. stream \in [Downloads -> Stream] /\ stream[d] \in Stream
  BY DEF DownloadsTypeOK
<1>2. /\ x \in Stream /\ x.stage = s
      /\ x.scheme = stream[d].scheme /\ x.ok = stream[d].ok /\ x.size = stream[d].size
      /\ x.given = stream[d].given /\ x.first = stream[d].first /\ x.file = stream[d].file
  BY <1>1 DEF Stream
<1>3. stream' = [stream EXCEPT ![d] = x]
  BY DEF Stage
<1> HIDE DEF x
<1>4. stream'[d] = x /\ OnlyStream(d)
  BY <1>1, <1>2, <1>3 DEF OnlyStream
<1> QED
  BY <1>2, <1>4 DEF SameBody

LEMMA PushIs ==
    ASSUME DownloadsTypeOK, NEW d \in Downloads, NEW e \in Seq({"failed", "completed"}), e # <<>>, Push(d, e)
    PROVE  /\ OnlyEvents(d) /\ events'[d] # <<>>
           /\ Head(events'[d]) = IF events[d] = <<>> THEN Head(e) ELSE Head(events[d])
<1> DEFINE old == events[d]
<1>1. old \in Seq({"failed", "completed"})
  BY DEF DownloadsTypeOK
<1>2. events' = [events EXCEPT ![d] = old \o e]
  BY DEF Push
<1> HIDE DEF old
<1>3. old \o e \in Seq({"failed", "completed"}) /\ old \o e # <<>>
      /\ Head(old \o e) = IF old = <<>> THEN Head(e) ELSE Head(old)
  BY <1>1
<1>4. OnlyEvents(d) /\ events'[d] = old \o e
  BY <1>2, <1>3 DEF DownloadsTypeOK, OnlyEvents
<1> QED
  BY <1>3, <1>4 DEF old

(* What the manager keeps of one download.                                   *)
OnlyEntry(d) ==
    /\ entry' \in [Downloads -> {"none", "asked", "active", "gone"}]
    /\ verdict' \in [Downloads -> {"none", "completed", "failed", "cancelled"}]
    /\ \A e \in Downloads : e # d => entry'[e] = entry[e] /\ verdict'[e] = verdict[e]

LEMMA EraseIs ==
    ASSUME DownloadsTypeOK, NEW d \in Downloads, NEW v \in {"completed", "failed", "cancelled"}, Erase(d, v)
    PROVE  /\ OnlyEntry(d) /\ OnlyEvents(d) /\ OnlyStream(d) /\ SameBody(d)
           /\ entry'[d] = "gone" /\ verdict'[d] = v /\ events'[d] = <<>> /\ stream'[d].stage = "off"
<1>1. OnlyStream(d) /\ SameBody(d) /\ stream'[d].stage = "off"
  BY StageIs DEF Erase, Stages
<1>2. OnlyEntry(d) /\ OnlyEvents(d) /\ entry'[d] = "gone" /\ verdict'[d] = v /\ events'[d] = <<>>
  BY DEF Erase, DownloadsTypeOK, OnlyEntry, OnlyEvents
<1> QED
  BY <1>1, <1>2

(* Files.  Only the path of d, and only one inode, change.                   *)
LEMMA NothingIsContent == Nothing \in Content /\ \A k \in 1 .. MaxChunks : Nothing[k] = NoFile
  BY DEF Nothing, Content

LEMMA OpenIs ==
    ASSUME DownloadsTypeOK, NEW d \in Downloads, save[d] \in Paths, Open(d)
    PROVE  /\ Inode(d) \in Downloads /\ Inode(d) # NoFile
           /\ disk' \in [Paths -> Downloads \cup {NoFile}] /\ content' \in [Downloads -> Content]
           /\ disk'[save[d]] = Inode(d) /\ \A p \in Paths : p # save[d] => disk'[p] = disk[p]
           /\ content'[Inode(d)] = Nothing
           /\ \A i \in Downloads : i # Inode(d) => content'[i] = content[i]
<1>1. Inode(d) \in Downloads /\ Inode(d) # NoFile
  BY DownloadsAssumption DEF Inode, DownloadsTypeOK
<1> QED
  BY <1>1, NothingIsContent DEF Open, DownloadsTypeOK

LEMMA RemoveFileIs ==
    ASSUME DownloadsTypeOK, NEW d \in Downloads, save[d] \in Paths, RemoveFile(d)
    PROVE  /\ disk' \in [Paths -> Downloads \cup {NoFile}] /\ disk'[save[d]] = NoFile
           /\ \A p \in Paths : p # save[d] => disk'[p] = disk[p]
  BY DEF RemoveFile, DownloadsTypeOK

LEMMA WriteIs ==
    ASSUME DownloadsTypeOK, NEW d \in Downloads, stream[d].given < stream[d].size, WriteChunk(d)
    PROVE  /\ content' \in [Downloads -> Content]
           /\ \A i \in Downloads, k \in 1 .. MaxChunks :
                content'[i][k] = IF stream[d].file = i /\ k = stream[d].given + 1 THEN d ELSE content[i][k]
<1> DEFINE f == stream[d].file
           n == stream[d].given + 1
<1>1. f \in Downloads \cup {NoFile} /\ stream[d].given \in 0 .. MaxChunks /\ stream[d].size \in 0 .. MaxChunks
  BY DEF DownloadsTypeOK, Stream
<1>2. n \in 1 .. MaxChunks
  BY <1>1, DownloadsAssumption
<1>3. content' = IF f = NoFile THEN content ELSE [content EXCEPT ![f][n] = d]
  BY DEF WriteChunk
<1> HIDE DEF f, n
<1>4. CASE f = NoFile
  <2>1. \A i \in Downloads : i # f
    BY <1>4, DownloadsAssumption
  <2> QED
    BY <1>3, <1>4, <2>1 DEF DownloadsTypeOK, f
<1>5. CASE f # NoFile
  <2> DEFINE c == [content[f] EXCEPT ![n] = d]
  <2>1. f \in Downloads /\ content[f] \in Content
    BY <1>1, <1>5 DEF f, DownloadsTypeOK
  <2>2. c \in Content /\ \A k \in 1 .. MaxChunks : c[k] = IF k = n THEN d ELSE content[f][k]
    BY <1>2, <2>1 DEF Content
  <2>3. content' = [content EXCEPT ![f] = c]
    BY <1>3, <1>5
  <2> HIDE DEF c
  <2>4. content' \in [Downloads -> Content]
    BY <2>1, <2>2, <2>3 DEF DownloadsTypeOK
  <2>5. \A i \in Downloads : content'[i] = IF i = f THEN c ELSE content[i]
    BY <2>1, <2>3 DEF DownloadsTypeOK
  <2>6. \A i \in Downloads, k \in 1 .. MaxChunks :
          content'[i][k] = IF f = i /\ k = n THEN d ELSE content[i][k]
    BY <2>2, <2>5
  <2> QED
    BY <2>4, <2>6 DEF f, n
<1> QED
  BY <1>4, <1>5

(* One more chunk was given on.                                              *)
LEMMA AfterIs ==
    ASSUME DownloadsTypeOK, NEW d \in Downloads, stream[d].given < stream[d].size, AfterChunk(d)
    PROVE  /\ OnlyStream(d) /\ OnlyEvents(d) /\ stream'[d].stage \in {"off", "body"}
           /\ stream'[d].scheme = stream[d].scheme /\ stream'[d].size = stream[d].size
           /\ stream'[d].file = stream[d].file /\ stream'[d].given = stream[d].given + 1
           /\ \/ stream'[d].stage = "body" /\ UNCHANGED events
              \/ stream'[d].stage = "off" /\ stream'[d].given = stream[d].size /\ Push(d, <<"completed">>)
<1> DEFINE n == stream[d].given + 1
           last == n = stream[d].size /\ ~(stream[d].first /\ n = 1)
           new == [stream[d] EXCEPT !.given = n, !.stage = IF last THEN "off" ELSE "body"]
<1>1. stream[d] \in Stream /\ n \in 0 .. MaxChunks
  <2>1. stream[d] \in Stream
    BY DEF DownloadsTypeOK
  <2>2. stream[d].given \in 0 .. MaxChunks /\ stream[d].size \in 0 .. MaxChunks
    BY <2>1 DEF Stream
  <2> QED
    BY <2>1, <2>2, DownloadsAssumption
<1>2. stream' = [stream EXCEPT ![d] = new] /\ IF last THEN Push(d, <<"completed">>) ELSE UNCHANGED events
  BY DEF AfterChunk
<1>3. last => n = stream[d].size
  OBVIOUS
<1> HIDE DEF last, n
<1>4. new \in Stream /\ new.given = n /\ new.stage = (IF last THEN "off" ELSE "body")
      /\ new.scheme = stream[d].scheme /\ new.size = stream[d].size /\ new.file = stream[d].file
  BY <1>1 DEF Stream, Stages
<1> HIDE DEF new
<1>5. OnlyStream(d) /\ stream'[d] = new
  BY <1>2, <1>4 DEF OnlyStream, DownloadsTypeOK
<1>6. OnlyEvents(d)
  <2>1. <<"completed">> \in Seq({"failed", "completed"}) /\ <<"completed">> # <<>>
    OBVIOUS
  <2> QED
    BY <1>2, <2>1, PushIs DEF OnlyEvents, DownloadsTypeOK
<1>7. \/ stream'[d].stage = "body" /\ UNCHANGED events
      \/ stream'[d].stage = "off" /\ stream'[d].given = stream[d].size /\ Push(d, <<"completed">>)
  BY <1>2, <1>3, <1>4, <1>5
<1> QED
  BY <1>4, <1>5, <1>6, <1>7 DEF n

(* The head of a response, whatever on_head finds.                            *)
LEMMA HeadOfResponse ==
    ASSUME DownloadsTypeOK, NEW d \in Downloads, Life(d), NEW ok \in BOOLEAN, NEW first \in BOOLEAN,
           NEW n \in 0 .. MaxChunks, ResponseHead(d, ok, n, first), save[d] \in Paths
    PROVE  /\ OnlyStream(d) /\ stream'[d].scheme = stream[d].scheme
           /\ stream'[d].given = 0 /\ stream'[d].size = n /\ stream'[d].stage \in {"check", "body"}
           /\ stream'[d].stage = "check" => 0 < n
           /\ \/ Open(d) /\ stream'[d].file = Inode(d) /\ UNCHANGED events
              \/ stream'[d].file = NoFile /\ Push(d, <<"failed">>) /\ UNCHANGED <<disk, content>>
<1>1. first => n > 0
  BY DEF ResponseHead
<1>2. stream[d].given = 0 /\ stream[d] \in Stream
  BY DEF ResponseHead, Gurt, Life, Early, DownloadsTypeOK
<1> DEFINE s == IF first THEN "check" ELSE "body"
           with(f) == [stream[d] EXCEPT !.stage = s, !.ok = ok, !.size = n, !.first = first, !.file = f]
<1>3. s \in {"check", "body"} /\ s \in Stages /\ (s = "check" => 0 < n)
  BY <1>1 DEF Stages
<1>4. /\ Open(d) => Inode(d) \in Downloads
      /\ \/ Open(d) /\ stream' = [stream EXCEPT ![d] = with(Inode(d))] /\ UNCHANGED events
         \/ stream' = [stream EXCEPT ![d] = with(NoFile)] /\ Push(d, <<"failed">>) /\ UNCHANGED <<disk, content>>
  BY OpenIs DEF ResponseHead
<1> HIDE DEF s
<1>5. ASSUME NEW f \in Downloads \cup {NoFile}, stream' = [stream EXCEPT ![d] = with(f)]
      PROVE  /\ OnlyStream(d) /\ stream'[d].given = 0 /\ stream'[d].size = n /\ stream'[d].stage = s
             /\ stream'[d].file = f /\ stream'[d].scheme = stream[d].scheme
  <2>1. with(f) \in Stream /\ with(f).given = stream[d].given /\ with(f).size = n /\ with(f).stage = s
        /\ with(f).file = f /\ with(f).scheme = stream[d].scheme
    BY <1>2, <1>3 DEF Stream
  <2> HIDE DEF with
  <2> QED
    BY <1>2, <1>5, <2>1 DEF DownloadsTypeOK, OnlyStream
<1> HIDE DEF with
<1> QED
  BY <1>3, <1>4, <1>5

LEMMA HeadIs ==
    ASSUME DownloadsTypeOK, NEW d \in Downloads, NEW ok \in BOOLEAN, NEW n \in 0 .. MaxChunks,
           HttpHead(d, ok, n), Inode(d) \in Downloads
    PROVE  /\ OnlyStream(d) /\ stream'[d].stage = "body" /\ stream'[d].size = n
           /\ stream'[d].scheme = stream[d].scheme /\ stream'[d].given = stream[d].given
           /\ stream'[d].file = IF n = 0 THEN NoFile ELSE Inode(d)
<1> DEFINE f == IF n = 0 THEN NoFile ELSE Inode(d)
           new == [stream[d] EXCEPT !.stage = "body", !.ok = ok, !.size = n, !.file = f]
<1>1. stream[d] \in Stream /\ f \in Downloads \cup {NoFile}
  BY DEF DownloadsTypeOK
<1>2. stream' = [stream EXCEPT ![d] = new]
  BY DEF HttpHead
<1> HIDE DEF f
<1>3. new \in Stream /\ new.stage = "body" /\ new.size = n /\ new.scheme = stream[d].scheme
      /\ new.given = stream[d].given /\ new.file = f
  BY <1>1 DEF Stream, Stages
<1> HIDE DEF new
<1> QED
  BY <1>2, <1>3 DEF OnlyStream, DownloadsTypeOK, f

LEMMA GivenIs ==
    ASSUME DownloadsTypeOK, NEW d \in Downloads, HttpChunk(d)
    PROVE  /\ OnlyStream(d) /\ stream'[d].stage = stream[d].stage /\ stream'[d].size = stream[d].size
           /\ stream'[d].scheme = stream[d].scheme /\ stream'[d].file = stream[d].file
           /\ stream'[d].given = stream[d].given + 1
<1>1. stream[d] \in Stream /\ stream[d].given + 1 \in 0 .. MaxChunks
  <2>1. stream[d] \in Stream /\ stream[d].given < stream[d].size
    BY DEF DownloadsTypeOK, HttpChunk
  <2>2. stream[d].given \in 0 .. MaxChunks /\ stream[d].size \in 0 .. MaxChunks
    BY <2>1 DEF Stream
  <2> QED
    BY <2>1, <2>2, DownloadsAssumption
<1> QED
  BY <1>1 DEF HttpChunk, DownloadsTypeOK, OnlyStream, Stream

-----------------------------------------------------------------------------
(* Types and lives *)

(* A step is about one download, but for the files.                          *)
Apart(d) ==
    /\ OnlyEntry(d) /\ OnlyStream(d) /\ OnlyEvents(d)
    /\ save' \in [Downloads -> Paths \cup {NoFile}]
    /\ flagged' \subseteq Downloads /\ cut' \subseteq Downloads
    /\ \A e \in Downloads : e # d => save'[e] = save[e] /\ (e \in cut' <=> e \in cut)

FilesTyped == disk \in [Paths -> Downloads \cup {NoFile}] /\ content \in [Downloads -> Content]

LEMMA LifeFrame ==
    ASSUME LifeInv, NEW d \in Downloads, Apart(d), FilesTyped', Life(d)'
    PROVE  LifeInv'
<1>1. DownloadsTypeOK'
  BY DEF LifeInv, DownloadsTypeOK, Apart, OnlyEntry, OnlyStream, OnlyEvents, FilesTyped
<1>2. ASSUME NEW e \in Downloads, e # d PROVE Life(e)'
  <2>1. entry'[e] = entry[e] /\ verdict'[e] = verdict[e] /\ stream'[e] = stream[e] /\ events'[e] = events[e]
        /\ save'[e] = save[e]
    BY <1>2 DEF Apart, OnlyEntry, OnlyStream, OnlyEvents
  <2>2. Life(e)
    BY DEF LifeInv
  <2> QED
    BY <2>1, <2>2 DEF Life
<1> QED
  BY <1>1, <1>2 DEF LifeInv

(* What stays as it was is of its type still.                                *)
LEMMA Still ==
    ASSUME LifeInv, NEW d \in Downloads
    PROVE  /\ UNCHANGED <<entry, verdict>> => OnlyEntry(d)
           /\ UNCHANGED stream => OnlyStream(d)
           /\ UNCHANGED events => OnlyEvents(d)
           /\ UNCHANGED <<disk, content>> => FilesTyped'
           /\ disk \in [Paths -> Downloads \cup {NoFile}] /\ content \in [Downloads -> Content]
           /\ save \in [Downloads -> Paths \cup {NoFile}]
           /\ flagged \subseteq Downloads /\ cut \subseteq Downloads
  BY DEF LifeInv, DownloadsTypeOK, OnlyEntry, OnlyStream, OnlyEvents, FilesTyped

LEMMA Working ==
    ASSUME LifeInv, NEW d \in Downloads, stream[d].stage # "off" \/ events[d] # <<>> \/ entry[d] = "active"
    PROVE  entry[d] = "active" /\ save[d] \in Paths /\ save[d] # NoFile /\ verdict[d] = "none"
  BY DownloadsAssumption DEF LifeInv, Life

(* The user asks for a download, and says where to save it.                  *)
LEMMA ManagerLife ==
    ASSUME LifeInv, NEW d \in Downloads, Manager(d) \/ Poll(d)
    PROVE  Apart(d) /\ LifeInv'
<1>1. DownloadsTypeOK /\ Life(d)
  BY DEF LifeInv
<1>2. CASE AskDownload(d) \/ DismissDownload(d)
  <2>1. OnlyEntry(d)
    BY <1>1, <1>2 DEF AskDownload, DismissDownload, DownloadsTypeOK, OnlyEntry
  <2>2. Apart(d) /\ FilesTyped'
    BY <1>2, <2>1, Still DEF AskDownload, DismissDownload, Apart
  <2>3. Life(d)'
    BY <1>1, <1>2, DownloadsAssumption DEF AskDownload, DismissDownload, DownloadsTypeOK, Life
  <2> QED
    BY <2>2, <2>3, LifeFrame
<1>3. ASSUME NEW scheme \in {"gurt", "http"}, NEW p \in Paths, StartDownload(d, scheme, p)
      PROVE  Apart(d) /\ LifeInv'
  <2>1. NewStream(scheme, "connect") \in Stream
    BY DownloadsAssumption DEF NewStream, Stream, Stages
  <2>2. OnlyStream(d) /\ (stream'[d] = stream[d] \/ stream'[d] = NewStream(scheme, "connect"))
    <3>1. stream' = stream \/ stream' = [stream EXCEPT ![d] = NewStream(scheme, "connect")]
      BY <1>3 DEF StartDownload
    <3>2. stream \in [Downloads -> Stream]
      BY <1>1 DEF DownloadsTypeOK
    <3> QED
      BY <2>1, <3>1, <3>2 DEF OnlyStream
  <2>3. OnlyEntry(d) /\ (\/ entry'[d] = "active" /\ verdict'[d] = verdict[d]
                         \/ entry'[d] = "gone" /\ stream'[d] = stream[d])
    BY <1>1, <1>3 DEF StartDownload, DownloadsTypeOK, OnlyEntry
  <2>4. /\ save' \in [Downloads -> Paths \cup {NoFile}] /\ save'[d] = p
        /\ UNCHANGED <<events, cut, flagged, disk, content>>
        /\ \A e \in Downloads : e # d => save'[e] = save[e]
    BY <1>1, <1>3 DEF StartDownload, DownloadsTypeOK
  <2>5. Apart(d) /\ FilesTyped'
    BY <2>2, <2>3, <2>4, Still DEF Apart
  <2>6. entry[d] = "asked" /\ verdict[d] = "none" /\ stream[d].stage = "off" /\ events[d] = <<>>
    BY <1>1, <1>3 DEF StartDownload, Life
  <2>7. Life(d)'
    BY <2>2, <2>3, <2>4, <2>6 DEF Life, NewStream, Early
  <2> QED
    BY <2>5, <2>7, LifeFrame
<1>4. ASSUME NEW v \in {"completed", "failed", "cancelled"}, entry[d] = "active", Erase(d, v), FilesTyped',
             UNCHANGED <<save, flagged, cut>>
      PROVE  Apart(d) /\ LifeInv'
  <2>1. /\ OnlyEntry(d) /\ OnlyEvents(d) /\ OnlyStream(d)
        /\ entry'[d] = "gone" /\ events'[d] = <<>> /\ stream'[d].stage = "off"
    BY <1>1, <1>4, EraseIs
  <2>2. Apart(d)
    BY <1>4, <2>1, Still DEF Apart
  <2>3. Life(d)'
    BY <2>1 DEF Life, Early
  <2> QED
    BY <1>4, <2>2, <2>3, LifeFrame
<1>5. CASE CancelDownload(d)
  <2>1. CASE Erase(d, "cancelled") /\ UNCHANGED flagged
    BY <1>4, <1>5, <2>1, Still DEF CancelDownload
  <2>2. CASE flagged' = flagged \cup {d} /\ UNCHANGED <<entry, verdict, events, stream>>
    <3>1. Apart(d) /\ FilesTyped'
      BY <1>5, <2>2, Still DEF CancelDownload, Apart
    <3>2. Life(d)'
      BY <1>1, <1>5, <2>2 DEF CancelDownload, Life
    <3> QED
      BY <3>1, <3>2, LifeFrame
  <2> QED
    BY <1>5, <2>1, <2>2 DEF CancelDownload
<1>6. CASE Poll(d)
  <2>1. Head(events[d]) \in {"failed", "completed"}
    <3>1. events[d] \in Seq({"failed", "completed"}) /\ events[d] # <<>>
      BY <1>1, <1>6 DEF Poll, DownloadsTypeOK
    <3> QED
      BY <3>1
  <2>2. FilesTyped'
    BY <1>1, <1>6, RemoveFileIs, Working, Still DEF Poll, FilesTyped
  <2> QED
    BY <1>4, <1>6, <2>1, <2>2 DEF Poll
<1> QED
  BY <1>2, <1>3, <1>5, <1>6 DEF Manager

(* A task moves on, and may announce something.                              *)
Announcements == {<<"failed">>, <<"completed">>, <<"failed", "failed">>}

LEMMA StageLife ==
    ASSUME LifeInv, NEW d \in Downloads, NEW s \in Stages, stream[d].stage # "off", Stage(d, s),
           UNCHANGED events \/ \E e \in Announcements : Push(d, e),
           UNCHANGED <<entry, verdict, save, flagged, disk, content>>, cut' = cut \/ cut' = cut \cup {d},
           s \in {"check", "write"} => stream[d].given < stream[d].size,
           s \in Early => stream[d].stage \in Early
    PROVE  Apart(d) /\ LifeInv'
<1>1. DownloadsTypeOK
  BY DEF LifeInv
<1>2. OnlyStream(d) /\ SameBody(d) /\ stream'[d].stage = s
  BY <1>1, StageIs
<1>3. OnlyEvents(d)
  <2>1. \A e \in Announcements : e \in Seq({"failed", "completed"}) /\ e # <<>>
    <3>1. <<"failed">> \in Seq({"failed", "completed"}) /\ <<"failed">> # <<>>
      OBVIOUS
    <3>2. <<"completed">> \in Seq({"failed", "completed"}) /\ <<"completed">> # <<>>
      OBVIOUS
    <3>3. <<"failed", "failed">> \in Seq({"failed", "completed"}) /\ <<"failed", "failed">> # <<>>
      OBVIOUS
    <3> QED
      BY <3>1, <3>2, <3>3 DEF Announcements
  <2> QED
    BY <1>1, <2>1, PushIs, Still
<1>4. Apart(d) /\ FilesTyped'
  BY <1>2, <1>3, Still DEF Apart
<1>5. Life(d)'
  <2>1. Life(d) /\ entry[d] = "active" /\ UNCHANGED <<entry, save, verdict>>
    BY Working DEF LifeInv
  <2> QED
    BY <1>2, <2>1 DEF Life, SameBody
<1> QED
  BY <1>4, <1>5, LifeFrame

LEMMA GurtLife ==
    ASSUME LifeInv, NEW d \in Downloads, GurtTask(d) \/ Encrypted(d)
    PROVE  Apart(d) /\ LifeInv'
<1>1. DownloadsTypeOK /\ Life(d)
  BY DEF LifeInv
<1>2. /\ <<"failed">> \in Announcements /\ <<"completed">> \in Announcements
      /\ <<"failed", "failed">> \in Announcements
  BY DEF Announcements
<1>3. CASE Connected(d)
  BY <1>3, StageLife DEF Connected, Gurt, Stages, Early
<1>4. CASE Encrypted(d)
  BY <1>2, <1>4, StageLife DEF Encrypted, Gurt, Stages, Early
<1>5. CASE GurtFails(d)
  BY <1>2, <1>5, StageLife DEF GurtFails, Gurt, Stages, Early
<1>6. CASE GurtEnds(d)
  BY <1>2, <1>6, StageLife DEF GurtEnds, Gurt, Stages, Early
<1>7. CASE NextChunk(d)
  BY <1>7, StageLife DEF NextChunk, Gurt, Stages, Early
<1>8. CASE ChunkCheck(d)
  <2>1. stream[d].given < stream[d].size /\ stream[d].stage # "off"
    BY <1>1, <1>8 DEF ChunkCheck, Gurt, Life
  <2> QED
    BY <1>2, <1>8, <2>1, StageLife DEF ChunkCheck, Stages, Early
<1>9. CASE ChunkWriteFails(d)
  BY <1>2, <1>9, StageLife DEF ChunkWriteFails, Gurt, Stages, Early
<1>10. ASSUME NEW ok \in BOOLEAN, NEW first \in BOOLEAN, NEW n \in 0 .. MaxChunks, ResponseHead(d, ok, n, first)
       PROVE  Apart(d) /\ LifeInv'
  <2>0. save[d] \in Paths
    BY <1>10, Working DEF ResponseHead, Gurt
  <2>1. /\ stream[d].stage # "off" /\ UNCHANGED <<entry, verdict, save, flagged, cut>>
        /\ OnlyStream(d) /\ stream'[d].given = 0 /\ stream'[d].stage \in {"check", "body"}
        /\ stream'[d].stage = "check" => 0 < stream'[d].size
    BY <1>1, <1>10, <2>0, HeadOfResponse DEF ResponseHead, Gurt
  <2>2. OnlyEvents(d) /\ FilesTyped'
    <3>1. <<"failed">> \in Seq({"failed", "completed"}) /\ <<"failed">> # <<>>
      OBVIOUS
    <3>2. CASE Open(d) /\ UNCHANGED events
      BY <1>1, <2>0, <3>2, OpenIs, Still DEF FilesTyped
    <3>3. CASE Push(d, <<"failed">>) /\ UNCHANGED <<disk, content>>
      BY <1>1, <3>1, <3>3, PushIs, Still
    <3> QED
      BY <1>1, <1>10, <2>0, <3>2, <3>3, HeadOfResponse
  <2>3. Apart(d)
    BY <2>1, <2>2, Still DEF Apart
  <2>4. Life(d)'
    <3>1. entry[d] = "active" /\ save[d] \in Paths /\ verdict[d] = "none"
      BY <2>1, Working
    <3> QED
      BY <2>1, <3>1 DEF Life, Early
  <2> QED
    BY <2>2, <2>3, <2>4, LifeFrame
<1>11. CASE \E ok, first \in BOOLEAN, n \in 0 .. MaxChunks : ResponseHead(d, ok, n, first)
  <2>1. PICK ok \in BOOLEAN, first \in BOOLEAN, n \in 0 .. MaxChunks : ResponseHead(d, ok, n, first)
    BY <1>11
  <2> QED
    BY <1>10, <2>1
<1>12. CASE ChunkWrite(d)
  <2>1. /\ stream[d].stage = "write" /\ AfterChunk(d) /\ WriteChunk(d)
        /\ UNCHANGED <<entry, verdict, save, flagged, disk, cut>>
    BY <1>12 DEF ChunkWrite, Gurt
  <2>2. stream[d].given < stream[d].size
    BY <1>1, <2>1 DEF Life
  <2>3. FilesTyped'
    BY <1>1, <2>1, <2>2, WriteIs, Still DEF FilesTyped
  <2>4. OnlyStream(d) /\ stream'[d].stage \in {"off", "body"}
    BY <1>1, <2>1, <2>2, AfterIs
  <2>5. OnlyEvents(d)
    BY <1>1, <2>1, <2>2, AfterIs
  <2>6. Apart(d)
    BY <2>1, <2>4, <2>5, Still DEF Apart
  <2>7. entry[d] = "active" /\ save[d] \in Paths /\ verdict[d] = "none"
    BY <2>1, Working
  <2>8. Life(d)'
    BY <2>1, <2>4, <2>7 DEF Life, Early
  <2> QED
    BY <2>3, <2>6, <2>8, LifeFrame
<1> QED
  BY <1>3, <1>4, <1>5, <1>6, <1>7, <1>8, <1>9, <1>11, <1>12 DEF GurtTask

LEMMA HttpLife ==
    ASSUME LifeInv, NEW d \in Downloads, HttpTask(d)
    PROVE  Apart(d) /\ LifeInv'
<1>1. DownloadsTypeOK /\ Life(d) /\ stream[d] \in Stream
  BY DEF LifeInv, DownloadsTypeOK
<1>2. entry[d] = "active" /\ save[d] \in Paths /\ verdict[d] = "none"
  BY Working DEF HttpTask, HttpHead, HttpChunk, HttpDone, HttpFails, Http
<1>3. ASSUME NEW v \in {"completed", "failed"}, Erase(d, v), FilesTyped', UNCHANGED <<save, flagged, cut>>
      PROVE  Apart(d) /\ LifeInv'
  <2>1. /\ OnlyEntry(d) /\ OnlyEvents(d) /\ OnlyStream(d)
        /\ entry'[d] = "gone" /\ events'[d] = <<>> /\ stream'[d].stage = "off"
    BY <1>1, <1>3, EraseIs
  <2>2. Apart(d)
    BY <1>3, <2>1, Still DEF Apart
  <2>3. Life(d)'
    BY <2>1 DEF Life, Early
  <2> QED
    BY <1>3, <2>2, <2>3, LifeFrame
<1>4. CASE HttpDone(d)
  BY <1>3, <1>4, Still DEF HttpDone
<1>5. CASE HttpFails(d)
  <2>1. FilesTyped'
    BY <1>1, <1>2, <1>5, RemoveFileIs, Still DEF HttpFails, FilesTyped
  <2> QED
    BY <1>3, <1>5, <2>1 DEF HttpFails
<1>6. ASSUME UNCHANGED <<entry, verdict, save, events, flagged, cut>>, OnlyStream(d), FilesTyped',
             stream'[d].stage = "body"
      PROVE  Apart(d) /\ LifeInv'
  <2>1. Apart(d)
    BY <1>6, Still DEF Apart
  <2>2. Life(d)'
    BY <1>2, <1>6 DEF Life, Early
  <2> QED
    BY <1>6, <2>1, <2>2, LifeFrame
<1>7. ASSUME NEW ok \in BOOLEAN, NEW n \in 0 .. MaxChunks, HttpHead(d, ok, n) PROVE Apart(d) /\ LifeInv'
  <2>1. FilesTyped' /\ Inode(d) \in Downloads
    <3>1. Inode(d) \in Downloads
      BY <1>1, <1>2 DEF Inode, DownloadsTypeOK
    <3> QED
      BY <1>1, <1>2, <1>7, <3>1, OpenIs, Still DEF HttpHead, FilesTyped
  <2>2. OnlyStream(d) /\ stream'[d].stage = "body"
    BY <1>1, <1>7, <2>1, HeadIs
  <2> QED
    BY <1>6, <1>7, <2>1, <2>2 DEF HttpHead
<1>8. CASE \E ok \in BOOLEAN, n \in 0 .. MaxChunks : HttpHead(d, ok, n)
  <2>1. PICK ok \in BOOLEAN, n \in 0 .. MaxChunks : HttpHead(d, ok, n)
    BY <1>8
  <2> QED
    BY <1>7, <2>1
<1>9. CASE HttpChunk(d)
  <2>1. OnlyStream(d) /\ stream'[d].stage = "body"
    BY <1>1, <1>9, GivenIs DEF HttpChunk, Http
  <2>2. FilesTyped'
    BY <1>1, <1>9, WriteIs, Still DEF HttpChunk, FilesTyped
  <2> QED
    BY <1>6, <1>9, <2>1, <2>2 DEF HttpChunk
<1> QED
  BY <1>4, <1>5, <1>8, <1>9 DEF HttpTask

LEMMA LifeInit == DownloadsInit => LifeInv
<1> SUFFICES ASSUME DownloadsInit PROVE LifeInv
  OBVIOUS
<1>1. NewStream("gurt", "off") \in Stream
  BY DownloadsAssumption DEF NewStream, Stream, Stages
<1>2. DownloadsTypeOK
  BY <1>1, NothingIsContent DEF DownloadsInit, DownloadsTypeOK
<1>3. \A d \in Downloads : Life(d)
  BY DEF DownloadsInit, Life, NewStream, Early
<1> QED
  BY <1>2, <1>3 DEF LifeInv

Step(d) == Manager(d) \/ Poll(d) \/ GurtTask(d) \/ Encrypted(d) \/ HttpTask(d)

LEMMA StepLife ==
    ASSUME LifeInv, NEW d \in Downloads, Step(d)
    PROVE  Apart(d) /\ LifeInv'
<1>1. CASE Manager(d) \/ Poll(d)
  BY <1>1, ManagerLife
<1>2. CASE GurtTask(d) \/ Encrypted(d)
  BY <1>2, GurtLife
<1>3. CASE HttpTask(d)
  BY <1>3, HttpLife
<1> QED
  BY <1>1, <1>2, <1>3 DEF Step

LEMMA LifeStep == LifeInv /\ [DownloadsNext]_downloadVars => LifeInv'
<1> SUFFICES ASSUME LifeInv, [DownloadsNext]_downloadVars PROVE LifeInv'
  OBVIOUS
<1>1. CASE DownloadsNext
  BY <1>1, StepLife DEF DownloadsNext, Step
<1>2. CASE UNCHANGED downloadVars
  BY <1>2 DEF downloadVars, LifeInv, Life, DownloadsTypeOK
<1> QED
  BY <1>1, <1>2

(* What the manager, the tasks and the disk keep is of its type.             *)
THEOREM DownloadsTypeCorrect == DownloadsSpec => []DownloadsTypeOK
<1>1. LifeInv => DownloadsTypeOK
  BY DEF LifeInv
<1> QED
  BY <1>1, LifeInit, LifeStep, PTL DEF DownloadsSpec

(* A step of a download is one that has not ended yet.                       *)
LEMMA StepsAreBeforeTheEnd ==
    ASSUME LifeInv, NEW d \in Downloads, Step(d)
    PROVE  verdict[d] = "none"
<1>1. CASE stream[d].stage # "off"
  BY <1>1, Working
<1>2. CASE stream[d].stage = "off"
  <2>1. entry[d] \in {"none", "asked", "active"}
    BY <1>2 DEF Step, Manager, AskDownload, DismissDownload, StartDownload, CancelDownload, Poll,
           GurtTask, Connected, GurtFails, GurtEnds, ResponseHead, NextChunk, ChunkCheck, ChunkWrite,
           ChunkWriteFails, Encrypted, Gurt, HttpTask, HttpHead, HttpChunk, HttpDone, HttpFails, Http
  <2> QED
    BY <2>1 DEF LifeInv, Life
<1> QED
  BY <1>1, <1>2

(* The user is told one result of a download, and it stays: whatever its     *)
(* task announces after the first, the entry is gone by then                 *)
(* (_on_gurt_download_failed, _on_download_completed).                       *)
THEOREM VerdictsStay == DownloadsSpec => OneVerdict
<1>1. LifeInv /\ [DownloadsNext]_downloadVars =>
        [\A d \in Downloads : verdict[d] # "none" => verdict'[d] = verdict[d]]_downloadVars
  <2> SUFFICES ASSUME LifeInv, DownloadsNext, NEW d \in Downloads, verdict[d] # "none"
               PROVE  verdict'[d] = verdict[d]
    OBVIOUS
  <2>1. PICK e \in Downloads : Step(e)
    BY DEF DownloadsNext, Step
  <2>2. verdict[e] = "none" /\ OnlyEntry(e)
    BY <2>1, StepLife, StepsAreBeforeTheEnd DEF Apart
  <2> QED
    BY <2>2 DEF OnlyEntry
<1> QED
  BY <1>1, LifeInit, LifeStep, PTL DEF DownloadsSpec, OneVerdict

-----------------------------------------------------------------------------
(* Files *)

(* Nothing of d can be found on the disk.                                    *)
Absent(d) == \A p \in Paths : disk[p] # NoFile => \A k \in 1 .. MaxChunks : content[disk[p]][k] # d

LEMMA OnDiskAtItsPath ==
    ASSUME FilesInv, NEW d \in Downloads, NEW p \in Paths, disk[p] # NoFile,
           NEW k \in 1 .. MaxChunks, content[disk[p]][k] = d
    PROVE  save[d] = p
<1>1. disk[p] \in Downloads /\ d # NoFile
  BY DownloadsAssumption DEF FilesInv, LifeInv, DownloadsTypeOK
<1> QED
  BY <1>1 DEF FilesInv, PathsAgree

LEMMA NoLeftoversMeans == NoLeftovers <=> \A d \in Downloads : verdict[d] = "failed" => Absent(d)
  BY DEF NoLeftovers, Absent

(* A step that leaves the files alone; what it calls failed is not there.    *)
LEMMA SameFiles ==
    ASSUME FilesInv, LifeInv', UNCHANGED <<save, disk, content>>,
           \A e \in Downloads : stream'[e].file = stream[e].file,
           \A e \in Downloads : verdict'[e] = "failed" => verdict[e] = "failed" \/ Absent(e)
    PROVE  FilesInv'
<1>1. PathsAgree'
  BY DEF FilesInv, PathsAgree
<1>2. ASSUME NEW e \in Downloads, verdict'[e] = "failed" PROVE Absent(e)
  BY <1>2, NoLeftoversMeans DEF FilesInv
<1>3. NoLeftovers'
  BY <1>2 DEF NoLeftovers, Absent
<1> QED
  BY <1>1, <1>3 DEF FilesInv

LEMMA OpenFiles ==
    ASSUME FilesInv, LifeInv', NEW d \in Downloads, save[d] \in Paths, Open(d), UNCHANGED <<save, verdict>>,
           OnlyStream(d), stream'[d].file = Inode(d)
    PROVE  FilesInv'
<1> DEFINE f == Inode(d)
<1>1. DownloadsTypeOK /\ save[d] # NoFile
  BY DownloadsAssumption DEF FilesInv, LifeInv
<1>2. /\ f \in Downloads
      /\ disk'[save[d]] = f /\ \A p \in Paths : p # save[d] => disk'[p] = disk[p]
      /\ content'[f] = Nothing /\ \A i \in Downloads : i # f => content'[i] = content[i]
  BY <1>1, OpenIs
<1>3. save[f] = save[d]
  BY DEF Inode, FilesInv, PathsAgree
<1>4. stream'[d].file = f /\ \A e \in Downloads : e # d => stream'[e] = stream[e]
  BY DEF OnlyStream
<1> HIDE DEF f
<1>5. \A i \in Downloads, k \in 1 .. MaxChunks : content'[i][k] # NoFile => content'[i][k] = content[i][k]
  BY <1>2, NothingIsContent
<1>6. PathsAgree'
  BY <1>1, <1>2, <1>3, <1>4, <1>5 DEF FilesInv, PathsAgree
<1>7. ASSUME NEW e \in Downloads, verdict[e] = "failed", NEW p \in Paths, disk'[p] # NoFile,
             NEW k \in 1 .. MaxChunks
      PROVE  content'[disk'[p]][k] # e
  <2>1. e # NoFile /\ disk'[p] \in Downloads
    BY <1>2, <1>7, DownloadsAssumption DEF FilesInv, LifeInv, DownloadsTypeOK
  <2>2. CASE disk'[p] = f
    BY <1>2, <2>1, <2>2, NothingIsContent
  <2>3. CASE disk'[p] # f
    <3>1. disk'[p] = disk[p] /\ content'[disk'[p]] = content[disk[p]]
      BY <1>2, <2>1, <2>3
    <3> QED
      BY <1>7, <3>1 DEF FilesInv, NoLeftovers
  <2> QED
    BY <2>2, <2>3
<1>8. NoLeftovers'
  BY <1>7 DEF NoLeftovers
<1> QED
  BY <1>6, <1>8 DEF FilesInv

LEMMA WriteFiles ==
    ASSUME FilesInv, LifeInv', NEW d \in Downloads, verdict[d] = "none", stream[d].given < stream[d].size,
           WriteChunk(d), UNCHANGED <<save, disk, verdict>>,
           \A e \in Downloads : stream'[e].file = stream[e].file
    PROVE  FilesInv'
<1> DEFINE f == stream[d].file
           n == stream[d].given + 1
<1>1. DownloadsTypeOK
  BY DEF FilesInv, LifeInv
<1>2. \A i \in Downloads, k \in 1 .. MaxChunks :
        content'[i][k] = IF f = i /\ k = n THEN d ELSE content[i][k]
  BY <1>1, WriteIs
<1>3. f # NoFile => save[f] = save[d] /\ save[d] # NoFile
  BY DEF FilesInv, PathsAgree
<1> HIDE DEF f, n
<1>4. \A i \in Downloads : i # NoFile
  BY DownloadsAssumption
<1>5. PathsAgree'
  BY <1>2, <1>3, <1>4 DEF FilesInv, PathsAgree
<1>6. \A p \in Paths : disk[p] # NoFile => disk[p] \in Downloads
  BY <1>1 DEF DownloadsTypeOK
<1>7. NoLeftovers'
  BY <1>2, <1>6 DEF FilesInv, NoLeftovers
<1> QED
  BY <1>5, <1>7 DEF FilesInv

(* The path of a failed download is the only one where its data can be.      *)
LEMMA RemoveFiles ==
    ASSUME FilesInv, LifeInv', NEW d \in Downloads, save[d] \in Paths, Erase(d, "failed"), RemoveFile(d),
           UNCHANGED <<save, content>>
    PROVE  FilesInv'
<1>1. DownloadsTypeOK
  BY DEF FilesInv, LifeInv
<1>2. disk'[save[d]] = NoFile /\ \A p \in Paths : p # save[d] => disk'[p] = disk[p]
  BY <1>1, RemoveFileIs
<1>3. \A e \in Downloads : stream'[e].file = stream[e].file /\ (e # d => verdict'[e] = verdict[e])
  <2>1. OnlyEntry(d) /\ OnlyStream(d) /\ SameBody(d)
    BY <1>1, EraseIs
  <2> QED
    BY <2>1 DEF OnlyEntry, OnlyStream, SameBody
<1>4. PathsAgree'
  BY <1>2, <1>3 DEF FilesInv, PathsAgree
<1>5. ASSUME NEW e \in Downloads, verdict'[e] = "failed", NEW p \in Paths, disk'[p] # NoFile,
             NEW k \in 1 .. MaxChunks
      PROVE  content[disk[p]][k] # e /\ disk'[p] = disk[p]
  <2>1. p # save[d] /\ disk'[p] = disk[p]
    BY <1>2, <1>5
  <2>2. CASE e = d
    BY <1>5, <2>1, <2>2, OnDiskAtItsPath
  <2>3. CASE e # d
    BY <1>3, <1>5, <2>1, <2>3 DEF FilesInv, NoLeftovers
  <2> QED
    BY <2>1, <2>2, <2>3
<1>6. NoLeftovers'
  BY <1>5 DEF NoLeftovers
<1> QED
  BY <1>4, <1>6 DEF FilesInv

(* A download gets its path when nobody has a file of it.                    *)
LEMMA StartFiles ==
    ASSUME FilesInv, LifeInv', NEW d \in Downloads, NEW scheme \in {"gurt", "http"}, NEW p \in Paths,
           StartDownload(d, scheme, p)
    PROVE  FilesInv'
<1>1. DownloadsTypeOK /\ save[d] = NoFile /\ \A i \in Downloads : i # NoFile
  BY DownloadsAssumption DEF FilesInv, LifeInv, Life, StartDownload
<1>2. /\ UNCHANGED <<disk, content>> /\ \A e \in Downloads : e # d => save'[e] = save[e]
      /\ \A e \in Downloads : verdict'[e] = "failed" => verdict[e] = "failed" \/ e = d
  BY <1>1 DEF StartDownload, DownloadsTypeOK
<1>3. stream[d].file = NoFile
  BY <1>1 DEF FilesInv, PathsAgree
<1>4. \A e \in Downloads : stream'[e].file = stream[e].file
  <2>1. stream' = stream \/ stream' = [stream EXCEPT ![d] = NewStream(scheme, "connect")]
    BY DEF StartDownload
  <2>2. NewStream(scheme, "connect").file = NoFile
    BY DEF NewStream
  <2> QED
    BY <1>1, <1>3, <2>1, <2>2 DEF DownloadsTypeOK
<1>5. \A q \in Paths : disk[q] # d
  BY <1>1, DownloadsAssumption DEF FilesInv, PathsAgree
<1>6. \A e \in Downloads : stream[e].file # d
  BY <1>1 DEF FilesInv, PathsAgree
<1>7. \A i \in Downloads, k \in 1 .. MaxChunks : content[i][k] # d
  BY <1>1 DEF FilesInv, PathsAgree
<1>8. /\ \A q \in Paths : disk[q] \in Downloads \cup {NoFile}
      /\ \A i \in Downloads, k \in 1 .. MaxChunks : content[i][k] \in Downloads \cup {NoFile}
      /\ \A e \in Downloads : stream[e].file \in Downloads \cup {NoFile}
  <2>1. \A i \in Downloads : content[i] \in Content /\ stream[i] \in Stream
    BY <1>1 DEF DownloadsTypeOK
  <2>2. \A i \in Downloads, k \in 1 .. MaxChunks : content[i][k] \in Downloads \cup {NoFile}
    BY <2>1 DEF Content
  <2>3. \A e \in Downloads : stream[e].file \in Downloads \cup {NoFile}
    BY <2>1 DEF Stream
  <2> QED
    BY <1>1, <2>2, <2>3 DEF DownloadsTypeOK
<1>9. PathsAgree'
  <2>1. \A q \in Paths : disk'[q] # NoFile => save'[disk'[q]] = q
    BY <1>2, <1>5, <1>8 DEF FilesInv, PathsAgree
  <2>2. \A e \in Downloads : stream'[e].file # NoFile => save'[stream'[e].file] = save'[e] /\ save'[e] # NoFile
    BY <1>2, <1>3, <1>4, <1>6, <1>8 DEF FilesInv, PathsAgree
  <2>3. \A i \in Downloads, k \in 1 .. MaxChunks :
          content'[i][k] # NoFile => save'[content'[i][k]] = save'[i] /\ save'[i] # NoFile
    <3> SUFFICES ASSUME NEW i \in Downloads, NEW k \in 1 .. MaxChunks, content[i][k] # NoFile
                 PROVE  save'[content[i][k]] = save'[i] /\ save'[i] # NoFile
      BY <1>2
    <3>1. content[i][k] \in Downloads /\ content[i][k] # d /\ save[content[i][k]] = save[i] /\ save[i] # NoFile
      BY <1>7, <1>8 DEF FilesInv, PathsAgree
    <3>2. i # d
      BY <1>1, <3>1
    <3> QED
      BY <1>2, <3>1, <3>2
  <2> QED
    BY <2>1, <2>2, <2>3 DEF PathsAgree
<1>10. Absent(d)
  BY <1>7, <1>8 DEF Absent
<1>11. NoLeftovers'
  BY <1>2, <1>10 DEF FilesInv, NoLeftovers, Absent
<1> QED
  BY <1>9, <1>11 DEF FilesInv

LEMMA StepFiles ==
    ASSUME FilesInv, NEW d \in Downloads, Step(d)
    PROVE  FilesInv'
<1>1. LifeInv /\ LifeInv' /\ Apart(d) /\ DownloadsTypeOK /\ Life(d)
  BY StepLife DEF FilesInv, LifeInv
<1>2. ASSUME UNCHANGED <<save, disk, content, verdict>>, stream'[d].file = stream[d].file PROVE FilesInv'
  <2>1. \A e \in Downloads : stream'[e].file = stream[e].file
    BY <1>1, <1>2 DEF Apart, OnlyStream
  <2> QED
    BY <1>1, <1>2, <2>1, SameFiles
<1>3. ASSUME UNCHANGED <<save, disk, content, verdict>>, NEW s \in Stages, Stage(d, s) PROVE FilesInv'
  BY <1>1, <1>2, <1>3, StageIs DEF SameBody
<1>4. ASSUME UNCHANGED <<save, disk, content>>, NEW v \in {"completed", "failed", "cancelled"}, Erase(d, v),
             v = "failed" => Absent(d)
      PROVE  FilesInv'
  <2>1. OnlyEntry(d) /\ verdict'[d] = v /\ OnlyStream(d) /\ SameBody(d)
    BY <1>1, <1>4, EraseIs
  <2>2. /\ \A e \in Downloads : stream'[e].file = stream[e].file
        /\ \A e \in Downloads : verdict'[e] = "failed" => verdict[e] = "failed" \/ Absent(e)
    BY <1>4, <2>1 DEF OnlyEntry, OnlyStream, SameBody
  <2> QED
    BY <1>1, <1>4, <2>2, SameFiles
<1>5. CASE Manager(d)
  <2>1. CASE AskDownload(d) \/ DismissDownload(d)
    BY <1>2, <2>1 DEF AskDownload, DismissDownload
  <2>2. ASSUME NEW scheme \in {"gurt", "http"}, NEW p \in Paths, StartDownload(d, scheme, p) PROVE FilesInv'
    BY <1>1, <2>2, StartFiles
  <2>3. CASE CancelDownload(d)
    BY <1>2, <1>4, <2>3 DEF CancelDownload
  <2> QED
    BY <1>5, <2>1, <2>2, <2>3 DEF Manager
<1>6. CASE Poll(d)
  <2>1. Head(events[d]) \in {"failed", "completed"}
    <3>1. events[d] \in Seq({"failed", "completed"}) /\ events[d] # <<>>
      BY <1>1, <1>6 DEF Poll, DownloadsTypeOK
    <3> QED
      BY <3>1
  <2>2. save[d] \in Paths
    BY <1>1, <1>6, Working DEF Poll
  <2>3. CASE Head(events[d]) = "failed"
    BY <1>1, <1>6, <2>2, <2>3, RemoveFiles DEF Poll
  <2>4. CASE Head(events[d]) = "completed"
    BY <1>4, <1>6, <2>4 DEF Poll
  <2> QED
    BY <2>1, <2>3, <2>4
<1>7. CASE Connected(d) \/ Encrypted(d) \/ GurtFails(d) \/ GurtEnds(d) \/ NextChunk(d) \/ ChunkCheck(d)
           \/ ChunkWriteFails(d)
  <2>1. UNCHANGED <<save, disk, content, verdict>>
    BY <1>7 DEF Connected, Encrypted, GurtFails, GurtEnds, NextChunk, ChunkCheck, ChunkWriteFails
  <2>2. \E s \in {"tls", "sent", "off", "check", "write"} : Stage(d, s)
    BY <1>7 DEF Connected, Encrypted, GurtFails, GurtEnds, NextChunk, ChunkCheck, ChunkWriteFails
  <2> QED
    BY <1>3, <2>1, <2>2 DEF Stages
<1>8. ASSUME NEW ok \in BOOLEAN, NEW first \in BOOLEAN, NEW n \in 0 .. MaxChunks, ResponseHead(d, ok, n, first)
      PROVE  FilesInv'
  <2>1. /\ save[d] \in Paths /\ UNCHANGED <<save, verdict>> /\ stream[d].stage = "sent"
    BY <1>1, <1>8, Working DEF ResponseHead, Gurt
  <2>2. CASE Open(d) /\ stream'[d].file = Inode(d)
    BY <1>1, <2>1, <2>2, OpenFiles DEF Apart
  <2>3. CASE UNCHANGED <<disk, content>> /\ stream'[d].file = NoFile
    <3>1. stream[d].file = NoFile
      BY <1>1, <2>1 DEF Life, Early
    <3> QED
      BY <1>2, <2>1, <2>3, <3>1
  <2> QED
    BY <1>1, <1>8, <2>1, <2>2, <2>3, HeadOfResponse
<1>9. CASE ChunkWrite(d)
  <2>1. stream[d].stage = "write" /\ AfterChunk(d) /\ WriteChunk(d) /\ UNCHANGED <<save, disk, verdict>>
    BY <1>9 DEF ChunkWrite, Gurt
  <2>2. stream[d].given < stream[d].size /\ verdict[d] = "none"
    BY <1>1, <2>1, Working DEF Life
  <2>3. OnlyStream(d) /\ stream'[d].file = stream[d].file
    BY <1>1, <2>1, <2>2, AfterIs
  <2> QED
    BY <1>1, <2>1, <2>2, <2>3, WriteFiles DEF OnlyStream
<1>10. ASSUME NEW ok \in BOOLEAN, NEW n \in 0 .. MaxChunks, HttpHead(d, ok, n) PROVE FilesInv'
  <2>1. save[d] \in Paths /\ UNCHANGED <<save, verdict>> /\ stream[d].stage = "connect"
    BY <1>1, <1>10, Working DEF HttpHead, Http
  <2>2. Inode(d) \in Downloads
    BY <1>1, <2>1 DEF Inode, DownloadsTypeOK
  <2>3. OnlyStream(d) /\ stream'[d].file = IF n = 0 THEN NoFile ELSE Inode(d)
    BY <1>1, <1>10, <2>2, HeadIs
  <2>4. CASE n = 0
    <3>1. stream[d].file = NoFile
      BY <1>1, <2>1 DEF Life, Early
    <3> QED
      BY <1>2, <1>10, <2>1, <2>3, <2>4, <3>1 DEF HttpHead
  <2>5. CASE n # 0
    BY <1>1, <1>10, <2>1, <2>3, <2>5, OpenFiles DEF HttpHead
  <2> QED
    BY <2>4, <2>5
<1>11. CASE HttpChunk(d)
  <2>1. /\ stream[d].given < stream[d].size /\ stream[d].stage = "body" /\ WriteChunk(d)
        /\ UNCHANGED <<save, disk, verdict>>
    BY <1>11 DEF HttpChunk, Http
  <2>2. verdict[d] = "none"
    BY <1>1, <2>1, Working
  <2>3. OnlyStream(d) /\ stream'[d].file = stream[d].file
    BY <1>1, <1>11, GivenIs
  <2> QED
    BY <1>1, <2>1, <2>2, <2>3, WriteFiles DEF OnlyStream
<1>12. CASE HttpDone(d)
  <2>1. CASE disk[save[d]] = NoFile
    <3>1. Absent(d)
      BY <2>1, OnDiskAtItsPath DEF Absent
    <3> QED
      BY <1>4, <1>12, <2>1, <3>1 DEF HttpDone
  <2>2. CASE disk[save[d]] # NoFile
    BY <1>4, <1>12, <2>2 DEF HttpDone
  <2> QED
    BY <2>1, <2>2
<1>13. CASE HttpFails(d)
  <2>1. save[d] \in Paths
    BY <1>1, <1>13, Working DEF HttpFails, Http
  <2> QED
    BY <1>1, <1>13, <2>1, RemoveFiles DEF HttpFails
<1>14. CASE GurtTask(d) \/ Encrypted(d)
  <2>1. ASSUME NEW ok \in BOOLEAN, NEW first \in BOOLEAN, NEW n \in 0 .. MaxChunks, ResponseHead(d, ok, n, first)
        PROVE  FilesInv'
    BY <1>8, <2>1
  <2>2. CASE \E ok, first \in BOOLEAN, n \in 0 .. MaxChunks : ResponseHead(d, ok, n, first)
    <3>1. PICK ok \in BOOLEAN, first \in BOOLEAN, n \in 0 .. MaxChunks : ResponseHead(d, ok, n, first)
      BY <2>2
    <3> QED
      BY <2>1, <3>1
  <2> QED
    BY <1>7, <1>9, <1>14, <2>2 DEF GurtTask
<1>15. CASE HttpTask(d)
  <2>1. CASE \E ok \in BOOLEAN, n \in 0 .. MaxChunks : HttpHead(d, ok, n)
    <3>1. PICK ok \in BOOLEAN, n \in 0 .. MaxChunks : HttpHead(d, ok, n)
      BY <2>1
    <3> QED
      BY <1>10, <3>1
  <2> QED
    BY <1>11, <1>12, <1>13, <1>15, <2>1 DEF HttpTask
<1> QED
  BY <1>5, <1>6, <1>14, <1>15 DEF Step

LEMMA FilesInit == DownloadsInit => FilesInv
<1> SUFFICES ASSUME DownloadsInit PROVE FilesInv
  OBVIOUS
<1>1. PathsAgree
  BY NothingIsContent DEF DownloadsInit, PathsAgree, NewStream
<1>2. NoLeftovers
  BY DEF DownloadsInit, NoLeftovers
<1> QED
  BY <1>1, <1>2, LifeInit DEF FilesInv

LEMMA FilesStep == FilesInv /\ [DownloadsNext]_downloadVars => FilesInv'
<1> SUFFICES ASSUME FilesInv, [DownloadsNext]_downloadVars PROVE FilesInv'
  OBVIOUS
<1>1. CASE DownloadsNext
  BY <1>1, StepFiles DEF DownloadsNext, Step
<1>2. CASE UNCHANGED downloadVars
  <2>1. LifeInv'
    BY LifeStep DEF FilesInv
  <2> QED
    BY <1>2, <2>1, SameFiles DEF downloadVars
<1> QED
  BY <1>1, <1>2

(* However many downloads save to one path, overwrite and remove what is     *)
(* there: of one that failed nothing is left (_on_gurt_download_failed,      *)
(* _on_download_completed).                                                  *)
THEOREM FailedLeaveNothing == DownloadsSpec => []NoLeftovers
<1>1. FilesInv => NoLeftovers
  BY DEF FilesInv
<1> QED
  BY <1>1, FilesInit, FilesStep, PTL DEF DownloadsSpec

-----------------------------------------------------------------------------
(* Whole files *)

(* A step of d changes no file but those of its path.                        *)
Touches(d) ==
    /\ \A p \in Paths : p # save[d] => disk'[p] = disk[p]
    /\ \A i \in Downloads : save[i] # save[d] => content'[i] = content[i]

LEMMA SameContent ==
    ASSUME NEW a \in Content, NEW b \in Content, \A k \in 1 .. MaxChunks : a[k] = b[k]
    PROVE  a = b
<1>1. a = [k \in 1 .. MaxChunks |-> a[k]] /\ b = [k \in 1 .. MaxChunks |-> b[k]]
  BY DEF Content
<1>2. [k \in 1 .. MaxChunks |-> a[k]] = [k \in 1 .. MaxChunks |-> b[k]]
  OBVIOUS
<1> QED
  BY <1>1, <1>2

LEMMA WriteTouches ==
    ASSUME FilesInv, NEW d \in Downloads, stream[d].given < stream[d].size, WriteChunk(d), UNCHANGED disk
    PROVE  Touches(d)
<1>1. ASSUME NEW i \in Downloads, save[i] # save[d] PROVE content'[i] = content[i]
  <2>1. stream[d].file # i
    BY <1>1, DownloadsAssumption DEF FilesInv, PathsAgree
  <2>2. \A k \in 1 .. MaxChunks : content'[i][k] = content[i][k]
    BY <2>1, WriteIs DEF FilesInv, LifeInv
  <2>3. content'[i] \in Content /\ content[i] \in Content
    BY WriteIs DEF FilesInv, LifeInv, DownloadsTypeOK
  <2> QED
    BY <2>2, <2>3, SameContent
<1> QED
  BY <1>1 DEF Touches

LEMMA OpenTouches ==
    ASSUME FilesInv, NEW d \in Downloads, save[d] \in Paths, Open(d)
    PROVE  Touches(d)
<1>1. save[Inode(d)] = save[d]
  BY DEF Inode, FilesInv, PathsAgree
<1> QED
  BY <1>1, OpenIs DEF FilesInv, LifeInv, Touches

LEMMA StepTouches ==
    ASSUME FilesInv, NEW d \in Downloads, Step(d)
    PROVE  Touches(d)
<1>1. DownloadsTypeOK /\ Life(d) /\ LifeInv
  BY DEF FilesInv, LifeInv
<1>2. UNCHANGED <<disk, content>> => Touches(d)
  BY DEF Touches
<1>3. save[d] \in Paths /\ RemoveFile(d) /\ UNCHANGED content => Touches(d)
  BY <1>1, RemoveFileIs DEF Touches
<1>4. CASE Manager(d)
  BY <1>2, <1>4 DEF Manager, AskDownload, DismissDownload, StartDownload, CancelDownload
<1>5. CASE Poll(d)
  BY <1>1, <1>2, <1>3, <1>5, Working DEF Poll
<1>6. CASE Connected(d) \/ Encrypted(d) \/ GurtFails(d) \/ GurtEnds(d) \/ NextChunk(d) \/ ChunkCheck(d)
           \/ ChunkWriteFails(d)
  BY <1>2, <1>6 DEF Connected, Encrypted, GurtFails, GurtEnds, NextChunk, ChunkCheck, ChunkWriteFails
<1>7. CASE \E ok, first \in BOOLEAN, n \in 0 .. MaxChunks : ResponseHead(d, ok, n, first)
  <2>1. save[d] \in Paths /\ (Open(d) \/ UNCHANGED <<disk, content>>)
    BY <1>1, <1>7, Working DEF ResponseHead, Gurt
  <2> QED
    BY <1>2, <2>1, OpenTouches
<1>8. CASE ChunkWrite(d)
  <2>1. WriteChunk(d) /\ UNCHANGED disk /\ stream[d].given < stream[d].size
    BY <1>1, <1>8 DEF ChunkWrite, Gurt, Life
  <2> QED
    BY <2>1, WriteTouches
<1>9. CASE \E ok \in BOOLEAN, n \in 0 .. MaxChunks : HttpHead(d, ok, n)
  <2>1. save[d] \in Paths /\ (Open(d) \/ UNCHANGED <<disk, content>>)
    BY <1>1, <1>9, Working DEF HttpHead, Http
  <2> QED
    BY <1>2, <2>1, OpenTouches
<1>10. CASE HttpChunk(d)
  BY <1>10, WriteTouches DEF HttpChunk
<1>11. CASE HttpDone(d) \/ HttpFails(d)
  BY <1>1, <1>2, <1>3, <1>11, Working DEF HttpDone, HttpFails, Http
<1> QED
  BY <1>4, <1>5, <1>6, <1>7, <1>8, <1>9, <1>10, <1>11 DEF Step, GurtTask, HttpTask

(* Who is alone after a step was alone before it, for paths are kept.        *)
LEMMA AloneBefore ==
    ASSUME FilesInv, NEW d \in Downloads, Step(d), NEW e \in Downloads, save[e] # NoFile, Alone(e)'
    PROVE  Alone(e)
<1>1. \A x \in Downloads : save[x] # NoFile => save'[x] = save[x]
  <2>1. CASE UNCHANGED save
    BY <2>1
  <2>2. ASSUME NEW scheme \in {"gurt", "http"}, NEW p \in Paths, StartDownload(d, scheme, p)
        PROVE  \A x \in Downloads : save[x] # NoFile => save'[x] = save[x]
    <3>1. entry[d] = "asked" /\ save' = [save EXCEPT ![d] = p]
      BY <2>2 DEF StartDownload
    <3>2. save[d] = NoFile /\ save \in [Downloads -> Paths \cup {NoFile}]
      BY <3>1 DEF FilesInv, LifeInv, Life, DownloadsTypeOK
    <3> QED
      BY <3>1, <3>2
  <2>3. CASE Manager(d)
    BY <2>1, <2>2, <2>3 DEF Manager, AskDownload, DismissDownload, CancelDownload
  <2>4. CASE Poll(d) \/ Encrypted(d)
    BY <2>1, <2>4 DEF Poll, Encrypted
  <2>5. CASE GurtTask(d)
    BY <2>1, <2>5 DEF GurtTask, Connected, GurtFails, GurtEnds, ResponseHead, NextChunk, ChunkCheck,
           ChunkWrite, ChunkWriteFails
  <2>6. CASE HttpTask(d)
    BY <2>1, <2>6 DEF HttpTask, HttpHead, HttpChunk, HttpDone, HttpFails
  <2> QED
    BY <2>3, <2>4, <2>5, <2>6 DEF Step
<1> QED
  BY <1>1 DEF Alone

(* The other downloads.                                                      *)
LEMMA OthersWhole ==
    ASSUME WholeInv, NEW d \in Downloads, Step(d), NEW e \in Downloads, e # d
    PROVE  OwnFile(e)' /\ Honest(e)' /\ Saved(e)'
<1>1. FilesInv /\ OwnFile(e) /\ Honest(e) /\ Saved(e) /\ Apart(d)
  BY StepLife DEF WholeInv, FilesInv
<1>2. /\ stream'[e] = stream[e] /\ events'[e] = events[e] /\ entry'[e] = entry[e] /\ save'[e] = save[e]
      /\ e \in cut' <=> e \in cut
  BY <1>1 DEF Apart, OnlyEntry, OnlyStream, OnlyEvents
<1>3. Honest(e)' /\ Saved(e)'
  BY <1>1, <1>2 DEF Honest, Saved
<1>4. ASSUME Alone(e)', entry[e] = "active", stream[e].file # NoFile PROVE OwnFile(e)'
  <2>1. save[e] \in Paths /\ save[e] # NoFile
    BY <1>1, <1>4, Working DEF FilesInv
  <2>2. Alone(e)
    BY <1>1, <1>4, <2>1, AloneBefore
  <2>3. save[d] # save[e]
    BY <2>2 DEF Alone
  <2>4. disk'[save[e]] = disk[save[e]] /\ content'[e] = content[e]
    BY <1>1, <2>1, <2>3, StepTouches DEF Touches
  <2> QED
    BY <1>1, <1>2, <1>4, <2>2, <2>4 DEF OwnFile
<1>5. OwnFile(e)'
  BY <1>2, <1>4 DEF OwnFile
<1> QED
  BY <1>3, <1>5

(* A new file is its owner's and empty.                                      *)
LEMMA OpenOwn ==
    ASSUME WholeInv, NEW d \in Downloads, Step(d), entry[d] = "active", Open(d),
           stream'[d].file = Inode(d), stream'[d].given = 0, UNCHANGED save
    PROVE  OwnFile(d)'
<1> SUFFICES ASSUME Alone(d)'
             PROVE  /\ stream'[d].file = d /\ disk'[save'[d]] = d
                    /\ content'[d] = [k \in 1 .. MaxChunks |-> IF k <= stream'[d].given THEN d ELSE NoFile]
  BY DEF OwnFile
<1>1. DownloadsTypeOK /\ save[d] \in Paths /\ save[d] # NoFile
  BY Working DEF WholeInv, FilesInv, LifeInv
<1>2. Alone(d)
  BY <1>1, AloneBefore DEF WholeInv
<1>3. Inode(d) = d
  <2>1. Inode(d) \in Downloads /\ save[Inode(d)] = save[d]
    BY <1>1, OpenIs DEF Inode, WholeInv, FilesInv, PathsAgree
  <2> QED
    BY <1>2, <2>1 DEF Alone
<1>4. disk'[save[d]] = d /\ content'[d] = Nothing
  BY <1>1, <1>3, OpenIs
<1>5. \A k \in 1 .. MaxChunks : ~(k <= 0)
  BY DownloadsAssumption
<1>6. Nothing = [k \in 1 .. MaxChunks |-> IF k <= 0 THEN d ELSE NoFile]
  BY <1>5 DEF Nothing
<1> QED
  BY <1>3, <1>4, <1>6

(* One more chunk of it.                                                     *)
LEMMA WriteOwn ==
    ASSUME WholeInv, NEW d \in Downloads, Step(d), entry[d] = "active",
           stream[d].given < stream[d].size, WriteChunk(d),
           stream'[d].file = stream[d].file, stream'[d].given = stream[d].given + 1, UNCHANGED <<save, disk>>
    PROVE  OwnFile(d)'
<1> SUFFICES ASSUME Alone(d)', stream[d].file # NoFile
             PROVE  /\ stream'[d].file = d /\ disk'[save'[d]] = d
                    /\ content'[d] = [k \in 1 .. MaxChunks |-> IF k <= stream'[d].given THEN d ELSE NoFile]
  BY DEF OwnFile
<1>1. DownloadsTypeOK /\ save[d] # NoFile
  BY Working DEF WholeInv, FilesInv, LifeInv
<1>2. Alone(d) /\ OwnFile(d)
  BY <1>1, AloneBefore DEF WholeInv
<1> DEFINE n == stream[d].given
<1>3. stream[d].file = d /\ disk[save[d]] = d
      /\ content[d] = [k \in 1 .. MaxChunks |-> IF k <= n THEN d ELSE NoFile]
  BY <1>2 DEF OwnFile
<1>4. n \in 0 .. MaxChunks
  <2>1. stream[d] \in Stream
    BY <1>1 DEF DownloadsTypeOK
  <2> QED
    BY <2>1 DEF Stream
<1>5. content'[d] \in Content /\ \A k \in 1 .. MaxChunks :
        content'[d][k] = IF k = n + 1 THEN d ELSE content[d][k]
  <2>1. /\ content' \in [Downloads -> Content]
        /\ \A i \in Downloads, k \in 1 .. MaxChunks :
             content'[i][k] = IF stream[d].file = i /\ k = stream[d].given + 1 THEN d ELSE content[i][k]
    BY <1>1, WriteIs
  <2> QED
    BY <1>3, <2>1
<1> HIDE DEF n
<1>6. \A k \in 1 .. MaxChunks : content'[d][k] = IF k <= n + 1 THEN d ELSE NoFile
  BY <1>3, <1>4, <1>5, DownloadsAssumption
<1>7. content'[d] = [k \in 1 .. MaxChunks |-> IF k <= n + 1 THEN d ELSE NoFile]
  BY <1>5, <1>6 DEF Content
<1> QED
  BY <1>3, <1>7 DEF n

(* An erased download has no task, no event, and no claim to its file.       *)
LEMMA ErasedWhole ==
    ASSUME WholeInv, NEW d \in Downloads, NEW v \in {"completed", "failed", "cancelled"}, Erase(d, v)
    PROVE  OwnFile(d)' /\ Honest(d)' /\ Saved(d)'
<1>1. entry'[d] = "gone" /\ events'[d] = <<>> /\ stream'[d].stage = "off"
  BY EraseIs DEF WholeInv, FilesInv, LifeInv
<1> QED
  BY <1>1 DEF OwnFile, Honest, Saved

(* A task that leaves its file alone.                                        *)
LEMMA SameOwn ==
    ASSUME WholeInv, NEW d \in Downloads, Step(d), entry[d] = "active",
           stream'[d].file = stream[d].file, stream'[d].given = stream[d].given, UNCHANGED <<save, disk, content>>
    PROVE  OwnFile(d)'
<1>1. save[d] # NoFile /\ OwnFile(d)
  BY Working DEF WholeInv, FilesInv
<1>2. Alone(d)' => Alone(d)
  BY <1>1, AloneBefore DEF WholeInv
<1> QED
  BY <1>1, <1>2 DEF OwnFile

LEMMA ManagerWhole ==
    ASSUME WholeInv, NEW d \in Downloads, Manager(d) \/ Poll(d)
    PROVE  OwnFile(d)' /\ Honest(d)' /\ Saved(d)'
<1>1. OwnFile(d) /\ Honest(d) /\ Saved(d) /\ DownloadsTypeOK /\ Life(d) /\ Step(d)
  BY DEF WholeInv, FilesInv, LifeInv, Step
<1>2. CASE AskDownload(d) \/ DismissDownload(d)
  <2>1. entry'[d] # "active" /\ UNCHANGED <<stream, events, cut>>
    BY <1>1, <1>2 DEF AskDownload, DismissDownload, DownloadsTypeOK
  <2> QED
    BY <1>1, <2>1 DEF OwnFile, Honest, Saved
<1>3. ASSUME NEW scheme \in {"gurt", "http"}, NEW p \in Paths, StartDownload(d, scheme, p)
      PROVE  OwnFile(d)' /\ Honest(d)' /\ Saved(d)'
  <2>1. events'[d] = <<>> /\ stream[d].stage = "off"
    BY <1>1, <1>3 DEF StartDownload, Life
  <2>2. \/ stream'[d] = NewStream(scheme, "connect")
        \/ stream'[d] = stream[d] /\ entry'[d] = "gone"
    BY <1>1, <1>3 DEF StartDownload, DownloadsTypeOK
  <2>3. /\ NewStream(scheme, "connect").stage = "connect" /\ NewStream(scheme, "connect").file = NoFile
    BY DEF NewStream
  <2> QED
    BY <2>1, <2>2, <2>3 DEF OwnFile, Honest, Saved
<1>4. CASE CancelDownload(d)
  <2>1. CASE Erase(d, "cancelled")
    BY <2>1, ErasedWhole
  <2>2. CASE UNCHANGED <<entry, events, stream, save, disk, content, cut>>
    <3>1. OwnFile(d)'
      BY <1>1, <1>4, <2>2, SameOwn DEF CancelDownload
    <3> QED
      BY <1>1, <2>2, <3>1 DEF Honest, Saved
  <2> QED
    BY <1>4, <2>1, <2>2 DEF CancelDownload
<1>5. CASE Poll(d)
  <2>1. events[d] \in Seq({"failed", "completed"}) /\ events[d] # <<>>
    BY <1>1, <1>5 DEF Poll, DownloadsTypeOK
  <2>2. Head(events[d]) \in {"failed", "completed"}
    BY <2>1
  <2> QED
    BY <1>5, <2>2, ErasedWhole DEF Poll
<1> QED
  BY <1>2, <1>3, <1>4, <1>5 DEF Manager

(* A task that only announces something.                                     *)
LEMMA StageWhole ==
    ASSUME WholeInv, NEW d \in Downloads, Step(d), NEW s \in Stages, Gurt(d, Stages \ {"off"}), Stage(d, s),
           UNCHANGED <<entry, save, disk, content>>, cut \subseteq cut',
           s \in {"body", "check", "write"} => stream[d].stage \in {"body", "check", "write"},
           \/ UNCHANGED events
           \/ Push(d, <<"failed">>) \/ Push(d, <<"failed", "failed">>)
           \/ /\ Push(d, <<"completed">>) /\ s = "off"
              /\ d \in cut' \/ (stream[d].stage = "body" /\ stream[d].given = stream[d].size)
    PROVE  OwnFile(d)' /\ Honest(d)' /\ Saved(d)'
<1>1. OwnFile(d) /\ Honest(d) /\ DownloadsTypeOK /\ LifeInv /\ stream[d].scheme = "gurt" /\ stream[d].stage # "off"
  BY DEF WholeInv, FilesInv, LifeInv, Gurt
<1>2. SameBody(d) /\ stream'[d].stage = s
  BY <1>1, StageIs
<1>3. OwnFile(d)'
  BY <1>1, <1>2, SameOwn, Working DEF SameBody
<1>4. events[d] # <<>> => Head(events[d]) = "failed"
  BY <1>1 DEF Honest
<1>5. CASE UNCHANGED events
  <2>1. Honest(d)'
    BY <1>1, <1>2, <1>4, <1>5 DEF Honest, SameBody
  <2> QED
    BY <1>1, <1>2, <1>3, <2>1 DEF Saved, SameBody
<1>6. CASE Push(d, <<"failed">>) \/ Push(d, <<"failed", "failed">>)
  <2>1. <<"failed">> \in Seq({"failed", "completed"}) /\ <<"failed">> # <<>> /\ Head(<<"failed">>) = "failed"
    OBVIOUS
  <2>2. /\ <<"failed", "failed">> \in Seq({"failed", "completed"}) /\ <<"failed", "failed">> # <<>>
        /\ Head(<<"failed", "failed">>) = "failed"
    OBVIOUS
  <2>3. events'[d] # <<>> /\ Head(events'[d]) = "failed"
    BY <1>1, <1>4, <1>6, <2>1, <2>2, PushIs
  <2>4. Honest(d)'
    BY <2>3 DEF Honest
  <2> QED
    BY <1>1, <1>2, <1>3, <2>4 DEF Saved, SameBody
<1>7. CASE /\ Push(d, <<"completed">>) /\ s = "off"
           /\ d \in cut' \/ (stream[d].stage = "body" /\ stream[d].given = stream[d].size)
  <2>1. /\ <<"completed">> \in Seq({"failed", "completed"}) /\ <<"completed">> # <<>>
        /\ Head(<<"completed">>) = "completed"
    OBVIOUS
  <2>2. events'[d] # <<>> /\ (events[d] # <<>> => Head(events'[d]) = "failed")
    BY <1>1, <1>4, <1>7, <2>1, PushIs
  <2>3. stream[d].stage = "body" /\ stream[d].file = NoFile => events[d] # <<>>
    BY <1>1 DEF Honest
  <2>4. Honest(d)'
    BY <1>2, <1>7, <2>2, <2>3 DEF Honest, SameBody
  <2> QED
    BY <1>1, <1>2, <1>3, <2>4 DEF Saved, SameBody
<1> QED
  BY <1>5, <1>6, <1>7

LEMMA GurtWhole ==
    ASSUME WholeInv, NEW d \in Downloads, GurtTask(d) \/ Encrypted(d)
    PROVE  OwnFile(d)' /\ Honest(d)' /\ Saved(d)'
<1>1. /\ OwnFile(d) /\ Honest(d) /\ DownloadsTypeOK /\ LifeInv /\ Life(d) /\ Step(d)
  BY DEF WholeInv, FilesInv, LifeInv, Step
<1>2. stream[d].scheme = "gurt" /\ stream[d].stage # "off" /\ UNCHANGED <<entry, save>>
  BY DEF GurtTask, Encrypted, Connected, GurtFails, GurtEnds, ResponseHead, NextChunk, ChunkCheck,
         ChunkWrite, ChunkWriteFails, Gurt
<1>3. entry[d] = "active" /\ save[d] \in Paths
  BY <1>1, <1>2, Working
<1>4. events[d] # <<>> => Head(events[d]) = "failed"
  BY <1>1, <1>2 DEF Honest
<1>5. CASE Connected(d) \/ Encrypted(d)
  BY <1>1, <1>5, StageWhole DEF Connected, Encrypted, Gurt, Stages
<1>6. CASE GurtFails(d) \/ ChunkWriteFails(d)
  BY <1>1, <1>6, StageWhole DEF GurtFails, ChunkWriteFails, Gurt, Stages
<1>7. CASE GurtEnds(d)
  BY <1>1, <1>7, StageWhole DEF GurtEnds, Gurt, Stages
<1>8. CASE NextChunk(d) \/ ChunkCheck(d)
  BY <1>1, <1>8, StageWhole DEF NextChunk, ChunkCheck, Gurt, Stages
<1>9. ASSUME NEW ok \in BOOLEAN, NEW first \in BOOLEAN, NEW n \in 0 .. MaxChunks, ResponseHead(d, ok, n, first)
      PROVE  OwnFile(d)' /\ Honest(d)' /\ Saved(d)'
  <2>1. /\ stream'[d].scheme = "gurt" /\ stream'[d].given = 0 /\ stream'[d].stage \in {"check", "body"}
        /\ \/ Open(d) /\ stream'[d].file = Inode(d) /\ UNCHANGED events
           \/ stream'[d].file = NoFile /\ Push(d, <<"failed">>)
    BY <1>1, <1>2, <1>3, <1>9, HeadOfResponse
  <2>2. CASE Open(d) /\ stream'[d].file = Inode(d) /\ UNCHANGED events
    <3>1. OwnFile(d)'
      BY <1>1, <1>2, <1>3, <2>1, <2>2, OpenOwn
    <3>2. Inode(d) # NoFile
      BY <1>1, <1>3, <2>2, OpenIs
    <3> QED
      BY <1>4, <2>1, <2>2, <3>1, <3>2 DEF Honest, Saved
  <2>3. CASE stream'[d].file = NoFile /\ Push(d, <<"failed">>)
    <3>1. <<"failed">> \in Seq({"failed", "completed"}) /\ <<"failed">> # <<>> /\ Head(<<"failed">>) = "failed"
      OBVIOUS
    <3>2. events'[d] # <<>> /\ Head(events'[d]) = "failed"
      BY <1>1, <1>4, <2>3, <3>1, PushIs
    <3> QED
      BY <2>1, <2>3, <3>2 DEF OwnFile, Honest, Saved
  <2> QED
    BY <2>1, <2>2, <2>3
<1>10. CASE \E ok, first \in BOOLEAN, n \in 0 .. MaxChunks : ResponseHead(d, ok, n, first)
  <2>1. PICK ok \in BOOLEAN, first \in BOOLEAN, n \in 0 .. MaxChunks : ResponseHead(d, ok, n, first)
    BY <1>10
  <2> QED
    BY <1>9, <2>1
<1>11. CASE ChunkWrite(d)
  <2>1. /\ stream[d].stage = "write" /\ AfterChunk(d) /\ WriteChunk(d) /\ UNCHANGED <<save, disk>>
    BY <1>11 DEF ChunkWrite, Gurt
  <2>2. stream[d].given < stream[d].size
    BY <1>1, <2>1 DEF Life
  <2>3. /\ stream'[d].scheme = "gurt" /\ stream'[d].size = stream[d].size
        /\ stream'[d].file = stream[d].file /\ stream'[d].given = stream[d].given + 1
        /\ \/ stream'[d].stage = "body" /\ UNCHANGED events
           \/ stream'[d].stage = "off" /\ stream'[d].given = stream[d].size /\ Push(d, <<"completed">>)
    BY <1>1, <1>2, <2>1, <2>2, AfterIs
  <2>4. OwnFile(d)'
    BY <1>1, <1>3, <2>1, <2>2, <2>3, WriteOwn
  <2>5. stream[d].file = NoFile => events[d] # <<>>
    BY <1>1, <1>2, <2>1 DEF Honest
  <2>6. CASE stream'[d].stage = "body" /\ UNCHANGED events
    BY <1>4, <2>3, <2>4, <2>5, <2>6 DEF Honest, Saved
  <2>7. CASE stream'[d].stage = "off" /\ stream'[d].given = stream[d].size /\ Push(d, <<"completed">>)
    <3>1. <<"completed">> \in Seq({"failed", "completed"}) /\ <<"completed">> # <<>>
      OBVIOUS
    <3>2. events'[d] # <<>> /\ (events[d] # <<>> => Head(events'[d]) = "failed")
      BY <1>1, <1>4, <2>7, <3>1, PushIs
    <3> QED
      BY <2>3, <2>4, <2>5, <2>7, <3>2 DEF Honest, Saved
  <2> QED
    BY <2>3, <2>6, <2>7
<1> QED
  BY <1>5, <1>6, <1>7, <1>8, <1>10, <1>11 DEF GurtTask

LEMMA HttpWhole ==
    ASSUME WholeInv, NEW d \in Downloads, HttpTask(d)
    PROVE  OwnFile(d)' /\ Honest(d)' /\ Saved(d)'
<1>1. /\ OwnFile(d) /\ Saved(d) /\ DownloadsTypeOK /\ LifeInv /\ Life(d) /\ Step(d)
  BY DEF WholeInv, FilesInv, LifeInv, Step
<1>2. stream[d].scheme = "http" /\ stream[d].stage # "off" /\ UNCHANGED save
  BY DEF HttpTask, HttpHead, HttpChunk, HttpDone, HttpFails, Http
<1>3. entry[d] = "active" /\ save[d] \in Paths /\ events[d] = <<>>
  BY <1>1, <1>2, Working DEF Saved
<1>4. CASE HttpDone(d)
  BY <1>4, ErasedWhole DEF HttpDone
<1>5. CASE HttpFails(d)
  BY <1>5, ErasedWhole DEF HttpFails
<1>6. ASSUME NEW ok \in BOOLEAN, NEW n \in 0 .. MaxChunks, HttpHead(d, ok, n)
      PROVE  OwnFile(d)' /\ Honest(d)' /\ Saved(d)'
  <2>1. Inode(d) \in Downloads /\ Inode(d) # NoFile
    BY <1>1, <1>3, DownloadsAssumption DEF Inode, DownloadsTypeOK
  <2>2. /\ stream'[d].size = n /\ stream'[d].scheme = "http" /\ stream'[d].given = stream[d].given
        /\ stream'[d].file = IF n = 0 THEN NoFile ELSE Inode(d)
    BY <1>1, <1>2, <1>6, <2>1, HeadIs
  <2>3. stream[d].given = 0 /\ UNCHANGED events /\ (n # 0 => Open(d))
    BY <1>1, <1>6 DEF HttpHead, Http, Life, Early
  <2>4. OwnFile(d)'
    <3>1. CASE n = 0
      BY <2>2, <3>1 DEF OwnFile
    <3>2. CASE n # 0
      BY <1>1, <1>2, <1>3, <2>2, <2>3, <3>2, OpenOwn
    <3> QED
      BY <3>1, <3>2
  <2> QED
    BY <1>3, <2>1, <2>2, <2>3, <2>4 DEF Honest, Saved
<1>7. CASE \E ok \in BOOLEAN, n \in 0 .. MaxChunks : HttpHead(d, ok, n)
  <2>1. PICK ok \in BOOLEAN, n \in 0 .. MaxChunks : HttpHead(d, ok, n)
    BY <1>7
  <2> QED
    BY <1>6, <2>1
<1>8. CASE HttpChunk(d)
  <2>1. /\ stream[d].given < stream[d].size /\ WriteChunk(d) /\ UNCHANGED <<events, disk>>
    BY <1>8 DEF HttpChunk
  <2>2. /\ stream'[d].stage = stream[d].stage /\ stream'[d].size = stream[d].size
        /\ stream'[d].scheme = "http" /\ stream'[d].file = stream[d].file
        /\ stream'[d].given = stream[d].given + 1
    BY <1>1, <1>2, <1>8, GivenIs
  <2>3. OwnFile(d)'
    BY <1>1, <1>2, <1>3, <2>1, <2>2, WriteOwn
  <2> QED
    BY <1>1, <1>2, <1>3, <2>1, <2>2, <2>3 DEF Honest, Saved
<1> QED
  BY <1>4, <1>5, <1>7, <1>8 DEF HttpTask

(* An inode is named after the download that opens it first, and that keeps  *)
(* it for its own.                                                           *)
LEMMA StepCreators ==
    ASSUME WholeInv, NEW d \in Downloads, Step(d)
    PROVE  Creators'
<1>1. DownloadsTypeOK /\ LifeInv /\ Life(d) /\ FilesInv /\ Apart(d)
  BY StepLife DEF WholeInv, FilesInv, LifeInv
<1>2. \A p \in Paths : disk[p] # NoFile => disk[p] \in Downloads /\ stream[disk[p]].file = disk[p]
  BY <1>1 DEF WholeInv, Creators, DownloadsTypeOK
<1>3. \A e \in Downloads : e # d => stream'[e] = stream[e]
  BY <1>1 DEF Apart, OnlyStream
<1>4. ASSUME \A p \in Paths : disk'[p] # NoFile => disk'[p] = disk[p],
             stream'[d].file = stream[d].file \/ stream[d].file = NoFile
      PROVE  Creators'
  <2>1. d # NoFile
    BY DownloadsAssumption
  <2> QED
    BY <1>2, <1>3, <1>4, <2>1 DEF Creators
<1>5. ASSUME UNCHANGED disk, NEW s \in Stages, Stage(d, s) PROVE Creators'
  BY <1>1, <1>4, <1>5, StageIs DEF SameBody
<1>6. ASSUME save[d] \in Paths, Open(d), stream'[d].file = Inode(d), stream[d].file = NoFile PROVE Creators'
  <2>1. d # NoFile
    BY DownloadsAssumption
  <2>2. disk'[save[d]] = Inode(d) /\ \A p \in Paths : p # save[d] => disk'[p] = disk[p]
    BY <1>1, <1>6, OpenIs
  <2>3. \A p \in Paths : disk[p] # d
    BY <1>2, <1>6, <2>1
  <2>4. Inode(d) = d \/ (Inode(d) = disk[save[d]] /\ disk[save[d]] # NoFile)
    BY DEF Inode
  <2>5. \A p \in Paths : disk[p] # NoFile => stream'[disk[p]].file = disk[p]
    BY <1>2, <1>3, <2>3
  <2>6. stream'[Inode(d)].file = Inode(d)
    BY <1>6, <2>4, <2>5
  <2> QED
    BY <2>2, <2>5, <2>6 DEF Creators
<1>7. ASSUME NEW v \in {"completed", "failed", "cancelled"}, Erase(d, v),
             \A p \in Paths : disk'[p] # NoFile => disk'[p] = disk[p]
      PROVE  Creators'
  BY <1>1, <1>4, <1>7, EraseIs DEF SameBody
<1>8. UNCHANGED disk \/ (RemoveFile(d) /\ save[d] \in Paths)
        => \A p \in Paths : disk'[p] # NoFile => disk'[p] = disk[p]
  BY <1>1, RemoveFileIs
<1>9. CASE AskDownload(d) \/ DismissDownload(d)
  BY <1>4, <1>9 DEF AskDownload, DismissDownload
<1>10. ASSUME NEW scheme \in {"gurt", "http"}, NEW p \in Paths, StartDownload(d, scheme, p) PROVE Creators'
  <2>1. UNCHANGED disk /\ save[d] = NoFile
    BY <1>1, <1>10 DEF StartDownload, Life
  <2>2. stream[d].file = NoFile
    BY <1>1, <2>1 DEF FilesInv, PathsAgree
  <2> QED
    BY <1>4, <2>1, <2>2
<1>11. CASE CancelDownload(d)
  BY <1>4, <1>7, <1>11 DEF CancelDownload
<1>12. CASE Poll(d)
  <2>1. events[d] \in Seq({"failed", "completed"}) /\ events[d] # <<>>
    BY <1>1, <1>12 DEF Poll, DownloadsTypeOK
  <2>2. Head(events[d]) \in {"failed", "completed"}
    BY <2>1
  <2>3. save[d] \in Paths
    BY <1>1, <1>12, Working DEF Poll
  <2> QED
    BY <1>7, <1>8, <1>12, <2>2, <2>3 DEF Poll
<1>13. CASE Connected(d) \/ Encrypted(d) \/ GurtFails(d) \/ GurtEnds(d) \/ NextChunk(d) \/ ChunkCheck(d)
            \/ ChunkWriteFails(d)
  <2>1. UNCHANGED disk
    BY <1>13 DEF Connected, Encrypted, GurtFails, GurtEnds, NextChunk, ChunkCheck, ChunkWriteFails
  <2>2. \E s \in {"tls", "sent", "off", "check", "write"} : Stage(d, s)
    BY <1>13 DEF Connected, Encrypted, GurtFails, GurtEnds, NextChunk, ChunkCheck, ChunkWriteFails
  <2> QED
    BY <1>5, <2>1, <2>2 DEF Stages
<1>14. CASE \E ok, first \in BOOLEAN, n \in 0 .. MaxChunks : ResponseHead(d, ok, n, first)
  <2>1. PICK ok \in BOOLEAN, first \in BOOLEAN, n \in 0 .. MaxChunks : ResponseHead(d, ok, n, first)
    BY <1>14
  <2>2. stream[d].file = NoFile /\ save[d] \in Paths
    BY <1>1, <2>1, Working DEF ResponseHead, Gurt, Life, Early
  <2>3. \/ Open(d) /\ stream'[d].file = Inode(d)
        \/ stream'[d].file = NoFile /\ UNCHANGED disk
    BY <1>1, <2>1, <2>2, HeadOfResponse
  <2> QED
    BY <1>4, <1>6, <2>2, <2>3
<1>15. CASE ChunkWrite(d)
  <2>1. stream[d].given < stream[d].size /\ AfterChunk(d) /\ UNCHANGED disk
    BY <1>1, <1>15 DEF ChunkWrite, Gurt, Life
  <2> QED
    BY <1>1, <1>4, <2>1, AfterIs
<1>16. CASE \E ok \in BOOLEAN, n \in 0 .. MaxChunks : HttpHead(d, ok, n)
  <2>1. PICK ok \in BOOLEAN, n \in 0 .. MaxChunks : HttpHead(d, ok, n)
    BY <1>16
  <2>2. stream[d].file = NoFile /\ save[d] \in Paths
    BY <1>1, <2>1, Working DEF HttpHead, Http, Life, Early
  <2>3. Inode(d) \in Downloads
    BY <1>1, <2>2 DEF Inode, DownloadsTypeOK
  <2>4. stream'[d].file = IF n = 0 THEN NoFile ELSE Inode(d)
    BY <1>1, <2>1, <2>3, HeadIs
  <2> QED
    BY <1>4, <1>6, <2>1, <2>2, <2>4 DEF HttpHead
<1>17. CASE HttpChunk(d)
  <2>1. UNCHANGED disk /\ stream'[d].file = stream[d].file
    BY <1>1, <1>17, GivenIs DEF HttpChunk
  <2> QED
    BY <1>4, <2>1
<1>18. CASE HttpDone(d) \/ HttpFails(d)
  <2>1. save[d] \in Paths
    BY <1>1, <1>18, Working DEF HttpDone, HttpFails, Http
  <2> QED
    BY <1>7, <1>8, <1>18, <2>1 DEF HttpDone, HttpFails
<1> QED
  BY <1>9, <1>10, <1>11, <1>12, <1>13, <1>14, <1>15, <1>16, <1>17, <1>18 DEF Step, Manager, GurtTask, HttpTask

LEMMA StepWhole ==
    ASSUME WholeInv, NEW d \in Downloads, Step(d)
    PROVE  WholeInv'
<1>1. OwnFile(d)' /\ Honest(d)' /\ Saved(d)'
  BY ManagerWhole, GurtWhole, HttpWhole DEF Step
<1>2. \A e \in Downloads : e # d => OwnFile(e)' /\ Honest(e)' /\ Saved(e)'
  BY OthersWhole
<1>3. FilesInv' /\ Creators'
  BY StepFiles, StepCreators DEF WholeInv
<1> QED
  BY <1>1, <1>2, <1>3 DEF WholeInv

LEMMA WholeInit == DownloadsInit => WholeInv
<1> SUFFICES ASSUME DownloadsInit PROVE WholeInv
  OBVIOUS
<1>1. Creators
  BY DEF DownloadsInit, Creators
<1>2. ASSUME NEW d \in Downloads PROVE OwnFile(d) /\ Honest(d) /\ Saved(d)
  BY DEF DownloadsInit, NewStream, OwnFile, Honest, Saved
<1> QED
  BY <1>1, <1>2, FilesInit DEF WholeInv

LEMMA WholeStep == WholeInv /\ [DownloadsNext]_downloadVars => WholeInv'
<1> SUFFICES ASSUME WholeInv, [DownloadsNext]_downloadVars PROVE WholeInv'
  OBVIOUS
<1>1. CASE DownloadsNext
  BY <1>1, StepWhole DEF DownloadsNext, Step
<1>2. CASE UNCHANGED downloadVars
  <2>1. FilesInv'
    BY FilesStep DEF WholeInv
  <2>2. \A d \in Downloads : OwnFile(d)' /\ Honest(d)' /\ Saved(d)'
    BY <1>2 DEF downloadVars, WholeInv, OwnFile, Alone, Honest, Saved
  <2>3. Creators'
    BY <1>2 DEF downloadVars, WholeInv, Creators
  <2> QED
    BY <2>1, <2>2, <2>3 DEF WholeInv
<1> QED
  BY <1>1, <1>2

(* What the user is told complete is the whole body and nothing else, but    *)
(* for streams that the server closed early and paths that two downloads     *)
(* share (_on_gurt_download_completed, _on_download_completed).              *)
THEOREM CompletedAreWhole == DownloadsSpec => CompletedIsWhole
<1>1. ASSUME WholeInv, NEW d \in Downloads, Step(d), verdict[d] # "completed", verdict'[d] = "completed", Alone(d)
      PROVE  d \in cut \/ Whole(d)
  <2>1. DownloadsTypeOK /\ LifeInv /\ OwnFile(d) /\ Honest(d) /\ Saved(d)
    BY <1>1 DEF WholeInv, FilesInv, LifeInv
  <2>2. ASSUME entry[d] = "active", stream[d].file # NoFile, stream[d].given = stream[d].size PROVE Whole(d)
    <3>1. d # NoFile
      BY DownloadsAssumption
    <3> QED
      BY <1>1, <2>1, <2>2, <3>1 DEF OwnFile, Whole
  <2>3. CASE Poll(d)
    <3>1. events[d] # <<>> /\ Head(events[d]) = "completed" /\ entry[d] = "active"
      BY <1>1, <2>1, <2>3 DEF Poll, Erase, DownloadsTypeOK
    <3>2. stream[d].scheme = "gurt"
      <4>1. stream[d] \in Stream
        BY <2>1 DEF DownloadsTypeOK
      <4>2. stream[d].scheme \in {"gurt", "http"}
        BY <4>1 DEF Stream
      <4> QED
        BY <2>1, <3>1, <4>2 DEF Saved
    <3> QED
      BY <2>1, <2>2, <3>1, <3>2 DEF Honest
  <2>4. CASE HttpDone(d)
    <3>1. /\ stream[d].scheme = "http" /\ stream[d].stage = "body" /\ stream[d].given = stream[d].size
          /\ disk[save[d]] # NoFile
      BY <1>1, <2>1, <2>4 DEF HttpDone, Http, Erase, DownloadsTypeOK
    <3>2. entry[d] = "active" /\ save[d] \in Paths
      BY <2>1, <3>1, Working
    <3>3. disk[save[d]] \in Downloads /\ save[disk[save[d]]] = save[d]
      BY <1>1, <2>1, <3>1, <3>2 DEF DownloadsTypeOK, WholeInv, FilesInv, PathsAgree
    <3>4. disk[save[d]] = d
      BY <1>1, <3>3 DEF Alone
    <3>5. stream[d].file # NoFile
      BY <1>1, <3>1, <3>2, <3>4 DEF WholeInv, Creators
    <3> QED
      BY <2>2, <3>1, <3>2, <3>5
  <2>5. CASE Manager(d)
    BY <1>1, <2>1, <2>5
       DEF Manager, AskDownload, DismissDownload, StartDownload, CancelDownload, Erase, DownloadsTypeOK
  <2>6. CASE GurtTask(d) \/ Encrypted(d)
    <3>1. UNCHANGED verdict
      BY <2>6 DEF GurtTask, Connected, GurtFails, GurtEnds, ResponseHead, NextChunk, ChunkCheck, ChunkWrite,
             ChunkWriteFails, Encrypted
    <3> QED
      BY <1>1, <3>1
  <2>7. CASE HttpTask(d) /\ ~HttpDone(d)
    <3>1. UNCHANGED verdict \/ Erase(d, "failed")
      BY <2>7 DEF HttpTask, HttpHead, HttpChunk, HttpFails
    <3> QED
      BY <1>1, <2>1, <3>1 DEF Erase, DownloadsTypeOK
  <2> QED
    BY <1>1, <2>3, <2>4, <2>5, <2>6, <2>7 DEF Step
<1>2. WholeInv /\ [DownloadsNext]_downloadVars =>
        [\A d \in Downloads :
           verdict[d] # "completed" /\ verdict'[d] = "completed" => d \in cut \/ ~Alone(d) \/ Whole(d)]_downloadVars
  <2> SUFFICES ASSUME WholeInv, DownloadsNext, NEW d \in Downloads,
                      verdict[d] # "completed", verdict'[d] = "completed", Alone(d)
               PROVE  d \in cut \/ Whole(d)
    OBVIOUS
  <2>1. PICK e \in Downloads : Step(e)
    BY DEF DownloadsNext, Step
  <2>2. OnlyEntry(e)
    BY <2>1, StepLife DEF Apart, WholeInv, FilesInv
  <2>3. e = d
    BY <2>2 DEF OnlyEntry
  <2> QED
    BY <1>1, <2>1, <2>3
<1> QED
  BY <1>2, WholeInit, WholeStep, PTL DEF DownloadsSpec, CompletedIsWhole
=============================================================================
