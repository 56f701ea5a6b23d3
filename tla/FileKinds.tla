------------------------------ MODULE FileKinds ------------------------------
(***************************************************************************)
(* The kinds of agent/executor_v2.py and agent/executor.py that work on    *)
(* files: patch_file, write_file, read_file_chunked, and the watches with  *)
(* their poll thread and bounded event buffer.                             *)
(*                                                                         *)
(* A text is a sequence of tokens; an edit replaces one token.  Worker     *)
(* threads and other programs work on the same files without any lock, so  *)
(* every look at a file is a step; only a watch's buffer has a lock.       *)
(***************************************************************************)
EXTENDS Naturals, Sequences, FiniteSets, SequencesExt

CONSTANTS
  File, Token,
  FileWorker,   \* worker threads
  FileJob,      \* [kind, file, edits, text, limit, backup]
  FileBatches,  \* bound: the sets of jobs that may arrive together
  StartText,    \* what the files hold at first
  OtherTexts,   \* what other programs write
  MaxBuffer,    \* max_buffer of the watch
  MaxEvents,    \* max_events of a watch_poll
  MaxEdits,     \* bound: changes by other programs
  MaxPolls,     \* bound: snapshots of the watch
  MaxSeconds    \* bound: the clock, in the seconds of a backup's name

Text == Seq(Token)
Edit == [old : Token, new : Text, all : BOOLEAN]

ASSUME FileAssumption ==
  /\ IsFiniteSet(File) /\ IsFiniteSet(FileWorker) /\ IsFiniteSet(FileJob)
  /\ FileBatches \subseteq SUBSET FileJob
  /\ \A j \in FileJob :
       /\ j.kind \in {"patch", "write", "read"} /\ j.file \in File
       /\ j.edits \in Seq(Edit) /\ j.text \in Text
       /\ j.limit \in Nat \ {0} /\ j.backup \in BOOLEAN
  /\ \A f \in File : StartText[f] \in Text
  /\ OtherTexts \subseteq Text
  /\ MaxBuffer \in Nat \ {0} /\ MaxEvents \in Nat \ {0} /\ MaxSeconds \in Nat \ {0}

VARIABLES
  disk,      \* each file's [text, mtime]; mtime 0: there is no such file
  writes,    \* number of writes so far, the mtime of the next
  second, edits,
  asked,     \* the jobs of this behaviour
  left,      \* those not yet taken
  place, task,  \* where each worker is, in which job
  mind,      \* the text it has read or is about to write
  page,      \* a reader's [offset, total, got, since]
  backups,   \* [file, at, text]
  gone,      \* history: [file, text] that patches with a backup overwrote
  met,       \* history: files two writers had at once, or two backups in a second
  watching,  \* the watch: "off", "first", "wait", "record" or "stopped"
  prev,      \* the mtimes its thread saw last
  todo,      \* events its thread has yet to record
  events, dropped,  \* the buffer and the drop counter
  polls,
  recorded, handed, told,  \* history: events recorded, given out, given out as dropped
  picture    \* history: the files that exist, as the events given out tell it

workVars == <<disk, writes, second, edits, asked, left, place, task, mind, page, backups, gone, met>>
watchVars == <<watching, prev, todo, events, dropped, polls, recorded, handed, told, picture>>
fileVars == <<workVars, watchVars>>

NoPage == [offset |-> 0, total |-> 0, got |-> <<>>, since |-> 0]

FileInit ==
  /\ disk = [f \in File |-> [text |-> StartText[f], mtime |-> 1]]
  /\ writes = 2 /\ second = 1 /\ edits = 0
  /\ asked \in FileBatches /\ left = asked
  /\ place = [w \in FileWorker |-> "idle"]
  /\ task \in [FileWorker -> {CHOOSE j \in FileJob : TRUE}]
  /\ mind = [w \in FileWorker |-> <<>>] /\ page = [w \in FileWorker |-> NoPage]
  /\ backups = {} /\ gone = {} /\ met = {}
  /\ watching = "off" /\ prev = [f \in File |-> 0] /\ todo = <<>>
  /\ events = <<>> /\ dropped = 0 /\ polls = 0
  /\ recorded = 0 /\ handed = 0 /\ told = 0 /\ picture = {}

-----------------------------------------------------------------------------
(* patch_file's edits, applied to a copy in memory *)

Occurrences(text, token) == {i \in DOMAIN text : text[i] = token}

Replaced(text, e) ==
  FlattenSeq([i \in DOMAIN text |-> IF text[i] = e.old THEN e.new ELSE <<text[i]>>])

\* One edit: refused when it changes nothing, finds nothing, or finds more
\* than one place without replace_all; then the whole patch is.
Edited(result, e) ==
  LET n == Cardinality(Occurrences(result.text, e.old)) IN
  IF result.ok /\ e.new # <<e.old>> /\ n > 0 /\ (n = 1 \/ e.all)
    THEN [ok |-> TRUE, text |-> Replaced(result.text, e)]
    ELSE [ok |-> FALSE, text |-> result.text]

Patched(text, list) == FoldLeft(Edited, [ok |-> TRUE, text |-> text], list)

-----------------------------------------------------------------------------
(* The workers *)

To(w, p) == place' = [place EXCEPT ![w] = p]
In(w, p) == place[w] = p
Target(w) == task[w].file
There(f) == disk[f].mtime # 0

\* Workers that are changing a file, or have read it in order to.
Changing(f) == {w \in FileWorker : Target(w) = f /\ place[w] \in {"backup", "truncate", "fill"}}

Take(w, j) ==
  /\ In(w, "idle") /\ j \in left /\ left' = left \ {j}
  /\ task' = [task EXCEPT ![w] = j]
  /\ mind' = [mind EXCEPT ![w] = j.text]
  /\ page' = [page EXCEPT ![w] = NoPage]
  /\ To(w, CASE j.kind = "patch" -> "original" [] j.kind = "read" -> "stat" [] j.kind = "write" -> "truncate")
  /\ met' = IF j.kind = "write" /\ Changing(j.file) # {} THEN met \cup {j.file} ELSE met
  /\ UNCHANGED <<disk, writes, second, edits, asked, backups, gone, watchVars>>

\* _exec_patch_file reads the file and edits the copy: an edit that is refused
\* ends it, as a file that is not there does, before anything reaches the disk.
ReadOriginal(w) ==
  LET f == Target(w)
      result == Patched(disk[f].text, task[w].edits) IN
  /\ In(w, "original")
  /\ IF There(f) /\ result.ok
       THEN /\ mind' = [mind EXCEPT ![w] = result.text]
            /\ To(w, IF task[w].backup THEN "backup" ELSE "truncate")
            /\ met' = IF Changing(f) # {} THEN met \cup {f} ELSE met
       ELSE To(w, "idle") /\ UNCHANGED <<mind, met>>
  /\ UNCHANGED <<disk, writes, second, edits, asked, left, task, page, backups, gone, watchVars>>

\* Wrong: the copy in memory is what is backed up.
BackupOfCopy(w) ==
  /\ In(w, "backup") /\ To(w, "truncate")
  /\ backups' = backups \cup {[file |-> Target(w), at |-> second, text |-> mind[w]]}
  /\ UNCHANGED <<disk, writes, second, edits, asked, left, task, mind, page, gone, met, watchVars>>

\* The backup is named for the second it is made in; an older one of that
\* second goes.  A file that has gone raises.
Backup(w) ==
  LET f == Target(w)
      same == {b \in backups : b.file = f /\ b.at = second} IN
  /\ In(w, "backup")
  /\ IF There(f)
       THEN /\ To(w, "truncate")
            /\ backups' = (backups \ same) \cup {[file |-> f, at |-> second, text |-> disk[f].text]}
            /\ met' = IF same # {} THEN met \cup {f} ELSE met
       ELSE To(w, "idle") /\ UNCHANGED <<backups, met>>
  /\ UNCHANGED <<disk, writes, second, edits, asked, left, task, mind, page, gone, watchVars>>

\* write_text opens the file, which empties it, ...
Truncate(w) ==
  LET f == Target(w) IN
  /\ In(w, "truncate") /\ To(w, "fill")
  /\ disk' = [disk EXCEPT ![f] = [text |-> <<>>, mtime |-> writes]]
  /\ writes' = writes + 1
  /\ gone' = IF task[w].kind = "patch" /\ task[w].backup /\ There(f)
               THEN gone \cup {[file |-> f, text |-> disk[f].text]} ELSE gone
  /\ UNCHANGED <<second, edits, asked, left, task, mind, page, backups, met, watchVars>>

\* ... and writes from its start, over what another writer put there.
Fill(w) ==
  LET f == Target(w)
      old == disk[f].text
      tail == IF Len(old) > Len(mind[w]) THEN SubSeq(old, Len(mind[w]) + 1, Len(old)) ELSE <<>> IN
  /\ In(w, "fill") /\ To(w, "idle")
  /\ IF There(f)
       THEN disk' = [disk EXCEPT ![f] = [text |-> mind[w] \o tail, mtime |-> writes]]
       ELSE UNCHANGED disk
  /\ writes' = writes + 1
  /\ UNCHANGED <<second, edits, asked, left, task, mind, page, backups, gone, met, watchVars>>

\* _exec_read_chunked looks at the size ...
Stat(w) ==
  LET f == Target(w) IN
  /\ In(w, "stat")
  /\ IF There(f)
       THEN /\ To(w, "read")
            /\ page' = [page EXCEPT ![w].total = Len(disk[f].text),
                                    ![w].since = IF page[w].offset = 0 THEN disk[f].mtime ELSE @]
       ELSE To(w, "idle") /\ UNCHANGED page
  /\ UNCHANGED <<disk, writes, second, edits, asked, left, task, mind, backups, gone, met, watchVars>>

\* Wrong: a page that fills its limit is taken to be the last when one token is left.
ReadPageShort(w) ==
  LET f == Target(w)
      raw == SubSeq(disk[f].text, page[w].offset + 1, page[w].offset + task[w].limit) IN
  /\ In(w, "read") /\ There(f)
  /\ page' = [page EXCEPT ![w].offset = @ + Len(raw), ![w].got = @ \o raw]
  /\ To(w, IF page[w].offset + Len(raw) + 1 >= page[w].total THEN "eof" ELSE "stat")
  /\ UNCHANGED <<disk, writes, second, edits, asked, left, task, mind, backups, gone, met, watchVars>>

\* ... and reads a page; the client goes on at next_offset until eof.
ReadPage(w) ==
  LET f == Target(w)
      end == page[w].offset + task[w].limit
      raw == SubSeq(disk[f].text, page[w].offset + 1,
                    IF end < Len(disk[f].text) THEN end ELSE Len(disk[f].text)) IN
  /\ In(w, "read")
  /\ IF There(f)
       THEN /\ page' = [page EXCEPT ![w].offset = @ + Len(raw), ![w].got = @ \o raw]
            /\ To(w, IF page[w].offset + Len(raw) >= page[w].total THEN "eof" ELSE "stat")
       ELSE To(w, "idle") /\ UNCHANGED page
  /\ UNCHANGED <<disk, writes, second, edits, asked, left, task, mind, backups, gone, met, watchVars>>

HavingRead(w) ==
  /\ In(w, "eof") /\ To(w, "idle")
  /\ UNCHANGED <<disk, writes, second, edits, asked, left, task, mind, page, backups, gone, met, watchVars>>

\* Another program writes or removes a file.
Outside(f) ==
  /\ edits < MaxEdits /\ edits' = edits + 1 /\ writes' = writes + 1
  /\ \/ \E t \in OtherTexts : disk' = [disk EXCEPT ![f] = [text |-> t, mtime |-> writes]]
     \/ There(f) /\ disk' = [disk EXCEPT ![f] = [text |-> <<>>, mtime |-> 0]]
  /\ met' = IF Changing(f) # {} THEN met \cup {f} ELSE met
  /\ UNCHANGED <<second, asked, left, place, task, mind, page, backups, gone, watchVars>>

NextSecond ==
  /\ second < MaxSeconds /\ second' = second + 1
  /\ UNCHANGED <<disk, writes, edits, asked, left, place, task, mind, page, backups, gone, met, watchVars>>

-----------------------------------------------------------------------------
(* The watch: its polling backend, and the client *)

Snapshot == [f \in File |-> disk[f].mtime]
Existing(snapshot) == {f \in File : snapshot[f] # 0}

\* watch_start answers when the thread is started ...
WatchStart ==
  /\ watching = "off" /\ watching' = "first"
  /\ UNCHANGED <<workVars, prev, todo, events, dropped, polls, recorded, handed, told, picture>>

\* ... whose first snapshot is what it compares with.
FirstSnapshot ==
  /\ watching = "first" /\ watching' = "wait"
  /\ prev' = Snapshot /\ picture' = Existing(Snapshot)
  /\ UNCHANGED <<workVars, todo, events, dropped, polls, recorded, handed, told>>

\* The created and the modified files, then the deleted ones.
Diff(old, new) ==
  SetToSeq({[type |-> IF old[f] = 0 THEN "created" ELSE "modified", file |-> f] :
              f \in {g \in Existing(new) : old[g] # new[g]}})
  \o SetToSeq({[type |-> "deleted", file |-> f] : f \in Existing(old) \ Existing(new)})

Poll ==
  /\ watching = "wait" /\ polls < MaxPolls /\ polls' = polls + 1
  /\ watching' = "record" /\ todo' = Diff(prev, Snapshot) /\ prev' = Snapshot
  /\ UNCHANGED <<workVars, events, dropped, recorded, handed, told, picture>>

\* Wrong record: the drop is not counted.
RecordUncounted ==
  /\ watching = "record" /\ todo # <<>>
  /\ LET all == Append(events, Head(todo)) IN
     events' = IF Len(events) = MaxBuffer THEN Tail(all) ELSE all
  /\ todo' = Tail(todo) /\ recorded' = recorded + 1
  /\ UNCHANGED <<workVars, watching, prev, dropped, polls, handed, told, picture>>

\* record, under the lock: the deque drops its oldest, which is counted.
Record ==
  /\ watching = "record" /\ todo # <<>>
  /\ LET all == Append(events, Head(todo)) IN
     IF Len(events) = MaxBuffer THEN events' = Tail(all) /\ dropped' = dropped + 1
                                ELSE events' = all /\ UNCHANGED dropped
  /\ todo' = Tail(todo) /\ recorded' = recorded + 1
  /\ UNCHANGED <<workVars, watching, prev, polls, handed, told, picture>>

Recorded ==
  /\ watching = "record" /\ todo = <<>> /\ watching' = "wait"
  /\ UNCHANGED <<workVars, prev, todo, events, dropped, polls, recorded, handed, told, picture>>

\* What a client that is told of an event knows of the files.
Told(files, e) == IF e.type = "deleted" THEN files \ {e.file} ELSE files \cup {e.file}
Replay(files, list) == FoldLeft(Told, files, list)

\* watch_poll: drain, under the lock.
WatchPoll ==
  LET n == IF MaxEvents < Len(events) THEN MaxEvents ELSE Len(events) IN
  /\ watching \in {"first", "wait", "record"} /\ n + dropped > 0
  /\ events' = SubSeq(events, n + 1, Len(events)) /\ dropped' = 0
  /\ handed' = handed + n /\ told' = told + dropped
  /\ picture' = Replay(picture, SubSeq(events, 1, n))
  /\ UNCHANGED <<workVars, watching, prev, todo, polls, recorded>>

\* watch_stop, and shutdown: the buffer is discarded with the watch.
WatchStop ==
  /\ watching \in {"first", "wait", "record"} /\ watching' = "stopped"
  /\ todo' = <<>> /\ events' = <<>> /\ dropped' = 0
  /\ UNCHANGED <<workVars, prev, polls, recorded, handed, told, picture>>

WorkStep(w) ==
  \/ \E j \in FileJob : Take(w, j)
  \/ ReadOriginal(w) \/ Backup(w) \/ Truncate(w) \/ Fill(w)
  \/ Stat(w) \/ ReadPage(w) \/ HavingRead(w)

FileNext ==
  \/ \E w \in FileWorker : WorkStep(w)
  \/ \E f \in File : Outside(f)
  \/ NextSecond
  \/ WatchStart \/ FirstSnapshot \/ Poll \/ Record \/ Recorded \/ WatchPoll \/ WatchStop

-----------------------------------------------------------------------------
(* A watch accounts for every event: each one recorded is in the buffer,   *)
(* was given out once, or counted as dropped and reported as such once; and *)
(* a client that was told of no drop knows the files of the last snapshot, *)
(* however its polls fell between the events (executor_v2.py:267).         *)
EventsAccounted ==
  watching \in {"wait", "record"} =>
    /\ recorded = handed + told + Len(events) + dropped
    /\ Len(events) <= MaxBuffer
    /\ told + dropped = 0 => Replay(picture, events \o todo) = Existing(prev)

(* A reader that followed next_offset to eof has the whole file, once, if   *)
(* nobody wrote to it meanwhile (executor_v2.py:1398).                     *)
PagesComplete ==
  \A w \in FileWorker :
    In(w, "eof") /\ disk[Target(w)].mtime = page[w].since
      => page[w].got = disk[Target(w)].text

(* Whatever a patch with a backup overwrote is in a backup, as long as no  *)
(* other writer had the file at once and no two backups share a second     *)
(* (executor_v2.py:1154).                                                  *)
OverwrittenIsKept ==
  \A g \in gone : g.file \in met \/ \E b \in backups : b.file = g.file /\ b.text = g.text
=============================================================================
