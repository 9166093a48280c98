-------------------------------- MODULE FlatFs --------------------------------
(***************************************************************************)
(* What userfs.h promises: a flat folder of files, each of them a sequence *)
(* of bytes, and descriptors with a position of their own.  Deleting a     *)
(* file takes its name away; its content lives until the last descriptor   *)
(* is closed (userfs.h:121-128).                                           *)
(***************************************************************************)
EXTENDS Integers, Sequences

CONSTANTS Names, Files, Fds, OpenFlags, Buffers, Counts, MaxFileSize, NULL

VARIABLES
  dir,      \* the file of each name, NULL where there is none
  content,  \* the bytes of each file
  open,     \* the file of each open descriptor, NULL for the others
  pos,      \* the descriptors' positions
  flags,    \* and flags
  errno,    \* the last error
  result    \* value and bytes of the last call

vars == << dir, content, open, pos, flags, errno, result >>

Init ==
  /\ dir = [n \in Names |-> NULL]
  /\ content = [f \in Files |-> << >>]
  /\ open = [d \in Fds |-> NULL]
  /\ pos = [d \in Fds |-> 0]
  /\ flags = [d \in Fds |-> {}]
  /\ errno = "NO_ERR"
  /\ result = [value |-> 0, bytes |-> << >>]

Answers(v)   == result' = [value |-> v, bytes |-> << >>] /\ UNCHANGED errno
Errs(error)  == result' = [value |-> -1, bytes |-> << >>] /\ errno' = error
NoEffect     == UNCHANGED << dir, content, open, pos, flags >>
IsOpen(d)    == d \in Fds /\ open[d] # NULL

Lives(f) == (\E n \in Names : dir[n] = f) \/ (\E d \in Fds : open[d] = f)

(* The contents that are still reachable; the others are freed. *)
Kept(c) == [f \in Files |-> IF Lives(f)' THEN c[f] ELSE << >>]

OpenFile(n, flagSet) ==
  \/ /\ dir[n] = NULL /\ "CREATE" \notin flagSet
     /\ Errs("NO_FILE") /\ NoEffect
  \/ /\ dir[n] # NULL \/ "CREATE" \in flagSet
     /\ IF dir[n] = NULL
        THEN \E f \in Files : ~Lives(f) /\ dir' = [dir EXCEPT ![n] = f]
        ELSE UNCHANGED dir
     /\ \E d \in Fds :
          /\ open[d] = NULL
          /\ open' = [open EXCEPT ![d] = dir'[n]]
          /\ pos' = [pos EXCEPT ![d] = 0]
          /\ flags' = [flags EXCEPT ![d] = flagSet \cup {"READ_WRITE"}]
          /\ Answers(d)
     /\ UNCHANGED content

(* The bytes of buf over the bytes of c from position p on. *)
Over(c, p, buf) ==
  SubSeq(c, 1, p) \o buf \o SubSeq(c, p + Len(buf) + 1, Len(c))

Write(d, buf) ==
  \/ ~IsOpen(d) /\ Errs("NO_FILE") /\ NoEffect
  \/ IsOpen(d) /\ "READ_ONLY" \in flags[d] /\ Errs("NO_PERMISSION") /\ NoEffect
  \/ /\ IsOpen(d) /\ "READ_ONLY" \notin flags[d]
     /\ content' = [content EXCEPT ![open[d]] = Over(@, pos[d], buf)]
     /\ Len(content'[open[d]]) <= MaxFileSize
     /\ pos' = [pos EXCEPT ![d] = @ + Len(buf)]
     /\ Answers(Len(buf))
     /\ UNCHANGED << dir, open, flags >>
  \* Out of memory or over the limit: some of the bytes may have been stored.
  \/ /\ IsOpen(d) /\ "READ_ONLY" \notin flags[d]
     /\ \E stored \in 0..Len(buf) :
          /\ content' = [content EXCEPT ![open[d]] = Over(@, pos[d], SubSeq(buf, 1, stored))]
          /\ Len(content'[open[d]]) <= MaxFileSize
          /\ \E k \in 0..stored : pos' = [pos EXCEPT ![d] = @ + k]
     /\ Errs("NO_MEM")
     /\ UNCHANGED << dir, open, flags >>

Read(d, n) ==
  \/ ~IsOpen(d) /\ Errs("NO_FILE") /\ NoEffect
  \/ IsOpen(d) /\ "WRITE_ONLY" \in flags[d] /\ Errs("NO_PERMISSION") /\ NoEffect
  \/ /\ IsOpen(d) /\ "WRITE_ONLY" \notin flags[d]
     /\ LET c == content[open[d]]
            end == IF pos[d] + n < Len(c) THEN pos[d] + n ELSE Len(c)
            bytes == SubSeq(c, pos[d] + 1, end)
        IN  /\ result' = [value |-> Len(bytes), bytes |-> bytes]
            /\ pos' = [pos EXCEPT ![d] = @ + Len(bytes)]
     /\ UNCHANGED << dir, content, open, flags, errno >>

Close(d) ==
  \/ ~IsOpen(d) /\ Errs("NO_FILE") /\ NoEffect
  \/ /\ IsOpen(d)
     /\ open' = [open EXCEPT ![d] = NULL]
     /\ pos' = [pos EXCEPT ![d] = 0]
     /\ flags' = [flags EXCEPT ![d] = {}]
     /\ Answers(0)
     /\ UNCHANGED dir
     /\ content' = Kept(content)

Delete(n) ==
  \/ dir[n] = NULL /\ Errs("NO_FILE") /\ NoEffect
  \/ /\ dir[n] # NULL
     /\ dir' = [dir EXCEPT ![n] = NULL]
     /\ Answers(0)
     /\ UNCHANGED << open, pos, flags >>
     /\ content' = Kept(content)

Next ==
  \/ \E n \in Names, fl \in OpenFlags : OpenFile(n, fl)
  \/ \E d \in Fds \cup {-1}, buf \in Buffers : Write(d, buf)
  \/ \E d \in Fds \cup {-1}, n \in Counts : Read(d, n)
  \/ \E d \in Fds \cup {-1} : Close(d)
  \/ \E n \in Names : Delete(n)

Spec == Init /\ [][Next]_vars
=============================================================================
