----------------------------- MODULE ICalFileSet -----------------------------
(***************************************************************************)
(* Processes that keep components in one file (icalfileset.c): a set takes *)
(* the size of the file, opens it, waits for the lock, reads, changes its  *)
(* copy and writes it back over the file, one component after the other.   *)
(* A process may die between any two steps.                                *)
(*                                                                         *)
(* The text of a component is one block, or two when it is Long: a file is *)
(* a sequence of blocks, and what is read from a torn one is what the      *)
(* parser (ICalParser) makes of its BEGINs and ENDs.  Every set is in a    *)
(* process of its own: POSIX locks do not tell the sets of one apart.      *)
(***************************************************************************)
EXTENDS Integers, Sequences, SequencesExt

CONSTANTS
  Writers,   \* sets of icalfileset_new: opened O_RDWR | O_CREAT
  Readers,   \* sets of icalfileset_new_reader and _new_writer: both O_RDONLY
  Comps,     \* components
  Long,      \* those whose text is two blocks
  Mixed,     \* a component that has parts of several
  First,     \* the components the file has at the start
  SafeSaves, \* options.safe_saves
  MayEmpty,  \* may a set save no component at all?
  Faults,    \* what may go wrong: "crash", "write", "truncate", "cp"
  MaxFaults, \* bound: how often
  Nobody, Closed

ASSUME LongAreComponents == Long \subseteq Comps /\ Mixed \notin Comps
ASSUME FirstIsContents == First \in Seq(Comps)
ASSUME MaxFaultsAssumption == MaxFaults \in Nat
ASSUME ClosedIsNoCopy == Closed \notin Seq(Comps \cup {Mixed})
ASSUME WritersAreNotReaders == Writers \cap Readers = {} /\ Nobody \notin Writers

Sets == Writers \cup Readers

VARIABLES
  file,     \* the blocks in the file
  bak,      \* those in its .bak
  lock,     \* the writer whose fcntl lock it is, or Nobody
  pc,       \* where the calls on each set are
  size,     \* cluster_file_size: did it see a file with content?
  cluster,  \* the set's copy
  changed,  \* fset->changed
  written,  \* how many components the commit has written
  freeing,  \* is the commit part of icalfileset_free?
  before,   \* history: the components in the file when the commit began
  faults    \* how much went wrong so far

vars == <<file, bak, lock, pc, size, cluster, changed, written, freeing,
          before, faults>>

----------------------------------------------------------------------------
(* Files.                                                                  *)

Block(c, part) == [comp |-> c, part |-> part]

Text(c) == IF c \in Long \cup {Mixed} THEN <<Block(c, "head"), Block(c, "tail")>>
                                      ELSE <<Block(c, "whole")>>

Image(comps) == FlattenSeq([i \in DOMAIN comps |-> Text(comps[i])])

\* write at a place: what is behind stays.
Over(blocks, at, text) ==
  SubSeq(blocks, 1, at) \o text \o SubSeq(blocks, at + Len(text) + 1, Len(blocks))

\* The parser: a component is read when its END brings the level back to 0.
Line(st, b) ==
  LET Closes(c) == [st EXCEPT !.out = Append(@, c)]
      Inside    == [st EXCEPT !.pure = FALSE]
  IN  CASE b.part = "whole" -> IF st.level = 0 THEN Closes(b.comp) ELSE Inside
        [] b.part = "head"  -> IF st.level = 0
                               THEN [st EXCEPT !.level = 1, !.open = b.comp, !.pure = TRUE]
                               ELSE [Inside EXCEPT !.level = @ + 1]
        [] b.part = "tail"  ->
             LET low == [st EXCEPT !.level = @ - 1] IN
             IF st.level # 1 THEN low
             ELSE [low EXCEPT !.out = Append(@, IF st.pure /\ st.open = b.comp
                                                THEN b.comp ELSE Mixed)]

NothingRead == [level |-> 0, open |-> Nobody, pure |-> TRUE, out |-> <<>>]

\* Where the parser is after each of the blocks.
Lines(blocks) ==
  LET after[i \in 0..Len(blocks)] ==
        IF i = 0 THEN NothingRead ELSE Line(after[i - 1], blocks[i])
  IN  after

Parse(blocks) == Lines(blocks)[Len(blocks)].out

\* Is it the text of what is read from it?
Whole(blocks) == blocks = Image(Parse(blocks))

----------------------------------------------------------------------------
(* icalfileset_init.                                                       *)

Init ==
  /\ file = Image(First) /\ bak = <<>>
  /\ lock = Nobody
  /\ pc = [s \in Sets |-> "closed"]
  /\ size = [s \in Sets |-> FALSE]
  /\ cluster = [s \in Sets |-> <<>>]
  /\ changed = [s \in Sets |-> FALSE]
  /\ written = [s \in Sets |-> 0]
  /\ freeing = [s \in Sets |-> FALSE]
  /\ before = First
  /\ faults = 0

Goes(s, from, to) == pc[s] = from /\ pc' = [pc EXCEPT ![s] = to]

onDisk == <<file, bak, before, faults>>
copies == <<cluster, changed, written, freeing>>

\* icalfileset_filesize, before anything is locked.
Size(s) ==
  /\ Goes(s, "closed", "sized")
  /\ size' = [size EXCEPT ![s] = file # <<>>]
  /\ UNCHANGED <<onDisk, copies, lock>>

Reads(s) == cluster' = [cluster EXCEPT ![s] = IF size[s] THEN Parse(file) ELSE <<>>]

\* open, F_SETLKW, and icalfileset_read_file when there was something to read.
OpenLocked(s) ==
  /\ Goes(s, "sized", "open")
  /\ s \in Writers
  /\ lock = Nobody /\ lock' = s
  /\ Reads(s)
  /\ UNCHANGED <<onDisk, size, changed, written, freeing>>

\* A file opened O_RDONLY cannot be locked for writing: fcntl fails, unread.
OpenReader(s) ==
  /\ Goes(s, "sized", "open")
  /\ s \in Readers
  /\ Reads(s)
  /\ UNCHANGED <<onDisk, size, changed, written, freeing, lock>>

----------------------------------------------------------------------------
(* The copy.                                                               *)

Changes(s, comps) ==
  /\ pc[s] = "open"
  /\ MayEmpty \/ comps # <<>>
  /\ cluster' = [cluster EXCEPT ![s] = comps]
  /\ changed' = [changed EXCEPT ![s] = TRUE]
  /\ UNCHANGED <<onDisk, lock, pc, size, written, freeing>>

Add(s, c) == c \notin Range(cluster[s]) /\ Changes(s, Append(cluster[s], c))

RemoveOne(s, i) == i \in DOMAIN cluster[s] /\ Changes(s, RemoveAt(cluster[s], i))

Mark(s) == Changes(s, cluster[s])

----------------------------------------------------------------------------
(* icalfileset_commit, and icalfileset_free, which commits first.          *)

Fails(kind) == kind \in Faults /\ faults < MaxFaults /\ faults' = faults + 1

Returns(s) == pc' = [pc EXCEPT ![s] = IF freeing[s] THEN "free" ELSE "open"]

\* What is not marked is not written.
Commit(s, frees) ==
  LET safe == SafeSaves /\ s \in Writers
      next == IF ~changed[s] THEN IF frees THEN "free" ELSE "open"
              ELSE IF safe THEN "backup" ELSE "write"
  IN  /\ Goes(s, "open", next)
      /\ frees \/ changed[s]
      /\ freeing' = [freeing EXCEPT ![s] = frees]
      /\ written' = [written EXCEPT ![s] = 0]
      /\ before' = IF s \in Writers /\ changed[s] THEN Parse(file) ELSE before
      /\ UNCHANGED <<file, bak, faults, lock, size, cluster, changed>>

\* Mutant: no backup is made.
NoBackup(s) ==
  /\ Goes(s, "backup", "write")
  /\ UNCHANGED <<onDisk, lock, size, copies>>

\* cp; when it fails, its exit status is not looked at.
Backup(s) ==
  /\ Goes(s, "backup", "write")
  /\ \/ bak' = file /\ UNCHANGED faults
     \/ Fails("cp") /\ UNCHANGED bak
  /\ UNCHANGED <<file, before, lock, size, copies>>

Rest(s) == IF written[s] < Len(cluster[s]) THEN Text(cluster[s][written[s] + 1]) ELSE <<>>

Puts(s, n) ==
  file' = Over(file, Len(Image(SubSeq(cluster[s], 1, written[s]))), SubSeq(Rest(s), 1, n))

\* write, of one component.
Write(s) ==
  /\ pc[s] = "write" /\ s \in Writers /\ Rest(s) # <<>>
  /\ Puts(s, Len(Rest(s)))
  /\ written' = [written EXCEPT ![s] = @ + 1]
  /\ UNCHANGED <<bak, before, faults, lock, pc, size, cluster, changed, freeing>>

\* Mutant: the mark is taken off although the write failed.
WriteFailsUnmarked(s) ==
  /\ pc[s] = "write" /\ Rest(s) # <<>>
  /\ Fails("write") /\ Puts(s, 0) /\ Returns(s)
  /\ changed' = [changed EXCEPT ![s] = FALSE]
  /\ UNCHANGED <<bak, before, lock, size, cluster, written, freeing>>

\* A write that takes less than it was given, or none: the commit gives up.
WriteFails(s) ==
  /\ pc[s] = "write" /\ Rest(s) # <<>>
  /\ \/ s \in Writers /\ Fails("write") /\ \E n \in 0..Len(Rest(s)) - 1 : Puts(s, n)
     \/ s \in Readers /\ UNCHANGED <<file, faults>>
  /\ Returns(s)
  /\ UNCHANGED <<bak, before, lock, size, copies>>

\* All is written, and the mark taken off.
Written(s) ==
  /\ Goes(s, "write", "cut")
  /\ Rest(s) = <<>>
  /\ changed' = [changed EXCEPT ![s] = FALSE]
  /\ UNCHANGED <<onDisk, lock, size, cluster, written, freeing>>

\* Mutant: the rest of a longer file stays.
CutNothing(s) ==
  /\ pc[s] = "cut" /\ Returns(s)
  /\ UNCHANGED <<onDisk, lock, size, copies>>

\* ftruncate; when it fails, the mark is not set again.
Cut(s) ==
  /\ pc[s] = "cut" /\ Returns(s)
  /\ \/ s \in Writers /\ file' = SubSeq(file, 1, Len(Image(cluster[s]))) /\ UNCHANGED faults
     \/ s \in Writers /\ Fails("truncate") /\ UNCHANGED file
     \/ s \in Readers /\ UNCHANGED <<file, faults>>
  /\ UNCHANGED <<bak, before, lock, size, copies>>

Forgets(s) ==
  /\ size' = [size EXCEPT ![s] = FALSE]
  /\ cluster' = [cluster EXCEPT ![s] = <<>>]
  /\ changed' = [changed EXCEPT ![s] = FALSE]
  /\ written' = [written EXCEPT ![s] = 0]
  /\ freeing' = [freeing EXCEPT ![s] = FALSE]

\* Mutant: what icalfileset_unlock does without the close: nothing.
CloseLocked(s) == Goes(s, "free", "closed") /\ Forgets(s) /\ UNCHANGED <<onDisk, lock>>

Unlocked(s) == IF lock = s THEN Nobody ELSE lock

\* close, which is what lets go of the lock: icalfileset_unlock calls fcntl
\* with a command it does not have.
Close(s) ==
  /\ Goes(s, "free", "closed")
  /\ Forgets(s)
  /\ lock' = Unlocked(s)
  /\ UNCHANGED onDisk

\* The process dies, in a write maybe; the kernel closes the file.
Crash(s) ==
  /\ pc[s] \notin {"closed", "sized"} /\ Fails("crash")
  /\ pc' = [pc EXCEPT ![s] = "closed"]
  /\ IF pc[s] = "write" THEN \E n \in 0..Len(Rest(s)) : Puts(s, n) ELSE UNCHANGED file
  /\ Forgets(s)
  /\ lock' = Unlocked(s)
  /\ UNCHANGED <<bak, before>>

----------------------------------------------------------------------------
Opens(s) == OpenLocked(s) \/ OpenReader(s)
Saves(s) == Backup(s) \/ Write(s) \/ Written(s) \/ Cut(s)

Next ==
  \/ \E s \in Sets :
       \/ Size(s) \/ Opens(s)
       \/ \E c \in Comps : Add(s, c)
       \/ \E i \in DOMAIN cluster[s] : RemoveOne(s, i)
       \/ Mark(s)
       \/ \E frees \in BOOLEAN : Commit(s, frees)
       \/ Saves(s) \/ WriteFails(s) \/ Close(s)
  \/ \E w \in Writers : Crash(w)

\* Calls that were begun end, and those who open a set free it some day; the
\* kernel wakes each of the waiting some day.
Fairness ==
  \A w \in Writers : /\ WF_vars(Saves(w) \/ WriteFails(w) \/ Close(w))
                     /\ SF_vars(Commit(w, TRUE))
                     /\ SF_vars(OpenLocked(w))

Spec == Init /\ [][Next]_vars /\ Fairness

----------------------------------------------------------------------------
(* Properties.                                                             *)

\* Types.
TypeOK ==
  /\ lock \in Writers \cup {Nobody}
  /\ pc \in [Sets -> {"closed", "sized", "open", "backup", "write", "cut", "free"}]
  /\ size \in [Sets -> BOOLEAN] /\ changed \in [Sets -> BOOLEAN]
  /\ freeing \in [Sets -> BOOLEAN] /\ written \in [Sets -> Nat]
  /\ cluster \in [Sets -> Seq(Comps \cup {Mixed})]
  /\ faults \in 0..MaxFaults

\* The copy of a writer that is not marked is what is in the file: neither a
\* failed commit nor another process has made them differ.
CleanMeansSaved ==
  \A w \in Writers : pc[w] = "open" /\ ~changed[w] => cluster[w] = Parse(file)

\* A save that was cut short leaves a file with parts of two states; the
\* backup then is, to the last block, the file before that save.
BackupIsWhole ==
  ~Whole(file) /\ (\A w \in Writers : pc[w] \in {"closed", "sized", "open"})
    => bak = Image(before)

Saving(w) == pc[w] \in {"backup", "write", "cut"}

\* Of the writers one has the lock from its open to its close, whichever way its
\* calls end, so no two saves run at once (icalfileset.c:314).
OneSaves == /\ \A w \in Writers : pc[w] \in {"closed", "sized"} <=> lock # w
            /\ \A v, w \in Writers : Saving(v) /\ Saving(w) => v = w

\* No one writes to the file, or to its backup, but a writer in its save.
OnlySavesWrite ==
  [][<<file, bak>>' # <<file, bak>> => \E w \in Writers : lock = w /\ Saving(w)]_vars

\* Through all its steps the file is a ComponentStore (icalfileset.c:108, 362).
Store == INSTANCE ComponentStore WITH
  Components <- Comps \cup {Mixed},
  stored <- IF \E w \in Writers : Saving(w) THEN before ELSE Parse(file),
  view <- [w \in Writers |-> IF pc[w] \in {"closed", "sized"} THEN Closed ELSE cluster[w]]
ImplementsStore == Store!Spec

\* "File locking now works" (ChangeLog:1229): a writer starts from what the one
\* before it has left, whatever that one has saved.
LockingWorks == [][\A w \in Writers : OpenLocked(w) => cluster'[w] = Parse(file)]_vars

\* Who waits for the lock gets it, whatever crashes or fails.
WaiterGetsLock == \A w \in Writers : pc[w] = "sized" ~> pc[w] # "sized"
=============================================================================
