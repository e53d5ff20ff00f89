------------------------------ MODULE LogFollower ------------------------------
(***************************************************************************)
(* serviceLogFollower: the log of a service is followed like `tail -F`     *)
(* while the service appends to it, truncates it, renames it or creates it *)
(* anew.  The file is opened, compared with what was read before, read and *)
(* closed again every time (forward).                                      *)
(*                                                                         *)
(* A character is its place in all that was ever written, a newline is 0.  *)
(* Trimming of carriage returns and the status lines are left out.         *)
(***************************************************************************)
EXTENDS Naturals, Sequences, FiniteSets, SequencesExt, FiniteSetsExt

CONSTANTS
    Inodes,         \* identities of files; one of a deleted file is used again
    InitialLines,   \* of the tail a watch begins with
    ReadLimit,      \* serviceLogReadLimit
    PartialLimit,   \* serviceLogPartialLimit
    MaxWritten,     \* bound: characters and newlines
    MaxFileChanges  \* bound: truncations, renamings, deletions

ASSUME FollowAssumption ==
    0 \notin Inodes /\ InitialLines \in Nat /\ ReadLimit \in Nat /\ PartialLimit \in Nat \ {0}

VARIABLES
    file,       \* per inode its content
    linked,     \* inodes that are not deleted
    path,       \* the inode at log_file, or NoLog
    written, fileChanges,
    follower,   \* [inode, offset, pending, stale, attached]
    opened,     \* the inode forward has opened, or NoLog
    out,        \* the lines given to onOutput
    mark,       \* history: where the follower began with its file, offset and lines given
    cut         \* history: the followed file lost content since; missed when nobody noticed

followVars == <<file, linked, path, written, fileChanges, follower, opened, out, mark, cut>>
serviceSide == <<file, linked, path, written, fileChanges>>

NoLog == 0
NewLine == 0
Detached == [inode |-> NoLog, offset |-> 0, pending |-> <<>>, stale |-> FALSE, attached |-> FALSE]

FollowInit ==
    /\ file = [i \in Inodes |-> <<>>]
    /\ path \in Inodes \cup {NoLog}
    /\ linked = {path} \ {NoLog}
    /\ written = 0 /\ fileChanges = 0
    /\ follower = Detached
    /\ opened = NoLog
    /\ out = <<>>
    /\ mark = [offset |-> 0, lines |-> 0]
    /\ cut = "no"

(***************************************************************************)
(* The service.                                                            *)
(***************************************************************************)
Append1(i, b) ==
    /\ written < MaxWritten
    /\ written' = written + 1
    /\ file' = [file EXCEPT ![i] = Append(@, IF b = NewLine THEN NewLine ELSE written + 1)]
    /\ UNCHANGED <<linked, path, fileChanges, follower, opened, out, mark, cut>>

WriteLog == path # NoLog /\ \E b \in {NewLine, 1} : Append1(path, b)

Changes == fileChanges < MaxFileChanges /\ fileChanges' = fileChanges + 1
Lost(i) == cut' = IF i = follower.inode /\ follower.offset > 0 /\ cut = "no" THEN "cut" ELSE cut

TruncateLog ==
    /\ path # NoLog /\ Changes
    /\ file' = [file EXCEPT ![path] = <<>>]
    /\ Lost(path)
    /\ UNCHANGED <<linked, path, written, follower, opened, out, mark>>

\* Renamed files keep their inode, deleted ones give it back.
MoveLog(deleted) ==
    /\ path # NoLog /\ Changes
    /\ path' = NoLog
    /\ linked' = IF deleted THEN linked \ {path} ELSE linked
    /\ UNCHANGED <<file, written, follower, opened, out, mark, cut>>

CreateLog ==
    /\ path = NoLog
    /\ \E i \in Inodes \ (linked \cup {opened}) :
          /\ path' = i
          /\ linked' = linked \cup {i}
          /\ file' = [file EXCEPT ![i] = <<>>]
          /\ Lost(i)
    /\ UNCHANGED <<written, fileChanges, follower, opened, out, mark>>

(***************************************************************************)
(* forward                                                                 *)
(***************************************************************************)
\* The lines of a text, the last one, which has no newline yet, as `rest`.
Taken(text) ==
    LET after[i \in 0..Len(text)] ==
            IF i = 0 THEN [lines |-> <<>>, rest |-> <<>>]
            ELSE IF text[i] = NewLine THEN [lines |-> Append(after[i - 1].lines, after[i - 1].rest), rest |-> <<>>]
            ELSE [after[i - 1] EXCEPT !.rest = Append(@, text[i])]
    IN  after
Lines(text) == Taken(text)[Len(text)]

LastOf(lines, n) == SubSeq(lines, Len(lines) - Min({n, Len(lines)}) + 1, Len(lines))

\* serviceLogTailFromFile: newlines at the end are trimmed, not empty lines before them.
Tail10(text) ==
    LET end == IF \E i \in DOMAIN text : text[i] # NewLine
               THEN Max({i \in DOMAIN text : text[i] # NewLine}) ELSE 0
        parts == Lines(SubSeq(text, 1, end))
    IN  IF end = 0 THEN <<>> ELSE LastOf(Append(parts.lines, parts.rest), InitialLines)

ResetTo(offset) == [follower EXCEPT !.offset = offset, !.pending = <<>>, !.stale = FALSE]

\* Mutant of Truncated: content is only looked for beyond the offset.
TruncatedNever(size) == FALSE

Truncated(size) == size < follower.offset

\* The first time the tail is given and the rest of the snapshot skipped.
Attach ==
    /\ opened = NoLog /\ path # NoLog /\ ~ follower.attached
    /\ LET size == Len(file[path]) IN
       /\ follower' = [Detached EXCEPT !.inode = path, !.offset = size, !.attached = TRUE]
       /\ out' = out \o Tail10(file[path])
       /\ mark' = [offset |-> size, lines |-> Len(out')]
    /\ cut' = "no"
    /\ UNCHANGED <<opened, serviceSide>>

\* Another inode or a file that is too short is read from its beginning.
OpenLog ==
    /\ opened = NoLog /\ path # NoLog /\ follower.attached
    /\ opened' = path
    /\ IF path # follower.inode \/ Truncated(Len(file[path]))
       THEN /\ follower' = [ResetTo(0) EXCEPT !.inode = path]
            /\ mark' = [offset |-> 0, lines |-> Len(out)]
            /\ cut' = "no"
       ELSE /\ cut' = IF cut = "cut" THEN "missed" ELSE cut
            /\ UNCHANGED <<follower, mark>>
    /\ UNCHANGED <<out, serviceSide>>

\* consume: complete lines, and pieces of a line that is too long.
Consume(text) ==
    LET parts == Lines(text)
        pieces == Len(parts.rest) \div PartialLimit
    IN  [lines |-> parts.lines \o [k \in 1..pieces |-> SubSeq(parts.rest, (k - 1) * PartialLimit + 1, k * PartialLimit)],
         rest |-> SubSeq(parts.rest, pieces * PartialLimit + 1, Len(parts.rest))]

\* flushStalePartial: what was given is not pending any more.
Flushed(rest) == <<>>

\* Up to ReadLimit bytes; a rest that nothing followed for a while is given as it is.
ReadLog ==
    /\ opened # NoLog
    /\ opened' = NoLog
    /\ LET end == Min({Len(file[opened]), follower.offset + ReadLimit})
           chunk == SubSeq(file[opened], follower.offset + 1, end)
           got == Consume(follower.pending \o chunk)
           stale == follower.stale /\ got.lines = <<>> /\ got.rest # <<>>
       IN  /\ follower' = [follower EXCEPT !.offset = Max({@, end}), !.stale = FALSE,
                                           !.pending = IF stale THEN Flushed(got.rest) ELSE got.rest]
           /\ out' = out \o got.lines \o (IF stale THEN <<got.rest>> ELSE <<>>)
           /\ cut' = IF cut = "cut" /\ chunk # <<>> THEN "missed" ELSE cut
    /\ UNCHANGED <<mark, serviceSide>>

\* serviceLogPartialDelay is over.
PendingGetsStale ==
    /\ follower.pending # <<>> /\ ~ follower.stale
    /\ follower' = [follower EXCEPT !.stale = TRUE]
    /\ UNCHANGED <<opened, out, mark, cut, serviceSide>>

Forward == Attach \/ OpenLog \/ ReadLog \/ PendingGetsStale
Service == WriteLog \/ TruncateLog \/ (\E deleted \in BOOLEAN : MoveLog(deleted)) \/ CreateLog

FollowNext == Forward \/ Service
FollowSpec == FollowInit /\ [][FollowNext]_followVars
FollowFairSpec == FollowSpec /\ WF_followVars(Attach \/ OpenLog \/ ReadLog) /\ WF_followVars(PendingGetsStale)

(***************************************************************************)
(* Properties.                                                             *)
(***************************************************************************)
Characters(text) == FlattenSeq([i \in DOMAIN text |-> IF text[i] = NewLine THEN <<>> ELSE <<text[i]>>])

\* Everything the followed file got since the follower began with it was given
\* exactly once and in order, or is pending: no flush, limit, rotation or
\* truncation loses or repeats any of it.
FollowsEveryByte ==
    follower.attached /\ cut = "no" =>
        Characters(SubSeq(file[follower.inode], mark.offset + 1, follower.offset))
            = FlattenSeq(SubSeq(out, mark.lines + 1, Len(out))) \o follower.pending

\* A line that is given is a piece of one line of one file, unless the file was
\* truncated and written again so far that its size does not tell.
LinesAreNotMixed ==
    cut # "missed" => \A k \in mark.lines + 1 .. Len(out) : \A i \in 1..(Len(out[k]) - 1) : out[k][i + 1] = out[k][i] + 1

CaughtUp == follower.inode = path /\ follower.offset = Len(file[path]) /\ follower.pending = <<>>

\* A burst larger than one read, and the last piece of a line, are given in the
\* end: the follower does not wait for more to come.
CatchesUp == <>[](path # NoLog => CaughtUp)

\* A followed log is given byte by byte, line by line, and to its end.
LogIsFollowed ==
    /\ []FollowsEveryByte
    /\ []LinesAreNotMixed
    /\ CatchesUp
=============================================================================
