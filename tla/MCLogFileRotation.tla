-------------------------- MODULE MCLogFileRotation --------------------------
(* Model-checking instance of LogFileRotation: backup limits 1 and 2 (so   *)
(* UpdateConfig both lowers and raises it), rotation every two lines, and *)
(* three generations: two rotations, enough for the oldest backup to be   *)
(* dropped or shifted and for a compressFile or cleanOldFiles goroutine   *)
(* of the first rotation to outlive the second.                           *)
(* GetLogPreview's reader (LogTail) is checked in the same run: files of   *)
(* up to six bytes over two letters, CR and LF, n and bufSize up to 3.    *)
EXTENDS LogFileRotation, LogTail

MCMaxBackupsSet == {1, 2}
MCMaxLinesSet == {2}
MCMaxGen == 3

\* The current access.log as GetLogPreview opens it: the lines[path]
\* records written since it was created, each FormatLog(...) + "\n"
\* (NotifySingle, NotifyBatch); a record's text is one letter, "a" and "b"
\* in turn so that their order shows.
Record(i) == <<IF i % 2 = 1 THEN "a" ELSE "b">>
CurrentLog == FlattenSeq([i \in 1..lines[path] |-> Record(i) \o <<LF>>])

\* In every state the writer reaches, GetLogPreview(n) shows the newest n
\* records of the current file (all of them when there are fewer), in the
\* order written, whatever the chunk size; and, for any file content at
\* all, the chunked backward read agrees with splitting the whole file
\* (ReadLastLinesIsLastLines, evaluated once).
PreviewShowsNewestRecords ==
    /\ ReadLastLinesIsLastLines
    /\ \A n \in 1..TailMaxN, b \in 1..TailMaxBuf :
          ReadLastLines(CurrentLog, n, b) =
              LastN([i \in 1..lines[path] |-> Record(i)], n)
=============================================================================
