------------------------------ MODULE LogTail ------------------------------
(***************************************************************************)
(* readLastLines of src/wafnotify/logfilewriter/logfilewriter.go, the     *)
(* reader behind GetLogPreview: it reads the log file backwards in chunks *)
(* of bufSize bytes, splits each chunk (with the unfinished first line of *)
(* the chunk after it appended) on "\n", trims trailing "\r" and keeps    *)
(* the non-empty lines, until it has n of them or reaches the start.      *)
(*                                                                         *)
(* A file is a sequence of bytes; the only bytes the code tells apart are  *)
(* LF and CR, every other byte is a letter of a small alphabet.  bufSize   *)
(* is a parameter (8192 in the code) so that chunk boundaries fall inside *)
(* lines and between CR and LF.                                            *)
(***************************************************************************)
EXTENDS Integers, SequencesExt

CONSTANTS
    TailBytes,   \* the byte alphabet: LF, CR and some letters
    TailMaxLen,  \* files of at most this many bytes are checked
    TailMaxN,    \* n ranges over 1..TailMaxN (the API clamps it to 1..500)
    TailMaxBuf   \* bufSize ranges over 1..TailMaxBuf

LF == "LF"
CR == "CR"

\* strings.Split(s, "\n"): the pieces between LFs; <<s>> when s has none.
RECURSIVE SplitLF(_)
SplitLF(s) ==
    LET at == {i \in DOMAIN s : s[i] = LF} IN
    IF at = {} THEN <<s>>
    ELSE LET i == CHOOSE i \in at : \A j \in at : i <= j IN
         <<SubSeq(s, 1, i - 1)>> \o SplitLF(SubSeq(s, i + 1, Len(s)))

\* strings.TrimRight(s, "\r"): every trailing CR removed.
RECURSIVE TrimCR(_)
TrimCR(s) == IF s # <<>> /\ Last(s) = CR THEN TrimCR(Front(s)) ELSE s

\* The loop body's inner for: the complete lines of a chunk, trimmed, with
\* the empty ones left out, in file order.
KeptLines(ls) ==
    LET NonEmpty(l) == l # <<>> IN
    SelectSeq([i \in DOMAIN ls |-> TrimCR(ls[i])], NonEmpty)

\* The last n lines of a list (allLines[len(allLines)-n:] when longer).
LastN(ls, n) == IF Len(ls) > n THEN SubSeq(ls, Len(ls) - n + 1, Len(ls)) ELSE ls

\* The bug of never adding the start of the file left in remaining.
FinishDropRemaining(n, remaining, all) == LastN(all, n)

\* After the loop: the first line of the file (left in remaining) is added
\* when it is non-empty after trimming and fewer than n lines were found;
\* then only the last n are returned.
Finish(n, remaining, all) ==
    LET r == TrimCR(remaining) IN
    LastN(IF remaining # <<>> /\ Len(all) < n /\ r # <<>>
          THEN <<r>> \o all ELSE all, n)

\* One pass of the for loop per call: read the chunk that ends at offset,
\* prepend it to remaining, keep its first piece as the new remaining and
\* its other lines in front of allLines; stop at n lines or offset 0.
RECURSIVE ReadLoop(_, _, _, _, _, _)
ReadLoop(f, n, bufSize, offset, remaining, all) ==
    IF offset = 0 THEN Finish(n, remaining, all)
    ELSE
      LET readSize == IF bufSize > offset THEN offset ELSE bufSize
          off      == offset - readSize
          pieces   == SplitLF(SubSeq(f, off + 1, offset) \o remaining)
          all2     == KeptLines(Tail(pieces)) \o all
      IN IF Len(all2) >= n THEN Finish(n, Head(pieces), all2)
         ELSE ReadLoop(f, n, bufSize, off, Head(pieces), all2)

\* readLastLines(f, n) with a chunk size of bufSize bytes.
ReadLastLines(f, n, bufSize) ==
    IF Len(f) = 0 THEN <<>>
    ELSE ReadLoop(f, n, IF bufSize > Len(f) THEN Len(f) ELSE bufSize,
                  Len(f), <<>>, <<>>)

(***************************************************************************)
(* Reference: the whole file split on LF at once.                          *)
(***************************************************************************)
LastLinesRef(f, n) == LastN(KeptLines(SplitLF(f)), n)

\* GetLogPreview shows the last n non-empty lines of the file, "\r"
\* trimmed, in file order: for every file and every chunk size, reading
\* backwards chunk by chunk (lines and CR LF pairs cut by a chunk
\* boundary, the early stop at n lines, the first line left in remaining)
\* gives what splitting the whole file would.
ReadLastLinesIsLastLines ==
    \A len \in 0..TailMaxLen : \A f \in [1..len -> TailBytes] :
        \A n \in 1..TailMaxN, b \in 1..TailMaxBuf :
            ReadLastLines(f, n, b) = LastLinesRef(f, n)

=============================================================================
