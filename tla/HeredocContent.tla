---------------------------- MODULE HeredocContent ----------------------------
(***************************************************************************)
(* expand_heredoc_content: a body goes line by line through get_next_line  *)
(* and the expansion of a line into the file ".final", whose content then  *)
(* takes the body's place.  read gives as many bytes as it likes, and any  *)
(* call may fail.  Heredoc has each of the three steps of this as one      *)
(* action that succeeds and one that fails, and whole lines for text.      *)
(***************************************************************************)
EXTENDS Naturals, Sequences, SequencesExt, FiniteSetsExt

CONSTANTS NULL,            \* the pointer; as a file, that there is none
          Char,            \* the characters of a body, newline among them
          Bodies,          \* what the temporary file may hold
          ExpandLine(_),   \* expand_heredoc_line, without its newline
          BufferSize,      \* BUFFER_SIZE, of get_next_line
          CopySize,        \* and of copy_expanded_file
          MaxFailures

Newline == "\n"

\* create_heredoc_file ends every line it writes.
Parameters ==
  /\ \A b \in Bodies :
       /\ b \in Seq(Char) /\ (b # <<>> => Last(b) = Newline)
       /\ \A m \in DOMAIN b, n \in 0 .. Len(b) : ExpandLine(SubSeq(b, m, n)) \in Seq(Char)
  /\ Newline \in Char /\ NULL \notin Seq(Char)
  /\ {BufferSize, CopySize} \subseteq Nat \ {0} /\ MaxFailures \in Nat

VARIABLES
  body,     \* the temporary file as it was
  tmpfile,  \* the temporary file
  final,    \* the file ".final"
  offset,   \* of the descriptor that is read
  buffer,   \* get_next_line's static buffer; read_file's res while it reads
  at,       \* "open", "read", "line", "replace", "copy", "done"
  failed    \* the calls that failed, in order

vars == <<body, tmpfile, final, offset, buffer, at, failed>>
Calls == {"open", "read", "write", "openFinal", "openTmpfile", "copy"}

TypeOK ==
  /\ body \in Seq(Char) /\ tmpfile \in Seq(Char) /\ final \in Seq(Char) \union {NULL}
  /\ at # "done" => offset <= Len(IF at = "copy" THEN final ELSE tmpfile)
  /\ offset \in Nat /\ buffer \in Seq(Char) \union {NULL}
  /\ at \in {"open", "read", "line", "replace", "copy", "done"} /\ failed \in Seq(Calls)

Fail(call) == Len(failed) < MaxFailures /\ failed' = Append(failed, call)

\* The next n bytes of the file.
Bytes(file, n) == SubSeq(file, offset + 1, offset + n)
Rest(file) == SubSeq(file, offset + 1, Len(file))

Increasing(place) == \A m, n \in DOMAIN place : m < n => place[m] < place[n]

\* What may become of s when one of the writes that it takes fails.
Losses(s) ==
  UNION {{[k \in 1 .. n |-> s[kept[k]]] : kept \in {p \in [1 .. n -> DOMAIN s] : Increasing(p)}} :
           n \in 0 .. Len(s) - 1}

----------------------------------------------------------------------------
(* get_next_line.                                                          *)

Init ==
  /\ body \in Bodies /\ tmpfile = body /\ final = NULL
  /\ offset = 0 /\ buffer = NULL /\ at = "open" /\ failed = <<>>

OpenBoth ==
  /\ at = "open" /\ at' = "read" /\ final' = <<>> /\ offset' = 0
  /\ UNCHANGED <<body, tmpfile, buffer, failed>>

\* Nothing is expanded; ".final" stays if it was made.
OpenFails ==
  /\ at = "open" /\ Fail("open") /\ at' = "done" /\ final' \in {NULL, <<>>}
  /\ UNCHANGED <<body, tmpfile, offset, buffer>>

\* What read_file starts from: the buffer, calloc'ed at first.
Res == IF buffer = NULL THEN <<>> ELSE buffer

\* Mutant: what was left of the last read is forgotten.
ReadFileForgets ==
  /\ at = "read"
  /\ \E n \in 1 .. Min({BufferSize, Len(tmpfile) - offset}) :
       /\ buffer' = Bytes(tmpfile, n) /\ offset' = offset + n
       /\ at' = IF Contains(Bytes(tmpfile, n), Newline) THEN "line" ELSE "read"
  /\ UNCHANGED <<body, tmpfile, final, failed>>

\* One round of read_file: it stops after a read with a newline in it, even
\* if there was one in the buffer before.
ReadFile ==
  /\ at = "read"
  /\ \E n \in 1 .. Min({BufferSize, Len(tmpfile) - offset}) :
       /\ buffer' = Res \o Bytes(tmpfile, n) /\ offset' = offset + n
       /\ at' = IF Contains(Bytes(tmpfile, n), Newline) THEN "line" ELSE "read"
  /\ UNCHANGED <<body, tmpfile, final, failed>>

ReadFileEnds ==
  /\ at = "read" /\ offset = Len(tmpfile)
  /\ buffer' = Res /\ at' = "line"
  /\ UNCHANGED <<body, tmpfile, final, offset, failed>>

\* For process_heredoc_lines the file ends here.
ReadFileFails ==
  /\ at = "read" /\ Fail("read")
  /\ buffer' = NULL /\ at' = "replace"
  /\ UNCHANGED <<body, tmpfile, final, offset>>

----------------------------------------------------------------------------
(* ft_line, del_line_and_res, and a round of process_heredoc_lines.        *)

LineEnd == IF Contains(buffer, Newline) THEN SelectInSeq(buffer, LAMBDA ch : ch = Newline)
           ELSE Len(buffer) + 1

FtLine == SubSeq(buffer, 1, LineEnd - 1)

DelLineAndRes ==
  IF LineEnd <= Len(buffer) THEN SubSeq(buffer, LineEnd + 1, Len(buffer)) ELSE NULL

\* The line, NULL if the buffer is empty, is written with a newline of its own.
ProcessLine(write) ==
  /\ at = "line" /\ buffer # <<>>
  /\ final' \in {final \o w : w \in write}
  /\ buffer' = DelLineAndRes /\ at' = "read"
  /\ UNCHANGED <<body, tmpfile, offset>>

ExpandHeredocLine == ProcessLine({Append(ExpandLine(FtLine), Newline)}) /\ UNCHANGED failed

\* Nobody looks at what write returns.
WriteFails == ProcessLine(Losses(Append(ExpandLine(FtLine), Newline))) /\ Fail("write")

NoMoreLines ==
  /\ at = "line" /\ buffer = <<>>
  /\ buffer' = DelLineAndRes /\ at' = "replace"
  /\ UNCHANGED <<body, tmpfile, final, offset, failed>>

----------------------------------------------------------------------------
(* replace_heredoc_file.                                                   *)

Reopen ==
  /\ at = "replace" /\ at' = "copy" /\ tmpfile' = <<>> /\ offset' = 0
  /\ UNCHANGED <<body, final, buffer, failed>>

\* The temporary file is truncated by its own open, whatever the other did;
\* and stays if its own failed, whatever the other did.
ReopenFails ==
  /\ at = "replace"
  /\ \/ Fail("openFinal") /\ tmpfile' = <<>>
     \/ Fail("openTmpfile") /\ UNCHANGED tmpfile
  /\ final' = NULL /\ at' = "done"
  /\ UNCHANGED <<body, offset, buffer>>

CopyExpandedFile ==
  /\ at = "copy"
  /\ \E n \in 1 .. Min({CopySize, Len(final) - offset}) :
       tmpfile' = tmpfile \o Bytes(final, n) /\ offset' = offset + n
  /\ UNCHANGED <<body, final, buffer, at, failed>>

\* A write that fails, or is short, loses the end of what was read.
CopyWriteFails ==
  /\ at = "copy" /\ Fail("copy")
  /\ \E n \in 1 .. Min({CopySize, Len(final) - offset}) : \E k \in 0 .. n - 1 :
       tmpfile' = tmpfile \o Bytes(final, k) /\ offset' = offset + n
  /\ UNCHANGED <<body, final, buffer, at>>

\* read returned 0, or -1.
CopyEnds ==
  /\ at = "copy"
  /\ \/ offset = Len(final) /\ UNCHANGED failed
     \/ Fail("copy")
  /\ final' = NULL /\ at' = "done"
  /\ UNCHANGED <<body, tmpfile, offset, buffer>>

Next ==
  \/ OpenBoth \/ OpenFails \/ ReadFile \/ ReadFileEnds \/ ReadFileFails
  \/ ExpandHeredocLine \/ WriteFails \/ NoMoreLines
  \/ Reopen \/ ReopenFails \/ CopyExpandedFile \/ CopyWriteFails \/ CopyEnds

Spec == Init /\ [][Next]_vars

----------------------------------------------------------------------------
(* Properties.                                                             *)

\* The place behind the last newline before place k.
LineStart(text, k) ==
  LET before == {0} \union {m \in 1 .. k - 1 : text[m] = Newline}
  IN  1 + CHOOSE m \in before : \A n \in before : n <= m

\* A text of whole lines with every line expanded: each newline ends one.
Expanded(text) ==
  FlattenSeq([k \in DOMAIN text |->
    IF text[k] = Newline THEN Append(ExpandLine(SubSeq(text, LineStart(text, k), k - 1)), Newline)
    ELSE <<>>])

IsSubsequence(s, t) ==
  LET upTo[k \in 0 .. Len(t)] ==   \* how much of s the first k of t hold
        IF k = 0 THEN 0
        ELSE LET u == upTo[k - 1] IN IF u < Len(s) /\ s[u + 1] = t[k] THEN u + 1 ELSE u
  IN  upTo[Len(t)] = Len(s)

\* However read cuts the files, and wherever in a name or a line: what is
\* written, what is in the buffer and what is still to be read are together
\* the expanded body, at every moment (get_next_line.c, heredoc_content.c:15-44).
NothingLostBetweenReads ==
  failed = <<>> =>
    /\ at \in {"read", "line"} => final \o Expanded(Res \o Rest(tmpfile)) = Expanded(body)
    /\ at = "replace" => final = Expanded(body)
    /\ at = "copy" => tmpfile \o Rest(final) = Expanded(body)

\* What the command will read: the expanded body; the body as it was typed,
\* dollars and all, if a file did not open for the first time or the
\* temporary file not for the second; nothing at all if ".final" did not
\* open again; its first lines if a read failed; its text with gaps if a write
\* failed.  Never anything else, and nobody is told
\* (heredoc_content.c:46-93, heredoc_process.c:15-32).
WhatTheCommandReads ==
  at = "done" =>
    CASE failed = <<>> -> tmpfile = Expanded(body)
      [] failed # <<>> /\ Last(failed) \in {"open", "openTmpfile"} -> tmpfile = body
      [] failed # <<>> /\ Last(failed) = "openFinal" -> tmpfile = <<>>
      [] failed = <<"read">> -> IsPrefix(tmpfile, Expanded(body))
                                /\ (tmpfile # <<>> => Last(tmpfile) = Newline)
      [] OTHER -> IsSubsequence(tmpfile, Expanded(body))

\* The static buffer is empty whenever no file is being read, so that no line
\* is read from a file that is closed; and ".final" is removed once its lines
\* have been read back (get_next_line.c:100-120, heredoc_content.c:63).
NothingLeftBehind ==
  /\ at \in {"open", "replace", "copy", "done"} => buffer = NULL
  /\ at = "done" /\ final # NULL => failed = <<"open">>
=============================================================================
