------------------------------- MODULE Download ------------------------------
(***************************************************************************)
(* The answer to one GET, from the parsed Range header to the last chunk   *)
(* of the body (fetch.py after its checks, range_parser.py, stream_file).  *)
(*                                                                         *)
(* The body is promised in the headers (Content-Length) by one computation *)
(* and produced later, chunk by chunk, by another one.  A byte is named by *)
(* its offset in the file.  The path may go before the body opens it, and  *)
(* the client may leave at any time.                                       *)
(***************************************************************************)
EXTENDS RangeParser, Sequences

CONSTANTS
  MaxTotal,    \* bound on the size of the file
  MaxOffset,   \* bound on the integers of a Range header
  ChunkSize    \* CHUNK_SIZE

ASSUME ChunkAssumption == ChunkSize \in Nat \ {0} /\ None \notin Nat
ASSUME BoundsAssumption == MaxTotal \in Nat /\ MaxOffset \in Nat

VARIABLES
  header,      \* the Range header of the request
  one_shot,    \* of the row
  total,       \* meta.size, the bytes in the file
  linked,      \* the path still names the file
  phase,       \* where the request is
  range,       \* the parsed range; None for a whole body
  declared,    \* Content-Length
  consumed,    \* the one-shot has been soft-deleted
  offset,      \* the next byte the open file will read
  remaining,   \* stream_file's count; None for "until EOF"
  sent         \* offsets of the bytes of the body, in the order they went out

request == <<header, one_shot, total>>
answer  == <<range, declared, consumed>>
stream  == <<offset, remaining, sent>>
vars    == <<header, one_shot, total, linked, phase, range, declared, consumed,
             offset, remaining, sent>>

Phases == {"checked", "refused", "answered", "streaming", "done", "broken", "cut"}

TypeOK ==
  /\ header \in Headers \cup {None}
  /\ one_shot \in BOOLEAN
  /\ total \in Nat
  /\ linked \in BOOLEAN
  /\ phase \in Phases
  /\ range \in ByteRanges \cup {None}
  /\ declared \in Nat
  /\ consumed \in BOOLEAN
  /\ offset \in Nat
  /\ remaining \in Nat \cup {None}
  /\ sent \in Seq(Nat)

\* Headers with small integers.
SmallHeaders ==
  [bytes : BOOLEAN, multi : BOOLEAN, dash : BOOLEAN,
   first : (0..MaxOffset) \cup {Blank, NotInt},
   last  : (-1..MaxOffset) \cup {Blank, NotInt}]

Init ==
  /\ header \in SmallHeaders \cup {None}
  /\ one_shot \in BOOLEAN
  /\ total \in 0..MaxTotal
  /\ linked = TRUE
  /\ phase = "checked"
  /\ range = None
  /\ declared = 0
  /\ consumed = FALSE
  /\ offset = 0
  /\ remaining = None
  /\ sent = <<>>

\* 416, before anything is counted or consumed.
Refuse ==
  /\ phase = "checked"
  /\ ParseRange(header, total) = Unsatisfiable
  /\ phase' = "refused"
  /\ UNCHANGED <<request, linked, answer, stream>>

\* The answer covers the whole file.
Covers(r) == r = None \/ IsFullFile(r)

\* 200 without a range, 206 with one; the headers go out.
Answer ==
  /\ phase = "checked"
  /\ ParseRange(header, total) # Unsatisfiable
  /\ range' = ParseRange(header, total)
  /\ declared' = (IF range' = None THEN total ELSE Length(range'))
  /\ consumed' = (one_shot /\ Covers(range'))
  /\ phase' = "answered"
  /\ UNCHANGED <<request, linked, stream>>

\* The body is asked for: stream_file opens the path and seeks.
Open ==
  /\ phase = "answered" /\ linked
  /\ phase' = "streaming"
  /\ offset' = (IF range = None THEN 0 ELSE range.start)
  /\ remaining' = (IF range = None THEN None ELSE Length(range))
  /\ UNCHANGED <<request, linked, answer, sent>>

OpenFails ==
  /\ phase = "answered" /\ ~linked
  /\ phase' = "broken"
  /\ UNCHANGED <<request, linked, answer, stream>>

Smaller(a, b) == IF a < b THEN a ELSE b

\* Mutant: the last chunk of a range is a whole chunk.
ToRead_Chunk == ChunkSize

ToRead == IF remaining = None THEN ChunkSize ELSE Smaller(ChunkSize, remaining)

\* The bytes f.read(ToRead) returns.
ChunkLength == Smaller(ToRead, total - offset)

ReadChunk ==
  /\ phase = "streaming"
  /\ ChunkLength > 0
  /\ sent' = sent \o [i \in 1..ChunkLength |-> offset + i - 1]
  /\ offset' = offset + ChunkLength
  /\ remaining' = (IF remaining = None THEN None ELSE remaining - ChunkLength)
  /\ UNCHANGED <<request, linked, phase, answer>>

\* Nothing is left of the range, or the file has ended.
EndOfBody ==
  /\ phase = "streaming"
  /\ ChunkLength <= 0
  /\ phase' = "done"
  /\ UNCHANGED <<request, linked, answer, stream>>

\* The client disconnects.
Disconnect ==
  /\ phase \in {"answered", "streaming"}
  /\ phase' = "cut"
  /\ UNCHANGED <<request, linked, answer, stream>>

\* A DELETE, an expiry or a purge unlinks the path; an open file stays whole.
Unlink ==
  /\ linked
  /\ phase \in {"checked", "answered", "streaming"}
  /\ linked' = FALSE
  /\ UNCHANGED <<request, phase, answer, stream>>

Finished ==
  /\ phase \in {"refused", "done", "broken", "cut"}
  /\ UNCHANGED vars

Next ==
  \/ Refuse \/ Answer \/ Open \/ OpenFails \/ ReadChunk \/ EndOfBody
  \/ Disconnect \/ Unlink \/ Finished

Spec == Init /\ [][Next]_vars

-----------------------------------------------------------------------------
(***************************************************************************)
(* Properties                                                              *)
(***************************************************************************)

\* The bytes the request asked for: all of them, or those its range selects.
Wanted == IF header = None THEN 0..(total - 1) ELSE Selected(header, total)

\* The parser agrees with the definition of the ranges, for the header of the
\* request and the size of its file: a 416 only when nothing is selected, and
\* otherwise the selected bytes (range_parser.py:44-116).
ParserIsExact == header # None => ParsesAsSelected(header, total)

\* The body of an answer is an initial piece of what was asked for, in order
\* and without gaps or repetitions, never more than Content-Length has
\* announced, and exactly that when the stream ends by itself.  The count and
\* the offsets come from ByteRange, the bytes from stream_file's loop.
BodyMeetsAnswer ==
  phase \in {"answered", "streaming", "done", "broken", "cut"} =>
    /\ \A i \in DOMAIN sent :
         /\ sent[i] \in Wanted
         /\ {sent[k] : k \in 1..(i - 1)} = {j \in Wanted : j < sent[i]}
    /\ Len(sent) <= declared
    /\ phase = "done" => Len(sent) = declared /\ {sent[i] : i \in DOMAIN sent} = Wanted

\* A one-shot is consumed exactly by the answers that promise every byte of
\* the file, with or without a Range header, and never by a 416 (fetch.py:85-94
\* and 132-150; issue #3, option B).
ShotNeedsWholeFile ==
  consumed <=>
    /\ one_shot
    /\ phase \notin {"checked", "refused"}
    /\ Wanted = 0..(total - 1)

=============================================================================
