----------------------------- MODULE RangeProofs -----------------------------
(***************************************************************************)
(* Theorems about the range parser and the body of a download, for files,  *)
(* offsets and chunks of every size.                                       *)
(***************************************************************************)
EXTENDS Download, SequenceTheorems, TLAPS

\* A well-formed header with a byte in the file: the range is what it selects.
LEMMA InFileSelects ==
  ASSUME NEW h \in Headers, NEW n \in Nat, WellFormed(h), InFile(h, n)
  PROVE  /\ ParseRange(h, n) \in ByteRanges
         /\ ParseRange(h, n).start..ParseRange(h, n).end = Selected(h, n)
         /\ Selected(h, n) # {}
<1> DEFINE r == ParseRange(h, n)
<1>0. h # None
  BY HeaderAssumption
<1>1. CASE h.first = Blank
  <2>1. h.last \in Nat \ {0} /\ n \in Nat \ {0}
    BY <1>1, TextAssumption DEF WellFormed, InFile, Headers
  <2>2. r = [start |-> IF h.last > n THEN 0 ELSE n - h.last, end |-> n - 1, total |-> n]
    BY <1>0, <1>1, <2>1 DEF ParseRange, Start, End
  <2>3. r \in ByteRanges
    BY <2>1, <2>2 DEF ByteRanges
  <2>4. Selected(h, n) = {i \in 0..(n - 1) : i >= n - h.last}
    BY <1>1 DEF Selected
  <2>5. r.start..r.end = Selected(h, n)
    BY <2>1, <2>2, <2>4
  <2>6. n - 1 \in Selected(h, n)
    BY <2>1, <2>4
  <2> QED
    BY <2>3, <2>5, <2>6
<1>2. CASE h.first # Blank /\ h.last = Blank
  <2>1. h.first \in Nat /\ h.first < n
    BY <1>2, TextAssumption DEF WellFormed, InFile, Headers, Start
  <2>2. r = [start |-> h.first, end |-> n - 1, total |-> n]
    BY <1>0, <1>2, <2>1 DEF ParseRange, Start, End
  <2>3. r \in ByteRanges
    BY <2>1, <2>2 DEF ByteRanges
  <2>4. Selected(h, n) = {i \in 0..(n - 1) : i >= h.first}
    BY <1>2 DEF Selected
  <2>5. r.start..r.end = Selected(h, n)
    BY <2>1, <2>2, <2>4
  <2>6. h.first \in Selected(h, n)
    BY <2>1, <2>4
  <2> QED
    BY <2>3, <2>5, <2>6
<1>3. CASE h.first # Blank /\ h.last # Blank
  <2>1. h.first \in Nat /\ h.last \in Nat /\ h.first < n /\ h.first <= h.last
    BY <1>3, TextAssumption DEF WellFormed, InFile, Headers, Start, End
  <2>2. r = [start |-> h.first, end |-> IF h.last < n THEN h.last ELSE n - 1, total |-> n]
    BY <1>0, <1>3, <2>1 DEF ParseRange, Start, End
  <2>3. r \in ByteRanges
    BY <2>1, <2>2 DEF ByteRanges
  <2>4. Selected(h, n) = {i \in 0..(n - 1) : h.first <= i /\ i <= h.last}
    BY <1>3 DEF Selected
  <2>5. r.start..r.end = Selected(h, n)
    BY <2>1, <2>2, <2>4
  <2>6. h.first \in Selected(h, n)
    BY <2>1, <2>4
  <2> QED
    BY <2>3, <2>5, <2>6
<1> QED
  BY <1>1, <1>2, <1>3

\* A well-formed header that is refused selects nothing.
LEMMA RefusedSelectsNothing ==
  ASSUME NEW h \in Headers, NEW n \in Nat, WellFormed(h), ~InFile(h, n)
  PROVE  Selected(h, n) = {}
<1>1. CASE h.first = Blank
  BY <1>1, TextAssumption DEF WellFormed, InFile, Headers, Start, End, Selected
<1>2. CASE h.first # Blank /\ h.last = Blank
  BY <1>2, TextAssumption DEF WellFormed, InFile, Headers, Start, End, Selected
<1>3. CASE h.first # Blank /\ h.last # Blank
  BY <1>3, TextAssumption DEF WellFormed, InFile, Headers, Start, End, Selected
<1> QED
  BY <1>1, <1>2, <1>3

\* For every header and every size of the file, the parser returns exactly the
\* bytes that the header selects, and raises exactly when it selects none.
THEOREM ParserMeetsDefinition ==
  \A h \in Headers, n \in Nat : ParsesAsSelected(h, n)
<1> SUFFICES ASSUME NEW h \in Headers, NEW n \in Nat
             PROVE  ParsesAsSelected(h, n)
  OBVIOUS
<1>1. CASE WellFormed(h) /\ InFile(h, n)
  BY <1>1, InFileSelects DEF ParsesAsSelected
<1>2. CASE WellFormed(h) /\ ~InFile(h, n)
  BY <1>2, RefusedSelectsNothing, HeaderAssumption DEF ParsesAsSelected, ParseRange
<1>3. CASE ~WellFormed(h)
  BY <1>3, HeaderAssumption DEF ParsesAsSelected, ParseRange
<1> QED
  BY <1>1, <1>2, <1>3

-----------------------------------------------------------------------------
(***************************************************************************)
(* The download: what is sent is an interval that grows from its first     *)
(* byte, and what is announced is the length of the interval wanted.       *)
(***************************************************************************)

Base == IF range = None THEN 0 ELSE range.start

\* The answer is that of the parser, and so is what it does to the one-shot.
AnswerInv ==
  /\ phase \in {"checked", "refused"} => ~consumed /\ sent = <<>>
  /\ phase \notin {"checked", "refused"} =>
       /\ ParseRange(header, total) # Unsatisfiable
       /\ range = ParseRange(header, total)
       /\ declared = (IF range = None THEN total ELSE Length(range))
       /\ consumed = (one_shot /\ Covers(range))

\* The stream has sent the first bytes of the interval.
StreamInv ==
  /\ \A i \in DOMAIN sent : sent[i] = Base + i - 1
  /\ phase = "answered" => sent = <<>>
  /\ phase \in {"answered", "streaming", "done", "broken", "cut"} => Len(sent) <= declared
  /\ phase = "done" => Len(sent) = declared
  /\ phase = "streaming" =>
       /\ offset = Base + Len(sent) /\ offset <= total
       /\ remaining = (IF range = None THEN None ELSE declared - Len(sent))

DownloadInv == TypeOK /\ AnswerInv /\ StreamInv

\* What an answer announces is the length of an interval of the file.
LEMMA WantedIsInterval ==
  ASSUME TypeOK, AnswerInv, phase \notin {"checked", "refused"}
  PROVE  /\ Base \in Nat /\ declared \in Nat
         /\ Wanted = Base..(Base + declared - 1)
         /\ Base + declared <= total
<1>1. CASE header = None
  <2>1. range = None
    BY <1>1 DEF AnswerInv, ParseRange
  <2>2. Base = 0 /\ declared = total /\ Wanted = 0..(total - 1)
    BY <1>1, <2>1 DEF AnswerInv, Base, Wanted
  <2> QED
    BY <2>2 DEF TypeOK
<1>2. CASE header # None
  <2>1. header \in Headers /\ total \in Nat
    BY <1>2 DEF TypeOK
  <2>2. ParsesAsSelected(header, total)
    BY <2>1, ParserMeetsDefinition
  <2>3. /\ range \in ByteRanges /\ Selected(header, total) # {}
        /\ range.start..range.end = Selected(header, total)
    BY <2>2 DEF ParsesAsSelected, AnswerInv
  <2>4. range # None /\ range.start \in Nat /\ range.end \in Nat
    BY <2>3, OutcomeAssumption DEF ByteRanges
  <2>5. Base = range.start /\ declared = range.end - range.start + 1
    BY <2>4 DEF AnswerInv, Base, Length
  <2>6. range.start <= range.end
    BY <2>3, <2>4
  <2>7. range.end \in 0..(total - 1)
    BY <2>3, <2>4, <2>6 DEF Selected
  <2>8. Wanted = range.start..range.end
    BY <1>2, <2>3 DEF Wanted
  <2> QED
    BY <2>1, <2>4, <2>5, <2>6, <2>7, <2>8
<1> QED
  BY <1>1, <1>2

LEMMA ParseTypes ==
  ASSUME NEW h \in Headers \cup {None}, NEW n \in Nat, ParseRange(h, n) # Unsatisfiable
  PROVE  ParseRange(h, n) \in ByteRanges \cup {None}
<1>1. CASE h = None
  BY <1>1 DEF ParseRange
<1>2. CASE h \in Headers
  BY <1>2, ParserMeetsDefinition DEF ParsesAsSelected
<1> QED
  BY <1>1, <1>2

\* The chunk that is sent next: within the file and within what is announced,
\* and empty only when all that is announced has been sent.
LEMMA ChunkFits ==
  ASSUME TypeOK, AnswerInv, StreamInv, phase = "streaming"
  PROVE  /\ ChunkLength \in Int
         /\ ChunkLength <= total - offset
         /\ Len(sent) \in Nat /\ Len(sent) + ChunkLength <= declared
         /\ ChunkLength <= 0 => Len(sent) = declared
         /\ range # None => ChunkLength <= remaining
<1>1. /\ Base \in Nat /\ declared \in Nat /\ Base + declared <= total
  BY WantedIsInterval
<1>2. /\ offset = Base + Len(sent) /\ offset \in Nat /\ offset <= total /\ total \in Nat
      /\ Len(sent) \in Nat /\ Len(sent) <= declared
  BY DEF TypeOK, StreamInv
<1>3. CASE range = None
  <2>1. remaining = None /\ Base = 0 /\ declared = total
    BY <1>3 DEF StreamInv, AnswerInv, Base
  <2>2. ToRead = ChunkSize
    BY <2>1 DEF ToRead
  <2> QED
    BY <1>2, <1>3, <2>1, <2>2, ChunkAssumption DEF ChunkLength, Smaller
<1>4. CASE range # None
  <2>1. remaining = declared - Len(sent)
    BY <1>4 DEF StreamInv
  <2>2. remaining \in Nat /\ remaining # None
    BY <1>1, <1>2, <2>1, ChunkAssumption
  <2>3. ToRead = Smaller(ChunkSize, remaining)
    BY <2>2 DEF ToRead
  <2> QED
    BY <1>1, <1>2, <1>4, <2>1, <2>2, <2>3, ChunkAssumption DEF ChunkLength, Smaller
<1> QED
  BY <1>3, <1>4

LEMMA InitEstablishes == Init => DownloadInv
<1> SUFFICES ASSUME Init PROVE DownloadInv
  OBVIOUS
<1>1. SmallHeaders \subseteq Headers
  BY BoundsAssumption DEF SmallHeaders, Headers
<1>2. TypeOK
  <2>1. header \in Headers \cup {None} /\ one_shot \in BOOLEAN
    BY <1>1 DEF Init
  <2>2. total \in Nat
    BY BoundsAssumption DEF Init
  <2>3. sent \in Seq(Nat)
    BY DEF Init
  <2>4. /\ linked \in BOOLEAN /\ phase \in Phases /\ range \in ByteRanges \cup {None}
        /\ declared \in Nat /\ consumed \in BOOLEAN
        /\ offset \in Nat /\ remaining \in Nat \cup {None}
    BY DEF Init, Phases
  <2> QED
    BY <2>1, <2>2, <2>3, <2>4 DEF TypeOK
<1>3. AnswerInv /\ StreamInv
  BY DEF Init, AnswerInv, StreamInv
<1> QED
  BY <1>2, <1>3 DEF DownloadInv

LEMMA AnswerPreserves == DownloadInv /\ Answer => DownloadInv'
<1> SUFFICES ASSUME DownloadInv, Answer PROVE DownloadInv'
  OBVIOUS
<1> USE DEF DownloadInv
<1>1. range' \in ByteRanges \cup {None}
  BY ParseTypes DEF Answer, TypeOK
<1>2. AnswerInv'
  BY DEF Answer, AnswerInv, request, Covers
<1>3. range' # None => range' \in ByteRanges
  BY <1>1
<1>4. declared' \in Nat
  <2>1. CASE range' = None
    BY <2>1 DEF Answer, TypeOK
  <2>2. CASE range' # None
    <3>1. header # None /\ header \in Headers /\ total \in Nat
      BY <2>2 DEF Answer, ParseRange, TypeOK
    <3>2. range'.start..range'.end = Selected(header, total) /\ Selected(header, total) # {}
      BY <3>1, ParserMeetsDefinition DEF ParsesAsSelected, Answer
    <3>3. range'.start \in Nat /\ range'.end \in Nat
      BY <1>3, <2>2 DEF ByteRanges
    <3>4. range'.start <= range'.end
      BY <3>2, <3>3
    <3> QED
      BY <2>2, <3>3, <3>4 DEF Answer, Length
  <2> QED
    BY <2>1, <2>2
<1>5. TypeOK'
  BY <1>1, <1>4 DEF Answer, TypeOK, Phases, request, stream
<1>6. StreamInv'
  BY <1>5 DEF Answer, AnswerInv, StreamInv, TypeOK, stream
<1> QED
  BY <1>2, <1>5, <1>6

LEMMA OpenPreserves == DownloadInv /\ Open => DownloadInv'
<1> SUFFICES ASSUME DownloadInv, Open PROVE DownloadInv'
  OBVIOUS
<1> USE DEF DownloadInv
<1>1. Base \in Nat /\ declared \in Nat /\ Base + declared <= total
  BY WantedIsInterval DEF Open
<1>2. sent = <<>> /\ sent' = <<>>
  BY DEF Open, StreamInv
<1>3. range # None => Length(range) = declared
  BY DEF AnswerInv, Open
<1>4. TypeOK'
  BY <1>1, <1>3 DEF Open, TypeOK, Phases, request, answer, Base
<1>5. AnswerInv'
  BY DEF Open, AnswerInv, request, answer, Covers
<1>6. Len(sent') = 0 /\ Base' = Base /\ declared' = declared /\ range' = range /\ total' = total
  BY <1>2 DEF Open, Base, request, answer
<1>7. offset' = Base /\ remaining' = (IF range = None THEN None ELSE declared)
  BY <1>3 DEF Open, Base
<1>8. phase' = "streaming"
  BY DEF Open
<1>9. StreamInv'
  BY <1>1, <1>2, <1>4, <1>6, <1>7, <1>8 DEF StreamInv, TypeOK
<1> QED
  BY <1>4, <1>5, <1>9

LEMMA ReadChunkPreserves == DownloadInv /\ ReadChunk => DownloadInv'
<1> SUFFICES ASSUME DownloadInv, ReadChunk PROVE DownloadInv'
  OBVIOUS
<1> USE DEF DownloadInv
<1> DEFINE n == ChunkLength
           chunk == [i \in 1..n |-> offset + i - 1]
<1>1. /\ n \in Nat \ {0} /\ n <= total - offset
      /\ Len(sent) \in Nat /\ Len(sent) + n <= declared
      /\ range # None => n <= remaining
  BY ChunkFits DEF ReadChunk
<1>2. Base \in Nat /\ declared \in Nat
  BY WantedIsInterval DEF ReadChunk
<1>3. /\ phase = "streaming" /\ offset = Base + Len(sent) /\ offset \in Nat /\ total \in Nat
      /\ sent \in Seq(Nat)
  BY DEF ReadChunk, StreamInv, TypeOK
<1>4. chunk \in Seq(Nat) /\ Len(chunk) = n
  BY <1>1, <1>3
<1>5. sent' = sent \o chunk
  BY DEF ReadChunk
<1>6. sent' \in Seq(Nat) /\ Len(sent') = Len(sent) + n
  <2> HIDE DEF chunk, n
  <2> QED
    BY <1>3, <1>4, <1>5, ConcatProperties
<1>7. \A i \in DOMAIN sent' : sent'[i] = Base + i - 1
  <2> SUFFICES ASSUME NEW i \in 1..(Len(sent) + n) PROVE sent'[i] = Base + i - 1
    BY <1>6
  <2>1. CASE i <= Len(sent)
    <3>1. i \in DOMAIN sent /\ sent'[i] = sent[i]
      BY <1>1, <1>3, <1>4, <1>5, <2>1
    <3> QED
      BY <3>1 DEF StreamInv
  <2>2. CASE i > Len(sent)
    <3>1. i - Len(sent) \in 1..n
      BY <1>1, <2>2
    <3>2. sent'[i] = chunk[i - Len(sent)]
      BY <1>1, <1>3, <1>4, <1>5, <2>2
    <3>3. chunk[i - Len(sent)] = offset + (i - Len(sent)) - 1
      BY <3>1
    <3> QED
      BY <1>1, <1>2, <1>3, <3>2, <3>3
  <2> QED
    BY <1>1, <2>1, <2>2
<1>8. /\ range' = range /\ total' = total /\ phase' = phase /\ declared' = declared
      /\ Base' = Base
  BY DEF ReadChunk, request, answer, Base
<1>9. /\ offset' = offset + n
      /\ remaining' = (IF range = None THEN None ELSE declared - Len(sent'))
  <2>1. CASE range = None
    BY <2>1 DEF ReadChunk, StreamInv
  <2>2. CASE range # None
    <3>1. remaining = declared - Len(sent) /\ remaining # None
      BY <1>1, <1>2, <1>3, <2>2, ChunkAssumption DEF StreamInv
    <3>2. remaining' = declared - Len(sent) - n
      BY <3>1 DEF ReadChunk
    <3> QED
      BY <1>1, <1>2, <1>6, <2>2, <3>2 DEF ReadChunk
  <2> QED
    BY <2>1, <2>2
<1>10. TypeOK'
  <2>1. remaining' \in Nat \cup {None}
    BY <1>1, <1>2, <1>6, <1>9
  <2> QED
    BY <1>1, <1>3, <1>6, <1>9, <2>1 DEF ReadChunk, TypeOK, request, answer
<1>11. AnswerInv'
  BY <1>3 DEF ReadChunk, AnswerInv, request, answer, Covers
<1>12. StreamInv'
  <2> HIDE DEF chunk, n
  <2>1. phase' = "streaming"
    BY <1>3, <1>8
  <2>2. /\ offset' = Base' + Len(sent') /\ offset' <= total'
        /\ Len(sent') <= declared'
    BY <1>1, <1>2, <1>3, <1>6, <1>8, <1>9
  <2>3. \A i \in DOMAIN sent' : sent'[i] = Base' + i - 1
    BY <1>7, <1>8
  <2>4. remaining' = (IF range' = None THEN None ELSE declared' - Len(sent'))
    BY <1>8, <1>9
  <2> QED
    BY <2>1, <2>2, <2>3, <2>4 DEF StreamInv
<1> QED
  BY <1>10, <1>11, <1>12

LEMMA EndOfBodyPreserves == DownloadInv /\ EndOfBody => DownloadInv'
<1> SUFFICES ASSUME DownloadInv, EndOfBody PROVE DownloadInv'
  OBVIOUS
<1> USE DEF DownloadInv
<1>1. Len(sent) = declared /\ Len(sent) \in Nat
  BY ChunkFits DEF EndOfBody
<1>2. Base' = Base /\ sent' = sent /\ declared' = declared
  BY DEF EndOfBody, request, answer, stream, Base
<1>3. phase' = "done"
  BY DEF EndOfBody
<1>4. TypeOK'
  BY DEF EndOfBody, TypeOK, Phases, request, answer, stream
<1>5. AnswerInv'
  BY DEF EndOfBody, AnswerInv, request, answer, Covers
<1>6. StreamInv'
  BY <1>1, <1>2, <1>3 DEF StreamInv
<1> QED
  BY <1>4, <1>5, <1>6

\* The steps that leave answer and stream as they are.
LEMMA OthersPreserve ==
  DownloadInv /\ (Refuse \/ OpenFails \/ Disconnect \/ Unlink \/ UNCHANGED vars) => DownloadInv'
<1> SUFFICES ASSUME DownloadInv, Refuse \/ OpenFails \/ Disconnect \/ Unlink \/ UNCHANGED vars
             PROVE  DownloadInv'
  OBVIOUS
<1> USE DEF DownloadInv
<1>1. /\ header' = header /\ one_shot' = one_shot /\ total' = total
      /\ range' = range /\ declared' = declared /\ consumed' = consumed
      /\ offset' = offset /\ remaining' = remaining /\ sent' = sent
  BY DEF Refuse, OpenFails, Disconnect, Unlink, vars, request, answer, stream
<1>2. /\ phase' \in Phases /\ linked' \in BOOLEAN
      /\ phase' \in {"checked", "refused"} <=> phase \in {"checked", "refused"}
      /\ phase' \in {"answered", "streaming", "done"} => phase' = phase
      /\ phase' \in {"broken", "cut"} => phase \in {"answered", "streaming", "broken", "cut"}
  BY DEF Refuse, OpenFails, Disconnect, Unlink, vars, TypeOK, Phases
<1>3. Base' = Base
  BY <1>1 DEF Base
<1>4. TypeOK'
  BY <1>1, <1>2 DEF TypeOK
<1>5. AnswerInv'
  BY <1>1, <1>2 DEF AnswerInv, Covers
<1>6. StreamInv'
  BY <1>1, <1>2, <1>3 DEF StreamInv
<1> QED
  BY <1>4, <1>5, <1>6

\* The strengthening of the properties of a download is an invariant.
THEOREM DownloadInvariant == Spec => []DownloadInv
<1>1. DownloadInv /\ [Next]_vars => DownloadInv'
  BY AnswerPreserves, OpenPreserves, ReadChunkPreserves, EndOfBodyPreserves, OthersPreserve
     DEF Next, Finished
<1> QED
  BY <1>1, InitEstablishes, PTL DEF Spec

\* A download's variables keep their types; above all, Content-Length, the
\* offset and what remains to be sent are never negative, whatever the range.
THEOREM DownloadTypes == Spec => []TypeOK
<1>1. DownloadInv => TypeOK
  BY DEF DownloadInv
<1> QED
  BY <1>1, DownloadInvariant, PTL

\* Every request's header is parsed as what it selects, whatever the file.
THEOREM ParserAlwaysExact == Spec => []ParserIsExact
<1>1. DownloadInv => ParserIsExact
  BY ParserMeetsDefinition DEF DownloadInv, TypeOK, ParserIsExact
<1> QED
  BY <1>1, DownloadInvariant, PTL

\* For every file, range and chunk size, a body is an initial piece of what
\* was asked for, within Content-Length, and all of it if it ends by itself.
THEOREM BodiesMeetAnswers == Spec => []BodyMeetsAnswer
<1>1. DownloadInv => BodyMeetsAnswer
  <2> SUFFICES ASSUME DownloadInv, phase \in {"answered", "streaming", "done", "broken", "cut"}
               PROVE  /\ \A i \in DOMAIN sent :
                           /\ sent[i] \in Wanted
                           /\ {sent[k] : k \in 1..(i - 1)} = {j \in Wanted : j < sent[i]}
                      /\ Len(sent) <= declared
                      /\ phase = "done" =>
                           Len(sent) = declared /\ {sent[i] : i \in DOMAIN sent} = Wanted
    BY DEF BodyMeetsAnswer
  <2> USE DEF DownloadInv
  <2>1. /\ Base \in Nat /\ declared \in Nat
        /\ Wanted = Base..(Base + declared - 1)
    BY WantedIsInterval
  <2>2. sent \in Seq(Nat) /\ Len(sent) \in Nat /\ DOMAIN sent = 1..Len(sent)
    BY DEF TypeOK
  <2>3. Len(sent) <= declared /\ (phase = "done" => Len(sent) = declared)
    BY DEF StreamInv
  <2>4. ASSUME NEW k \in 1..Len(sent) PROVE sent[k] = Base + k - 1
    BY <2>2 DEF StreamInv
  <2>5. ASSUME NEW i \in DOMAIN sent
        PROVE  /\ sent[i] \in Wanted
               /\ {sent[k] : k \in 1..(i - 1)} = {j \in Wanted : j < sent[i]}
    <3>1. i \in 1..Len(sent) /\ sent[i] = Base + i - 1
      BY <2>2, <2>4
    <3>2. Base \in Int /\ declared \in Int /\ i \in Int /\ 1 <= i /\ i <= declared
      <4>1. i \in Int /\ 1 <= i /\ i <= Len(sent) /\ Len(sent) \in Int
        BY <2>2, <3>1
      <4>2. Base \in Int /\ declared \in Int
        BY <2>1
      <4>3. Len(sent) <= declared
        BY <2>3
      <4> QED
        BY <4>1, <4>2, <4>3
    <3>3. \A k \in 1..(i - 1) : sent[k] = Base + k - 1
      BY <2>2, <2>4, <3>1
    <3>4. {sent[k] : k \in 1..(i - 1)} = Base..(Base + i - 2)
      <4>1. ASSUME NEW j \in Base..(Base + i - 2) PROVE \E k \in 1..(i - 1) : j = sent[k]
        <5>1. j - Base + 1 \in 1..(i - 1)
          BY <2>1, <3>1
        <5> QED
          BY <2>1, <3>3, <5>1
      <4>2. ASSUME NEW k \in 1..(i - 1) PROVE sent[k] \in Base..(Base + i - 2)
        BY <2>1, <3>1, <3>3
      <4> QED
        BY <4>1, <4>2
    <3>5. sent[i] \in Wanted
      <4>1. Base + i - 1 \in Base..(Base + declared - 1)
        BY <3>2
      <4> QED
        BY <2>1, <3>1, <4>1
    <3>6. {j \in Wanted : j < sent[i]} = Base..(Base + i - 2)
      <4>1. ASSUME NEW j \in Base..(Base + declared - 1), j < sent[i]
            PROVE  j \in Base..(Base + i - 2)
        BY <2>1, <2>2, <3>1, <4>1
      <4>2. ASSUME NEW j \in Base..(Base + i - 2)
            PROVE  j \in Base..(Base + declared - 1) /\ j < sent[i]
        BY <3>2, <3>1
      <4> QED
        BY <2>1, <4>1, <4>2
    <3> QED
      BY <3>4, <3>5, <3>6
  <2>6. phase = "done" => {sent[i] : i \in DOMAIN sent} = Wanted
    <3> SUFFICES ASSUME phase = "done" PROVE {sent[i] : i \in DOMAIN sent} = Wanted
      OBVIOUS
    <3>1. ASSUME NEW j \in Wanted PROVE \E k \in DOMAIN sent : j = sent[k]
      <4>1. j - Base + 1 \in 1..Len(sent)
        BY <2>1, <2>3
      <4>2. sent[j - Base + 1] = Base + (j - Base + 1) - 1
        BY <2>4, <4>1
      <4>3. sent[j - Base + 1] = j
        BY <2>1, <4>2
      <4> QED
        BY <2>2, <4>1, <4>3
    <3>2. ASSUME NEW k \in DOMAIN sent PROVE sent[k] \in Wanted
      BY <2>5
    <3> QED
      BY <3>1, <3>2
  <2> QED
    BY <2>3, <2>5, <2>6
<1> QED
  BY <1>1, DownloadInvariant, PTL

\* Exactly the answers that promise every byte consume a one-shot.
THEOREM ShotsNeedWholeFiles == Spec => []ShotNeedsWholeFile
<1>1. DownloadInv => ShotNeedsWholeFile
  <2> SUFFICES ASSUME DownloadInv PROVE ShotNeedsWholeFile
    OBVIOUS
  <2> USE DEF DownloadInv
  <2>1. CASE phase \in {"checked", "refused"}
    BY <2>1 DEF AnswerInv, ShotNeedsWholeFile
  <2>2. CASE phase \notin {"checked", "refused"}
    <3>1. /\ Base \in Nat /\ declared \in Nat /\ total \in Nat
          /\ Wanted = Base..(Base + declared - 1)
          /\ Base + declared <= total
      BY <2>2, WantedIsInterval DEF TypeOK
    <3>2. consumed = (one_shot /\ Covers(range))
      BY <2>2 DEF AnswerInv
    <3>3. Covers(range) <=> Wanted = 0..(total - 1)
      <4>1. CASE range = None
        BY <2>2, <3>1, <4>1 DEF Covers, Base, AnswerInv
      <4>2. CASE range # None
        <5>1. /\ range.start \in Nat /\ range.end \in Nat /\ Base = range.start
              /\ declared = range.end - range.start + 1
          BY <2>2, <4>2 DEF TypeOK, ByteRanges, Base, AnswerInv, Length
        <5>2. declared > 0
          <6>1. header # None /\ header \in Headers
            BY <2>2, <4>2 DEF AnswerInv, ParseRange, TypeOK
          <6>2. Selected(header, total) # {} /\ Wanted = Selected(header, total)
            BY <2>2, <3>1, <6>1, ParserMeetsDefinition DEF ParsesAsSelected, AnswerInv, Wanted
          <6> QED
            BY <3>1, <6>2
        <5>3. Covers(range) <=> range.start = 0 /\ range.end = total - 1
          <6>1. range.total = total
            BY <2>2, <4>2 DEF AnswerInv, ParseRange
          <6> QED
            BY <4>2, <6>1 DEF Covers, IsFullFile
        <5>4. Wanted = 0..(total - 1) <=> range.start = 0 /\ range.end = total - 1
          <6>1. Base \in Wanted /\ Base + declared - 1 \in Wanted
            BY <3>1, <5>2
          <6>2. Wanted = 0..(total - 1) => 0 \in Wanted /\ total - 1 \in Wanted
            BY <3>1, <5>2, <6>1
          <6> QED
            BY <3>1, <5>1, <5>2, <6>1, <6>2
        <5> QED
          BY <5>3, <5>4
      <4> QED
        BY <4>1, <4>2
    <3> QED
      BY <2>2, <3>2, <3>3 DEF ShotNeedsWholeFile, TypeOK
  <2> QED
    BY <2>1, <2>2
<1> QED
  BY <1>1, DownloadInvariant, PTL

=============================================================================
