---------------------------- MODULE AnswerReader -----------------------------
(***************************************************************************)
(* How the HTTP client of the web process reads an answer of the node, the *)
(* one about a session in the first place: io.ReadAll on a LimitReader on  *)
(* a chunkedReader on the connection, or on the connection itself when the *)
(* answer has neither chunks nor a length.  (BodyReader has the bodyReader *)
(* of an answer with a length.)  The connection may end anywhere.          *)
(***************************************************************************)
EXTENDS Naturals, Sequences, SequencesExt, FiniteSets

CONSTANTS
  Answers,      \* what arrives: chunked, items, and observed: whole, complete
  MaxAnswer,    \* maxResponseBytes of the verifier
  MaxPiece      \* bound on the bytes of one Read

\* An item is a "size" line with its n, a byte of "data", a "crlf", or another
\* "line" (a trailer).
Items == [is : {"size", "data", "crlf", "line"}, n : Nat]

DataBytes(items) == Cardinality({i \in DOMAIN items : items[i].is = "data"})

\* The size line of the last chunk.
IsLastChunk(item) == item.is = "size" /\ item.n = 0

\* Chunks and the trailers after the last, up to where the connection ends.
IsChunkStream(items) ==
  /\ items # <<>> => items[1].is = "size"
  /\ \A i \in DOMAIN items : \A j \in DOMAIN items :
       /\ items[i].is = "size" /\ items[i].n > 0 =>
            /\ j \in i + 1 .. i + items[i].n => items[j].is = "data"
            /\ j = i + items[i].n + 1 => items[j].is = "crlf"
            /\ j = i + items[i].n + 2 => items[j].is = "size"
       /\ IsLastChunk(items[i]) /\ j > i =>
            items[j].is = "line" \/ (items[j].is = "crlf" /\ j = Len(items))

\* What can arrive of an answer: its first items, all of them if it is complete.
Arrives(a) ==
  /\ DataBytes(a.items) <= a.whole
  /\ ~a.chunked => \A i \in DOMAIN a.items : a.items[i].is = "data"
  /\ a.chunked =>
       /\ IsChunkStream(a.items)
       /\ (\E i \in DOMAIN a.items : IsLastChunk(a.items[i])) => DataBytes(a.items) = a.whole
       /\ a.complete => /\ \E i \in DOMAIN a.items : IsLastChunk(a.items[i])
                        /\ a.items[Len(a.items)].is = "crlf"

ASSUME AnswerAssumption ==
  /\ Answers \subseteq [chunked : BOOLEAN, items : Seq(Items), whole : Nat, complete : BOOLEAN]
  /\ \A a \in Answers : Arrives(a)
  /\ MaxAnswer \in Nat /\ MaxPiece \in Nat

VARIABLES
  answer,       \* the answer that is being read
  wire,         \* the items not yet read
  chunk,        \* chunkedReader.left
  last,         \* chunkedReader.done
  room,         \* LimitReader.N
  have,         \* bytes that ReadAll has
  outcome       \* "reading", "done", "cut" or "too large"

answerVars == <<answer, wire, chunk, last, room, have, outcome>>

Is(kind) == wire # <<>> /\ Head(wire).is = kind

\* Bytes of data that come next.
Ready ==
  LET other == SelectInSeq(wire, LAMBDA item : item.is # "data") IN
  IF other = 0 THEN Len(wire) ELSE other - 1

\* VerifySession limits the reader to one byte more than it accepts.
Room == MaxAnswer + 1

\* Mutant: the connection's end is the end of the answer.
EndIsLast == "done"

\* noEOF: the connection's end within an answer is unexpected.
NoEOF == "cut"

\* nextChunk: a size line; after the last, the trailers up to an empty line.
NextChunk ==
  LET blank == SelectInSeq(wire, LAMBDA item : item.is = "crlf") IN
  /\ outcome = "reading" /\ room > 0
  /\ answer.chunked /\ chunk = 0 /\ ~last
  /\ \/ ~Is("size") /\ outcome' = NoEOF /\ UNCHANGED <<wire, chunk, last>>
     \/ /\ Is("size") /\ Head(wire).n > 0
        /\ chunk' = Head(wire).n
        /\ wire' = Tail(wire)
        /\ UNCHANGED <<last, outcome>>
     \/ /\ Is("size") /\ Head(wire).n = 0
        /\ IF blank = 0 THEN outcome' = NoEOF /\ UNCHANGED <<wire, last>>
           ELSE last' = TRUE /\ wire' = SubSeq(wire, blank + 1, Len(wire)) /\ UNCHANGED outcome
        /\ UNCHANGED chunk
  /\ UNCHANGED <<answer, room, have>>

\* chunkedReader.Read: n bytes of the chunk, and the line end after its last.
ReadChunk(n) ==
  /\ outcome = "reading"
  /\ answer.chunked /\ chunk > 0
  /\ n <= chunk /\ n <= room /\ n <= Ready
  /\ have' = have + n
  /\ room' = room - n
  /\ chunk' = chunk - n
  /\ LET rest == SubSeq(wire, n + 1, Len(wire)) IN
       IF n < chunk THEN wire' = rest /\ UNCHANGED outcome
       ELSE IF rest # <<>> /\ Head(rest).is = "crlf" THEN wire' = Tail(rest) /\ UNCHANGED outcome
       ELSE wire' = rest /\ outcome' = NoEOF
  /\ UNCHANGED <<answer, last>>

\* Without chunks and length the connection is read until it ends.
ReadPlain(n) ==
  /\ outcome = "reading"
  /\ ~answer.chunked
  /\ n <= room /\ n <= Ready
  /\ have' = have + n
  /\ room' = room - n
  /\ wire' = SubSeq(wire, n + 1, Len(wire))
  /\ UNCHANGED <<answer, chunk, last, outcome>>

\* The reader has nothing more: the limit, the last chunk, or the connection.
AnswerEnds ==
  /\ outcome = "reading"
  /\ \/ room = 0 /\ outcome' = "too large"
     \/ room > 0 /\ last /\ outcome' = "done"
     \/ room > 0 /\ chunk > 0 /\ Ready = 0 /\ outcome' = NoEOF
     \/ room > 0 /\ ~answer.chunked /\ Ready = 0 /\ outcome' = "done"
  /\ UNCHANGED <<answer, wire, chunk, last, room, have>>

AnswerInit ==
  /\ answer \in Answers
  /\ wire = answer.items
  /\ chunk = 0
  /\ last = FALSE
  /\ room = Room
  /\ have = 0
  /\ outcome = "reading"

ReadAnswer == NextChunk \/ AnswerEnds \/ \E n \in 1 .. MaxPiece : ReadChunk(n) \/ ReadPlain(n)

-----------------------------------------------------------------------------
(* Properties. *)

\* A chunked answer is used only as a whole: wherever the connection ends, and
\* even between two chunks, a part of it is an error and never a shorter answer.
AnswerWhole ==
  outcome = "done" => have <= MaxAnswer /\ (answer.chunked => have = answer.whole)

\* An answer is refused for what is wrong with it; one of exactly the largest
\* size is used.
AnswerRefusedForCause ==
  /\ outcome = "cut" => ~answer.complete
  /\ outcome = "too large" => answer.whole > MaxAnswer

\* An answer is whole, or refused for a cause (chunkedReader.Read, VerifySession).
AnswersAreWhole == AnswerWhole /\ AnswerRefusedForCause
=============================================================================
