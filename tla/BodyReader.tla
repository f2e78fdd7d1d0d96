----------------------------- MODULE BodyReader ------------------------------
(***************************************************************************)
(* How the web process reads the body of a form: io.ReadAll on a           *)
(* MaxBytesReader on a bodyReader on the connection.  The length was       *)
(* declared in the header; the connection delivers the bytes in pieces of  *)
(* any size and may end before all of them, or carry more.                 *)
(***************************************************************************)
EXTENDS Naturals

CONSTANTS
  MaxBody,    \* bound on the lengths that occur
  MaxBuffer   \* bound on the buffers that ReadAll offers

ASSUME BodyBounds == MaxBody \in Nat /\ MaxBuffer \in Nat \ {0}

VARIABLES
  declared,   \* the Content-Length
  arrives,    \* bytes that arrive before the connection ends
  limit,      \* the limit of the MaxBytesReader
  left,       \* bodyReader.left
  budget,     \* maxBytesReader.left
  got,        \* bytes that ReadAll has
  status      \* "reading", or the end: "done", "cut" (unexpected EOF) or "too large"

bodyVars == <<declared, arrives, limit, left, budget, got, status>>

\* The shorter of a buffer and what may be filled of it.
Shorter(a, b) == IF a <= b THEN a ELSE b

\* What the connection still delivers.
Supply == arrives - (declared - left)

\* Mutant: the buffer is cut to the budget, so that the limit is never passed.
CutToBudget(buffer) == Shorter(buffer, budget)

\* maxBytesReader.Read asks for one byte more than it may return, to tell a body
\* at the limit from one beyond it.
Asks(buffer) == Shorter(buffer, budget + 1)

\* Mutant: the end of the connection is the end of the body.
EndIsEnd(n) == IF n = 0 \/ left = n THEN "done" ELSE "reading"

\* bodyReader.Read: all bytes read is io.EOF, the end of the connection before
\* that io.ErrUnexpectedEOF.
Ends(n) ==
  IF left = n THEN "done" ELSE IF Supply = n /\ n = 0 THEN "cut" ELSE "reading"

\* maxBytesReader.Read: the inner reader returned no more than the budget.
Within(n) == n <= budget

\* maxBytesReader.Read: what is left of the limit.
Spend(n) == budget - n

\* One Read through both readers: n bytes from the connection, none only when
\* it has ended or nothing was asked for.
Read(buffer, n) ==
  /\ status = "reading"
  /\ n <= Shorter(Asks(buffer), left) /\ n <= Supply
  /\ n = 0 => left = 0 \/ Supply = 0 \/ Asks(buffer) = 0
  /\ left' = left - n
  /\ IF Within(n)
     THEN /\ got' = got + n
          /\ budget' = Spend(n)
          /\ status' = Ends(n)
     ELSE /\ got' = got + budget
          /\ budget' = 0
          /\ status' = "too large"
  /\ UNCHANGED <<declared, arrives, limit>>

BodyInit ==
  /\ declared \in 0 .. MaxBody
  /\ arrives \in 0 .. MaxBody
  /\ limit \in 0 .. MaxBody
  /\ left = declared
  /\ budget = limit
  /\ got = 0
  /\ status = "reading"

ReadBody == \E buffer \in 1 .. MaxBuffer, n \in 0 .. MaxBody : Read(buffer, n)

-----------------------------------------------------------------------------
(* Properties. *)

\* The type of every variable.
BodyTypeOK ==
  /\ declared \in Nat /\ arrives \in Nat /\ limit \in Nat
  /\ left \in Nat /\ budget \in Nat /\ got \in Nat
  /\ status \in {"reading", "done", "cut", "too large"}

\* A form is parsed only from a body that is whole: as long as declared, within
\* the limit, however the connection split it and wherever it ended.
WholeOrError == status = "done" => got = declared /\ got <= limit /\ got <= arrives

\* A body is refused for what is wrong with it: it was cut short, or it exceeds
\* the limit.  One that has exactly the length of the limit is taken.
RefusedForCause ==
  /\ status = "cut" => arrives < declared
  /\ status = "too large" => limit < declared

\* A body is whole, or refused for a cause (bodyReader.Read, maxBytesReader.Read).
BodiesAreWhole == WholeOrError /\ RefusedForCause

\* Strengthening: the two readers' counts are those of the same bytes.
BodyInv ==
  /\ BodyTypeOK
  /\ left <= declared
  /\ declared - left <= arrives
  /\ status # "too large" => got = declared - left /\ budget = limit - got /\ got <= limit
  /\ status = "too large" => got = limit
  /\ status = "done" => left = 0
  /\ RefusedForCause
=============================================================================
