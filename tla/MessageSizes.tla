---------------------------- MODULE MessageSizes ----------------------------
(***************************************************************************)
(* The limits that an alert message passes on its way: the form in which   *)
(* the browser sends it, alertmessage.Parse, the JSON of the control       *)
(* request, the HTML of the alert file, and the JSON of the answers in     *)
(* which it comes back.  Each encoding has a length of its own for the     *)
(* same message, and each limit was chosen by itself.                      *)
(*                                                                         *)
(* A message is the number of its characters of each class.                *)
(***************************************************************************)
EXTENDS Naturals

\*   plain       a byte that no encoding changes
\*   encoded     a byte that only forms encode: other punctuation, UTF-8
\*   escaped     a tab or backslash
\*   quote, apostrophe
\*   markup      &, < or > (counted as &, the longest in HTML)
\*   newline     CR LF in a form, LF in a message
\*   separator   U+2028 or U+2029, three bytes
Classes == {"plain", "encoded", "escaped", "quote", "apostrophe", "markup", "newline", "separator"}

MaxBytes == 4096
MaxFormBytes == 16384       \* maxMutationBodyBytes
MaxRequestBytes == 16384
MaxResponseBytes == 1048576
MaxLegacyBytes == 65536

MaxTarget == 63
MaxFileName == 255          \* of the file system
MaxAuditText == 128 + 255 + 255

\* The bytes of the parsed message, of the same message as the browser sends
\* it, and of the form's own encoding of that.
MessageBytes(m) ==
  m["plain"] + m["encoded"] + m["escaped"] + m["quote"] + m["apostrophe"] + m["markup"]
  + m["newline"] + 3 * m["separator"]

ReceivedBytes(m) == MessageBytes(m) + m["newline"]

FormBytes(m) ==
  m["plain"] + 3 * (m["encoded"] + m["escaped"] + m["quote"] + m["apostrophe"] + m["markup"])
  + 6 * m["newline"] + 9 * m["separator"]

\* encoding/json with its escapes for HTML.
JSONBytes(m) ==
  m["plain"] + m["encoded"] + 2 * m["escaped"] + 2 * m["quote"] + m["apostrophe"]
  + 6 * m["markup"] + 2 * m["newline"] + 6 * m["separator"]

\* EscapedHTML.
HTMLBytes(m) ==
  m["plain"] + m["encoded"] + m["escaped"] + 5 * (m["quote"] + m["apostrophe"] + m["markup"])
  + 5 * m["newline"] + 3 * m["separator"]

\* alertmessage.Parse checks the length before it normalises the line ends.
Parses(m) == ReceivedBytes(m) <= MaxBytes

\* MaxBytesReader and ParseForm.
FormAccepted(n) == n <= MaxFormBytes

\* "target=" and "&message=" around the two values.
FormAround == 7 + MaxTarget + 9

\* The request around the message: braces, names and the audit, whose texts
\* may need escapes, too.
RequestAround == 160 + MaxTarget + 6 * MaxAuditText + 45

\* Client.Call has DecodeRequest check the length it is about to send.
ClientSends(n) == n <= MaxRequestBytes

\* Mutant: the reader is limited to the size of a request, without its newline.
ReadsWithoutNewline(n) == n + 1 <= MaxRequestBytes

\* readRequest: at most MaxRequestBytes + 2 bytes are read, and a line may have
\* MaxRequestBytes and its newline.
ServerReads(n) == n + 1 <= MaxRequestBytes + 2 /\ n <= MaxRequestBytes

\* listingResult: an entry of a listing holds its message and no legacy source.
Listed(messageBytes, sourceBytes) == messageBytes

\* issueResult: the name, and the error of List with the name in quotes.  JSON
\* may make six bytes of each byte of the name (a control character, one that is
\* no UTF-8, or markup), and of each in quotes; an error that has the name more
\* often is about one without such bytes.
IssueAround == 200
IssueBytes(nameBytes) == IssueAround + 12 * nameBytes

\* An entry of an answer around its text, and an answer around its entries.
EntryAround == 80 + MaxTarget
AnswerAround == 80

AnswerAccepted(n) == n <= MaxResponseBytes

-----------------------------------------------------------------------------
(* Properties. *)

\* Every message that Parse would take gets through the limit of the form,
\* whatever its characters become in the form and in either form's fields.
FormFits(m) == Parses(m) => FormAccepted(FormAround + FormBytes(m))

\* An alert written from a message is read back as a managed alert: the file
\* stays below the limit of Read, and the message found in it is again one that
\* Parse takes, so that the form can be sent again without a change.
ReadsBackManaged(m) ==
  Parses(m) => HTMLBytes(m) <= MaxLegacyBytes /\ ReceivedBytes(m) <= MaxBytes

\* What the client sends the server reads, to the last byte of the limit.
LimitsAgree(n) == ClientSends(n) => ServerReads(n)

\* A listing of n entries with the message m and k issues with such names.
ListingBytes(m, sourceBytes, nameBytes, n, k) ==
  AnswerAround + n * (EntryAround + Listed(JSONBytes(m), sourceBytes)) + k * IssueBytes(nameBytes)

\* The answer to Read always fits, for a legacy file at its limit as well, of
\* which JSON may make six bytes each.
ReadFits(sourceBytes) ==
  sourceBytes <= MaxLegacyBytes => AnswerAccepted(AnswerAround + EntryAround + 6 * sourceBytes)

\* So does a listing of up to 40 alerts and 18 issues, whatever the messages of
\* the ones and the file names of the others.
ListingFits(m, sourceBytes, nameBytes) ==
  Parses(m) /\ nameBytes <= MaxFileName =>
    \A n \in 0 .. 40, k \in 0 .. 18 : AnswerAccepted(ListingBytes(m, sourceBytes, nameBytes, n, k))

AnswersFit(m, bytes) == ReadFits(bytes) /\ ListingFits(m, bytes, bytes)

\* "The maximum managed message size is 4096 bytes": every message that Parse
\* takes fits in a control request, even in one that holds nothing else.
RequestFits(m) == Parses(m) => ClientSends(JSONBytes(m))

\* What is true instead: a message of up to 2000 bytes always fits, and so does
\* one that JSON at most doubles.
SmallRequestFits(m) ==
  Parses(m) /\ (ReceivedBytes(m) <= 2000 \/ JSONBytes(m) <= 2 * MaxBytes) =>
    ClientSends(RequestAround + JSONBytes(m))
=============================================================================
