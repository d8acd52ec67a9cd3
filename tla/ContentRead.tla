----------------------------- MODULE ContentRead -----------------------------
(***************************************************************************)
(* Reading one text body from the phone: read_text_content of kaleido-core *)
(* asks for chunks, the host (read_reference of kaleido-state) loads,      *)
(* verifies and cuts the body anew for every request.  Between two chunks  *)
(* the body may be evicted or damaged and the connection may end.  Bytes   *)
(* are positions, so a text is right when it is 1 .. length in order.      *)
(***************************************************************************)
EXTENDS Integers, Sequences

CONSTANTS MaxLen,     \* lengths of bodies that are tried
          ChunkSizes, \* values of MAX_CONTENT_READ_BYTES
          RenderLimit \* MOBILE_TEXT_RENDER_LIMIT

VARIABLES
    ref,      \* the ContentRef the projection carries: length, availability
    chunk,    \* MAX_CONTENT_READ_BYTES
    body,     \* the file at the host: "intact", "missing" or "damaged"
    reader,   \* the loop of read_text_content
    request,  \* the request on the wire, or NoRequest
    asked     \* number of requests made

vars == <<ref, chunk, body, reader, request, asked>>

NoRequest == [offset |-> 0, max |-> 0]
Smaller(a, b) == IF a < b THEN a ELSE b
Availabilities == {"stored", "evicted", "never_stored"}

Init ==
    /\ ref \in [len : 0 .. MaxLen, availability : Availabilities]
    /\ chunk \in ChunkSizes
    /\ body = IF ref.availability = "stored" THEN "intact" ELSE "missing"
    /\ reader = [pc |-> "start", offset |-> 0, bytes |-> <<>>]
    /\ request = NoRequest /\ asked = 0

Return(outcome) == reader' = [reader EXCEPT !.pc = outcome]

\* read_text_content before its loop.
StartReading ==
    /\ reader.pc = "start"
    /\ Return(IF ref.len > RenderLimit THEN "too_large"
              ELSE IF ref.availability # "stored" THEN ref.availability
              ELSE "ask")
    /\ UNCHANGED <<ref, chunk, body, request, asked>>

\* remaining.min(MAX_CONTENT_READ_BYTES)
MaxBytes(offset) == Smaller(ref.len - offset, chunk)

\* One turn of the loop up to read_content; a length of zero is an error.
AskChunk ==
    LET max == MaxBytes(reader.offset) IN
    /\ reader.pc = "ask"
    /\ IF max = 0
       THEN Return("contract") /\ UNCHANGED <<request, asked>>
       ELSE /\ request' = [offset |-> reader.offset, max |-> max]
            /\ asked' = asked + 1
            /\ Return("wait")
    /\ UNCHANGED <<ref, chunk, body>>

\* read_reference: bytes offset .. end of the body.
Cut(r) == [from |-> r.offset, to |-> Smaller(r.offset + r.max, ref.len)]

\* checked_next_offset where it does not fail.
NextOffset(current, next) == next

\* What the digest of the reference stands for.
WholeBody == [i \in 1 .. ref.len |-> i]

\* The host answers, and the reader appends what it was sent.
AnswerChunk ==
    LET c == Cut(request)
        bytes == reader.bytes \o [i \in 1 .. (c.to - c.from) |-> c.from + i]
        eof == c.to = ref.len
    IN
    /\ reader.pc = "wait"
    /\ request' = NoRequest
    /\ reader' =
         IF body = "missing" THEN [reader EXCEPT !.pc = "evicted"]
         ELSE IF body = "damaged" THEN [reader EXCEPT !.pc = "digest_mismatch"]
         ELSE IF eof
         THEN [reader EXCEPT !.bytes = bytes,
                 !.pc = IF bytes = WholeBody THEN "text" ELSE "contract"]
         ELSE IF c.to <= reader.offset \/ c.to > ref.len
         THEN [reader EXCEPT !.pc = "contract"]
         ELSE [pc |-> "ask", offset |-> NextOffset(reader.offset, c.to), bytes |-> bytes]
    /\ UNCHANGED <<ref, chunk, body, asked>>

\* The connection ends while the reader waits.
ConnectionEnds ==
    /\ reader.pc = "wait"
    /\ request' = NoRequest /\ Return("stopped")
    /\ UNCHANGED <<ref, chunk, body, asked>>

\* Retention or damage at the host, at any moment.
BodyChanges(b) ==
    /\ body = "intact" /\ b \in {"missing", "damaged"} /\ body' = b
    /\ UNCHANGED <<ref, chunk, reader, request, asked>>

Next ==
    \/ StartReading \/ AskChunk \/ AnswerChunk \/ ConnectionEnds
    \/ \E b \in {"missing", "damaged"} : BodyChanges(b)

Spec == Init /\ [][Next]_vars

Outcomes == {"too_large", "evicted", "never_stored", "digest_mismatch",
             "contract", "stopped", "text"}

\* No request reaches past the reference (ContentReadRequest::validate and
\* the host's offset check), and the reader never holds more than the body.
TypeOK ==
    /\ reader.pc \in {"start", "ask", "wait"} \cup Outcomes
    /\ Len(reader.bytes) <= ref.len
    /\ request # NoRequest =>
         request.max \in 1 .. chunk /\ request.offset + request.max <= ref.len

\* The loop asks for no chunk twice: at most one request per chunk of the body.
NoChunkTwice == (asked - 1) * chunk <= ref.len

\* "Oversized and unavailable bodies remain explicit states": a failed read
\* of a non-empty body is never a contract error, whatever its length, the
\* chunk size, and what became of it between two chunks (MobileTextContent).
FailuresAreNamed == (reader.pc = "contract") => ref.len = 0
=============================================================================
