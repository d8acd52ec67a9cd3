------------------------------- MODULE WireFrames -------------------------------
(***************************************************************************)
(* How a byte stream becomes frames.  A peer writes length-prefixed frames *)
(* and the socket hands them over in reads of any size.  The host reads    *)
(* the handshake frame by frame, each with a decoder of its own, and then  *)
(* the business frames with one decoder that lives as long as the          *)
(* connection; next to it a second, simpler parser only tracks whether a   *)
(* frame is open, for the timer of slow frames.  The device keeps decoded  *)
(* frames in a queue and hands them out one at a time.                     *)
(*                                                                         *)
(* A byte is a number below Radix.  Widths are scaled down: PrefixBytes    *)
(* for the four bytes of the length, IdBytes for the eight of a request    *)
(* id; the byte BadText never occurs in UTF-8.                             *)
(***************************************************************************)
EXTENDS Naturals, Sequences, SequencesExt

CONSTANTS
    Radix, PrefixBytes, IdBytes,
    MaxControl, MaxContent,   \* bytes of a control body, of the raw content
    BadText,
    Peers,          \* the byte streams a peer may write
    MaxRead,        \* bytes of a read buffer
    Handshake,      \* frames the host reads before its business loop
    FrameTimeout,   \* ticks a frame may stay open
    MaxNow,         \* bound: the clock
    Reader          \* "host" or "device": the end that reads the stream

VARIABLES
    stream,     \* what the peer writes
    pos,        \* bytes of it that were read
    decoder,    \* FrameDecoder
    tracker,    \* FrameBoundaryTracker
    since,      \* partial_since: when the loop first saw an open frame
    state,      \* "hello", "open", "closed", "refused", "slow"
    out,        \* frames handed to the business handler or the caller
    queue,      \* WireConnection.pending of the device
    lost,       \* frames of the read that was refused
    opened,     \* history: when the frame now open began to arrive
    longest,    \* history: the longest a frame took to arrive
    now

vars == <<stream, pos, decoder, tracker, since, state, out, queue, lost, opened, longest, now>>

Never == MaxNow + 1
Control == 1
Content == 2
HeaderBytes == PrefixBytes + 1
MaxFrame == 1 + IdBytes + MaxContent
Number(bytes) == FoldLeft(LAMBDA n, b : n * Radix + b, 0, bytes)
Least(a, b) == IF a < b THEN a ELSE b

-----------------------------------------------------------------------------
(* Writing *)

BigEndian(n, width) ==
    [i \in 1..width |-> (n \div Radix ^ (width - i)) % Radix]

\* The frame a kind byte and a body make; nothing when it is over a limit.
Encode(kind, body) ==
    IF Len(body) + 1 > MaxFrame THEN <<>>
    ELSE BigEndian(Len(body) + 1, PrefixBytes) \o <<kind>> \o body

EncodeControl(body) ==
    IF Len(body) \in 1..MaxControl THEN Encode(Control, body) ELSE <<>>

EncodeContent(id, body) ==
    IF id # 0 /\ Len(body) \in 1..MaxContent
    THEN Encode(Content, BigEndian(id, IdBytes) \o body) ELSE <<>>

-----------------------------------------------------------------------------
(* The decoder.  A push consumes its input in slices: what the header still *)
(* misses, then what the body still misses.                                 *)

NewDecoder == [at |-> "header", bytes |-> <<>>, kind |-> 0, expected |-> 0, failed |-> FALSE]

LengthFits(length) == length \in 1..MaxFrame

ValidHeader(length, kind) ==
    /\ LengthFits(length)
    /\ \/ kind = Control /\ length - 1 \in 1..MaxControl
       \/ kind = Content /\ length - 1 \in (IdBytes + 1)..(IdBytes + MaxContent)

\* Mutant: the text of a control frame is taken as it comes.
IsContentBody(kind, body) ==
    kind = Content => Number(SubSeq(body, 1, IdBytes)) # 0

IsBody(kind, body) ==
    IF kind = Control THEN \A i \in DOMAIN body : body[i] # BadText
    ELSE Number(SubSeq(body, 1, IdBytes)) # 0 /\ Len(body) > IdBytes

DecodeBody(kind, body) ==
    IF kind = Control THEN [kind |-> Control, id |-> 0, body |-> body]
    ELSE [kind |-> Content, id |-> Number(SubSeq(body, 1, IdBytes)),
          body |-> SubSeq(body, IdBytes + 1, Len(body))]

Restarted(d) == [d EXCEPT !.at = "header", !.bytes = <<>>]

Failure(d) == [d EXCEPT !.failed = TRUE]

\* What one slice of a push makes of the decoder, and the frame it completes.
Slice(d, input) ==
    LET missing == (IF d.at = "header" THEN HeaderBytes ELSE d.expected) - Len(d.bytes)
        took == Least(missing, Len(input))
        bytes == d.bytes \o SubSeq(input, 1, took)
        length == Number(SubSeq(bytes, 1, PrefixBytes))
        rest == SubSeq(input, took + 1, Len(input))
        then(e, fs) == [d |-> e, frames |-> fs, rest |-> rest]
    IN IF d.at = "header"
       THEN CASE Len(bytes) >= PrefixBytes /\ ~LengthFits(length) -> then(Failure(d), <<>>)
              [] Len(bytes) < HeaderBytes -> then([d EXCEPT !.bytes = bytes], <<>>)
              [] ~ValidHeader(length, bytes[HeaderBytes]) -> then(Failure(d), <<>>)
              [] OTHER -> then([d EXCEPT !.at = "body", !.bytes = <<>>, !.expected = length - 1,
                                         !.kind = bytes[HeaderBytes]], <<>>)
       ELSE CASE Len(bytes) < d.expected -> then([d EXCEPT !.bytes = bytes], <<>>)
              [] ~IsBody(d.kind, bytes) -> then(Failure(d), <<>>)
              [] OTHER -> then(Restarted([d EXCEPT !.bytes = bytes]), <<DecodeBody(d.kind, bytes)>>)

RECURSIVE Pushing(_, _, _)
Pushing(d, input, frames) ==
    IF d.failed \/ input = <<>> THEN [d |-> d, frames |-> frames]
    ELSE LET s == Slice(d, input) IN Pushing(s.d, s.rest, frames \o s.frames)

\* The frames count only if the whole input was accepted.
Push(d, input) == Pushing(d, input, <<>>)

Finished(d) == d.at = "header" /\ d.bytes = <<>> /\ ~d.failed

-----------------------------------------------------------------------------
(* The boundary tracker: the length of a frame and what is left of it. *)

NewTracker == [prefix |-> <<>>, remaining |-> 0]

Remaining(length) == length

RECURSIVE Track(_, _)
Track(t, input) ==
    IF input = <<>> THEN [t |-> t, ok |-> TRUE]
    ELSE IF t.remaining > 0
    THEN LET took == Least(t.remaining, Len(input))
         IN Track([t EXCEPT !.remaining = @ - took], SubSeq(input, took + 1, Len(input)))
    ELSE LET took == Least(PrefixBytes - Len(t.prefix), Len(input))
             prefix == t.prefix \o SubSeq(input, 1, took)
             rest == SubSeq(input, took + 1, Len(input))
         IN IF Len(prefix) < PrefixBytes THEN [t |-> [t EXCEPT !.prefix = prefix], ok |-> TRUE]
            ELSE IF ~LengthFits(Number(prefix)) THEN [t |-> t, ok |-> FALSE]
            ELSE Track([prefix |-> <<>>, remaining |-> Remaining(Number(prefix))], rest)

Partial(t) == t.prefix # <<>> \/ t.remaining # 0

-----------------------------------------------------------------------------
(* What a stream means, read at once *)

RECURSIVE Parse(_)
Parse(bytes) ==
    LET length == Number(SubSeq(bytes, 1, PrefixBytes))
        body == SubSeq(bytes, HeaderBytes + 1, PrefixBytes + length)
        kind == bytes[HeaderBytes]
        bad == [frames |-> <<>>, ok |-> FALSE, open |-> FALSE]
        partial == [frames |-> <<>>, ok |-> TRUE, open |-> bytes # <<>>]
    IN IF Len(bytes) < PrefixBytes THEN partial
       ELSE IF length = 0 \/ length > MaxFrame THEN bad
       ELSE IF Len(bytes) < HeaderBytes THEN partial
       ELSE IF ~(\/ kind = Control /\ length \in 2..(MaxControl + 1)
                 \/ kind = Content /\ length \in (IdBytes + 2)..MaxFrame) THEN bad
       ELSE IF Len(bytes) < PrefixBytes + length THEN partial
       ELSE IF \/ kind = Control /\ BadText \in {body[i] : i \in DOMAIN body}
               \/ kind = Content /\ Number(SubSeq(body, 1, IdBytes)) = 0 THEN bad
       ELSE LET rest == Parse(SubSeq(bytes, PrefixBytes + length + 1, Len(bytes)))
            IN [rest EXCEPT !.frames = <<DecodeBody(kind, body)>> \o @]

Consumed == SubSeq(stream, 1, pos)

-----------------------------------------------------------------------------

Init ==
    /\ stream \in Peers /\ pos = 0
    /\ decoder = NewDecoder /\ tracker = NewTracker /\ since = Never
    /\ state = IF Reader = "host" /\ Handshake > 0 THEN "hello" ELSE "open"
    /\ out = <<>> /\ queue = <<>> /\ lost = <<>> /\ opened = Never /\ longest = 0
    /\ now = 0

Tick ==
    /\ now < MaxNow /\ now' = now + 1 /\ state \in {"hello", "open"}
    /\ UNCHANGED <<stream, pos, decoder, tracker, since, state, out, queue, lost, opened, longest>>

Unread == SubSeq(stream, pos + 1, Len(stream))

\* When the frame open after reading up to p began to arrive.
OpenedAt(p) ==
    LET before == Parse(Consumed)
        after == Parse(SubSeq(stream, 1, p))
    IN IF ~after.open THEN Never
       ELSE IF before.open /\ Len(after.frames) = Len(before.frames) THEN opened
       ELSE now

\* The longest a frame took, the one now open included.
Longest == IF opened = Never \/ now - opened < longest THEN longest ELSE now - opened

ExactLength(length) == Least(Len(Unread), PrefixBytes + length)

\* The host reads one handshake frame: exactly its header, then exactly its
\* body.  A stream that ends inside it, a content frame and anything the
\* decoder refuses end the connection.
ReadControl ==
    /\ Reader = "host" /\ state = "hello"
    /\ LET header == SubSeq(Unread, 1, Least(HeaderBytes, Len(Unread)))
           first == Push(NewDecoder, header)
           length == Number(SubSeq(header, 1, PrefixBytes))
           count == ExactLength(length)
           second == Push(first.d, SubSeq(Unread, HeaderBytes + 1, count))
           good == /\ Len(header) = HeaderBytes /\ ~first.d.failed
                   /\ Finished(second.d) /\ Len(second.frames) = 1
                   /\ second.frames[1].kind = Control
       IN IF good
          THEN /\ out' = out \o second.frames /\ pos' = pos + count
               /\ state' = IF Len(out') = Handshake THEN "open" ELSE state
          ELSE /\ state' = IF Len(header) < HeaderBytes THEN "closed" ELSE "refused"
               /\ UNCHANGED <<out, pos>>
    /\ UNCHANGED <<stream, decoder, tracker, since, queue, lost, opened, longest, now>>

\* The timer runs as long as every read ends inside a frame.
Timer(t) == IF ~Partial(t) THEN Never ELSE IF since = Never THEN now ELSE since

TimedOut(start) == start # Never /\ now >= start + FrameTimeout

\* One read of the business loop: the tracker, the timer, the decoder, then
\* every frame in order, and at last the timer is looked at.
HostReads(n) ==
    /\ Reader = "host" /\ state = "open" /\ Unread # <<>>
    /\ LET input == SubSeq(Unread, 1, n)
           tracked == Track(tracker, input)
           pushed == Push(decoder, input)
       IN /\ pos' = pos + n
          /\ opened' = OpenedAt(pos') /\ longest' = Longest
          /\ IF ~tracked.ok \/ pushed.d.failed
             THEN /\ state' = "refused" /\ lost' = pushed.frames
                  /\ UNCHANGED <<decoder, tracker, since, out>>
             ELSE /\ tracker' = tracked.t /\ decoder' = pushed.d
                  /\ since' = Timer(tracked.t)
                  /\ out' = out \o pushed.frames
                  /\ state' = IF TimedOut(since') THEN "slow" ELSE state
                  /\ UNCHANGED lost
    /\ UNCHANGED <<stream, queue, now>>

\* No byte arrived within the poll interval.
HostPolls ==
    /\ Reader = "host" /\ state = "open" /\ TimedOut(since)
    /\ state' = "slow"
    /\ UNCHANGED <<stream, pos, decoder, tracker, since, out, queue, lost, opened, longest, now>>

\* The peer closed the stream: the loop, or the receiver, ends.
EndOfStream ==
    /\ state = "open" /\ Unread = <<>> /\ queue = <<>>
    /\ state' = "closed"
    /\ UNCHANGED <<stream, pos, decoder, tracker, since, out, queue, lost, opened, longest, now>>

\* The device asks for a frame and one is waiting.
ReceivePending ==
    /\ Reader = "device" /\ state = "open" /\ queue # <<>>
    /\ out' = Append(out, Head(queue)) /\ queue' = Tail(queue)
    /\ UNCHANGED <<stream, pos, decoder, tracker, since, state, lost, opened, longest, now>>

\* Otherwise it reads: the first frame is handed over, the others wait.  A
\* read that completes none leaves the caller to try again.
Receive(n) ==
    /\ Reader = "device" /\ state = "open" /\ queue = <<>> /\ Unread # <<>>
    /\ pos' = pos + n
    /\ LET pushed == Push(decoder, SubSeq(Unread, 1, n))
       IN IF pushed.d.failed
          THEN state' = "refused" /\ lost' = pushed.frames /\ UNCHANGED <<decoder, out, queue>>
          ELSE /\ decoder' = pushed.d
               /\ out' = IF pushed.frames = <<>> THEN out ELSE Append(out, Head(pushed.frames))
               /\ queue' = IF pushed.frames = <<>> THEN <<>> ELSE Tail(pushed.frames)
               /\ UNCHANGED <<state, lost>>
    /\ UNCHANGED <<stream, tracker, since, opened, longest, now>>

Done == state \in {"closed", "refused", "slow"} /\ UNCHANGED vars

Reads == 1..Least(MaxRead, Len(Unread))

Next ==
    \/ Tick
    \/ ReadControl
    \/ \E n \in Reads : HostReads(n)
    \/ HostPolls
    \/ EndOfStream
    \/ \E n \in Reads : Receive(n)
    \/ ReceivePending
    \/ Done

Spec == Init /\ [][Next]_vars

-----------------------------------------------------------------------------
(* Properties *)

Whole == Parse(Consumed)

\* Type invariant: a decoder buffers less than the header, or than a body its
\* kind allows (validate_header is asked before a body is allocated).
TypeOK ==
    /\ pos \in 0..Len(stream) /\ now \in 0..MaxNow
    /\ since \in 0..Never /\ opened \in 0..Never
    /\ state \in {"hello", "open", "closed", "refused", "slow"}
    /\ decoder.at = "header" => Len(decoder.bytes) < HeaderBytes
    /\ decoder.at = "body" => /\ Len(decoder.bytes) < decoder.expected
                              /\ decoder.kind = Control => decoder.expected <= MaxControl
                              /\ decoder.kind = Content => decoder.expected <= IdBytes + MaxContent

\* However the reads fall, the frames handed over are the ones the bytes read
\* so far spell, in order and each once: across the handshake's own decoders,
\* the business decoder and the device's queue of waiting frames.
SegmentationFree ==
    /\ IsPrefix(out \o queue, Whole.frames)
    /\ state \in {"hello", "open", "closed", "slow"} => out \o queue = Whole.frames
    /\ state = "closed" => IsPrefix(Whole.frames, out)

\* The two parsers of the host never disagree on whether a frame is open: the
\* slow-frame timer watches exactly what the decoder waits for.
ParsersAgree ==
    Reader = "host" /\ state = "open" =>
        /\ Partial(tracker) <=> ~Finished(decoder)
        /\ Partial(tracker) <=> Whole.open

\* A connection is refused only for bytes that are no frame: what was read,
\* or in the handshake what comes next, breaks the format, ends early or is
\* not a control frame.
RefusedForCause ==
    state = "refused" =>
        \/ ~Whole.ok
        \/ /\ Len(out) < Handshake
           /\ LET next == Parse(Unread)
              IN next.frames = <<>> \/ next.frames[1].kind # Control

\* The timer of the business loop never runs behind the frame that is open: a
\* frame that takes longer than the timeout always ends the connection.
TimerCoversOpenFrame ==
    Reader = "host" /\ state = "open" /\ opened # Never => since <= opened

\* A connection is closed as slow only when some frame took the whole timeout
\* (each frame has ten seconds of its own).
SlowFramesOnly == state = "slow" => Longest >= FrameTimeout
=============================================================================
