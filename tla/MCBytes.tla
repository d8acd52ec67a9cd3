------------------------------- MODULE MCBytes -------------------------------
(***************************************************************************)
(* What is written, sent and read back, for TLC: the log of the streams    *)
(* (StreamLog), uploaded bodies (ContentStore), their way to the phone     *)
(* (ContentRead), frames (WireFrames) and the control conversation over    *)
(* them (ControlWire).  A behaviour belongs to one scenario, which says    *)
(* what may happen in it.                                                  *)
(***************************************************************************)
EXTENDS StreamLog

CONSTANT Scenarios

VARIABLES scenario,
          disk, owned, broker, adapter, canon, outbox, acked, uploads, now, faults,
          ref, chunk, body, reader, request, asked,
          stream, pos, decoder, tracker, since, phase, out, queue, lost, opened, longest, clock,
          host, sent, got, stored, inbox, read, worker, pushes, timeouts

storeVars == <<disk, owned, broker, adapter, canon, outbox, acked, uploads, now, faults>>
readVars == <<ref, chunk, body, reader, request, asked>>
frameVars == <<stream, pos, decoder, tracker, since, phase, out, queue, lost, opened, longest, clock>>
wireVars == <<host, sent, got, stored, inbox, read, worker, pushes, timeouts>>
MCvars == <<scenario, vars, storeVars, readVars, frameVars, wireVars>>

TwoStreams == {"host", "session"}
ByName == <<"host", "session">>

-----------------------------------------------------------------------------
(* Uploads: two devices with a small quota and a store that crashes; a     *)
(* device beside two adapters that write the same bodies.                  *)
Crashing == INSTANCE ContentStore WITH Bodies <- {"b1", "b2"}, ByteLen <- [b \in {"b1", "b2"} |-> 1],
  Ttl <- 2, Devices <- {"d1"}, Adapters <- {}, Quota <- 1, CommandKinds <- {"prompt", "enqueue"},
  MaxNow <- 3, MaxPending <- 1, MaxUploads <- 3, FaultKinds <- {"crash", "write", "rename", "torn"},
  MaxFaults <- 2
Shared == INSTANCE ContentStore WITH Bodies <- {"b1", "b2"}, ByteLen <- [b \in {"b1", "b2"} |-> 1],
  Ttl <- 2, Devices <- {"d1", "d2"}, Adapters <- {"a1"}, Quota <- 2, CommandKinds <- {"prompt"},
  MaxNow <- 0, MaxPending <- 1, MaxUploads <- 2, FaultKinds <- {"crash", "sync"}, MaxFaults <- 1

StoreInit == IF scenario = "crashing" THEN Crashing!Init ELSE Shared!Init
StoreNext == \/ scenario = "crashing" /\ Crashing!Next
             \/ scenario = "shared" /\ Shared!Next

-----------------------------------------------------------------------------
(* Bodies of every length around the limits, read in chunks.               *)
Reading == INSTANCE ContentRead WITH MaxLen <- 9, ChunkSizes <- {1, 2, 3, 4}, RenderLimit <- 7

ReadInit == /\ Reading!Init
            /\ scenario # "reading" => ref = [len |-> 0, availability |-> "stored"] /\ chunk = 1

-----------------------------------------------------------------------------
(* Frames: whole ones, and headers of every length and kind between them,  *)
(* read by the host or by the device; a slow peer.                         *)
Encoding == INSTANCE WireFrames WITH state <- phase, now <- clock, Radix <- 8, PrefixBytes <- 2, IdBytes <- 1,
  MaxControl <- 2, MaxContent <- 2, BadText <- 7, Peers <- {}, MaxRead <- 20, Handshake <- 1,
  FrameTimeout <- 2, MaxNow <- 0, Reader <- "host"

Good == {Encoding!EncodeControl(b) : b \in {<<5>>, <<5, 6>>}}
        \cup {Encoding!EncodeContent(1, b) : b \in {<<5>>, <<5, 6>>}}
\* Headers of every length up to one beyond the limit with every kind, bodies with a byte that
\* is no text and a request id of zero.
Odd == {Encoding!BigEndian(n, 2) \o <<k>> \o b :
          n \in 0 .. (Encoding!MaxFrame + 1), k \in 0 .. 3, b \in {<<>>, <<5, 6>>, <<0, 5>>, <<5, 7>>}}
Mixed == {<<0>>, <<0, 3, 1>>} \cup {a \o b \o c : a, b \in Good, c \in Good \cup {<<>>}}
         \cup {a \o o \o b : a \in Good, o \in Odd, b \in Good \cup {<<>>}}
Slow == {Encoding!EncodeControl(<<5, 6>>) \o Encoding!EncodeContent(1, <<5, 6>>) \o Encoding!EncodeControl(<<5>>)}

HostFrames == INSTANCE WireFrames WITH state <- phase, now <- clock, Radix <- 8, PrefixBytes <- 2, IdBytes <- 1,
  MaxControl <- 2, MaxContent <- 2, BadText <- 7, Peers <- Mixed, MaxRead <- 20, Handshake <- 1,
  FrameTimeout <- 2, MaxNow <- 0, Reader <- "host"
DeviceFrames == INSTANCE WireFrames WITH state <- phase, now <- clock, Radix <- 8, PrefixBytes <- 2, IdBytes <- 1,
  MaxControl <- 2, MaxContent <- 2, BadText <- 7, Peers <- Mixed, MaxRead <- 20, Handshake <- 0,
  FrameTimeout <- 2, MaxNow <- 0, Reader <- "device"
SlowFrames == INSTANCE WireFrames WITH state <- phase, now <- clock, Radix <- 8, PrefixBytes <- 2, IdBytes <- 1,
  MaxControl <- 2, MaxContent <- 2, BadText <- 7, Peers <- Slow, MaxRead <- 20, Handshake <- 0,
  FrameTimeout <- 2, MaxNow <- 5, Reader <- "host"

FrameInit == CASE scenario = "host_frames" -> HostFrames!Init
               [] scenario = "device_frames" -> DeviceFrames!Init
               [] OTHER -> SlowFrames!Init
FrameNext == \/ scenario = "host_frames" /\ HostFrames!Next
             \/ scenario = "device_frames" /\ DeviceFrames!Next
             \/ scenario = "slow_frames" /\ SlowFrames!Next

-----------------------------------------------------------------------------
(* The conversation: a client that sends any frames, the device's worker,  *)
(* and a worker that gives calls up.                                       *)
Client == INSTANCE ControlWire WITH MaxId <- 2, MaxSid <- 2, HelloId <- 0, MaxPending <- 1, MaxSubs <- 1,
  Digests <- {"a", "b"}, MaxPushes <- 1, MaxPings <- 1, Peer <- "client", Calls <- {},
  Outcomes <- {"ok", "rejected", "broker"}, Timeouts <- 0
Worker == INSTANCE ControlWire WITH MaxId <- 5, MaxSid <- 2, HelloId <- 1, MaxPending <- 3, MaxSubs <- 2,
  Digests <- {"a"}, MaxPushes <- 1, MaxPings <- 1, Peer <- "worker", Calls <- {"sub", "unsub", "write", "cmd"},
  Outcomes <- {"ok", "rejected"}, Timeouts <- 0
Hasty == INSTANCE ControlWire WITH MaxId <- 5, MaxSid <- 2, HelloId <- 1, MaxPending <- 3, MaxSubs <- 2,
  Digests <- {"a"}, MaxPushes <- 1, MaxPings <- 1, Peer <- "worker", Calls <- {"sub", "write", "read"},
  Outcomes <- {"ok", "broker"}, Timeouts <- 1

WireInit == IF scenario = "client" THEN Client!Init ELSE Worker!Init
WireNext == \/ scenario = "client" /\ Client!Next
            \/ scenario = "worker" /\ Worker!Next
            \/ scenario = "hasty" /\ Hasty!Next

-----------------------------------------------------------------------------
MCInit == scenario \in Scenarios /\ Init /\ StoreInit /\ ReadInit /\ FrameInit /\ WireInit
MCNext ==
  /\ UNCHANGED scenario
  /\ \/ scenario = "log" /\ Next /\ UNCHANGED <<storeVars, readVars, frameVars, wireVars>>
     \/ StoreNext /\ UNCHANGED <<vars, readVars, frameVars, wireVars>>
     \/ scenario = "reading" /\ Reading!Next /\ UNCHANGED <<vars, storeVars, frameVars, wireVars>>
     \/ FrameNext /\ UNCHANGED <<vars, storeVars, readVars, wireVars>>
     \/ WireNext /\ UNCHANGED <<vars, storeVars, readVars, frameVars>>

\* The host reads what was sent and the worker what was answered; nothing is assumed of the app.
MCSpec ==
  /\ MCInit /\ [][MCNext]_MCvars
  /\ WF_wireVars(scenario = "worker" /\ \E o \in {"ok", "rejected"} : Worker!HostReads(o))
  /\ WF_wireVars(scenario = "worker" /\ Worker!WorkerReads)
  /\ WF_wireVars(scenario = "worker" /\ Worker!WorkerLoses)

-----------------------------------------------------------------------------
(* What is checked besides the properties of StreamLog.                    *)

\* No reference of canonical state dangles (cleanup_after_replay).
CanonicalBodiesExist == Shared!CanonicalBodiesExist

\* The body of a command that waits in the outbox survives the expiry of its upload and any
\* number of restarts (pending_outbox_content_survives_ownership_expiry_cleanup).
PendingBodiesExist == scenario = "crashing" => Crashing!PendingBodiesExist

\* An upload the device was told is stored can be read and used until it expires
\* (write_for_device).
AckedUploadsUsable ==
  /\ scenario = "crashing" => Crashing!AckedUploadsUsable
  /\ scenario = "shared" => Shared!AckedUploadsUsable

\* A device never owns more unexpired bytes than its quota (write_for_device).
QuotaHolds == scenario = "crashing" => Crashing!QuotaHolds

\* No command is admitted on an upload that has expired or is another device's
\* (validate_device_reference).
AdmittedOnLiveUpload ==
  [][scenario = "crashing" =>
       \A c \in outbox' \ outbox : \E d \in {"d1"} : acked[<<d, c.body>>] > now]_MCvars

\* The reader asks for no chunk twice (read_text_content).
NoChunkTwice == Reading!NoChunkTwice

\* A failed read of a non-empty body is never a contract error (MobileTextContent).
FailuresAreNamed == Reading!FailuresAreNamed

\* However the reads fall, the frames handed over are the ones the bytes spell, in order and
\* each once (FrameDecoder, WireConnection.pending).
SegmentationFree ==
  /\ scenario = "host_frames" => HostFrames!SegmentationFree
  /\ scenario = "device_frames" => DeviceFrames!SegmentationFree

\* The decoder and the tracker of the slow-frame timer never disagree on whether a frame is
\* open (FrameBoundaryTracker).
ParsersAgree == scenario = "host_frames" => HostFrames!ParsersAgree

\* A connection is refused only for bytes that are no frame (validate_header).
RefusedForCause ==
  /\ scenario = "host_frames" => HostFrames!RefusedForCause
  /\ scenario = "device_frames" => DeviceFrames!RefusedForCause

\* The timer of the business loop never runs behind the frame that is open (partial_since).
TimerCoversOpenFrame == scenario = "slow_frames" => SlowFrames!TimerCoversOpenFrame

\* Between two frames the connection's books agree with the business loop's (CorrelationState).
BooksAgree == scenario = "client" => Client!BooksAgree

\* A request is answered at most once, with the answer its kind calls for (begin, finish).
OneAnswerEach == scenario = "client" => Client!OneAnswerEach

\* Nothing is pushed for a subscription before its acknowledgement or after its end.
PushesAreLive == scenario = "client" => Client!PushesAreLive

\* The store is given a body only as the one its header announced (bind_content).
StoredAsAnnounced == scenario = "client" => Client!StoredAsAnnounced

\* Neither end takes a frame of the other for a fault (wait_for, unsubscribe).
ConversationSound == scenario = "worker" => Worker!ConversationSound

\* A call the worker reports as done was done by the host (wait_for).
ReportedIsDone == scenario = "hasty" => Hasty!ReportedIsDone

\* The host answers every request or closes the connection (handle_business).
CallsEnd == scenario = "worker" => Worker!CallsEnd
=============================================================================
