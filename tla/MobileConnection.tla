-------------------------- MODULE MobileConnection --------------------------
(* The phone: the connection worker of the mobile core                     *)
(* (kaleido-core/src/mobile.rs) and the Android repository that uses it    *)
(* (MobileRepository.kt), composed. The repository runs every handler on   *)
(* one serial lane and blocks there in the calls it makes to the core; the *)
(* core's callbacks are appended to the lane's inbox. A subscription       *)
(* exchange is one step here: ProjectionSync has its frames.               *)
EXTENDS Naturals, Sequences, FiniteSets, SequencesExt

-----------------------------------------------------------------------------
(* The path state machine and the backoff (kaleido-core/src/path.rs,        *)
(* reconnect.rs) and the two functions of mobile.rs that drive it. Time     *)
(* stamps are left out.                                                     *)

\* PathAttempt::ALL, in the order of the contract.
Attempts == <<"Lan", "PeerToPeer", "Relay">>

\* HostReachability and MobileConnectionPath of an attempt.
Reachability(attempt) ==
    CASE attempt = "Lan"        -> "LanDirect"
      [] attempt = "PeerToPeer" -> "PeerToPeer"
      [] attempt = "Relay"      -> "Relayed"

OnlinePaths == {"LanDirect", "PeerToPeer", "Relayed"}

\* next is the position in Attempts of the attempt that is being made.
NewPath == [epoch |-> 0, next |-> 1, status |-> "Offline", attempt |-> "none"]

StartPath(epoch) ==
    [epoch |-> epoch, next |-> 1, status |-> "Connecting", attempt |-> Attempts[1]]

CurrentAttempt(path) ==
    IF path.status = "Connecting" THEN path.attempt ELSE "none"

NetworkChanged(path, epoch) == StartPath(epoch)

WentOffline(path) == [path EXCEPT !.status = "Offline", !.attempt = "none"]

\* failed(): the next tier, or offline when there is none.
FailedAttempt(path, epoch) ==
    CASE epoch # path.epoch -> path
      [] epoch = path.epoch /\ path.next + 1 > Len(Attempts) ->
            [WentOffline(path) EXCEPT !.next = Len(Attempts) + 1]
      [] OTHER -> [path EXCEPT !.next = @ + 1, !.status = "Connecting",
                               !.attempt = Attempts[path.next + 1]]

CanEstablish(path, attempt, epoch) ==
    epoch = path.epoch /\ CurrentAttempt(path) = attempt

Established(path, attempt) ==
    [path EXCEPT !.status = "Online", !.attempt = attempt]

\* The walk of publish_authenticated_path to the tier that answered.
AtTier(attempt, epoch) ==
    LET lan == StartPath(epoch)
        p2p == FailedAttempt(lan, epoch)
    IN  CASE attempt = "Lan"        -> lan
          [] attempt = "PeerToPeer" -> p2p
          [] attempt = "Relay"      -> FailedAttempt(p2p, epoch)

\* publish_authenticated_path: the machine online on this path.
AuthenticatedPath(attempt, epoch) ==
    LET path == AtTier(attempt, epoch)
    IN  IF CanEstablish(path, attempt, epoch) THEN Established(path, attempt) ELSE path

\* ReconnectBackoff in milliseconds.
InitialDelay == 250
MaxDelay == 30000
NextDelay(delay) == IF delay * 2 > MaxDelay THEN MaxDelay ELSE delay * 2

-----------------------------------------------------------------------------
(* The worker and the repository                                           *)

CONSTANTS
    BaseKeys,    \* projections the app always wants
    PickedKeys,  \* projections of the session the user may have selected
    Tiers,       \* attempts on which the host can answer
    Taps,        \* what the user does: "connect", "disconnect", "select", "unselect"
    MaxTaps,     \* how often
    MaxHead,     \* versions of a projection
    MaxNetwork,  \* network changes the platform reports
    MaxWakes,    \* push wakes
    FaultKinds,  \* "break", "slow", "reject", "gap", "flip", "nodial"
    MaxFaults

Keys == BaseKeys \cup PickedKeys

VARIABLES
    epoch,   \* MobileClient.network_epoch
    status,  \* what ConnectionStatusSink last published
    wk,      \* the worker thread and the receiving end of its channel
    cache,   \* cursor of the core's projection cache, 0 when there is none
    host,    \* the host's side of the connection and its projections
    net,     \* what the platform reported
    lane,    \* the repository's lane: inbox, rest of the handler, blocked call
    app,     \* the repository's state and what the screen shows
    used     \* budget: taps, faults

vars == <<epoch, status, wk, cache, host, net, lane, app, used>>

NoSub == 0
NoCall == [cmd |-> "none", key |-> "none", id |-> NoSub, epoch |-> 0]
NoWire == [up |-> FALSE, sound |-> FALSE, attempt |-> "none", gen |-> 0]

\* One entry of the lane's inbox: a callback of the core or an input.
Event(type, key, id, cursor, what) ==
    [type |-> type, key |-> key, id |-> id, cursor |-> cursor, what |-> what]

StatusEvent(path) == Event("status", "none", NoSub, 0, path)
ProjectionEvent(key, id, cursor) == Event("projection", key, id, cursor, "none")
ClosedEvent(key, id, retriable) ==
    Event("closed", key, id, 0, IF retriable THEN "retriable" ELSE "none")

\* The lane's inbox after the core called back.
CallBack(events) == [lane EXCEPT !.inbox = @ \o events]

Fault(kind) ==
    /\ kind \in FaultKinds
    /\ used.faults < MaxFaults
    /\ used' = [used EXCEPT !.faults = @ + 1]

-----------------------------------------------------------------------------
(* The worker thread *)

\* No thread; its channel is gone.
NoWorker == [pc |-> "none", path |-> NewPath, wire |-> NoWire, attempt |-> 0,
             gen |-> 0, delay |-> InitialDelay, owed |-> 0, waited |-> 0,
             subs |-> {}, chan |-> <<>>]

Init ==
    /\ epoch = 0
    /\ status = "Offline"
    /\ wk = NoWorker
    /\ cache = [k \in Keys |-> 0]
    /\ host = [head |-> [k \in Keys |-> 1], subs |-> {}, down |-> <<>>]
    /\ net = [epoch |-> 0, heard |-> 0, wakes |-> 0]
    /\ lane = [inbox |-> <<>>, ops |-> <<>>, call |-> NoCall, reply |-> "none"]
    /\ app = [connected |-> FALSE, started |-> FALSE, ui |-> "Offline",
              subs |-> [k \in Keys |-> NoSub], next |-> 1,
              view |-> [k \in Keys |-> 0], fresh |-> {}, picked |-> FALSE]
    /\ used = [taps |-> 0, faults |-> 0]

\* The host end of a connection that is gone.
HostForgets == [host EXCEPT !.subs = {}, !.down = <<>>]

\* ConnectionStatusSink::publish, with what the lane is told besides.
Publish(path, events) ==
    /\ status' = path
    /\ lane' = CallBack(events \o <<StatusEvent(path)>>)

\* What the worker's maps and the cache become while it reads one frame;
\* "bad" is the contract error of a frame that does not fit.
Read(s, f) ==
    CASE s.bad -> s
      [] ~s.bad /\ <<f.id, f.key>> \notin s.subs -> [s EXCEPT !.bad = TRUE]
      [] ~s.bad /\ <<f.id, f.key>> \in s.subs /\ f.cursor = 0 ->
            [s EXCEPT !.subs = @ \ {<<f.id, f.key>>},
                      !.events = Append(@, ClosedEvent(f.key, f.id, TRUE))]
      [] ~s.bad /\ <<f.id, f.key>> \in s.subs /\ f.cursor = s.cache[f.key] + 1 ->
            [s EXCEPT !.cache[f.key] = f.cursor,
                      !.events = Append(@, ProjectionEvent(f.key, f.id, f.cursor))]
      [] OTHER -> [s EXCEPT !.bad = TRUE]

\* wait_for reads everything that is on the wire before the answer.
ReadAll(frames) ==
    FoldLeft(Read, [bad |-> FALSE, subs |-> wk.subs, cache |-> cache, events |-> <<>>],
             frames)

\* The projection a subscriber of k is brought to, when it is behind.
CaughtUp(s, id, k) ==
    IF s.cache[k] = host.head[k] THEN s
    ELSE [s EXCEPT !.cache[k] = host.head[k],
                   !.events = Append(@, ProjectionEvent(k, id, host.head[k]))]

\* A network generation other than the path's: the wire is given up.
Handover(e) ==
    /\ wk' = [wk EXCEPT !.pc = "retry", !.path = NetworkChanged(@, e),
                        !.wire = NoWire, !.delay = InitialDelay,
                        !.chan = IF wk.pc = "recv" THEN Tail(@) ELSE @]
    /\ host' = HostForgets
    /\ Publish("Connecting", <<>>)

\* The wire failed or carried a frame that does not fit.
DropWire(s) ==
    /\ wk' = [wk EXCEPT !.pc = "retry", !.path = WentOffline(@), !.wire = NoWire,
                        !.subs = s.subs]
    /\ cache' = s.cache
    /\ host' = HostForgets
    /\ Publish("Offline", s.events)

\* authenticated_wire: LAN first, then the remote tiers; which one answers is
\* the network's choice. It becomes the worker's with "up".
AuthenticatedWires(gen, up) ==
    {[up |-> up, sound |-> TRUE, attempt |-> a, gen |-> gen] : a \in Tiers}

\* run_worker: the first dial, while connect() waits for it.
FirstDialFails ==
    /\ wk.pc = "first"
    /\ Fault("nodial")
    /\ wk' = NoWorker
    /\ status' = "Offline"
    /\ lane' = [lane EXCEPT !.reply = "err",
                            !.inbox = @ \o <<StatusEvent("Offline"), StatusEvent("Offline")>>]
    /\ UNCHANGED <<epoch, cache, host, net, app>>

FirstDialSucceeds ==
    /\ wk.pc = "first"
    /\ \E w \in AuthenticatedWires(wk.gen, TRUE) :
          /\ wk' = [wk EXCEPT !.pc = "top", !.wire = w,
                              !.path = AuthenticatedPath(w.attempt, wk.attempt)]
          /\ status' = Reachability(w.attempt)
          /\ lane' = [lane EXCEPT !.reply = "ok",
                                  !.inbox = Append(@, StatusEvent(status'))]
    /\ UNCHANGED <<epoch, cache, host, net, app, used>>

\* The top of the loop: the epoch first, then the path iroh selected.
WorkerTop ==
    /\ wk.pc = "top"
    /\ \/ /\ epoch # wk.path.epoch
          /\ Handover(epoch)
       \/ /\ epoch = wk.path.epoch
          /\ wk.wire.attempt # "Lan"
          /\ status # Reachability(wk.wire.attempt)
          /\ wk' = [wk EXCEPT !.pc = "recv",
                              !.path = AuthenticatedPath(wk.wire.attempt, wk.path.epoch)]
          /\ Publish(Reachability(wk.wire.attempt), <<>>)
          /\ UNCHANGED host
       \/ /\ epoch = wk.path.epoch
          /\ wk.wire.attempt = "Lan" \/ status = Reachability(wk.wire.attempt)
          /\ wk' = [wk EXCEPT !.pc = "recv"]
          /\ UNCHANGED <<status, host, lane>>
    /\ UNCHANGED <<epoch, cache, net, app, used>>

\* try_receive() without a frame: back to the top, taken when there is news.
WorkerIdles ==
    /\ wk.pc = "recv"
    /\ wk.chan = <<>> /\ host.down = <<>> /\ wk.wire.sound
    /\ \/ epoch # wk.path.epoch
       \/ wk.wire.attempt # "Lan" /\ status # Reachability(wk.wire.attempt)
    /\ wk' = [wk EXCEPT !.pc = "top"]
    /\ UNCHANGED <<epoch, status, cache, host, net, lane, app, used>>

\* One frame of the wire, or the wire's failure.
WorkerReceives ==
    /\ wk.pc = "recv"
    /\ wk.chan = <<>>
    /\ \/ /\ host.down # <<>> /\ wk.wire.sound
          /\ LET s == ReadAll(<<Head(host.down)>>) IN
             IF s.bad THEN DropWire(s)
             ELSE /\ wk' = [wk EXCEPT !.pc = "top", !.subs = s.subs]
                  /\ cache' = s.cache
                  /\ host' = [host EXCEPT !.down = Tail(@)]
                  /\ lane' = CallBack(s.events)
                  /\ UNCHANGED status
       \/ /\ ~wk.wire.sound
          /\ DropWire(ReadAll(<<>>))
    /\ UNCHANGED <<epoch, net, app, used>>

\* Subscribe on an authenticated wire. A time-out or a contract error leaves
\* the wire in place with an answer still to come, which will not fit.
Subscribe ==
    LET c == Head(wk.chan)
        s == ReadAll(host.down)
    IN
    /\ c.cmd = "subscribe"
    /\ \/ /\ wk.wire.sound /\ ~s.bad
          /\ LET t == CaughtUp(s, c.id, c.key) IN
             /\ wk' = [wk EXCEPT !.pc = "top", !.chan = Tail(@),
                                 !.subs = s.subs \cup {<<c.id, c.key>>}]
             /\ cache' = t.cache
             /\ host' = [host EXCEPT !.down = <<>>,
                                     !.subs = (@ \cap s.subs) \cup {<<c.id, c.key>>}]
             /\ lane' = [CallBack(t.events) EXCEPT !.reply = "ok"]
             /\ UNCHANGED used
       \/ /\ \/ ~wk.wire.sound /\ UNCHANGED used
             \/ wk.wire.sound /\ s.bad /\ UNCHANGED used
             \/ wk.wire.sound /\ ~s.bad /\ Fault("slow")
          /\ wk' = [wk EXCEPT !.pc = "top", !.chan = Tail(@), !.subs = s.subs,
                              !.wire.sound = FALSE]
          /\ cache' = s.cache
          /\ host' = [host EXCEPT !.down = <<>>]
          /\ lane' = [CallBack(s.events) EXCEPT !.reply = "err"]
       \/ /\ wk.wire.sound /\ ~s.bad
          /\ c.key \in PickedKeys /\ Fault("reject")
          /\ wk' = [wk EXCEPT !.pc = "top", !.chan = Tail(@), !.subs = s.subs]
          /\ cache' = s.cache
          /\ host' = [host EXCEPT !.down = <<>>]
          /\ lane' = [CallBack(s.events \o <<ClosedEvent(c.key, c.id, FALSE)>>)
                          EXCEPT !.reply = "err"]
    /\ UNCHANGED <<epoch, status, net, app>>

\* Unsubscribe: the callback goes only with the host's acknowledgement.
Unsubscribe ==
    LET c == Head(wk.chan)
        s == ReadAll(host.down)
        gone == {p \in s.subs : p[1] = c.id}
    IN
    /\ c.cmd = "unsubscribe"
    /\ \/ /\ wk.wire.sound /\ ~s.bad
          /\ wk' = [wk EXCEPT !.pc = "top", !.chan = Tail(@), !.subs = s.subs \ gone]
          /\ host' = [host EXCEPT !.down = <<>>, !.subs = @ \ gone]
          /\ lane' = [CallBack(s.events \o (IF gone = {} THEN <<>>
                                            ELSE <<ClosedEvent(c.key, c.id, FALSE)>>))
                          EXCEPT !.reply = "ok"]
       \/ /\ ~wk.wire.sound \/ s.bad
          /\ wk' = [wk EXCEPT !.pc = "top", !.chan = Tail(@), !.subs = s.subs,
                              !.wire.sound = FALSE]
          /\ host' = [host EXCEPT !.down = <<>>]
          /\ lane' = [CallBack(s.events) EXCEPT !.reply = "err"]
    /\ cache' = s.cache
    /\ UNCHANGED <<epoch, status, net, app, used>>

\* Shutdown ends the thread; close_callbacks tells every callback.
Shutdown ==
    /\ Head(wk.chan).cmd = "shutdown"
    /\ wk' = NoWorker
    /\ host' = HostForgets
    /\ lane' = [CallBack(SetToSeq({ClosedEvent(p[2], p[1], FALSE) : p \in wk.subs}))
                    EXCEPT !.reply = "ok"]
    /\ UNCHANGED <<epoch, status, cache, net, app, used>>

\* A NetworkEpoch message that repeats the path's epoch changes nothing.
EpochMessage ==
    /\ Head(wk.chan).cmd = "epoch"
    /\ \/ /\ Head(wk.chan).epoch # wk.path.epoch
          /\ Handover(Head(wk.chan).epoch)
       \/ /\ Head(wk.chan).epoch = wk.path.epoch
          /\ wk' = [wk EXCEPT !.pc = "top", !.chan = Tail(@)]
          /\ UNCHANGED <<status, host, lane>>
    /\ UNCHANGED <<epoch, cache, net, app, used>>

\* execute_command and the other arms of try_recv.
WorkerCommand ==
    /\ wk.pc = "recv"
    /\ wk.chan # <<>>
    /\ Subscribe \/ Unsubscribe \/ Shutdown \/ EpochMessage

-----------------------------------------------------------------------------
(* reconnect_worker *)

\* The top of the loop: the epoch, the status and the delay to wait.
RetryBegins ==
    /\ wk.pc = "retry"
    /\ wk' = [wk EXCEPT !.pc = "waiting", !.waited = 0,
                        !.owed = wk.delay, !.delay = NextDelay(@),
                        !.path = IF epoch # @.epoch THEN NetworkChanged(@, epoch) ELSE @]
    /\ Publish("Connecting", <<>>)
    /\ UNCHANGED <<epoch, cache, host, net, app, used>>

\* Mutant: a subscribe that arrives during the wait is dropped unanswered.
WaitingDropsSubscribe ==
    LET c == Head(wk.chan) IN
    /\ wk.pc = "waiting"
    /\ wk.chan # <<>>
    /\ \/ /\ c.cmd \in {"subscribe", "epoch"}
          /\ wk' = [wk EXCEPT !.chan = Tail(@)]
          /\ UNCHANGED <<epoch, status, cache, host, net, lane, app, used>>
       \/ Shutdown

\* handle_disconnected_command and the other arms of recv_timeout.
WaitingCommand ==
    LET c == Head(wk.chan)
        gone == {p \in wk.subs : p[1] = c.id}
    IN
    /\ wk.pc = "waiting"
    /\ wk.chan # <<>>
    /\ \/ /\ c.cmd = "subscribe"
          /\ wk' = [wk EXCEPT !.chan = Tail(@)]
          /\ lane' = [lane EXCEPT !.reply = "err"]
          /\ UNCHANGED <<epoch, status, cache, host, net, app, used>>
       \/ /\ c.cmd = "unsubscribe"
          /\ wk' = [wk EXCEPT !.chan = Tail(@), !.subs = @ \ gone]
          /\ lane' = [CallBack(IF gone = {} THEN <<>>
                               ELSE <<ClosedEvent(c.key, c.id, FALSE)>>)
                          EXCEPT !.reply = "ok"]
          /\ UNCHANGED <<epoch, status, cache, host, net, app, used>>
       \/ /\ c.cmd = "epoch"
          /\ wk' = [wk EXCEPT !.chan = Tail(@),
                        !.path = IF c.epoch # @.epoch THEN NetworkChanged(@, c.epoch) ELSE @,
                        !.delay = IF c.epoch # wk.path.epoch THEN InitialDelay ELSE @]
          /\ UNCHANGED <<epoch, status, cache, host, net, lane, app, used>>
       \/ Shutdown

\* WORKER_POLL in milliseconds; a quiet poll ends the wait.
WorkerPoll == 100

\* The wait is over and the dial begins, for the epoch of this moment.
DialBegins ==
    /\ wk.pc = "waiting"
    /\ wk' = [wk EXCEPT !.pc = "dialing", !.waited = WorkerPoll,
                        !.attempt = epoch, !.gen = net.heard]
    /\ UNCHANGED <<epoch, status, cache, host, net, lane, app, used>>

\* authenticated_wire: the dial fails, or it ends in an authenticated wire
\* that is kept only when the epoch is still that of the attempt.
DialFails ==
    /\ wk.pc = "dialing"
    /\ Fault("nodial")
    /\ wk' = [wk EXCEPT !.pc = "retry", !.path = WentOffline(@)]
    /\ Publish("Offline", <<>>)
    /\ UNCHANGED <<epoch, cache, host, net, app>>

DialSucceeds ==
    /\ wk.pc = "dialing"
    /\ \/ /\ epoch = wk.attempt
          /\ \E w \in AuthenticatedWires(wk.gen, FALSE) :
                wk' = [wk EXCEPT !.pc = "resubscribe", !.wire = w]
       \/ /\ epoch # wk.attempt
          /\ wk' = [wk EXCEPT !.pc = "retry"]
    /\ UNCHANGED <<epoch, status, cache, host, net, lane, app, used>>

\* resubscribe_all: every subscription of the worker on the new wire.
ResubscribeAll ==
    LET s == FoldLeft(LAMBDA acc, p : CaughtUp(acc, p[1], p[2]), ReadAll(<<>>),
                      SetToSortSeq(wk.subs, LAMBDA p, q : p[1] < q[1]))
    IN
    /\ wk.pc = "resubscribe"
    /\ wk.wire.sound
    /\ wk' = [wk EXCEPT !.pc = "check"]
    /\ cache' = s.cache
    /\ host' = [host EXCEPT !.subs = wk.subs, !.down = <<>>]
    /\ lane' = CallBack(s.events)
    /\ UNCHANGED <<epoch, status, net, app, used>>

ResubscribeFails ==
    /\ wk.pc = "resubscribe"
    /\ ~wk.wire.sound
    /\ DropWire(ReadAll(<<>>))
    /\ UNCHANGED <<epoch, net, app, used>>

\* The epoch is compared once more; publishing is a step of its own.
CheckEpoch ==
    /\ wk.pc = "check"
    /\ \/ /\ epoch = wk.attempt
          /\ wk' = [wk EXCEPT !.pc = "publish"]
          /\ UNCHANGED host
       \/ /\ epoch # wk.attempt
          /\ wk' = [wk EXCEPT !.pc = "retry", !.wire = NoWire]
          /\ host' = HostForgets
    /\ UNCHANGED <<epoch, status, cache, net, lane, app, used>>

PublishOnline ==
    /\ wk.pc = "publish"
    /\ wk' = [wk EXCEPT !.pc = "top", !.wire.up = TRUE, !.delay = InitialDelay,
                        !.path = AuthenticatedPath(wk.wire.attempt, wk.attempt)]
    /\ \/ /\ status # Reachability(wk.wire.attempt)
          /\ Publish(Reachability(wk.wire.attempt), <<>>)
       \/ /\ status = Reachability(wk.wire.attempt)
          /\ UNCHANGED <<status, lane>>
    /\ UNCHANGED <<epoch, cache, host, net, app, used>>

ReconnectStep ==
    \/ RetryBegins \/ WaitingCommand \/ DialBegins \/ DialSucceeds
    \/ ResubscribeAll \/ ResubscribeFails \/ CheckEpoch \/ PublishOnline

=============================================================================
