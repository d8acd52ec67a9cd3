------------------------------ MODULE MobileApp ------------------------------
(* The Android repository (MobileRepository.kt) on top of the mobile core: *)
(* its lane, its handlers, and the properties of the two together.         *)
EXTENDS MobileConnection

NoOp == [op |-> "none", key |-> "none", id |-> NoSub]
Op(op) == [NoOp EXCEPT !.op = op]
Unsubscribing(key, id) == [op |-> "unsubscribe", key |-> key, id |-> id]

\* desiredSubscriptionKeys()
Desired(a) == BaseKeys \cup (IF a.picked THEN PickedKeys ELSE {})

Subscribed(a) == {k \in Keys : a.subs[k] # NoSub}

\* closeSubscriptions: the handles are dropped, with or without a call each.
NoHandles == [k \in Keys |-> NoSub]
CloseSubscriptions(a) ==
    SetToSeq({Unsubscribing(k, a.subs[k]) : k \in Subscribed(a)})

\* Mutant: the connection is marked, the panels are not.
PanelsStayLive(a) == [a EXCEPT !.connected = FALSE, !.ui = "Offline"]

\* markOffline: nothing on the screen is live any more.
MarkOffline(a) == [a EXCEPT !.connected = FALSE, !.fresh = {}, !.ui = "Offline"]

\* The repository takes a projection: processProjection with its freshness.
Take(a, key, cursor, live) ==
    [a EXCEPT !.view[key] = cursor,
              !.fresh = IF live THEN @ \cup {key} ELSE @ \ {key}]

\* ProjectionCursorHighWater: the view's cursor is the high water of its key.
AcceptLive(a, key, cursor) == cursor >= a.view[key]
AcceptCached(a, key, cursor) == cursor > a.view[key]

LoadCached(a, key) ==
    IF AcceptCached(a, key, cache[key]) THEN Take(a, key, cache[key], FALSE) ELSE a

\* selectSession: the panels subscribe, are loaded from the cache, and are
\* reconciled once more.
Selecting == <<Op("reconcile"), Op("load"), Op("reconcile")>>

-----------------------------------------------------------------------------
(* The handlers: the new state of the repository and the rest of the work. *)

Handled(a, ops) == [app |-> a, ops |-> ops]

\* connectNow: the handles are discarded, the worker's callbacks are not.
ConnectNow(a) ==
    Handled([a EXCEPT !.ui = "Connecting", !.subs = NoHandles],
            IF a.started THEN <<Op("reconnect")>> ELSE <<Op("connect")>>)

Connect(a) == IF a.connected THEN Handled(a, <<>>) ELSE ConnectNow(a)

Disconnect(a) ==
    Handled([a EXCEPT !.connected = FALSE, !.subs = NoHandles],
            CloseSubscriptions(a) \o <<Op("shutdown")>>)

HandleTap(a, tap) ==
    CASE tap = "connect"    -> Connect(a)
      [] tap = "disconnect" -> Disconnect(a)
      [] tap = "select"     -> Handled([a EXCEPT !.picked = TRUE], Selecting)
      [] tap = "unselect"   -> Handled([a EXCEPT !.picked = FALSE], <<Op("reconcile")>>)

\* recoverRemoteConnection for a network change and for a push wake.
HandleNetwork(a) ==
    IF a.started THEN Handled([MarkOffline(a) EXCEPT !.ui = "Connecting"], <<Op("network")>>)
    ELSE ConnectNow(a)

HandleWake(a) ==
    IF a.started THEN Handled(a, <<Op("reconcile")>>) ELSE ConnectNow(a)

\* applyConnectionStatus
HandleStatus(a, path) ==
    CASE path = "Offline"    -> Handled(MarkOffline(a), <<>>)
      [] path = "Connecting" ->
            Handled([MarkOffline(a) EXCEPT !.ui = "Connecting"], <<>>)
      [] path \in OnlinePaths /\ a.started ->
            Handled([a EXCEPT !.connected = TRUE, !.ui = "Live"], <<Op("reconcile")>>)
      [] OTHER -> Handled(a, <<>>)

\* Mutant: callbacks of a subscription that was replaced still count, and so
\* does a cursor behind what is shown.
HandleAnyProjection(a, e) ==
    IF ~a.connected THEN Handled(a, <<>>)
    ELSE Handled(Take(a, e.key, e.cursor, TRUE), <<Op("reconcile")>>)

\* handleProjection
HandleProjection(a, e) ==
    IF a.subs[e.key] # e.id \/ ~a.connected \/ ~AcceptLive(a, e.key, e.cursor)
    THEN Handled(a, <<>>)
    ELSE Handled(Take(a, e.key, e.cursor, TRUE), <<Op("reconcile")>>)

\* handleSubscriptionClosed
HandleClosed(a, e) ==
    CASE a.subs[e.key] # e.id -> Handled(a, <<>>)
      [] a.subs[e.key] = e.id /\ e.what = "retriable" /\ a.connected ->
            Handled([a EXCEPT !.subs[e.key] = NoSub],
                    <<[Op("subscribe") EXCEPT !.key = e.key]>>)
      [] OTHER -> Handled([MarkOffline(a) EXCEPT !.subs = NoHandles], <<>>)

\* The lane takes the next entry of its inbox.
LaneTakes ==
    /\ lane.ops = <<>>
    /\ lane.inbox # <<>>
    /\ LET e == Head(lane.inbox)
           h == CASE e.type = "tap"        -> HandleTap(app, e.what)
                  [] e.type = "network"    -> HandleNetwork(app)
                  [] e.type = "wake"       -> HandleWake(app)
                  [] e.type = "status"     -> HandleStatus(app, e.what)
                  [] e.type = "projection" -> HandleProjection(app, e)
                  [] e.type = "closed"     -> HandleClosed(app, e)
       IN /\ app' = h.app
          /\ lane' = [lane EXCEPT !.inbox = Tail(@),
                                  !.ops = [i \in DOMAIN h.ops |->
                                             IF h.ops[i].op = "network"
                                             THEN [h.ops[i] EXCEPT !.id = e.cursor]
                                             ELSE h.ops[i]]]
    /\ UNCHANGED <<epoch, status, wk, cache, host, net, used>>

-----------------------------------------------------------------------------
(* The calls into the core *)

Sent(cmd, key, id, e) == [cmd |-> cmd, key |-> key, id |-> id, epoch |-> e]

\* A blocking call: the command is on the worker's channel.
Calls(c) ==
    /\ wk' = [wk EXCEPT !.chan = Append(@, c)]
    /\ lane' = [lane EXCEPT !.call = c]

\* The rest of the handler without its first operation.
Rest == [lane EXCEPT !.ops = Tail(@)]

Doing(op) == lane.ops # <<>> /\ lane.call = NoCall /\ Head(lane.ops).op = op

\* subscribeKey: a new generation, then the call.
BeginSubscribe(key) ==
    /\ app' = [app EXCEPT !.next = @ + 1]
    /\ Calls(Sent("subscribe", key, app.next, 0))

\* reconcileSubscriptions: what is not wanted is closed first, then what is
\* missing is opened, one call at a time.
Reconcile ==
    LET extra == Subscribed(app) \ Desired(app)
        missing == Desired(app) \ Subscribed(app)
    IN
    /\ Doing("reconcile")
    /\ \/ /\ app.connected /\ extra # {}
          /\ LET k == CHOOSE x \in extra : TRUE IN
             /\ app' = [app EXCEPT !.subs[k] = NoSub]
             /\ lane' = [lane EXCEPT !.ops = <<Unsubscribing(k, app.subs[k])>> \o @]
          /\ UNCHANGED wk
       \/ /\ app.connected /\ extra = {} /\ missing # {}
          /\ BeginSubscribe(CHOOSE x \in missing : TRUE)
       \/ /\ ~app.connected \/ extra \cup missing = {}
          /\ lane' = Rest
          /\ UNCHANGED <<app, wk>>
    /\ UNCHANGED <<epoch, status, cache, host, net, used>>

\* subscribeKey for one key whose subscription was closed.
SubscribeAgain ==
    /\ Doing("subscribe")
    /\ BeginSubscribe(Head(lane.ops).key)
    /\ UNCHANGED <<epoch, status, cache, host, net, used>>

\* subscribe() returned. On success the synchronized cache is shown as live.
Subscribes ==
    LET c == lane.call
        done == [lane EXCEPT !.call = NoCall, !.reply = "none",
                             !.ops = IF Head(@).op = "subscribe"
                                     THEN <<Op("reconcile")>> \o Tail(@) ELSE @]
        held == [app EXCEPT !.subs[c.key] = c.id]
    IN
    /\ c.cmd = "subscribe"
    /\ \/ /\ lane.reply = "ok"
          /\ app' = IF AcceptLive(app, c.key, cache[c.key])
                    THEN Take(held, c.key, cache[c.key], TRUE) ELSE held
          /\ lane' = done
       \/ /\ lane.reply = "err"
          /\ app' = [app EXCEPT !.connected = FALSE, !.subs = NoHandles]
          /\ lane' = [done EXCEPT !.ops = CloseSubscriptions(app) \o <<Op("offline")>>]
    /\ UNCHANGED <<epoch, status, wk, cache, host, net, used>>

\* The worker is gone: worker_sender fails the call at once.
UnsubscribeCall ==
    /\ Doing("unsubscribe")
    /\ LET o == Head(lane.ops) IN
       \/ /\ wk.pc # "none"
          /\ Calls(Sent("unsubscribe", o.key, o.id, 0))
       \/ /\ wk.pc = "none"
          /\ lane' = Rest
          /\ UNCHANGED wk
    /\ UNCHANGED <<epoch, status, cache, host, net, app, used>>

\* unsubscribe() returned; its result is ignored.
Unsubscribes ==
    /\ lane.call.cmd = "unsubscribe"
    /\ lane.reply # "none"
    /\ lane' = [Rest EXCEPT !.call = NoCall, !.reply = "none"]
    /\ UNCHANGED <<epoch, status, wk, cache, host, net, app, used>>

GoOffline ==
    /\ Doing("offline")
    /\ app' = MarkOffline(app)
    /\ lane' = Rest
    /\ UNCHANGED <<epoch, status, wk, cache, host, net, used>>

LoadPanels ==
    /\ Doing("load")
    /\ app' = FoldLeft(LoadCached, app, SetToSeq(PickedKeys))
    /\ lane' = Rest
    /\ UNCHANGED <<epoch, status, wk, cache, host, net, used>>

\* MobileClient::connect: Connecting is published, the thread is spawned.
ConnectCall ==
    /\ Doing("connect")
    /\ wk' = [NoWorker EXCEPT !.pc = "first", !.attempt = epoch, !.gen = net.heard,
                              !.path = StartPath(epoch)]
    /\ status' = "Connecting"
    /\ lane' = [CallBack(<<StatusEvent("Connecting")>>)
                    EXCEPT !.call = Sent("connect", "none", NoSub, epoch)]
    /\ UNCHANGED <<epoch, cache, host, net, app, used>>

\* connect() returned. Every failure of a dial is an authentication error.
Connects ==
    /\ lane.call.cmd = "connect"
    /\ \/ /\ lane.reply = "ok"
          /\ app' = [app EXCEPT !.started = TRUE, !.connected = FALSE]
       \/ /\ lane.reply = "err"
          /\ app' = [app EXCEPT !.started = FALSE, !.connected = FALSE, !.ui = "Revoked"]
    /\ lane' = [Rest EXCEPT !.call = NoCall, !.reply = "none"]
    /\ UNCHANGED <<epoch, status, wk, cache, host, net, used>>

\* MobileClient::reconnect: the next epoch, and a message about it.
ReconnectCall ==
    /\ Doing("reconnect")
    /\ epoch' = epoch + 1
    /\ wk' = [wk EXCEPT !.chan = Append(@, Sent("epoch", "none", NoSub, epoch + 1))]
    /\ app' = [app EXCEPT !.connected = FALSE]
    /\ lane' = Rest
    /\ UNCHANGED <<status, cache, host, net, used>>

\* MobileClient::network_epoch_changed with the platform's epoch.
NetworkEpochChanged ==
    /\ Doing("network")
    /\ epoch' = Head(lane.ops).id
    /\ wk' = [wk EXCEPT !.chan = Append(@, Sent("epoch", "none", NoSub, Head(lane.ops).id))]
    /\ net' = [net EXCEPT !.heard = Head(lane.ops).id]
    /\ lane' = Rest
    /\ UNCHANGED <<status, cache, host, app, used>>

\* MobileClient::disconnect: Shutdown is sent and the thread joined.
DisconnectCall ==
    /\ Doing("shutdown")
    /\ \/ /\ wk.pc # "none"
          /\ Calls(Sent("shutdown", "none", NoSub, 0))
          /\ UNCHANGED app
       \/ /\ wk.pc = "none"
          /\ lane' = Rest
          /\ app' = [MarkOffline(app) EXCEPT !.started = FALSE]
          /\ UNCHANGED wk
    /\ UNCHANGED <<epoch, status, cache, host, net, used>>

Disconnects ==
    /\ lane.call.cmd = "shutdown"
    /\ lane.reply # "none"
    /\ app' = [MarkOffline(app) EXCEPT !.started = FALSE]
    /\ lane' = [Rest EXCEPT !.call = NoCall, !.reply = "none"]
    /\ UNCHANGED <<epoch, status, wk, cache, host, net, used>>

LaneStep ==
    \/ LaneTakes \/ Reconcile \/ SubscribeAgain \/ Subscribes
    \/ UnsubscribeCall \/ Unsubscribes \/ GoOffline \/ LoadPanels
    \/ ConnectCall \/ Connects \/ ReconnectCall \/ NetworkEpochChanged
    \/ DisconnectCall \/ Disconnects

-----------------------------------------------------------------------------
(* The user, the platform, the host and the network *)

Arrives(e) == lane' = [lane EXCEPT !.inbox = Append(@, e)]

UserTaps ==
    /\ used.taps < MaxTaps
    /\ \E t \in Taps : Arrives(Event("tap", "none", NoSub, 0, t))
    /\ used' = [used EXCEPT !.taps = @ + 1]
    /\ UNCHANGED <<epoch, status, wk, cache, host, net, app>>

\* NetworkEpochTracker counts the changes; the lane is told in order.
NetworkChanges ==
    /\ net.epoch < MaxNetwork
    /\ net' = [net EXCEPT !.epoch = @ + 1]
    /\ Arrives(Event("network", "none", NoSub, net.epoch + 1, "none"))
    /\ UNCHANGED <<epoch, status, wk, cache, host, app, used>>

\* A data-free push wake.
PushWakes ==
    /\ net.wakes < MaxWakes
    /\ net' = [net EXCEPT !.wakes = @ + 1]
    /\ Arrives(Event("wake", "none", NoSub, 0, "none"))
    /\ UNCHANGED <<epoch, status, wk, cache, host, app, used>>

\* A projection changes; every subscription of it on the wire gets a frame.
HostPublishes(k) ==
    /\ host.head[k] < MaxHead
    /\ LET next == host.head[k] + 1
           told == SetToSortSeq({p \in host.subs : p[2] = k}, LAMBDA p, q : p[1] < q[1])
       IN host' = [host EXCEPT !.head[k] = next,
                     !.down = @ \o [i \in DOMAIN told |->
                                      [id |-> told[i][1], key |-> k, cursor |-> next]]]
    /\ UNCHANGED <<epoch, status, wk, cache, net, lane, app, used>>

\* The host closes a subscription that fell out of its window.
HostCloses ==
    /\ Fault("gap")
    /\ \E p \in host.subs :
          host' = [host EXCEPT !.subs = @ \ {p},
                     !.down = Append(@, [id |-> p[1], key |-> p[2], cursor |-> 0])]
    /\ UNCHANGED <<epoch, status, wk, cache, net, lane, app>>

WireBreaks ==
    /\ wk.wire.sound
    /\ Fault("break")
    /\ wk' = [wk EXCEPT !.wire.sound = FALSE]
    /\ UNCHANGED <<epoch, status, cache, host, net, lane, app>>

\* iroh moves a remote connection to its other path.
PathFlips ==
    /\ wk.wire.up /\ wk.wire.sound /\ wk.wire.attempt # "Lan"
    /\ Fault("flip")
    /\ wk' = [wk EXCEPT !.wire.attempt = IF @ = "Relay" THEN "PeerToPeer" ELSE "Relay"]
    /\ UNCHANGED <<epoch, status, cache, host, net, lane, app>>

WorkerStep ==
    \/ FirstDialSucceeds \/ WorkerTop \/ WorkerIdles \/ WorkerReceives
    \/ WorkerCommand \/ ReconnectStep

Next ==
    \/ WorkerStep \/ LaneStep
    \/ FirstDialFails \/ DialFails
    \/ UserTaps \/ NetworkChanges \/ PushWakes
    \/ \E k \in Keys : HostPublishes(k)
    \/ HostCloses \/ WireBreaks \/ PathFlips

Spec == Init /\ [][Next]_vars

\* The worker thread and the lane's dispatcher run; nothing is assumed of the
\* user, the platform or the host's changes.
FairSpec == Spec /\ WF_vars(WorkerStep) /\ WF_vars(LaneStep)

-----------------------------------------------------------------------------
(* Properties *)

\* The lane has nothing to do.
Quiet == lane.ops = <<>> /\ lane.inbox = <<>> /\ lane.call = NoCall

\* Nor has the worker, on an authenticated wire with nothing unread.
Settled ==
    /\ Quiet
    /\ wk.pc = "recv" /\ wk.chan = <<>>
    /\ host.down = <<>> /\ wk.wire.sound
    /\ epoch = wk.path.epoch

\* Types; and the worker's subscriptions are ones the repository numbered,
\* and the cache never runs ahead of the host.
TypeOK ==
    /\ epoch \in Nat /\ net.heard <= net.epoch /\ net.epoch <= MaxNetwork
    /\ status \in OnlinePaths \cup {"Offline", "Connecting"}
    /\ wk.pc \in {"none", "first", "top", "recv", "retry", "waiting", "dialing",
                  "resubscribe", "check", "publish"}
    /\ wk.path.status \in {"Offline", "Connecting", "Online"}
    /\ wk.subs \subseteq (1 .. app.next - 1) \X Keys
    /\ \A k \in Keys : cache[k] <= host.head[k] /\ app.view[k] <= cache[k]
    /\ lane.reply \in {"none", "ok", "err"}
    /\ app.ui \in {"Offline", "Connecting", "Live", "Revoked"}
    /\ app.fresh \subseteq Keys

\* The published path is online only over a wire that was authenticated, and
\* it is the tier of that wire, except that disconnect() publishes nothing.
OnlineIsAuthenticated ==
    (status \in OnlinePaths /\ wk.pc # "none") =>
        /\ wk.wire.up
        /\ wk.path.status = "Online"
        /\ status = Reachability(wk.path.attempt)

\* What the screen calls live is the newest projection the core has once the
\* lane is quiet: no dropped callback leaves an old view labelled live.
LiveIsCurrent ==
    Quiet => \A k \in app.fresh \cap Desired(app) :
        app.connected /\ app.view[k] = cache[k]

\* No handler takes a panel back to an older projection, whatever callback
\* arrives late.
ViewsNeverGoBack ==
    [][\A k \in Keys : app'.view[k] >= app.view[k]]_vars

\* Once both sides are at rest on an authenticated wire the screen says so:
\* no status callback is lost on the way to it.
SettledIsShown == (Settled /\ app.started) => (app.connected /\ app.ui = "Live")

\* The repository takes itself for connected only while the core has a worker
\* that once authenticated: a status callback that was queued before a
\* disconnect cannot bring the connection back on the screen.
LiveHasWorker == app.connected => wk.pc \notin {"none", "first"}

\* Every network change the core was told of replaces the wire that was
\* dialled before it, or is still on its way to the worker.
HandoversRedial ==
    (wk.wire.up /\ wk.wire.gen < net.heard) =>
        \/ epoch # wk.path.epoch
        \/ \E i \in DOMAIN wk.chan :
              wk.chan[i].cmd = "epoch" /\ wk.chan[i].epoch # wk.path.epoch

\* A path is published online only for the network generation in force.
StaleDialsStaySilent ==
    [][(wk.pc = "publish" /\ status' \in OnlinePaths) => wk.attempt = epoch]_vars

\* On a connection at rest every panel on the screen is live and shows the
\* newest projection of the host; after a reconnection too, without a new
\* event.
ResumedIsLive ==
    (Settled /\ app.connected) =>
        \A k \in Desired(app) : k \in app.fresh /\ app.view[k] = host.head[k]

\* The worker holds one subscription for a projection.
OneIntentPerKey ==
    \A p, q \in wk.subs : p[2] = q[2] => p = q

\* A change of the host never costs a sound connection.
SoundWiresStay ==
    [][(wk.pc = "recv" /\ wk'.pc = "retry" /\ status' = "Offline")
          => ~wk.wire.sound]_vars

\* A dial is made only after the delay of the backoff.
BackoffIsWaited == wk.pc = "dialing" => wk.waited >= wk.owed

\* A refused authentication stays on the screen until something is tried.
RevokedIsShown ==
    [][(app.ui = "Revoked" /\ app'.ui # "Revoked")
          => Head(lane.inbox).type # "status"]_vars

\* Every call of the repository into the core returns.
CallsReturn == (lane.call # NoCall) ~> (lane.call = NoCall)

\* Once the host can be dialled, a started worker gets back to it.
WorkerComesBack ==
    (wk.pc # "none") ~> (status \in OnlinePaths \/ wk.pc = "none")

=============================================================================
