------------------------- MODULE RuntimeSupervisor -------------------------
(***************************************************************************)
(* The runtime supervisor of hostd and the host that owns it: provider      *)
(* runtimes are started one after the other, each in a worker thread with a *)
(* channel; Ready commands of the last life are recovered; the listener is  *)
(* bound; then a timer asks every worker to drain its provider while the    *)
(* connection threads of devices dispatch commands, until the host stops.   *)
(***************************************************************************)
EXTENDS Integers, Sequences, FiniteSets

CONSTANTS Runtimes,      \* the configured runtimes, in order: a sequence of names
          Primary,         \* Primary[r]: the session r's start creates
          Listings,        \* Listings[r]: the sets of sessions r may find when it starts
          Commands,
          Target,          \* Target[c]: the session c is for
          Leftover,        \* commands that were Ready when the last life ended
          MayFail,         \* the steps that may fail: "runtime", "recover", "bind", "pair", "drain"
          LifecycleCap,    \* 64: room in the channel of lifecycle reports
          MaxNews,         \* bound: how often each provider has something to say
          None

VARIABLES host,     \* where the host is in start_inner, run_for and shutdown
          workers,  \* the registered workers
          routes,   \* session -> worker
          w,        \* each worker thread: channel, message in hand, drain_pending
          cmd,      \* the durable state of each command
          disp,     \* where a connection thread is in dispatch_ticket
          news,     \* what each provider still has to say, and has said
          reports   \* lifecycle reports in their channel: nobody reads it
vars == <<host, workers, routes, w, cmd, disp, news, reports>>

Names == {Runtimes[i] : i \in DOMAIN Runtimes}
Known(f, x) == x \in DOMAIN f
NoThread == [life |-> "none", inbox |-> <<>>, hand |-> "none", cmd |-> None, pending |-> FALSE]

Dispatch(c) == [kind |-> "dispatch", cmd |-> c]
Drain == [kind |-> "drain", cmd |-> None]
Close == [kind |-> "close", cmd |-> None]
Send(r, message) == [w EXCEPT ![r].inbox = Append(@, message)]
\* A send fails when the worker's receiver is gone.
Gone(r) == w[r].life # "running"

(***************************************************************************)
(* Start: runtimes in order, recovery, listener, pairing                   *)
(***************************************************************************)
Starting(step) == host.at = step
Moves(step) == host' = [host EXCEPT !.at = step]
\* Every failure of the start stops the runtimes that were already started.
Fails == host' = [host EXCEPT !.at = "stopping", !.todo = host.started]

\* The factory, the discovery, the start or the store's acceptance of their
\* effects fails: there is no worker.
StartFails(r) ==
    /\ Starting("runtimes") /\ "runtime" \in MayFail /\ r = Runtimes[host.next]
    /\ Fails /\ UNCHANGED <<workers, routes, w, cmd, disp, news, reports>>

\* Two runtimes that serve one session: the second worker is closed and joined.
Serves(r, found) == found \cup {Primary[r]}
Registered(r, found) == r \in workers \/ Serves(r, found) \cap DOMAIN routes # {}
StartRefused(r, found) ==
    /\ Starting("runtimes") /\ r = Runtimes[host.next] /\ Registered(r, found)
    /\ w' = [w EXCEPT ![r].life = "ended"]
    /\ Fails /\ UNCHANGED <<workers, routes, cmd, disp, news, reports>>

StartRuntime(r, found) ==
    /\ Starting("runtimes") /\ host.next <= Len(Runtimes)
    /\ r = Runtimes[host.next] /\ ~Registered(r, found)
    /\ w' = [w EXCEPT ![r].life = "running"]
    /\ workers' = workers \cup {r}
    /\ routes' = [s \in DOMAIN routes \cup Serves(r, found) |->
                    IF s \in Serves(r, found) THEN r ELSE routes[s]]
    /\ host' = [host EXCEPT !.next = @ + 1, !.started = Append(@, r),
                            !.at = IF host.next = Len(Runtimes) THEN "recover" ELSE @]
    /\ UNCHANGED <<cmd, disp, news, reports>>

Routed(c) == Known(routes, Target[c]) /\ routes[Target[c]] \in workers
RecoverReady(c) ==
    /\ Starting("recover") /\ cmd[c] = "Ready"
    /\ IF Routed(c)
       THEN cmd' = [cmd EXCEPT ![c] = "Claimed"] /\ w' = Send(routes[Target[c]], Dispatch(c))
       ELSE cmd' = [cmd EXCEPT ![c] = "Rejected"] /\ UNCHANGED w
    /\ UNCHANGED <<host, workers, routes, disp, news, reports>>
RecoverFails ==
    /\ Starting("recover") /\ "recover" \in MayFail
    /\ Fails /\ UNCHANGED <<workers, routes, w, cmd, disp, news, reports>>

\* recover_all_ready has gone through every entry: the listener is bound.
Bind ==
    /\ Starting("recover") /\ \A c \in Commands : cmd[c] # "Ready"
    /\ host' = [host EXCEPT !.at = "pair", !.bound = TRUE]
    /\ UNCHANGED <<workers, routes, w, cmd, disp, news, reports>>
BindFails ==
    /\ Starting("recover") /\ "bind" \in MayFail
    /\ Fails /\ UNCHANGED <<workers, routes, w, cmd, disp, news, reports>>
IssuePairing ==
    /\ Starting("pair") /\ Moves("serving")
    /\ UNCHANGED <<workers, routes, w, cmd, disp, news, reports>>
\* The server is shut down first, which joins its connection threads.
PairingFails ==
    /\ Starting("pair") /\ "pair" \in MayFail
    /\ \A c \in Commands : disp[c].at = "idle"
    /\ host' = [host EXCEPT !.at = "stopping", !.todo = host.started, !.bound = FALSE]
    /\ UNCHANGED <<workers, routes, w, cmd, disp, news, reports>>

(***************************************************************************)
(* A connection thread: admission, then dispatch_ticket step by step       *)
(***************************************************************************)
\* The server acknowledges the command and then dispatches it.
Admit(c) ==
    /\ host.bound /\ cmd[c] = "New" /\ disp[c].at = "idle"
    /\ cmd' = [cmd EXCEPT ![c] = "Ready"]
    /\ disp' = [disp EXCEPT ![c].at = "route"]
    /\ UNCHANGED <<host, workers, routes, w, news, reports>>
Resolve(c) ==
    /\ disp[c].at = "route"
    /\ disp' = [disp EXCEPT ![c] = IF Routed(c) THEN [at |-> "claim", to |-> routes[Target[c]]]
                                   ELSE [at |-> "idle", to |-> None]]
    /\ UNCHANGED <<host, workers, routes, w, cmd, news, reports>>
ClaimDispatch(c) ==
    /\ disp[c].at = "claim"
    /\ IF cmd[c] = "Ready"
       THEN cmd' = [cmd EXCEPT ![c] = "Claimed"] /\ disp' = [disp EXCEPT ![c].at = "send"]
       ELSE disp' = [disp EXCEPT ![c] = [at |-> "idle", to |-> None]] /\ UNCHANGED cmd
    /\ UNCHANGED <<host, workers, routes, w, news, reports>>
\* The worker may have gone between the claim and the send.
SendDispatch(c) ==
    /\ disp[c].at = "send"
    /\ w' = IF Gone(disp[c].to) THEN w ELSE Send(disp[c].to, Dispatch(c))
    /\ disp' = [disp EXCEPT ![c] = [at |-> "idle", to |-> None]]
    /\ UNCHANGED <<host, workers, routes, cmd, news, reports>>

(***************************************************************************)
(* The timer, and the worker                                               *)
(***************************************************************************)
\* request_drain: the flag keeps one Drain per worker on its way.
RequestDrain(r) ==
    /\ host.at = "serving" /\ r \in workers /\ ~w[r].pending
    /\ w' = IF Gone(r) THEN w
            ELSE [w EXCEPT ![r].pending = TRUE, ![r].inbox = Append(@, Drain)]
    /\ UNCHANGED <<host, workers, routes, cmd, disp, news, reports>>

Speaks(r) ==
    /\ w[r].life = "running" /\ news[r].said < MaxNews
    /\ news' = [news EXCEPT ![r] = [said |-> @.said + 1, waiting |-> TRUE]]
    /\ UNCHANGED <<host, workers, routes, w, cmd, disp, reports>>

Receive(r) ==
    /\ w[r].life = "running" /\ w[r].hand = "none" /\ w[r].inbox # <<>>
    /\ LET message == w[r].inbox[1]
       IN w' = [w EXCEPT ![r].inbox = Tail(@), ![r].hand = message.kind, ![r].cmd = message.cmd]
    /\ UNCHANGED <<host, workers, routes, cmd, disp, news, reports>>

Idles(r) == w' = [w EXCEPT ![r].hand = "none", ![r].cmd = None]
\* dispatch_claim: the provider's answer closes the command, or it stays claimed.
Answers(r, answer) ==
    /\ w[r].hand = "dispatch"
    /\ cmd' = [cmd EXCEPT ![w[r].cmd] = answer]
    /\ Idles(r) /\ UNCHANGED <<host, workers, routes, disp, news, reports>>

\* try_send: a report that finds its channel full is dropped.
TryReport(n) == reports' = IF reports + n < LifecycleCap THEN reports + n ELSE LifecycleCap

ReadProvider(r) ==
    /\ w[r].hand = "drain"
    /\ news' = [news EXCEPT ![r].waiting = FALSE]
    /\ w' = [w EXCEPT ![r].hand = "drained"]
    /\ UNCHANGED <<host, workers, routes, cmd, disp, reports>>
\* The provider may speak again before the flag is cleared.
DrainEnds(r) ==
    /\ w[r].hand = "drained"
    /\ w' = [w EXCEPT ![r].hand = "none", ![r].cmd = None, ![r].pending = FALSE]
    /\ UNCHANGED <<host, workers, routes, cmd, disp, news, reports>>
\* Mutant: a failed drain leaves the flag set.
FailedDrainKeepsFlag(r, n) ==
    /\ w[r].hand = "drain" /\ "drain" \in MayFail /\ news[r].waiting
    /\ news' = [news EXCEPT ![r].waiting = FALSE]
    /\ Idles(r) /\ TryReport(n)
    /\ UNCHANGED <<host, workers, routes, cmd, disp>>
\* Mutant: a report waits for room in its channel, which nobody empties.
FailedDrainWaits(r, n) ==
    /\ w[r].hand = "drain" /\ "drain" \in MayFail /\ news[r].waiting
    /\ news' = [news EXCEPT ![r].waiting = FALSE]
    /\ w' = [w EXCEPT ![r].hand = IF reports + n <= LifecycleCap THEN "drained" ELSE "reporting"]
    /\ TryReport(n) /\ UNCHANGED <<host, workers, routes, cmd, disp>>
\* The drain fails: it is reported, and a lost connection is published (a report
\* if the store refuses) and reconnected (a report either way).  The flag is cleared all the same.
DrainFails(r, n) ==
    /\ w[r].hand = "drain" /\ "drain" \in MayFail /\ news[r].waiting
    /\ news' = [news EXCEPT ![r].waiting = FALSE]
    /\ w' = [w EXCEPT ![r].hand = "drained"] /\ TryReport(n)
    /\ UNCHANGED <<host, workers, routes, cmd, disp>>

\* Messages behind the Close are never looked at.
Closes(r) ==
    /\ w[r].hand = "close"
    /\ w' = [w EXCEPT ![r] = [NoThread EXCEPT !.life = "ended"]]
    /\ UNCHANGED <<host, workers, routes, cmd, disp, news, reports>>

(***************************************************************************)
(* Stop                                                                    *)
(***************************************************************************)
Shutdown ==
    /\ host.at = "serving"
    /\ host' = [host EXCEPT !.at = "stopping", !.todo = host.started]
    /\ UNCHANGED <<workers, routes, w, cmd, disp, news, reports>>

\* stop_session: the worker leaves the table, its routes go, Close is sent.
StopSession ==
    /\ host.at = "stopping" /\ host.todo # <<>> /\ host.todo[1] \in workers
    /\ LET r == host.todo[1]
       IN /\ workers' = workers \ {r}
          /\ routes' = [s \in {x \in DOMAIN routes : routes[x] # r} |-> routes[s]]
          /\ w' = Send(r, Close)
    /\ UNCHANGED <<host, cmd, disp, news, reports>>
Joined ==
    /\ host.at = "stopping" /\ host.todo # <<>>
    /\ host.todo[1] \notin workers /\ w[host.todo[1]].life = "ended"
    /\ host' = [host EXCEPT !.todo = Tail(@)]
    /\ UNCHANGED <<workers, routes, w, cmd, disp, news, reports>>
\* server.shutdown joins the connection threads.
Stopped ==
    /\ host.at = "stopping" /\ host.todo = <<>>
    /\ \A c \in Commands : disp[c].at = "idle"
    /\ host' = [host EXCEPT !.at = "down", !.bound = FALSE]
    /\ UNCHANGED <<workers, routes, w, cmd, disp, news, reports>>

Init ==
    /\ host = [at |-> "runtimes", next |-> 1, started |-> <<>>, todo |-> <<>>, bound |-> FALSE]
    /\ workers = {} /\ routes = <<>> /\ reports = 0
    /\ w = [r \in Names |-> NoThread]
    /\ cmd = [c \in Commands |-> IF c \in Leftover THEN "Ready" ELSE "New"]
    /\ disp = [c \in Commands |-> [at |-> "idle", to |-> None]]
    /\ news = [r \in Names |-> [said |-> 0, waiting |-> FALSE]]

StartStep ==
    \/ \E r \in Names : StartFails(r) \/ \E found \in Listings[r] :
                            StartRefused(r, found) \/ StartRuntime(r, found)
    \/ \E c \in Commands : RecoverReady(c)
    \/ RecoverFails \/ Bind \/ BindFails \/ IssuePairing \/ PairingFails
ThreadStep(c) == Resolve(c) \/ ClaimDispatch(c) \/ SendDispatch(c)
WorkerStep(r) ==
    \/ Receive(r) \/ ReadProvider(r) \/ DrainEnds(r) \/ Closes(r)
    \/ \E answer \in {"Done", "Uncertain"} : Answers(r, answer)
    \/ \E n \in 1..3 : DrainFails(r, n)
StopStep == StopSession \/ Joined \/ Stopped

Next ==
    \/ StartStep \/ Shutdown \/ StopStep
    \/ \E c \in Commands : Admit(c) \/ ThreadStep(c)
    \/ \E r \in Names : RequestDrain(r) \/ Speaks(r) \/ WorkerStep(r)
Spec == Init /\ [][Next]_vars

\* The threads run, calls to a provider return (they have time limits), and the
\* timer ticks; providers, devices and the operator owe nothing.
FairSpec ==
    /\ Spec /\ WF_vars(StartStep) /\ WF_vars(StopStep)
    /\ \A c \in Commands : WF_vars(ThreadStep(c))
    /\ \A r \in Names : WF_vars(WorkerStep(r)) /\ WF_vars(RequestDrain(r))

(***************************************************************************)
(* Properties                                                              *)
(***************************************************************************)
InFlight(c) ==
    \/ disp[c].at = "send"
    \/ \E r \in Names : \/ (w[r].hand = "dispatch" /\ w[r].cmd = c)
                        \/ \E i \in DOMAIN w[r].inbox : w[r].inbox[i] = Dispatch(c)
OnTheWay(r) == {i \in DOMAIN w[r].inbox : w[r].inbox[i] = Drain}
                 \cup (IF w[r].hand \in {"drain", "drained"} THEN {0} ELSE {})

\* Only running threads are registered; every route leads to one of them, and each
\* has the route of its own session.
TypeOK ==
    /\ host.at \in {"runtimes", "recover", "pair", "serving", "stopping", "down"}
    /\ \A r \in workers : w[r].life = "running"
    /\ \A s \in DOMAIN routes : routes[s] \in workers
    /\ \A r \in workers : routes[Primary[r]] = r
    /\ \A c \in Commands : cmd[c] \in {"New", "Ready", "Claimed", "Rejected", "Done", "Uncertain"}
    /\ reports \in 0..LifecycleCap

\* request_drain's flag is exact: it is set while one Drain is on its way to the
\* worker or in its hands, and there is never a second one, however ticks and
\* drains interleave (request_drain, run_worker).
DrainsCoalesce ==
    \A r \in Names : w[r].life = "running" =>
        Cardinality(OnTheWay(r)) = IF w[r].pending THEN 1 ELSE 0

\* recover_all_ready runs "before the listener becomes live": when devices can
\* connect, nothing of the last life is still Ready (start_inner).
RecoveredBeforeListening == host.bound => \A c \in Leftover : cmd[c] # "Ready"

\* While the host is not stopping, a claimed command is with its dispatcher, in
\* the channel or in the worker's hands: none is dropped without a provider
\* having seen it (dispatch_ticket, run_worker).
ClaimsAreInFlight ==
    host.at \notin {"stopping", "down"} =>
        \A c \in Commands : cmd[c] = "Claimed" => InFlight(c)

\* Whatever step of the start fails, and whenever the host is stopped, no worker
\* thread and no route outlives it (stop_sessions, start_runtime).
NothingOutlivesTheHost ==
    host.at = "down" => /\ workers = {} /\ routes = <<>>
                        /\ \A r \in Names : w[r].life # "running"

\* What a provider says is read, unless its worker is stopped: no drain request
\* is lost between the flag and the channel, and no failing drain or report
\* holds up the worker (request_drain, run_worker).
NewsIsHeard ==
    \A r \in Names : news[r].waiting ~> (~news[r].waiting \/ w[r].life = "ended")

\* A host that stops, or fails to start, comes down (stop_session, shutdown).
ShutdownFinishes == host.at = "stopping" ~> host.at = "down"
=============================================================================
