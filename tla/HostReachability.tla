---------------------------- MODULE HostReachability ----------------------------
(***************************************************************************)
(* What the host says about its own reachability.  Every authenticated     *)
(* connection runs on a thread of its own: it counts itself (LAN) or       *)
(* records its selected path (remote), reads the counter and then the      *)
(* path map, and hands the value to the broker, which latches and commits  *)
(* it under its own lock.  Nothing holds the three steps together.         *)
(***************************************************************************)
EXTENDS Naturals, FiniteSets

CONSTANTS
    Lan, Remote,    \* connections by provenance, disjoint sets
    MaxChanges,     \* bound: selected-path changes of remote connections
    MaxFailures,    \* bound: commits of the host record that fail
    Overlap         \* may a connection be authenticated while another is open?

VARIABLES
    phase,      \* [Links -> Phases]: where the connection's thread is
    read,       \* [Links -> value]: what the thread read and has not published
    counted,    \* authenticated_connections
    paths,      \* authenticated_remote_paths: [Remote -> path], "none" if absent
    latch,      \* the broker's authenticated_reachability
    published,  \* the host record's reachability, "absent" before bootstrap
    changes, failures, server   \* server: "up", "stopping", "stopped"

vars == <<phase, read, counted, paths, latch, published, changes, failures, server>>

Links == Lan \cup Remote
Selected == {"p2p", "relay"}
Values == {"lan", "p2p", "relay", "offline"}
\* "enter", "change" and "leave" are the three occasions of a publication;
\* a thread goes through count, paths and publish on each of them.
Occasions == {"enter", "change", "leave"}
Steps == {"count", "paths", "publish"}
New == <<"new", "-">>
Live == <<"live", "-">>
Closed == <<"closed", "-">>
Phases == {New, Live, Closed} \cup (Occasions \X Steps)

Init ==
    /\ phase = [c \in Links |-> New]
    /\ read = [c \in Links |-> [lan |-> 0, value |-> "offline"]]
    /\ counted = 0
    /\ paths = [c \in Remote |-> "none"]
    /\ latch = "offline" /\ published = "absent"
    /\ changes = 0 /\ failures = 0 /\ server = "up"

\* LAN first, then peer to peer, then relay.
AuthenticatedReachability(lan, remote) ==
    IF lan > 0 THEN "lan"
    ELSE IF \E c \in Remote : remote[c] = "p2p" THEN "p2p"
    ELSE IF \E c \in Remote : remote[c] = "relay" THEN "relay"
    ELSE "offline"

Goto(c, p) == phase' = [phase EXCEPT ![c] = p]

\* Device authentication has succeeded: a LAN connection counts itself.
AcquireLan(c) ==
    /\ phase[c] = New /\ server # "stopped"
    /\ Overlap \/ \A d \in Links : phase[d] \in {New, Closed}
    /\ counted' = counted + 1
    /\ Goto(c, <<"enter", "count">>)
    /\ UNCHANGED <<read, paths, latch, published, changes, failures, server>>

\* A remote connection records its selected path; only a change is published.
Refresh(c, selected, occasion) ==
    /\ paths' = [paths EXCEPT ![c] = selected]
    /\ Goto(c, IF paths[c] # selected THEN <<occasion, "count">> ELSE Live)
    /\ UNCHANGED <<read, counted, latch, published, failures, server>>

AcquireRemote(c, selected) ==
    /\ phase[c] = New /\ server # "stopped"
    /\ Overlap \/ \A d \in Links : phase[d] \in {New, Closed}
    /\ Refresh(c, selected, "enter") /\ UNCHANGED changes

\* The business loop looks at the path again on every pass.
PathChanges(c, selected) ==
    /\ phase[c] = Live /\ changes < MaxChanges /\ selected # paths[c]
    /\ changes' = changes + 1
    /\ Refresh(c, selected, "change")

\* The counter is loaded before the path map is locked.
ReadCount(c) ==
    \E o \in Occasions :
       /\ phase[c] = <<o, "count">> /\ Goto(c, <<o, "paths">>)
       /\ read' = [read EXCEPT ![c].lan = counted]
       /\ UNCHANGED <<counted, paths, latch, published, changes, failures, server>>

ReadPaths(c) ==
    \E o \in Occasions :
       /\ phase[c] = <<o, "paths">> /\ Goto(c, <<o, "publish">>)
       /\ read' = [read EXCEPT ![c].value = AuthenticatedReachability(read[c].lan, paths)]
       /\ UNCHANGED <<counted, paths, latch, published, changes, failures, server>>

\* The broker latches the value and commits it if the host is known; an equal
\* value is not published again.
SetAuthenticatedReachability(v) ==
    /\ latch' = v
    /\ published' = IF v = latch \/ published = "absent" THEN published ELSE v

After(o) == IF o = "leave" THEN Closed ELSE Live

Publish(c) ==
    \E o \in Occasions :
       /\ phase[c] = <<o, "publish">> /\ Goto(c, After(o))
       /\ SetAuthenticatedReachability(read[c].value)
       /\ read' = [read EXCEPT ![c] = [lan |-> 0, value |-> "offline"]]
       /\ UNCHANGED <<counted, paths, changes, failures, server>>

\* The commit fails after the latch moved: acquire takes its count back, a
\* remote guard is dropped, a leaving thread ignores the error.
PublishFails(c) ==
    \E o \in Occasions :
       /\ phase[c] = <<o, "publish">>
       /\ failures < MaxFailures /\ failures' = failures + 1
       /\ read[c].value # latch /\ published # "absent"
       /\ latch' = read[c].value
       /\ read' = [read EXCEPT ![c] = [lan |-> 0, value |-> "offline"]]
       /\ IF o = "leave" \/ (c \in Lan /\ o = "enter")
          THEN /\ Goto(c, Closed) /\ UNCHANGED paths
               /\ counted' = IF o = "enter" THEN counted - 1 ELSE counted
          ELSE /\ Goto(c, <<"leave", "count">>) /\ UNCHANGED counted
               /\ paths' = [paths EXCEPT ![c] = "none"]
       /\ UNCHANGED <<published, changes, server>>

\* Mutant: the last path is taken away without a word.
CloseSilently(c) ==
    /\ phase[c] = Live
    /\ counted' = IF c \in Lan THEN counted - 1 ELSE counted
    /\ paths' = IF c \in Remote THEN [paths EXCEPT ![c] = "none"] ELSE paths
    /\ Goto(c, Closed)
    /\ UNCHANGED <<read, latch, published, changes, failures, server>>

\* The connection ends: the guard is dropped and publishes if it was the last
\* LAN connection, or a remote one with a recorded path.
Close(c) ==
    /\ phase[c] = Live
    /\ counted' = IF c \in Lan THEN counted - 1 ELSE counted
    /\ paths' = IF c \in Remote THEN [paths EXCEPT ![c] = "none"] ELSE paths
    /\ LET last == IF c \in Lan THEN counted = 1 ELSE paths[c] # "none"
       IN  Goto(c, IF last THEN <<"leave", "count">> ELSE Closed)
    /\ UNCHANGED <<read, latch, published, changes, failures, server>>

\* An adapter reports the host; the broker puts the latched value into it.
HostUpserted ==
    /\ published' = latch /\ published # latch
    /\ UNCHANGED <<phase, read, counted, paths, latch, changes, failures, server>>

Stop ==
    /\ server = "up" /\ server' = "stopping"
    /\ UNCHANGED <<phase, read, counted, paths, latch, published, changes, failures>>

\* stop joins the listener, which joined every connection thread, and then
\* publishes Offline itself.
Stopped ==
    /\ server = "stopping" /\ \A c \in Links : phase[c] \in {New, Closed}
    /\ server' = "stopped"
    /\ SetAuthenticatedReachability("offline")
    /\ UNCHANGED <<phase, read, counted, paths, changes, failures>>

Next ==
    \/ \E c \in Lan : AcquireLan(c)
    \/ \E c \in Remote, p \in Selected \cup {"none"} : AcquireRemote(c, p) \/ PathChanges(c, p)
    \/ \E c \in Links : ReadCount(c) \/ ReadPaths(c) \/ Publish(c) \/ PublishFails(c) \/ Close(c)
    \/ HostUpserted \/ Stop \/ Stopped

Spec == Init /\ [][Next]_vars

-----------------------------------------------------------------------------
Holds(c) == phase[c][1] \notin {"new", "closed", "leave"}
Quiet == \A c \in Links : phase[c] \in {New, Live, Closed}

\* The counter and the path map describe exactly the connections that hold a
\* guard, and a thread between its steps carries only values it read
\* (server.rs, AuthenticatedReachability and AuthenticatedRemotePath).
TypeOK ==
    /\ phase \in [Links -> Phases]
    /\ read \in [Links -> [lan : 0..Cardinality(Lan), value : Values]]
    /\ counted = Cardinality({c \in Lan : Holds(c)})
    /\ paths \in [Remote -> Selected \cup {"none"}]
    /\ \A c \in Remote : ~Holds(c) => paths[c] = "none"
    /\ latch \in Values /\ published \in Values \cup {"absent"}
    /\ changes \in 0..MaxChanges /\ failures \in 0..MaxFailures
    /\ server \in {"up", "stopping", "stopped"}

\* When no thread is between its change and its publication, the latched value
\* is the path the authenticated connections really have (server.rs,
\* publish_authenticated_reachability).
QuietMeansTrue == Quiet => latch = AuthenticatedReachability(counted, paths)

\* After a stop that ran to its end the host says Offline, whatever its
\* connection threads were doing when it began (server.rs, LanServer::stop).
StoppedMeansOffline ==
    (server = "stopped") => (latch = "offline" /\ published \in {"absent", "offline"})

\* "Callers must publish Offline after the last authenticated path closes"
\* (broker.rs, set_authenticated_reachability).
OfflineAfterLast ==
    (Quiet /\ \A c \in Links : phase[c] \in {New, Closed}) => latch = "offline"

\* The broker "latches authenticated-path readiness and publishes the matching
\* canonical host reachability if the provider has bootstrapped the host"
\* (broker.rs, set_lan_ready): a connection whose own publication returned
\* without an error is visible in the host record.
ConnectedIsPublished ==
    (Quiet /\ \E c \in Links : phase[c] = Live)
        => published \in {"absent", AuthenticatedReachability(counted, paths)}
=============================================================================
