--------------------------- MODULE CaptureControl ---------------------------
(***************************************************************************)
(* Starting and stopping a capture: the start and stop buttons             *)
(* (dripcap/render.es), Session.start, stop and close (dripcap/session.es),*)
(* the client's calls (goldfilter/index.es), the server's handlers         *)
(* (server.cpp), and the capture source with its thread: Pcap (pcap.cpp)   *)
(* or, in the UI tests, PcapDummy (pcap_dummy.cpp).                        *)
(*                                                                         *)
(* The buttons work at any time (the "disabled" class only greys them), so *)
(* several Session.start() may be under way at once.  The socket keeps the *)
(* order of requests and of replies; a reply resumes the await at once.    *)
(***************************************************************************)
EXTENDS Integers, Sequences

CONSTANT MaxClicks   \* bound on the clicks on start and stop

ASSUME ClicksAssumption == MaxClicks \in Nat

VARIABLES
    clicks,      \* clicks so far; the n-th one makes call n
    lastClick,   \* the last of them
    raced,       \* it was a stop during a Session.start()
    starting,    \* the calls of Session.start() under way
    closing,     \* Session.close() was called
    requests,    \* requests on the socket: <<name, call>>
    replies,     \* replies on the socket: <<name, call>>
    serverPc,    \* the server thread: between requests, joining, ended
    leaving,     \* the server has handled "exit"
    capturing,   \* Server::Private::capturing
    source,      \* "live": Pcap, "dummy": PcapDummy
    active,      \* Pcap::Private::active
    thread,      \* Pcap::Private::thread: none, running, or ended and joinable
    bpf,         \* the compiled capture filter is the session's
    openFailed,  \* the last pcap_open_live of start() failed
    filterError  \* why the last setBPF that was not refused made no program:
                 \* none, the device did not open, it did not compile

clientVars == <<clicks, lastClick, raced, starting, closing>>
socketVars == <<requests, replies>>
serverVars == <<serverPc, leaving, capturing>>
sourceVars == <<source, active, thread, bpf, openFailed, filterError>>
vars == <<clientVars, socketVars, serverVars, sourceVars>>

Init ==
    /\ clicks = 0 /\ lastClick = "none" /\ raced = FALSE
    /\ starting = {} /\ closing = FALSE
    /\ requests = <<>> /\ replies = <<>>
    /\ serverPc = "idle" /\ leaving = FALSE /\ capturing = FALSE
    /\ source \in {"live", "dummy"}
    /\ active = FALSE /\ thread = "none" /\ bpf = FALSE
    /\ openFailed = FALSE /\ filterError = "none"

-----------------------------------------------------------------------------
(* The client.                                                             *)

Click(button) ==
    /\ clicks < MaxClicks /\ ~closing
    /\ clicks' = clicks + 1
    /\ lastClick' = button
    /\ UNCHANGED <<closing, replies, serverVars, sourceVars>>

ClickStop ==
    /\ Click("stop")
    /\ raced' = (starting # {})
    /\ requests' = Append(requests, <<"stop", clicks + 1>>)
    /\ UNCHANGED starting

\* Mutation: a start() is dropped while another is under way.
ClickStartOnce ==
    /\ Click("start")
    /\ raced' = FALSE
    /\ starting' = IF starting = {} THEN {clicks + 1} ELSE starting
    /\ requests' = IF starting = {} THEN Append(requests, <<"stop", clicks + 1>>)
                                    ELSE requests

\* Session.start() first awaits a stop.
ClickStart ==
    /\ Click("start")
    /\ raced' = FALSE
    /\ starting' = starting \cup {clicks + 1}
    /\ requests' = Append(requests, <<"stop", clicks + 1>>)

ClickClose ==
    /\ ~closing
    /\ closing' = TRUE
    /\ requests' = Append(requests, <<"exit", 0>>)
    /\ UNCHANGED <<clicks, lastClick, raced, starting, replies, serverVars, sourceVars>>

\* What Session.start() and GoldFilter.start() send when a reply arrives.
Following(name) == CASE name = "stop"    -> "set_opt"
                     [] name = "set_opt" -> "start"
                     [] OTHER            -> "nothing"

Receive ==
    /\ replies # <<>>
    /\ LET name == Head(replies)[1]
           call == Head(replies)[2]
           next == IF call \in starting THEN Following(name) ELSE "nothing"
       IN  \/ /\ next # "nothing"
              /\ requests' = Append(requests, <<next, call>>)
              /\ UNCHANGED starting
           \/ /\ next = "nothing"
              /\ starting' = starting \ {call}
              /\ UNCHANGED requests
    /\ replies' = Tail(replies)
    /\ UNCHANGED <<clicks, lastClick, raced, closing, serverVars, sourceVars>>

-----------------------------------------------------------------------------
(* The capture source.                                                     *)

\* Mutation: Pcap answers like PcapDummy when a capture runs.
StartedAlreadyRefused == FALSE

\* What start() returns while a capture is active.
StartedAlready == source = "live"

\* Mutation: start() looks at the thread, not at active.
SourceStartsAfterError ==
    \/ /\ thread = "running"
       /\ capturing' = StartedAlready
       /\ UNCHANGED <<active, thread, openFailed, serverPc>>
    \/ /\ thread # "running"
       /\ openFailed' = FALSE
       /\ active' = TRUE
       /\ capturing' = TRUE
       /\ thread' = "running"
       /\ serverPc' = IF thread = "none" THEN "idle" ELSE "terminated"

\* start(): with a capture active nothing happens; pcap_open_live or
\* pcap_setfilter can fail.  Assigning to a joinable std::thread would end
\* the program.
SourceStarts ==
    \/ /\ active
       /\ capturing' = StartedAlready
       /\ UNCHANGED <<active, thread, openFailed, serverPc>>
    \/ /\ ~active /\ source = "live"
       /\ openFailed' = TRUE
       /\ capturing' = FALSE
       /\ UNCHANGED <<active, thread, serverPc>>
    \/ /\ ~active
       /\ openFailed' = FALSE
       /\ active' = TRUE
       /\ capturing' = TRUE
       /\ thread' = "running"
       /\ serverPc' = IF thread = "none" THEN "idle" ELSE "terminated"

\* The thread tests active after each packet.
ThreadStops ==
    /\ thread = "running" /\ ~active
    /\ thread' = "ended"
    /\ UNCHANGED <<clientVars, socketVars, serverVars, source, active,
                   bpf, openFailed, filterError>>

\* pcap_next_ex reports an error: the loop ends, active stays.
ThreadFails ==
    /\ thread = "running" /\ source = "live"
    /\ thread' = "ended"
    /\ UNCHANGED <<clientVars, socketVars, serverVars, source, active,
                   bpf, openFailed, filterError>>

\* Mutation: setBPF releases the old program before it looks at active.
SetFilterEarly ==
    \/ active /\ bpf' = FALSE /\ UNCHANGED filterError
    \/ ~active /\ bpf' = TRUE /\ filterError' = "none"

\* setBPF(): refused during a capture; the device may not open (what program
\* there was stays), or the filter may not compile (there is none then).
SetFilter ==
    \/ active /\ UNCHANGED <<bpf, filterError>>
    \/ ~active /\ filterError' = "none" /\ bpf' = TRUE
    \/ ~active /\ filterError' = "open" /\ UNCHANGED bpf
    \/ ~active /\ filterError' = "compile" /\ bpf' = FALSE

-----------------------------------------------------------------------------
(* The server thread.                                                      *)

Asked(name) == serverPc = "idle" /\ requests # <<>> /\ Head(requests)[1] = name

\* After "exit" the socket is closed; requests already read are still
\* handled, their replies go nowhere.
Answer ==
    /\ requests' = Tail(requests)
    /\ replies' = IF leaving THEN replies ELSE Append(replies, Head(requests))

HandleSetOpt ==
    /\ Asked("set_opt")
    /\ SetFilter
    /\ Answer
    /\ UNCHANGED <<clientVars, serverVars, source, active, thread, openFailed>>

HandleStart ==
    /\ Asked("start")
    /\ SourceStarts
    /\ Answer
    /\ UNCHANGED <<clientVars, leaving, source, bpf, filterError>>

\* Mutation: stop() takes a capture whose thread ended for a stopped one.
HandleStopIfRunning ==
    /\ Asked("stop")
    /\ \/ /\ thread # "running"
          /\ Answer
          /\ UNCHANGED <<active, serverPc, capturing>>
       \/ /\ thread = "running"
          /\ active' = FALSE
          /\ serverPc' = "joining"
          /\ UNCHANGED <<capturing, socketVars>>
    /\ UNCHANGED <<clientVars, leaving, source, thread, bpf, openFailed, filterError>>

\* Mutation: stop() clears the flag and does not wait for the thread.
HandleStopDetached ==
    /\ Asked("stop")
    /\ active' = FALSE
    /\ capturing' = FALSE
    /\ Answer
    /\ UNCHANGED <<clientVars, serverPc, leaving, source, thread, bpf, openFailed, filterError>>

\* stop(): without a capture there is nothing to join.
HandleStop ==
    /\ Asked("stop")
    /\ \/ /\ ~active
          /\ capturing' = FALSE
          /\ Answer
          /\ UNCHANGED <<active, serverPc>>
       \/ /\ active
          /\ active' = FALSE
          /\ serverPc' = "joining"
          /\ UNCHANGED <<capturing, socketVars>>
    /\ UNCHANGED <<clientVars, leaving, source, thread, bpf, openFailed, filterError>>

JoinStopped ==
    /\ serverPc = "joining" /\ thread = "ended"
    /\ thread' = "none"
    /\ serverPc' = "idle"
    /\ capturing' = FALSE
    /\ Answer
    /\ UNCHANGED <<clientVars, leaving, source, active, bpf, openFailed, filterError>>

HandleExit ==
    /\ Asked("exit")
    /\ Answer
    /\ leaving' = TRUE
    /\ UNCHANGED <<clientVars, serverPc, capturing, sourceVars>>

\* The read loop ends, Server::start() stops the source.
Leave ==
    /\ serverPc = "idle" /\ leaving
    /\ active' = FALSE
    /\ serverPc' = IF active THEN "closing" ELSE "gone"
    /\ UNCHANGED <<clientVars, socketVars, leaving, capturing, source, thread,
                   bpf, openFailed, filterError>>

JoinClosing ==
    /\ serverPc = "closing" /\ thread = "ended"
    /\ thread' = "none"
    /\ serverPc' = "gone"
    /\ UNCHANGED <<clientVars, socketVars, leaving, capturing, source, active,
                   bpf, openFailed, filterError>>

-----------------------------------------------------------------------------
Terminated ==
    /\ serverPc = "gone" \/ (clicks = MaxClicks /\ requests = <<>> /\ replies = <<>>)
    /\ UNCHANGED vars

ServerStep == \/ HandleSetOpt
              \/ HandleStart
              \/ HandleStop
              \/ JoinStopped
              \/ HandleExit
              \/ Leave
              \/ JoinClosing

Next == \/ ClickStart
        \/ ClickStop
        \/ ClickClose
        \/ Receive
        \/ ServerStep
        \/ ThreadStops
        \/ ThreadFails
        \/ Terminated

Spec == Init /\ [][Next]_vars

\* The event loop, the server and the capture thread run when they can; the
\* user need not click, a capture need not fail.
Fairness == WF_vars(Receive) /\ WF_vars(ServerStep) /\ WF_vars(ThreadStops)
FairSpec == Spec /\ Fairness

-----------------------------------------------------------------------------
Calls == 0..MaxClicks
Messages == {"stop", "set_opt", "start", "exit"} \X Calls

TypeOK ==
    /\ clicks \in Calls
    /\ lastClick \in {"none", "start", "stop"}
    /\ raced \in BOOLEAN
    /\ starting \subseteq Calls \ {0}
    /\ closing \in BOOLEAN
    /\ requests \in Seq(Messages) /\ replies \in Seq(Messages)
    /\ serverPc \in {"idle", "joining", "closing", "gone", "terminated"}
    /\ serverPc = "joining" => requests # <<>> /\ Head(requests)[1] = "stop"
    /\ leaving \in BOOLEAN /\ capturing \in BOOLEAN
    /\ source \in {"live", "dummy"}
    /\ active \in BOOLEAN
    /\ thread \in {"none", "running", "ended"}
    /\ bpf \in BOOLEAN /\ openFailed \in BOOLEAN
    /\ filterError \in {"none", "open", "compile"}

\* No order of starts, stops and read errors makes start() assign to a thread
\* that was not joined, which would end the helper process.
NeverTerminates == serverPc # "terminated"

\* What get_status reports agrees with the source between two requests, also
\* when several starts overlap.  (PcapDummy answers FALSE to a second start.)
CapturingIsActive ==
    serverPc = "idle" /\ source = "live" => (capturing <=> active)

\* Once stop() has been answered, or the server has gone, no thread hands
\* packets to the dispatcher.
QuietWhenStopped ==
    serverPc \in {"idle", "gone"} /\ ~active => thread = "none"

\* Overlapping starts cannot take the session's capture filter from a capture.
\* A capture runs without it only if setBPF failed and the client, which ignores
\* that, started the capture all the same: the filter did not compile, or the
\* device did not open just then, with no earlier program, and does so now.
CaptureIsFiltered ==
    source = "live" /\ active => bpf \/ filterError \in {"compile", "open"}

\* If the last click is start, a capture is active in the end, unless the
\* device does not open: a stop of an earlier click cannot undo it.
StartIsHonoured ==
    <>[](lastClick = "start" /\ ~closing) => <>[](active \/ openFailed)

\* If the last click is stop and no start was under way, the capture is
\* stopped for good.
StopIsHonoured == <>[](lastClick = "stop" /\ ~raced) => <>[](~active)
=============================================================================
