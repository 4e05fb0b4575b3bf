--------------------------- MODULE ServerLifetime ---------------------------
(***************************************************************************)
(* How the helper process starts, is watched and ends: Server::start and   *)
(* ~Server with the ping watchdog (server.cpp), MsgpackServer (darwin and  *)
(* linux, or win32), and the client that connects, pings and asks it to    *)
(* exit (goldfilter/index.es).                                             *)
(*                                                                         *)
(* Time is discrete and the periods are constants; every countdown is the  *)
(* time left, so no clock grows.  Steps take no time; a ping is handled    *)
(* within MaxDelay of being sent, the watchdog wakes when it is due.       *)
(***************************************************************************)
EXTENDS Integers

CONSTANTS
    PingPeriod,    \* the client's ping timer (10 s)
    WatchPeriod,   \* the watchdog's window (30 s)
    MaxDelay,      \* the longest time from a ping to its handler
    ConnectBound,  \* a client that connects later is late
    MaxSpurious    \* bound on the spurious wake-ups of the watchdog

PeriodsAssumption ==
    /\ PingPeriod \in Nat /\ WatchPeriod \in Nat /\ MaxDelay \in Nat
    /\ ConnectBound \in Nat /\ MaxSpurious \in Nat
    /\ MaxDelay < PingPeriod
    /\ ConnectBound + PingPeriod + MaxDelay < WatchPeriod

Nothing == -1   \* a countdown that does not run

VARIABLES
    posix,        \* sockets (darwin, linux), or a named pipe (win32)
    client,       \* starting, refused, absent; once connected alive, hung, gone
    since,        \* time the client took to connect, up to ConnectBound + 1
    nextPing,     \* time to the next ping
    flying,       \* time the ping on the way may still take, or Nothing
    exitAsked,    \* the client called close()
    server,       \* where the server thread is
    socket,       \* csock or the pipe: unset, open, or shut by stop()
    interrupted,  \* errno is a stale EINTR
    watch,        \* where the watchdog thread is
    window,       \* time left of its wait
    pingReceived, pingQuit,
    spurious,     \* spurious wake-ups so far
    joinTime      \* time the destructor has waited for the watchdog

clientVars == <<client, since, nextPing, flying, exitAsked>>
serverVars == <<server, socket, interrupted>>
watchVars  == <<watch, window, spurious>>
pingVars   == <<pingReceived, pingQuit>>
vars == <<posix, clientVars, serverVars, watchVars, pingVars, joinTime>>

Init ==
    /\ posix \in BOOLEAN
    /\ client = "starting" /\ since = 0 /\ nextPing = Nothing
    /\ flying = Nothing /\ exitAsked = FALSE
    /\ server = "booting" /\ socket = "unset" /\ interrupted = FALSE
    /\ watch = "arming" /\ window = 0 /\ spurious = 0
    /\ pingReceived = FALSE /\ pingQuit = FALSE
    /\ joinTime = 0

Connected == client \in {"alive", "hung", "gone"}

-----------------------------------------------------------------------------
(* The client.                                                             *)

\* A path that is not there yet is retried after 100 ms.  A Unix socket that
\* is bound and not yet listening refuses, and ECONNREFUSED is not retried.
Connect ==
    /\ client = "starting"
    /\ server \in {"bound", "accepting"}
    /\ \/ /\ posix /\ server = "bound"
          /\ client' = "refused"
          /\ UNCHANGED nextPing
       \/ /\ ~(posix /\ server = "bound")
          /\ client' = "alive"
          /\ nextPing' = PingPeriod
    /\ UNCHANGED <<posix, since, flying, exitAsked, serverVars, watchVars, pingVars, joinTime>>

\* Mutation: the ping timer fires once.
SendPingOnce ==
    /\ client = "alive" /\ ~exitAsked /\ nextPing = 0
    /\ flying' = MaxDelay
    /\ nextPing' = Nothing
    /\ UNCHANGED <<posix, client, since, exitAsked, serverVars, watchVars, pingVars, joinTime>>

SendPing ==
    /\ client = "alive" /\ ~exitAsked /\ nextPing = 0
    /\ flying' = MaxDelay
    /\ nextPing' = PingPeriod
    /\ UNCHANGED <<posix, client, since, exitAsked, serverVars, watchVars, pingVars, joinTime>>

\* close(): no more pings, then "exit".
Close ==
    /\ client = "alive" /\ ~exitAsked
    /\ exitAsked' = TRUE
    /\ nextPing' = Nothing
    /\ UNCHANGED <<posix, client, since, flying, serverVars, watchVars, pingVars, joinTime>>

\* The renderer hangs with its connection open, or its process ends.
Abandon ==
    /\ \/ client = "alive" /\ client' \in {"hung", "gone"}
       \/ client = "hung" /\ client' = "gone"
       \/ client \in {"starting", "refused"} /\ client' = "absent"
    /\ nextPing' = Nothing
    /\ UNCHANGED <<posix, since, flying, exitAsked, serverVars, watchVars, pingVars, joinTime>>

-----------------------------------------------------------------------------
(* MsgpackServer.                                                          *)

\* On posix csock is closed; it is uninitialised before accept and may then
\* be any number, also that of the listening socket.
StopSocket ==
    \/ /\ socket' = IF socket = "open" THEN "shut" ELSE socket
       /\ UNCHANGED server
    \/ /\ socket = "unset" /\ server = "accepting"
       /\ server' = "left"
       /\ UNCHANGED socket

\* On win32 a flag is cleared, once a client is connected.
StopPipe ==
    /\ socket' = IF socket = "open" THEN "shut" ELSE socket
    /\ UNCHANGED server

Stop == IF posix THEN StopSocket ELSE StopPipe

\* socket, bind, chmod, listen; or CreateNamedPipe.
Bind ==
    /\ server = "booting"
    /\ server' \in {"bound", "left"}
    /\ UNCHANGED <<posix, clientVars, socket, interrupted, watchVars, pingVars, joinTime>>

\* ConnectNamedPipe fails when the client was faster.
Listen ==
    /\ server = "bound"
    /\ server' \in IF ~posix /\ Connected THEN {"left"}
                                                    ELSE {"accepting", "left"}
    /\ UNCHANGED <<posix, clientVars, socket, interrupted, watchVars, pingVars, joinTime>>

\* accept() also fails when a signal interrupts it.
Accept ==
    /\ server = "accepting"
    /\ \/ Connected /\ server' = "reading" /\ socket' = "open"
       \/ server' = "left" /\ UNCHANGED socket
    /\ UNCHANGED <<posix, clientVars, interrupted, watchVars, pingVars, joinTime>>

\* SIGINT interrupts read(); errno stays EINTR until a call fails otherwise.
Interrupt ==
    /\ posix /\ server = "reading" /\ socket = "open" /\ ~interrupted
    /\ interrupted' = TRUE
    /\ UNCHANGED <<posix, clientVars, server, socket, watchVars, pingVars, joinTime>>

\* A read that brings data; on win32 stop() does not wake the read.
Reads == server = "reading" /\ (posix => socket = "open")

\* The reply to a client that has gone raises SIGPIPE.
ReplyKills == posix /\ client = "gone"

\* On win32 the loop ends after the request when stop() was called.
AfterRequest == CASE ReplyKills       -> "killed"
                  [] socket' = "shut" -> "left"
                  [] OTHER            -> "reading"

\* The handler of "ping" takes the mutex, which the watchdog holds while it
\* stops the server.
HandlePing ==
    /\ Reads /\ flying # Nothing /\ watch # "stopping"
    /\ flying' = Nothing
    /\ pingReceived' = TRUE
    /\ UNCHANGED socket
    /\ server' = AfterRequest
    /\ interrupted' \in {FALSE, interrupted}
    /\ UNCHANGED <<posix, client, since, nextPing, exitAsked, watchVars, pingQuit, joinTime>>

\* Mutation: "exit" is answered only.
HandleExitAnswered ==
    /\ Reads /\ flying = Nothing /\ exitAsked /\ socket = "open"
    /\ UNCHANGED socket
    /\ server' = AfterRequest
    /\ UNCHANGED <<posix, clientVars, interrupted, watchVars, pingVars, joinTime>>

\* "exit": the reply, then stop(); the next read fails.
HandleExit ==
    /\ Reads /\ flying = Nothing /\ exitAsked /\ socket = "open"
    /\ socket' = "shut"
    /\ server' = AfterRequest
    /\ UNCHANGED <<posix, clientVars, interrupted, watchVars, pingVars, joinTime>>

\* Mutation: a read that fails after stop() is tried again.
ReadFailsRetried ==
    /\ server = "reading"
    /\ client = "gone" /\ flying = Nothing /\ ~interrupted
    /\ server' = "left"
    /\ UNCHANGED <<posix, clientVars, socket, interrupted, watchVars, pingVars, joinTime>>

\* On posix read() fails after stop().  The end of the stream does not set
\* errno, and with a stale EINTR the loop goes round.
ReadSocketFails ==
    \/ socket = "shut"
    \/ client = "gone" /\ flying = Nothing /\ ~interrupted

\* On win32 ReadFile fails when the client has closed the pipe; the flag is
\* tested after it has returned.
ReadPipeFails ==
    \/ client = "gone" /\ flying = Nothing
    \/ exitAsked /\ flying = Nothing /\ socket = "shut"

ReadFails ==
    /\ server = "reading"
    /\ IF posix THEN ReadSocketFails ELSE ReadPipeFails
    /\ server' = "left"
    /\ UNCHANGED <<posix, clientVars, socket, interrupted, watchVars, pingVars, joinTime>>

-----------------------------------------------------------------------------
(* ~Private, after the capture source is stopped.                          *)

Quit ==
    /\ server = "left" /\ watch # "stopping"
    /\ pingQuit' = TRUE
    /\ server' = "notifying"
    /\ UNCHANGED <<posix, clientVars, socket, interrupted, watchVars, pingReceived, joinTime>>

\* Only a thread that waits hears it.
Notify ==
    /\ server = "notifying"
    /\ server' = "joining"
    /\ watch' = IF watch = "waiting" THEN "woken" ELSE watch
    /\ UNCHANGED <<posix, clientVars, socket, interrupted, window, spurious, pingVars, joinTime>>

Join ==
    /\ server = "joining" /\ watch = "returned"
    /\ server' = "done"
    /\ UNCHANGED <<posix, clientVars, socket, interrupted, watchVars, pingVars, joinTime>>

-----------------------------------------------------------------------------
(* The watchdog.                                                           *)

Alive == server # "killed"

Arm ==
    /\ Alive /\ watch = "arming"
    /\ watch' = "waiting"
    /\ window' = WatchPeriod
    /\ UNCHANGED <<posix, clientVars, serverVars, spurious, pingVars, joinTime>>

\* Mutation: one ping lasts for ever.
TimeoutKeeping ==
    /\ Alive /\ watch \in {"waiting", "woken"} /\ window = 0
    /\ watch' = IF pingReceived THEN "arming" ELSE "stopping"
    /\ UNCHANGED <<posix, clientVars, serverVars, window, spurious, pingVars, joinTime>>

\* The wait reports a timeout whenever its time is over, also if notified.
Timeout ==
    /\ Alive /\ watch \in {"waiting", "woken"} /\ window = 0
    /\ watch' = IF pingReceived THEN "arming" ELSE "stopping"
    /\ pingReceived' = FALSE
    /\ UNCHANGED <<posix, clientVars, serverVars, window, spurious, pingQuit, joinTime>>

StopServer ==
    /\ Alive /\ watch = "stopping"
    /\ watch' = "returned"
    /\ Stop
    /\ UNCHANGED <<posix, clientVars, interrupted, window, spurious, pingVars, joinTime>>

Spurious ==
    /\ Alive /\ watch = "waiting" /\ spurious < MaxSpurious
    /\ watch' = "woken"
    /\ spurious' = spurious + 1
    /\ UNCHANGED <<posix, clientVars, serverVars, window, pingVars, joinTime>>

\* A wake-up in time that is not the end opens a new window.
Woken ==
    /\ Alive /\ watch = "woken" /\ window > 0
    /\ watch' = IF pingQuit THEN "returned" ELSE "arming"
    /\ UNCHANGED <<posix, clientVars, serverVars, window, spurious, pingVars, joinTime>>

-----------------------------------------------------------------------------
\* Mutation: a timer that does not run is counted down, too.
LessAlways(countdown) == countdown - 1

Less(countdown) == IF countdown > 0 THEN countdown - 1 ELSE countdown

\* Time passes when nothing is due.
Tick ==
    /\ Alive /\ server # "done"
    /\ \/ watch = "returned" /\ server # "joining"
       \/ watch = "waiting" /\ window > 0
    /\ ~(server = "accepting" /\ Connected)
    /\ ~(client = "alive" /\ nextPing = 0)
    /\ Reads => flying # 0
    /\ since' = IF client = "starting" /\ since <= ConnectBound THEN since + 1 ELSE since
    /\ nextPing' = Less(nextPing)
    /\ flying' = Less(flying)
    /\ window' = Less(window)
    /\ joinTime' = IF server = "joining" THEN joinTime + 1 ELSE joinTime
    /\ UNCHANGED <<posix, client, exitAsked, serverVars, watch, spurious, pingVars>>

Terminated == server \in {"done", "killed"} /\ UNCHANGED vars

ServerStep == \/ Bind
              \/ Listen
              \/ Accept
              \/ HandlePing
              \/ HandleExit
              \/ ReadFails
              \/ Quit
              \/ Notify
              \/ Join

WatchStep == \/ Arm
             \/ Timeout
             \/ StopServer
             \/ Woken

Next == \/ Connect
        \/ SendPing
        \/ Close
        \/ Abandon
        \/ ServerStep
        \/ Interrupt
        \/ WatchStep
        \/ Spurious
        \/ Tick
        \/ Terminated

Spec == Init /\ [][Next]_vars

\* The threads run and time passes; a client need not connect or go, signals
\* and spurious wake-ups need not come.
Fairness == /\ WF_vars(ServerStep) /\ WF_vars(WatchStep)
            /\ WF_vars(Tick) /\ WF_vars(SendPing)
FairSpec == Spec /\ Fairness

-----------------------------------------------------------------------------
TypeOK ==
    /\ posix \in BOOLEAN
    /\ client \in {"starting", "refused", "absent", "alive", "hung", "gone"}
    /\ since \in 0..(ConnectBound + 1)
    /\ nextPing \in {Nothing} \cup 0..PingPeriod
    /\ flying \in {Nothing} \cup 0..MaxDelay
    /\ exitAsked \in BOOLEAN
    /\ server \in {"booting", "bound", "accepting", "reading", "left",
                   "notifying", "joining", "done", "killed"}
    /\ socket \in {"unset", "open", "shut"}
    /\ interrupted \in BOOLEAN
    /\ watch \in {"arming", "waiting", "woken", "stopping", "returned"}
    /\ window \in 0..WatchPeriod
    /\ pingReceived \in BOOLEAN /\ pingQuit \in BOOLEAN
    /\ spurious \in 0..MaxSpurious
    /\ joinTime \in Nat

\* The watchdog never cuts off a client that connected in time, lives and has
\* not asked for the end: every window sees one of its pings, whatever their
\* phases, delays and the watchdog's spurious wake-ups.
NoFalseAlarm ==
    watch = "stopping" /\ server = "reading" /\ client = "alive" /\ ~exitAsked
        => since > ConnectBound

\* The destructor's notification can be lost when the watchdog is between two
\* waits; the join then ends by timeouts, after two windows at the latest.
JoinIsBounded == joinTime <= 2 * WatchPeriod

\* A helper whose client has ended, or on posix hangs, ends too, whatever
\* errno says, as long as the watchdog was still there when that happened.
AbandonedServerEnds ==
    /\ client = "gone" \/ (posix /\ client = "hung")
    /\ server = "reading" /\ watch # "returned"
    ~> ~Alive \/ server = "done"

\* Once the client has asked for the end the process ends, also when the
\* watchdog stops the server at the same time.
ExitIsHonoured == (server = "reading" /\ socket = "open" /\ exitAsked)
                      ~> (~Alive \/ server = "done")
=============================================================================
