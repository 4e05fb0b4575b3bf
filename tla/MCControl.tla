------------------------------ MODULE MCControl -----------------------------
(***************************************************************************)
(* Small instances of the models of the helper's control: its captures     *)
(* (CaptureControl) and its life from start to end (ServerLifetime), the   *)
(* latter with periods in the proportion of the code's 10 s and 30 s, one  *)
(* tick for about 3 s.  CaptureControl has no clock and ServerLifetime no  *)
(* capture, so a behaviour is one of either: the first state chooses       *)
(* which, the other rests in a state in which fairness asks for nothing.   *)
(***************************************************************************)
EXTENDS CaptureControl

CONSTANTS PingPeriod, WatchPeriod, MaxDelay, ConnectBound, MaxSpurious

VARIABLES
    part,        \* the model that runs: capture or life
    posix, client, since, nextPing, flying, exitAsked, server, socket,
    interrupted, watch, window, pingReceived, pingQuit, spurious, joinTime

Life == INSTANCE ServerLifetime

ASSUME ControlAssumption == Life!PeriodsAssumption

lifeVars == <<posix, client, since, nextPing, flying, exitAsked, server, socket,
              interrupted, watch, window, pingReceived, pingQuit, spurious, joinTime>>
allVars  == <<part, vars, lifeVars>>

-----------------------------------------------------------------------------
\* A helper that has ended.
LifeRest ==
    /\ posix = TRUE /\ client = "gone" /\ since = 0 /\ exitAsked = TRUE
    /\ nextPing = Life!Nothing /\ flying = Life!Nothing
    /\ server = "done" /\ socket = "shut" /\ interrupted = FALSE
    /\ watch = "returned" /\ window = 0 /\ spurious = 0
    /\ pingReceived = FALSE /\ pingQuit = TRUE /\ joinTime = 0

ControlInit ==
    \/ part = "capture" /\ Init /\ LifeRest
    \/ part = "life" /\ source = "live" /\ Init /\ Life!Init

ControlNext ==
    /\ UNCHANGED part
    /\ \/ part = "capture" /\ Next /\ UNCHANGED lifeVars
       \/ part = "life" /\ Life!Next /\ UNCHANGED vars

ControlSpec == ControlInit /\ [][ControlNext]_allVars /\ Fairness /\ Life!Fairness

-----------------------------------------------------------------------------
(* What is checked of the two, in groups.                                  *)

\* A click on start is honoured unless a stop or an error comes first, and
\* a click on stop ends the capture.
ClicksAreHonoured == StartIsHonoured /\ StopIsHonoured

\* The watchdog cuts off no client that connected in time and pings, and
\* the destructor waits for it for two of its windows at most.
WatchdogIsSound ==
    part = "life" => Life!TypeOK /\ Life!NoFalseAlarm /\ Life!JoinIsBounded

\* A helper ends that was asked to, and one whose client is gone.
HelperEnds == Life!ExitIsHonoured /\ Life!AbandonedServerEnds
=============================================================================
