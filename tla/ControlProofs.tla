---------------------------- MODULE ControlProofs ---------------------------
(***************************************************************************)
(* Proofs about the helper's control: starting and stopping a capture      *)
(* (CaptureControl), for any number of clicks, and the helper's life with  *)
(* its watchdog (ServerLifetime), for any periods that leave room for a    *)
(* ping in a window.                                                       *)
(***************************************************************************)
EXTENDS MCControl, TLAPS

\* Where the server thread is, against the capture thread: there is a thread
\* to join exactly while a capture is active or is being stopped.
ThreadInv ==
    /\ NeverTerminates
    /\ serverPc = "idle" => (active <=> thread # "none")
    /\ serverPc \in {"joining", "closing"} => ~active /\ thread # "none"
    /\ serverPc = "gone" => ~active /\ thread = "none"

\* The types of the source and the server, without the socket.
SourceType ==
    /\ serverPc \in {"idle", "joining", "closing", "gone", "terminated"}
    /\ leaving \in BOOLEAN /\ capturing \in BOOLEAN
    /\ source \in {"live", "dummy"}
    /\ active \in BOOLEAN
    /\ thread \in {"none", "running", "ended"}
    /\ bpf \in BOOLEAN /\ openFailed \in BOOLEAN
    /\ filterError \in {"none", "open", "compile"}

\* The types of the client and of the socket.
ClientType ==
    /\ clicks \in Calls
    /\ lastClick \in {"none", "start", "stop"}
    /\ raced \in BOOLEAN
    /\ starting \subseteq Calls \ {0}
    /\ closing \in BOOLEAN
    /\ requests \in Seq(Messages) /\ replies \in Seq(Messages)

\* The request whose thread is being joined stays at the head.
JoinInv == serverPc = "joining" => requests # <<>> /\ Head(requests)[1] = "stop"

LEMMA TypeParts ==
    /\ TypeOK <=> SourceType /\ ClientType /\ JoinInv
    /\ TypeOK' <=> SourceType' /\ ClientType' /\ JoinInv'
BY DEF TypeOK, SourceType, ClientType, JoinInv

\* Nothing is started before the options of some call were handled: the
\* order on the socket carries this from "set_opt" to its reply, and from the
\* reply to "start".
OptionsInv ==
    \/ bpf \/ filterError # "none"
    \/ /\ ~active
       /\ \A i \in 1..Len(requests) : requests[i][1] # "start"
       /\ \A i \in 1..Len(replies) : replies[i][1] # "set_opt"

Inv == TypeOK /\ ThreadInv /\ CapturingIsActive /\ OptionsInv

-----------------------------------------------------------------------------
LEMMA InitInv == Init => Inv
<1> SUFFICES ASSUME Init  PROVE Inv
  OBVIOUS
<1> USE DEF Init
<1>1. SourceType /\ JoinInv
  BY DEF SourceType, JoinInv
<1>2. ClientType
  <2>1. clicks \in Calls /\ starting \subseteq Calls \ {0}
    BY ClicksAssumption DEF Calls
  <2>2. requests \in Seq(Messages) /\ replies \in Seq(Messages)
    OBVIOUS
  <2> QED  BY <2>1, <2>2 DEF ClientType
<1>3. ThreadInv
  BY DEF ThreadInv, NeverTerminates
<1>5. CapturingIsActive
  BY DEF CapturingIsActive
<1>4. OptionsInv
  BY DEF OptionsInv
<1> QED  BY <1>1, <1>2, <1>3, <1>4, <1>5, TypeParts DEF Inv

\* Appending a request.
LEMMA AppendRequest ==
    ASSUME ClientType, NEW message \in Messages, requests' = Append(requests, message)
    PROVE  /\ requests' \in Seq(Messages)
           /\ JoinInv /\ UNCHANGED serverPc => JoinInv'
           /\ \A i \in 1..Len(requests') :
                 \/ i \in 1..Len(requests) /\ requests'[i] = requests[i]
                 \/ requests'[i] = message
<1> USE DEF ClientType
<1>1. requests' \in Seq(Messages)
  OBVIOUS
<1>2. requests # <<>> => requests' # <<>> /\ Head(requests') = Head(requests)
  OBVIOUS
<1>3. ASSUME NEW i \in 1..Len(requests')
      PROVE  \/ i \in 1..Len(requests) /\ requests'[i] = requests[i]
             \/ requests'[i] = message
  OBVIOUS
<1> QED  BY <1>1, <1>2, <1>3 DEF JoinInv

\* Taking the head of a queue.
LEMMA TailFacts ==
    ASSUME NEW queue \in Seq(Messages), queue # <<>>
    PROVE  /\ Tail(queue) \in Seq(Messages)
           /\ Head(queue) \in Messages /\ Head(queue) = queue[1] /\ 1 \in 1..Len(queue)
           /\ \A i \in 1..Len(Tail(queue)) :
                 i + 1 \in 1..Len(queue) /\ Tail(queue)[i] = queue[i + 1]
OBVIOUS

\* The reply to a request: what is left on the socket.
LEMMA AnswerFacts ==
    ASSUME ClientType, requests # <<>>, Answer
    PROVE  /\ requests' \in Seq(Messages) /\ replies' \in Seq(Messages)
           /\ \A i \in 1..Len(requests') : \E j \in 1..Len(requests) : requests'[i] = requests[j]
           /\ \A i \in 1..Len(replies') :
                 \/ i \in 1..Len(replies) /\ replies'[i] = replies[i]
                 \/ replies'[i] = Head(requests)
<1> USE DEF ClientType
<1>1. /\ requests' = Tail(requests)
      /\ replies' = replies \/ replies' = Append(replies, Head(requests))
  BY DEF Answer
<1>2. Head(requests) \in Messages
  BY TailFacts
<1>3. requests' \in Seq(Messages)
      /\ \A i \in 1..Len(requests') : \E j \in 1..Len(requests) : requests'[i] = requests[j]
  BY <1>1, TailFacts
<1>4. replies' \in Seq(Messages)
  BY <1>1, <1>2
<1>5. ASSUME NEW i \in 1..Len(replies')
      PROVE  \/ i \in 1..Len(replies) /\ replies'[i] = replies[i]
             \/ replies'[i] = Head(requests)
  BY <1>1, <1>2
<1> QED  BY <1>3, <1>4, <1>5

-----------------------------------------------------------------------------
(* The invariant is kept.                                                  *)

\* An answered request that was not "set_opt" before any options.
LEMMA AnswerKeepsOptions ==
    ASSUME ClientType, OptionsInv, requests # <<>>, Answer,
           active' = active, bpf' = bpf, filterError' = filterError,
           Head(requests)[1] # "set_opt"
    PROVE  OptionsInv'
<1>1. CASE bpf \/ filterError # "none"
  BY <1>1 DEF OptionsInv
<1>2. CASE ~(bpf \/ filterError # "none")
  <2>1. /\ ~active
        /\ \A i \in 1..Len(requests) : requests[i][1] # "start"
        /\ \A i \in 1..Len(replies) : replies[i][1] # "set_opt"
    BY <1>2 DEF OptionsInv
  <2>2. \A i \in 1..Len(requests') : requests'[i][1] # "start"
    BY <2>1, AnswerFacts
  <2>3. \A i \in 1..Len(replies') : replies'[i][1] # "set_opt"
    BY <2>1, AnswerFacts
  <2> QED  BY <2>1, <2>2, <2>3 DEF OptionsInv
<1> QED  BY <1>1, <1>2

\* A click or a close: one request that is not "start".
LEMMA ClickKeeps ==
    ASSUME Inv, NEW message \in Messages, message[1] # "start",
           requests' = Append(requests, message),
           UNCHANGED <<replies, serverVars, sourceVars>>,
           clicks' \in Calls, lastClick' \in {"none", "start", "stop"},
           raced' \in BOOLEAN, starting' \subseteq Calls \ {0}, closing' \in BOOLEAN
    PROVE  Inv'
<1>1. SourceType /\ ClientType /\ JoinInv /\ ThreadInv /\ CapturingIsActive /\ OptionsInv
  BY TypeParts DEF Inv
<1>2. /\ replies' = replies /\ serverPc' = serverPc /\ leaving' = leaving
      /\ capturing' = capturing /\ source' = source /\ active' = active
      /\ thread' = thread /\ bpf' = bpf /\ openFailed' = openFailed
      /\ filterError' = filterError
  BY DEF serverVars, sourceVars
<1>3. requests' \in Seq(Messages) /\ JoinInv'
  BY <1>1, <1>2, AppendRequest
<1>4. ClientType' /\ SourceType'
  BY <1>1, <1>2, <1>3 DEF ClientType, SourceType
<1>5. ThreadInv'
  BY <1>1, <1>2 DEF ThreadInv, NeverTerminates
<1>6. CapturingIsActive'
  BY <1>1, <1>2 DEF CapturingIsActive
<1>7. OptionsInv'
  BY <1>1, <1>2, AppendRequest DEF OptionsInv
<1> QED  BY <1>3, <1>4, <1>5, <1>6, <1>7, TypeParts DEF Inv

LEMMA ClientStepKeeps ==
    ASSUME Inv, ClickStart \/ ClickStop \/ ClickClose \/ Receive
    PROVE  Inv'
<1>t. SourceType /\ ClientType /\ JoinInv /\ ThreadInv /\ CapturingIsActive /\ OptionsInv
  BY TypeParts DEF Inv
<1>c. ASSUME NEW button \in {"start", "stop"}, Click(button)
      PROVE  /\ <<"stop", clicks + 1>> \in Messages
             /\ clicks + 1 \in Calls \ {0} /\ clicks' = clicks + 1
             /\ lastClick' = button /\ closing' = closing
             /\ UNCHANGED <<replies, serverVars, sourceVars>>
  <2>1. clicks \in Calls /\ clicks < MaxClicks
    BY <1>t, <1>c DEF Click, ClientType
  <2>2. clicks + 1 \in Calls \ {0}
    BY <2>1, ClicksAssumption DEF Calls
  <2> QED  BY <1>c, <2>2 DEF Click, Messages
<1>1. CASE ClickStop
  <2>1. Click("stop") /\ raced' = (starting # {}) /\ starting' = starting
        /\ requests' = Append(requests, <<"stop", clicks + 1>>)
    BY <1>1 DEF ClickStop
  <2>2. raced' \in BOOLEAN
    BY <2>1
  <2> QED  BY <1>t, <1>c, <2>1, <2>2, ClickKeeps DEF ClientType
<1>2. CASE ClickStart
  <2>1. Click("start") /\ raced' = FALSE /\ starting' = starting \cup {clicks + 1}
        /\ requests' = Append(requests, <<"stop", clicks + 1>>)
    BY <1>2 DEF ClickStart
  <2> QED  BY <1>t, <1>c, <2>1, ClickKeeps DEF ClientType
<1>3. CASE ClickClose
  <2>1. closing' = TRUE /\ requests' = Append(requests, <<"exit", 0>>)
        /\ UNCHANGED <<clicks, lastClick, raced, starting, replies, serverVars, sourceVars>>
    BY <1>3 DEF ClickClose
  <2>2. <<"exit", 0>> \in Messages
    BY ClicksAssumption DEF Messages, Calls
  <2> QED  BY <1>t, <2>1, <2>2, ClickKeeps DEF ClientType
<1>4. CASE Receive
  <2> DEFINE name == Head(replies)[1]
             call == Head(replies)[2]
             next == IF call \in starting THEN Following(name) ELSE "nothing"
  <2>1. /\ replies # <<>> /\ replies' = Tail(replies)
        /\ UNCHANGED <<clicks, lastClick, raced, closing, serverVars, sourceVars>>
        /\ \/ /\ next # "nothing"
              /\ requests' = Append(requests, <<next, call>>)
              /\ starting' = starting
           \/ /\ next = "nothing" /\ starting' = starting \ {call}
              /\ requests' = requests
    BY <1>4 DEF Receive
  <2>2. /\ serverPc' = serverPc /\ leaving' = leaving
        /\ capturing' = capturing /\ source' = source /\ active' = active
        /\ thread' = thread /\ bpf' = bpf /\ openFailed' = openFailed
        /\ filterError' = filterError
    BY <2>1 DEF serverVars, sourceVars
  <2>3. Head(replies) \in Messages /\ Head(replies) = replies[1] /\ 1 \in 1..Len(replies)
        /\ replies' \in Seq(Messages)
        /\ \A i \in 1..Len(replies') : \E j \in 1..Len(replies) : replies'[i] = replies[j]
    BY <1>t, <2>1, TailFacts DEF ClientType
  <2>4. next # "nothing" =>
           /\ next \in {"set_opt", "start"} /\ <<next, call>> \in Messages
           /\ next = "start" => name = "set_opt"
    BY <2>3 DEF Following, Messages
  <2>5. SourceType'
    BY <1>t, <2>2 DEF SourceType
  <2>6. ThreadInv' /\ CapturingIsActive'
    <3>1. ThreadInv'
      BY <1>t, <2>2 DEF ThreadInv, NeverTerminates
    <3>2. CapturingIsActive'
      BY <1>t, <2>2 DEF CapturingIsActive
    <3> QED  BY <3>1, <3>2
  <2>7. name = "set_opt" => bpf \/ filterError # "none"
    BY <1>t, <2>3 DEF OptionsInv
  <2> HIDE DEF name, call, next
  <2>8. CASE next # "nothing"
    <3>1. requests' = Append(requests, <<next, call>>) /\ starting' = starting
          /\ <<next, call>> \in Messages
      BY <2>1, <2>4, <2>8
    <3>2. requests' \in Seq(Messages) /\ JoinInv'
      BY <1>t, <2>2, <3>1, AppendRequest
    <3>3. ClientType'
      BY <1>t, <2>1, <2>3, <3>1, <3>2 DEF ClientType
    <3>4. OptionsInv'
      <4>1. CASE bpf \/ filterError # "none"
        BY <2>2, <4>1 DEF OptionsInv
      <4>2. CASE ~(bpf \/ filterError # "none")
        <5>1. next # "start"
          BY <2>4, <2>7, <2>8, <4>2
        <5>2. \A i \in 1..Len(requests') : requests'[i][1] # "start"
          BY <1>t, <3>1, <4>2, <5>1, AppendRequest DEF OptionsInv
        <5>3. \A i \in 1..Len(replies') : replies'[i][1] # "set_opt"
          BY <1>t, <2>3, <4>2 DEF OptionsInv
        <5> QED  BY <1>t, <2>2, <4>2, <5>2, <5>3 DEF OptionsInv
      <4> QED  BY <4>1, <4>2
    <3> QED  BY <2>5, <2>6, <3>2, <3>3, <3>4, TypeParts DEF Inv
  <2>9. CASE next = "nothing"
    <3>1. requests' = requests /\ starting' = starting \ {call}
      BY <2>1, <2>9
    <3>2. ClientType' /\ JoinInv'
      BY <1>t, <2>1, <2>2, <2>3, <3>1 DEF ClientType, JoinInv
    <3>3. OptionsInv'
      BY <1>t, <2>2, <2>3, <3>1 DEF OptionsInv
    <3> QED  BY <2>5, <2>6, <3>2, <3>3, TypeParts DEF Inv
  <2> QED  BY <2>8, <2>9
<1> QED  BY <1>1, <1>2, <1>3, <1>4

\* What the handling of a request leaves alone on the client's side.
LEMMA AnswerKeepsClient ==
    ASSUME ClientType, requests # <<>>, Answer, UNCHANGED clientVars
    PROVE  ClientType'
<1>1. requests' \in Seq(Messages) /\ replies' \in Seq(Messages)
  BY AnswerFacts
<1>2. clicks' = clicks /\ lastClick' = lastClick /\ raced' = raced
      /\ starting' = starting /\ closing' = closing
  BY DEF clientVars
<1> QED  BY <1>1, <1>2 DEF ClientType

LEMMA ServerStepKeeps ==
    ASSUME Inv, ServerStep
    PROVE  Inv'
<1>t. SourceType /\ ClientType /\ JoinInv /\ ThreadInv /\ CapturingIsActive /\ OptionsInv
  BY TypeParts DEF Inv
<1>1. CASE HandleSetOpt
  <2>1. /\ serverPc = "idle" /\ requests # <<>> /\ Head(requests)[1] = "set_opt"
        /\ SetFilter /\ Answer /\ UNCHANGED clientVars
        /\ serverPc' = serverPc /\ leaving' = leaving /\ capturing' = capturing
        /\ source' = source /\ active' = active /\ thread' = thread
        /\ openFailed' = openFailed
    BY <1>1 DEF HandleSetOpt, Asked, serverVars
  <2>2. ClientType'
    BY <1>t, <2>1, AnswerKeepsClient
  <2>3. bpf' \in BOOLEAN /\ filterError' \in {"none", "open", "compile"}
        /\ (active => bpf' = bpf /\ filterError' = filterError)
        /\ (~active => bpf' \/ filterError' # "none")
    BY <1>t, <2>1 DEF SetFilter, SourceType
  <2>4. SourceType' /\ JoinInv'
    BY <1>t, <2>1, <2>3 DEF SourceType, JoinInv
  <2>5. ThreadInv'
    BY <1>t, <2>1 DEF ThreadInv, NeverTerminates
  <2>6. CapturingIsActive'
    BY <1>t, <2>1 DEF CapturingIsActive
  <2>7. OptionsInv'
    <3>1. bpf' \/ filterError' # "none"
      BY <1>t, <2>3 DEF OptionsInv
    <3> QED  BY <3>1 DEF OptionsInv
  <2> QED  BY <2>2, <2>4, <2>5, <2>6, <2>7, TypeParts DEF Inv
<1>2. CASE HandleStart
  <2>1. /\ serverPc = "idle" /\ requests # <<>> /\ Head(requests)[1] = "start"
        /\ SourceStarts /\ Answer /\ UNCHANGED clientVars
        /\ leaving' = leaving /\ source' = source
        /\ bpf' = bpf /\ filterError' = filterError
    BY <1>2 DEF HandleStart, Asked
  <2>2. ClientType'
    BY <1>t, <2>1, AnswerKeepsClient
  <2>3. bpf \/ filterError # "none"
    <3>1. Head(requests) = requests[1] /\ 1 \in 1..Len(requests)
      BY <1>t, <2>1, TailFacts DEF ClientType
    <3> QED  BY <1>t, <2>1, <3>1 DEF OptionsInv
  <2>4. OptionsInv'
    BY <2>1, <2>3 DEF OptionsInv
  <2>5. CASE active
    <3>1. capturing' = StartedAlready /\ active' = active /\ thread' = thread
          /\ openFailed' = openFailed /\ serverPc' = serverPc
      BY <2>1, <2>5 DEF SourceStarts
    <3>2. SourceType' /\ JoinInv'
      BY <1>t, <2>1, <3>1 DEF SourceType, JoinInv, StartedAlready
    <3>3. ThreadInv'
      BY <1>t, <2>1, <3>1 DEF ThreadInv, NeverTerminates
    <3>4. CapturingIsActive'
      BY <2>1, <2>5, <3>1 DEF CapturingIsActive, StartedAlready
    <3> QED  BY <2>2, <2>4, <3>2, <3>3, <3>4, TypeParts DEF Inv
  <2>6. CASE ~active /\ openFailed' = TRUE
    <3>1. capturing' = FALSE /\ active' = active /\ thread' = thread
          /\ serverPc' = serverPc
      BY <2>1, <2>6 DEF SourceStarts
    <3>2. SourceType' /\ JoinInv'
      BY <1>t, <2>1, <2>6, <3>1 DEF SourceType, JoinInv
    <3>3. ThreadInv'
      BY <1>t, <2>1, <3>1 DEF ThreadInv, NeverTerminates
    <3>4. CapturingIsActive'
      BY <2>1, <2>6, <3>1 DEF CapturingIsActive
    <3> QED  BY <2>2, <2>4, <3>2, <3>3, <3>4, TypeParts DEF Inv
  <2>7. CASE ~active /\ openFailed' = FALSE
    <3>1. capturing' = TRUE /\ active' = TRUE /\ thread' = "running"
          /\ serverPc' = IF thread = "none" THEN "idle" ELSE "terminated"
      BY <2>1, <2>7 DEF SourceStarts
    <3>2. serverPc' = "idle"
      BY <1>t, <2>1, <2>7, <3>1 DEF ThreadInv
    <3>3. SourceType' /\ JoinInv'
      BY <1>t, <2>1, <2>7, <3>1, <3>2 DEF SourceType, JoinInv
    <3>4. ThreadInv'
      BY <3>1, <3>2 DEF ThreadInv, NeverTerminates
    <3>5. CapturingIsActive'
      BY <3>1 DEF CapturingIsActive
    <3> QED  BY <2>2, <2>4, <3>3, <3>4, <3>5, TypeParts DEF Inv
  <2> QED  BY <2>1, <2>5, <2>6, <2>7 DEF SourceStarts
<1>3. CASE HandleStop
  <2>1. /\ serverPc = "idle" /\ requests # <<>> /\ Head(requests)[1] = "stop"
        /\ UNCHANGED clientVars
        /\ leaving' = leaving /\ source' = source /\ thread' = thread
        /\ bpf' = bpf /\ openFailed' = openFailed /\ filterError' = filterError
    BY <1>3 DEF HandleStop, Asked
  <2>2. CASE ~active
    <3>1. capturing' = FALSE /\ Answer /\ active' = active /\ serverPc' = serverPc
      BY <1>3, <2>2 DEF HandleStop
    <3>2. ClientType'
      BY <1>t, <2>1, <3>1, AnswerKeepsClient
    <3>3. SourceType' /\ JoinInv'
      BY <1>t, <2>1, <3>1 DEF SourceType, JoinInv
    <3>4. ThreadInv'
      BY <1>t, <2>1, <3>1 DEF ThreadInv, NeverTerminates
    <3>5. CapturingIsActive'
      BY <2>2, <3>1 DEF CapturingIsActive
    <3>6. OptionsInv'
      BY <1>t, <2>1, <3>1, AnswerKeepsOptions
    <3> QED  BY <3>2, <3>3, <3>4, <3>5, <3>6, TypeParts DEF Inv
  <2>3. CASE active
    <3>1. active' = FALSE /\ serverPc' = "joining" /\ capturing' = capturing
          /\ requests' = requests /\ replies' = replies
      BY <1>3, <2>3 DEF HandleStop, socketVars
    <3>2. ClientType' /\ JoinInv'
      BY <1>t, <2>1, <3>1 DEF ClientType, JoinInv, clientVars
    <3>3. SourceType'
      BY <1>t, <2>1, <3>1 DEF SourceType
    <3>4. ThreadInv'
      BY <1>t, <2>1, <2>3, <3>1 DEF ThreadInv, NeverTerminates
    <3>5. CapturingIsActive'
      BY <3>1 DEF CapturingIsActive
    <3>6. OptionsInv'
      BY <1>t, <2>1, <2>3, <3>1 DEF OptionsInv
    <3> QED  BY <3>2, <3>3, <3>4, <3>5, <3>6, TypeParts DEF Inv
  <2> QED  BY <2>2, <2>3
<1>4. CASE JoinStopped
  <2>1. /\ serverPc = "joining" /\ thread' = "none" /\ serverPc' = "idle"
        /\ capturing' = FALSE /\ Answer /\ UNCHANGED clientVars
        /\ leaving' = leaving /\ source' = source /\ active' = active
        /\ bpf' = bpf /\ openFailed' = openFailed /\ filterError' = filterError
    BY <1>4 DEF JoinStopped
  <2>2. requests # <<>> /\ Head(requests)[1] = "stop" /\ ~active
    BY <1>t, <2>1 DEF JoinInv, ThreadInv
  <2>3. ClientType'
    BY <1>t, <2>1, <2>2, AnswerKeepsClient
  <2>4. SourceType' /\ JoinInv'
    BY <1>t, <2>1 DEF SourceType, JoinInv
  <2>5. ThreadInv'
    BY <2>1, <2>2 DEF ThreadInv, NeverTerminates
  <2>6. CapturingIsActive'
    BY <2>1, <2>2 DEF CapturingIsActive
  <2>7. OptionsInv'
    BY <1>t, <2>1, <2>2, AnswerKeepsOptions
  <2> QED  BY <2>3, <2>4, <2>5, <2>6, <2>7, TypeParts DEF Inv
<1>5. CASE HandleExit
  <2>1. /\ serverPc = "idle" /\ requests # <<>> /\ Head(requests)[1] = "exit"
        /\ Answer /\ leaving' = TRUE /\ UNCHANGED clientVars
        /\ serverPc' = serverPc /\ capturing' = capturing
        /\ source' = source /\ active' = active /\ thread' = thread
        /\ bpf' = bpf /\ openFailed' = openFailed /\ filterError' = filterError
    BY <1>5 DEF HandleExit, Asked, sourceVars
  <2>2. ClientType'
    BY <1>t, <2>1, AnswerKeepsClient
  <2>3. SourceType' /\ JoinInv'
    BY <1>t, <2>1 DEF SourceType, JoinInv
  <2>4. ThreadInv'
    BY <1>t, <2>1 DEF ThreadInv, NeverTerminates
  <2>5. CapturingIsActive'
    BY <1>t, <2>1 DEF CapturingIsActive
  <2>6. OptionsInv'
    BY <1>t, <2>1, AnswerKeepsOptions
  <2> QED  BY <2>2, <2>3, <2>4, <2>5, <2>6, TypeParts DEF Inv
<1>6. CASE Leave \/ JoinClosing
  <2>1. /\ UNCHANGED clientVars /\ requests' = requests /\ replies' = replies
        /\ leaving' = leaving /\ capturing' = capturing /\ source' = source
        /\ bpf' = bpf /\ openFailed' = openFailed /\ filterError' = filterError
        /\ serverPc' \in {"closing", "gone"}
        /\ ~active' /\ active' \in BOOLEAN
        /\ thread' \in {"none", "running", "ended"}
        /\ serverPc' = "closing" => thread' # "none"
        /\ serverPc' = "gone" => thread' = "none"
    <3>1. CASE Leave
      BY <1>t, <3>1 DEF Leave, socketVars, SourceType, ThreadInv
    <3>2. CASE JoinClosing
      BY <1>t, <3>2 DEF JoinClosing, socketVars, SourceType, ThreadInv
    <3> QED  BY <1>6, <3>1, <3>2
  <2>2. ClientType' /\ JoinInv'
    BY <1>t, <2>1 DEF ClientType, JoinInv, clientVars
  <2>3. SourceType'
    BY <1>t, <2>1 DEF SourceType
  <2>4. ThreadInv'
    BY <2>1 DEF ThreadInv, NeverTerminates
  <2>5. CapturingIsActive'
    BY <2>1 DEF CapturingIsActive
  <2>6. OptionsInv'
    BY <1>t, <2>1 DEF OptionsInv
  <2> QED  BY <2>2, <2>3, <2>4, <2>5, <2>6, TypeParts DEF Inv
<1> QED  BY <1>1, <1>2, <1>3, <1>4, <1>5, <1>6 DEF ServerStep

LEMMA OtherStepsKeep ==
    ASSUME Inv, ThreadStops \/ ThreadFails \/ UNCHANGED vars
    PROVE  Inv'
<1>t. SourceType /\ ClientType /\ JoinInv /\ ThreadInv /\ CapturingIsActive /\ OptionsInv
  BY TypeParts DEF Inv
<1>1. /\ UNCHANGED clientVars /\ requests' = requests /\ replies' = replies
      /\ serverPc' = serverPc /\ leaving' = leaving /\ capturing' = capturing
      /\ source' = source /\ active' = active /\ bpf' = bpf
      /\ openFailed' = openFailed /\ filterError' = filterError
      /\ thread' = thread \/ (thread = "running" /\ thread' = "ended")
  BY DEF ThreadStops, ThreadFails, vars, socketVars, serverVars, sourceVars
<1>2. ClientType' /\ JoinInv'
  BY <1>t, <1>1 DEF ClientType, JoinInv, clientVars
<1>3. SourceType'
  BY <1>t, <1>1 DEF SourceType
<1>4. ThreadInv'
  BY <1>t, <1>1 DEF ThreadInv, NeverTerminates
<1>5. CapturingIsActive'
  BY <1>t, <1>1 DEF CapturingIsActive
<1>6. OptionsInv'
  BY <1>t, <1>1 DEF OptionsInv
<1> QED  BY <1>2, <1>3, <1>4, <1>5, <1>6, TypeParts DEF Inv

LEMMA NextInv == Inv /\ [Next]_vars => Inv'
<1> SUFFICES ASSUME Inv, [Next]_vars  PROVE Inv'
  OBVIOUS
<1>1. CASE ClickStart \/ ClickStop \/ ClickClose \/ Receive
  BY <1>1, ClientStepKeeps
<1>2. CASE ServerStep
  BY <1>2, ServerStepKeeps
<1>3. CASE ThreadStops \/ ThreadFails \/ UNCHANGED vars
  BY <1>3, OtherStepsKeep
<1> QED  BY <1>1, <1>2, <1>3 DEF Next, Terminated

\* The invariant holds in every reachable state.
THEOREM Invariance == Spec => []Inv
BY InitInv, NextInv, PTL DEF Spec

-----------------------------------------------------------------------------
\* Every variable keeps its type, and the request being served by a join
\* stays at the head of the socket.
THEOREM TypeCorrect == Spec => []TypeOK
<1>1. Inv => TypeOK
  BY DEF Inv
<1> QED  BY <1>1, Invariance, PTL

\* Pcap::start never assigns to a thread that was not joined.
THEOREM NoTermination == Spec => []NeverTerminates
<1>1. Inv => NeverTerminates
  BY DEF Inv, ThreadInv
<1> QED  BY <1>1, Invariance, PTL

\* The flag that get_status reports is the state of the capture.
THEOREM FlagIsActive == Spec => []CapturingIsActive
<1>1. Inv => CapturingIsActive
  BY DEF Inv
<1> QED  BY <1>1, Invariance, PTL

\* After a stop was answered no capture thread runs.
THEOREM Quiet == Spec => []QuietWhenStopped
<1>1. Inv => QuietWhenStopped
  BY DEF Inv, ThreadInv, QuietWhenStopped
<1> QED  BY <1>1, Invariance, PTL

\* No capture runs without the session's filter unless the last setBPF that was
\* not refused has failed: the filter did not compile, or the device did not open.
THEOREM Filtered == Spec => []CaptureIsFiltered
<1>1. Inv => CaptureIsFiltered
  BY DEF Inv, TypeOK, OptionsInv, CaptureIsFiltered
<1> QED  BY <1>1, Invariance, PTL

-----------------------------------------------------------------------------
\* What is proved of a capture holds when a behaviour is one of either model:
\* the capture takes its steps or rests.
THEOREM CaptureRuns == ControlSpec => Spec
<1>1. ControlInit => Init
    BY DEF ControlInit
<1>2. [ControlNext]_allVars => [Next]_vars
    BY DEF ControlNext, allVars
<1> QED  BY <1>1, <1>2, PTL DEF ControlSpec, Spec

-----------------------------------------------------------------------------
(* The life of the helper. Time is left to a ping and to the watchdog's    *)
(* window, and both run down together, so what has to be shown is which of *)
(* the two is the shorter.                                                 *)

\* A client that has not connected has no ping under way. One that connects in
\* time finds most of the window left.
StartInv ==
    client = "starting" =>
        /\ flying = Life!Nothing /\ nextPing = Life!Nothing
        /\ since <= ConnectBound =>
              /\ watch # "stopping"
              /\ watch \in {"waiting", "woken"} => window + since >= WatchPeriod
              /\ server \in {"booting", "bound", "accepting"} => watch # "returned"

\* Only a pipe can be connected to before it is listened at.
BootInv == client = "alive" /\ server \in {"booting", "bound"} => ~posix

QuitInv == pingQuit <=> server \in {"notifying", "joining", "done"}

\* A client that connected in time, lives and does not ask for the end.
InTime ==
    /\ client = "alive" /\ ~exitAsked /\ since <= ConnectBound
    /\ server \in {"accepting", "reading"}

\* It has one ping at a time on the way, and the handler has seen one in this
\* window, or sees the one on the way, or the next, before the window is over.
PingInv ==
    InTime =>
        /\ watch \notin {"stopping", "returned"}
        /\ nextPing \in 0..PingPeriod
        /\ server = "accepting" => nextPing = PingPeriod /\ flying = Life!Nothing
        /\ server = "reading" => socket = "open"
        /\ flying = Life!Nothing \/ flying + PingPeriod - MaxDelay <= nextPing
        /\ watch \in {"waiting", "woken"} =>
              \/ pingReceived
              \/ flying # Life!Nothing /\ flying < window
              \/ nextPing + MaxDelay < window

\* What the destructor has waited and what it may still have to wait: a window
\* in which a ping was seen is followed by one more.
WaitInv ==
    /\ server \notin {"joining", "done"} => joinTime = 0
    /\ joinTime <= 2 * WatchPeriod
    /\ server = "joining" =>
          /\ watch = "arming" => IF pingReceived THEN joinTime = 0 ELSE joinTime <= WatchPeriod
          /\ watch \in {"waiting", "woken"} =>
                joinTime + window <= IF pingReceived THEN WatchPeriod ELSE 2 * WatchPeriod

\* The types, of the flags, of the threads and of the times.
FlagType ==
    /\ posix \in BOOLEAN /\ exitAsked \in BOOLEAN /\ interrupted \in BOOLEAN
    /\ pingReceived \in BOOLEAN /\ pingQuit \in BOOLEAN

PlaceType ==
    /\ client \in {"starting", "refused", "absent", "alive", "hung", "gone"}
    /\ server \in {"booting", "bound", "accepting", "reading", "left",
                   "notifying", "joining", "done", "killed"}
    /\ socket \in {"unset", "open", "shut"}
    /\ watch \in {"arming", "waiting", "woken", "stopping", "returned"}

ThreadType == FlagType /\ PlaceType

TimeType ==
    /\ since \in 0..(ConnectBound + 1)
    /\ nextPing \in {Life!Nothing} \cup 0..PingPeriod
    /\ flying \in {Life!Nothing} \cup 0..MaxDelay
    /\ window \in 0..WatchPeriod
    /\ spurious \in 0..MaxSpurious
    /\ joinTime \in Nat

LifeInv == ThreadType /\ TimeType /\ StartInv /\ BootInv /\ QuitInv /\ PingInv /\ WaitInv

LEMMA Periods ==
    /\ PingPeriod \in Nat /\ WatchPeriod \in Nat /\ MaxDelay \in Nat
    /\ ConnectBound \in Nat /\ MaxSpurious \in Nat
    /\ MaxDelay < PingPeriod
    /\ ConnectBound + PingPeriod + MaxDelay < WatchPeriod
    BY ControlAssumption DEF Life!PeriodsAssumption

LEMMA InitLifeInv ==
    ASSUME Life!Init PROVE LifeInv
<1> USE Periods DEF Life!Nothing
<1>1. ThreadType /\ TimeType
  <2>1. ThreadType
    <3>1. FlagType
        BY DEF Life!Init, FlagType
    <3>2. PlaceType
        BY DEF Life!Init, PlaceType
    <3> QED  BY <3>1, <3>2 DEF ThreadType
  <2>2. TimeType
      BY DEF Life!Init, TimeType
  <2> QED  BY <2>1, <2>2
<1>2. StartInv /\ BootInv /\ QuitInv /\ PingInv /\ WaitInv
    BY DEF Life!Init, StartInv, BootInv, QuitInv, InTime, PingInv, WaitInv
<1> QED  BY <1>1, <1>2 DEF LifeInv

LEMMA ClientLifeInv ==
    ASSUME LifeInv, Life!Connect \/ Life!SendPing \/ Life!Close \/ Life!Abandon
    PROVE  LifeInv'
<1> USE Periods DEF Life!Nothing
<1>t. /\ FlagType /\ PlaceType /\ TimeType
      /\ StartInv /\ BootInv /\ QuitInv /\ PingInv /\ WaitInv
    BY DEF LifeInv, ThreadType
<1>1. ThreadType' /\ TimeType'
  <2>1. ThreadType'
    <3>a. FlagType'
        BY <1>t DEF FlagType, Life!Connect, Life!SendPing, Life!Close, Life!Abandon,
               Life!clientVars, Life!serverVars, Life!watchVars, Life!pingVars
    <3>b. PlaceType'
        BY <1>t DEF PlaceType, Life!Connect, Life!SendPing, Life!Close, Life!Abandon,
               Life!clientVars, Life!serverVars, Life!watchVars, Life!pingVars
    <3> QED  BY <3>a, <3>b DEF ThreadType
  <2>2. TimeType'
      BY <1>t DEF TimeType, Life!Connect, Life!SendPing, Life!Close, Life!Abandon,
                  Life!clientVars, Life!serverVars, Life!watchVars, Life!pingVars
  <2> QED  BY <2>1, <2>2
<1>u. UNCHANGED <<posix, since, server, socket, interrupted, watch, window, spurious,
                  pingReceived, pingQuit, joinTime>>
    BY DEF Life!Connect, Life!SendPing, Life!Close, Life!Abandon,
           Life!clientVars, Life!serverVars, Life!watchVars, Life!pingVars
<1>2. QuitInv' /\ WaitInv'
    BY <1>t, <1>u DEF QuitInv, WaitInv
<1>3. CASE Life!Connect
  <2>1. StartInv' /\ BootInv'
      BY <1>t, <1>u, <1>3 DEF StartInv, BootInv, Life!Connect
  <2>2. PingInv'
      BY <1>t, <1>u, <1>3 DEF TimeType, StartInv, InTime, PingInv, Life!Connect
  <2> QED  BY <1>1, <1>2, <2>1, <2>2 DEF LifeInv
<1>4. CASE Life!SendPing
  <2>1. StartInv' /\ BootInv'
      BY <1>t, <1>u, <1>4 DEF StartInv, BootInv, Life!SendPing
  <2>2. PingInv'
      BY <1>t, <1>u, <1>4 DEF TimeType, InTime, PingInv, Life!SendPing
  <2> QED  BY <1>1, <1>2, <2>1, <2>2 DEF LifeInv
<1>5. CASE Life!Close \/ Life!Abandon
  <2>1. StartInv' /\ BootInv'
      BY <1>t, <1>u, <1>5 DEF StartInv, BootInv, Life!Close, Life!Abandon
  <2>2. PingInv'
      BY <1>t, <1>u, <1>5 DEF InTime, PingInv, Life!Close, Life!Abandon
  <2> QED  BY <1>1, <1>2, <2>1, <2>2 DEF LifeInv
<1> QED  BY <1>3, <1>4, <1>5

LEMMA ServerLifeInv ==
    ASSUME LifeInv, Life!ServerStep \/ Life!Interrupt
    PROVE  LifeInv'
<1> USE Periods DEF Life!Nothing
<1>t. /\ FlagType /\ PlaceType /\ TimeType
      /\ StartInv /\ BootInv /\ QuitInv /\ PingInv /\ WaitInv
    BY DEF LifeInv, ThreadType
<1>u. UNCHANGED <<posix, client, since, nextPing, exitAsked, window, spurious, joinTime>>
    BY DEF Life!ServerStep, Life!Bind, Life!Listen, Life!Accept, Life!HandlePing, Life!HandleExit,
           Life!ReadFails, Life!Quit, Life!Notify, Life!Join, Life!Interrupt,
           Life!clientVars, Life!serverVars, Life!watchVars, Life!pingVars
<1>f. flying' = flying \/ flying' = Life!Nothing
    BY DEF Life!ServerStep, Life!Bind, Life!Listen, Life!Accept, Life!HandlePing, Life!HandleExit,
           Life!ReadFails, Life!Quit, Life!Notify, Life!Join, Life!Interrupt,
           Life!clientVars, Life!serverVars, Life!watchVars, Life!pingVars
<1>1. TimeType'
    BY <1>t, <1>u, <1>f DEF TimeType
<1>2. CASE Life!Bind \/ Life!Listen \/ Life!Interrupt
  <2>1. /\ UNCHANGED <<flying, socket, watch, pingReceived, pingQuit>>
        /\ \/ server = "booting" /\ server' \in {"bound", "left"} /\ UNCHANGED interrupted
           \/ /\ server = "bound" /\ server' \in {"accepting", "left"} /\ UNCHANGED interrupted
              /\ ~posix /\ client = "alive" => server' = "left"
           \/ server' = server /\ interrupted' = TRUE
      BY <1>2 DEF Life!Bind, Life!Listen, Life!Interrupt, Life!Connected,
                  Life!clientVars, Life!serverVars, Life!watchVars, Life!pingVars
  <2>2. ThreadType'
    <3>1. server' \in {server, "bound", "accepting", "left"} /\ interrupted' \in {interrupted, TRUE}
        BY <2>1
    <3>2. interrupted' \in BOOLEAN
        BY <1>t, <3>1 DEF FlagType
    <3>3. FlagType'
        BY <1>t, <1>u, <2>1, <3>2 DEF FlagType
    <3>4. PlaceType'
        BY <1>t, <1>u, <2>1, <3>1 DEF PlaceType
    <3> QED  BY <3>3, <3>4 DEF ThreadType
  <2>3. StartInv' /\ BootInv' /\ QuitInv' /\ WaitInv'
      BY <1>t, <1>u, <2>1 DEF StartInv, BootInv, QuitInv, WaitInv
  <2>4. PingInv'
      BY <1>t, <1>u, <2>1 DEF FlagType, BootInv, InTime, PingInv
  <2> QED  BY <1>1, <2>2, <2>3, <2>4 DEF LifeInv
<1>3. CASE Life!Accept
  <2>1. /\ UNCHANGED <<flying, interrupted, watch, pingReceived, pingQuit>> /\ server = "accepting"
        /\ \/ server' = "reading" /\ socket' = "open" /\ client # "starting"
           \/ server' = "left" /\ UNCHANGED socket
      BY <1>3 DEF Life!Accept, Life!Connected, Life!clientVars, Life!watchVars, Life!pingVars
  <2>2. ThreadType'
    <3>a. FlagType'
        BY <1>t, <1>u, <2>1 DEF FlagType
    <3>b. PlaceType'
        BY <1>t, <1>u, <2>1 DEF PlaceType
    <3> QED  BY <3>a, <3>b DEF ThreadType
  <2>3. StartInv' /\ BootInv' /\ QuitInv' /\ WaitInv'
      BY <1>t, <1>u, <2>1 DEF StartInv, BootInv, QuitInv, WaitInv
  <2>4. PingInv'
      BY <1>t, <1>u, <2>1 DEF InTime, PingInv
  <2> QED  BY <1>1, <2>2, <2>3, <2>4 DEF LifeInv
<1>4. CASE Life!HandlePing
  <2>1. /\ UNCHANGED <<socket, watch, pingQuit>> /\ server = "reading" /\ interrupted' \in {FALSE, interrupted}
        /\ server' \in {"reading", "left", "killed"} /\ flying' = Life!Nothing /\ pingReceived' = TRUE
      BY <1>4 DEF Life!HandlePing, Life!Reads, Life!AfterRequest, Life!watchVars
  <2>2. ThreadType'
    <3>a. FlagType'
        BY <1>t, <1>u, <2>1 DEF FlagType
    <3>b. PlaceType'
        BY <1>t, <1>u, <2>1 DEF PlaceType
    <3> QED  BY <3>a, <3>b DEF ThreadType
  <2>3. StartInv' /\ BootInv' /\ QuitInv' /\ WaitInv'
      BY <1>t, <1>u, <2>1 DEF StartInv, BootInv, QuitInv, WaitInv
  <2>4. PingInv'
      BY <1>t, <1>u, <2>1 DEF InTime, PingInv
  <2> QED  BY <1>1, <2>2, <2>3, <2>4 DEF LifeInv
<1>5. CASE Life!HandleExit
  <2>1. /\ UNCHANGED <<flying, interrupted, watch, pingReceived, pingQuit>> /\ server = "reading"
        /\ server' \in {"reading", "left", "killed"} /\ socket' = "shut" /\ exitAsked = TRUE
      BY <1>5, <1>t DEF Life!HandleExit, Life!Reads, Life!AfterRequest, FlagType,
                  Life!clientVars, Life!watchVars, Life!pingVars
  <2>2. ThreadType'
    <3>a. FlagType'
        BY <1>t, <1>u, <2>1 DEF FlagType
    <3>b. PlaceType'
        BY <1>t, <1>u, <2>1 DEF PlaceType
    <3> QED  BY <3>a, <3>b DEF ThreadType
  <2>3. StartInv' /\ BootInv' /\ QuitInv' /\ WaitInv'
      BY <1>t, <1>u, <2>1 DEF StartInv, BootInv, QuitInv, WaitInv
  <2>4. PingInv'
      BY <1>u, <2>1 DEF InTime, PingInv
  <2> QED  BY <1>1, <2>2, <2>3, <2>4 DEF LifeInv
<1>6. CASE Life!ReadFails \/ Life!Quit \/ Life!Join
  <2>1. /\ UNCHANGED <<flying, socket, interrupted, watch, pingReceived>>
        /\ \/ server = "reading" /\ server' = "left" /\ pingQuit' = pingQuit
           \/ server = "left" /\ server' = "notifying" /\ pingQuit' = TRUE
           \/ server = "joining" /\ server' = "done" /\ pingQuit' = pingQuit
      BY <1>6 DEF Life!ReadFails, Life!Quit, Life!Join,
                  Life!clientVars, Life!watchVars, Life!pingVars
  <2>2. ThreadType'
    <3>a. FlagType'
        BY <1>t, <1>u, <2>1 DEF FlagType
    <3>b. PlaceType'
        BY <1>t, <1>u, <2>1 DEF PlaceType
    <3> QED  BY <3>a, <3>b DEF ThreadType
  <2>3. StartInv' /\ BootInv' /\ QuitInv' /\ WaitInv'
      BY <1>t, <1>u, <2>1 DEF StartInv, BootInv, QuitInv, WaitInv
  <2>4. PingInv'
      BY <2>1 DEF InTime, PingInv
  <2> QED  BY <1>1, <2>2, <2>3, <2>4 DEF LifeInv
<1>7. CASE Life!Notify
  <2>1. /\ UNCHANGED <<flying, socket, interrupted, pingReceived, pingQuit>>
        /\ server = "notifying" /\ server' = "joining"
        /\ watch' = IF watch = "waiting" THEN "woken" ELSE watch
      BY <1>7 DEF Life!Notify, Life!clientVars, Life!pingVars
  <2>2. ThreadType'
    <3>a. FlagType'
        BY <1>t, <1>u, <2>1 DEF FlagType
    <3>b. PlaceType'
        BY <1>t, <1>u, <2>1 DEF PlaceType
    <3> QED  BY <3>a, <3>b DEF ThreadType
  <2>3. StartInv' /\ BootInv' /\ QuitInv'
      BY <1>t, <1>u, <2>1 DEF StartInv, BootInv, QuitInv
  <2>4. WaitInv'
      BY <1>t, <1>u, <2>1 DEF TimeType, WaitInv
  <2>5. PingInv'
      BY <2>1 DEF InTime, PingInv
  <2> QED  BY <1>1, <2>2, <2>3, <2>4, <2>5 DEF LifeInv
<1> QED  BY <1>2, <1>3, <1>4, <1>5, <1>6, <1>7 DEF Life!ServerStep

\* A window that is over has seen a ping, if the client pings.
LEMMA WatchLifeInv ==
    ASSUME LifeInv, Life!WatchStep \/ Life!Spurious
    PROVE  LifeInv'
<1> USE Periods DEF Life!Nothing
<1>t. /\ FlagType /\ PlaceType /\ TimeType
      /\ StartInv /\ BootInv /\ QuitInv /\ PingInv /\ WaitInv
    BY DEF LifeInv, ThreadType
<1>u. UNCHANGED <<posix, client, since, nextPing, flying, exitAsked, interrupted, pingQuit, joinTime>>
    BY DEF Life!WatchStep, Life!Arm, Life!Timeout, Life!StopServer, Life!Woken, Life!Spurious,
           Life!clientVars, Life!serverVars, Life!watchVars, Life!pingVars
<1>1. CASE Life!Arm
  <2>1. /\ UNCHANGED <<server, socket, spurious, pingReceived>>
        /\ watch = "arming" /\ watch' = "waiting" /\ window' = WatchPeriod
      BY <1>1 DEF Life!Arm, Life!serverVars, Life!pingVars
  <2>2. ThreadType' /\ TimeType'
    <3>a. FlagType'
        BY <1>t, <1>u, <2>1 DEF FlagType
    <3>b. PlaceType'
        BY <1>t, <1>u, <2>1 DEF PlaceType
    <3>c. TimeType'
        BY <1>t, <1>u, <2>1 DEF TimeType
    <3> QED  BY <3>a, <3>b, <3>c DEF ThreadType
  <2>3. StartInv' /\ BootInv' /\ QuitInv'
      BY <1>t, <1>u, <2>1 DEF TimeType, StartInv, BootInv, QuitInv
  <2>4. WaitInv'
      BY <1>t, <1>u, <2>1 DEF FlagType, PlaceType, TimeType, WaitInv
  <2>5. PingInv'
      BY <1>t, <1>u, <2>1 DEF TimeType, InTime, PingInv
  <2> QED  BY <2>2, <2>3, <2>4, <2>5 DEF LifeInv
<1>2. CASE Life!Timeout
  <2>1. /\ UNCHANGED <<server, socket, window, spurious>>
        /\ watch \in {"waiting", "woken"} /\ window = 0 /\ pingReceived' = FALSE
        /\ watch' = IF pingReceived THEN "arming" ELSE "stopping"
      BY <1>2 DEF Life!Timeout, Life!serverVars
  <2>2. ThreadType' /\ TimeType'
    <3>1. watch' \in {"arming", "stopping"} /\ pingReceived' \in BOOLEAN
        BY <2>1
    <3>2. ThreadType'
      <4>a. FlagType'
          BY <1>t, <1>u, <2>1, <3>1 DEF FlagType
      <4>b. PlaceType'
          BY <1>t, <1>u, <2>1, <3>1 DEF PlaceType
      <4> QED  BY <4>a, <4>b DEF ThreadType
    <3>3. TimeType'
        BY <1>t, <1>u, <2>1 DEF TimeType
    <3> QED  BY <3>2, <3>3
  <2>3. StartInv' /\ BootInv' /\ QuitInv'
      BY <1>t, <1>u, <2>1 DEF TimeType, StartInv, BootInv, QuitInv
  <2>4. WaitInv'
      BY <1>t, <1>u, <2>1 DEF FlagType, PlaceType, TimeType, WaitInv
  <2>5. PingInv'
      BY <1>t, <1>u, <2>1 DEF TimeType, InTime, PingInv
  <2> QED  BY <2>2, <2>3, <2>4, <2>5 DEF LifeInv
<1>3. CASE Life!StopServer
  <2>1. /\ UNCHANGED <<window, spurious, pingReceived>>
        /\ watch = "stopping" /\ watch' = "returned"
        /\ socket' \in {socket, "shut"}
        /\ server' = server \/ (server = "accepting" /\ server' = "left")
      BY <1>3 DEF Life!StopServer, Life!Stop, Life!StopSocket, Life!StopPipe, Life!pingVars
  <2>2. ThreadType' /\ TimeType'
    <3>a. FlagType'
        BY <1>t, <1>u, <2>1 DEF FlagType
    <3>b. PlaceType'
        BY <1>t, <1>u, <2>1 DEF PlaceType
    <3>c. TimeType'
        BY <1>t, <1>u, <2>1 DEF TimeType
    <3> QED  BY <3>a, <3>b, <3>c DEF ThreadType
  <2>3. StartInv' /\ BootInv' /\ QuitInv' /\ WaitInv'
      BY <1>t, <1>u, <2>1 DEF StartInv, BootInv, QuitInv, WaitInv
  <2>4. PingInv'
      BY <1>t, <1>u, <2>1 DEF InTime, PingInv
  <2> QED  BY <2>2, <2>3, <2>4 DEF LifeInv
<1>4. CASE Life!Woken \/ Life!Spurious
  <2>1. /\ UNCHANGED <<server, socket, window, pingReceived>>
        /\ \/ /\ watch = "woken" /\ watch' = IF pingQuit THEN "returned" ELSE "arming"
              /\ spurious' = spurious
           \/ /\ watch = "waiting" /\ watch' = "woken"
              /\ spurious < MaxSpurious /\ spurious' = spurious + 1
      BY <1>4 DEF Life!Woken, Life!Spurious, Life!serverVars, Life!pingVars
  <2>2. ThreadType'
    <3>a. FlagType'
        BY <1>t, <1>u, <2>1 DEF FlagType
    <3>b. PlaceType'
        BY <1>t, <1>u, <2>1 DEF PlaceType
    <3> QED  BY <3>a, <3>b DEF ThreadType
  <2>3. TimeType'
      BY <1>t, <1>u, <2>1 DEF TimeType
  <2>4. StartInv' /\ BootInv' /\ QuitInv' /\ WaitInv'
      BY <1>t, <1>u, <2>1 DEF PlaceType, StartInv, BootInv, QuitInv, WaitInv
  <2>5. PingInv'
      BY <1>t, <1>u, <2>1 DEF PlaceType, QuitInv, InTime, PingInv
  <2> QED  BY <2>2, <2>3, <2>4, <2>5 DEF LifeInv
<1> QED  BY <1>1, <1>2, <1>3, <1>4 DEF Life!WatchStep

\* The ping and the window run down together.
LEMMA TickLifeInv ==
    ASSUME LifeInv, Life!Tick
    PROVE  LifeInv'
<1> USE Periods DEF Life!Nothing
<1>t. /\ FlagType /\ PlaceType /\ TimeType
      /\ StartInv /\ BootInv /\ QuitInv /\ PingInv /\ WaitInv
    BY DEF LifeInv, ThreadType
<1>u. UNCHANGED <<posix, client, exitAsked, server, socket, interrupted, watch, spurious,
                  pingReceived, pingQuit>>
    BY DEF Life!Tick, Life!serverVars, Life!pingVars
<1>w. /\ server # "done"
      /\ (watch = "waiting" /\ window > 0) \/ (watch = "returned" /\ server # "joining")
      /\ window' = Life!Less(window)
      /\ joinTime' = IF server = "joining" THEN joinTime + 1 ELSE joinTime
      /\ since' = IF client = "starting" /\ since <= ConnectBound THEN since + 1 ELSE since
    BY DEF Life!Tick
<1>p. /\ nextPing' = Life!Less(nextPing) /\ flying' = Life!Less(flying)
      /\ ~(server = "accepting" /\ client = "alive")
      /\ ~(client = "alive" /\ nextPing = 0)
      /\ server = "reading" /\ socket = "open" => flying # 0
    BY DEF Life!Tick, Life!Reads, Life!Connected
<1>1. ThreadType' /\ TimeType'
  <2>a. FlagType'
      BY <1>t, <1>u, <1>w, <1>p DEF FlagType
  <2>b. PlaceType'
      BY <1>t, <1>u, <1>w, <1>p DEF PlaceType
  <2>c. TimeType'
      BY <1>t, <1>u, <1>w, <1>p DEF TimeType, Life!Less
  <2> QED  BY <2>a, <2>b, <2>c DEF ThreadType
<1>2. StartInv' /\ BootInv' /\ QuitInv'
    BY <1>t, <1>u, <1>w, <1>p DEF TimeType, StartInv, BootInv, QuitInv, Life!Less
<1>3. PingInv'
    BY <1>t, <1>u, <1>w, <1>p DEF TimeType, InTime, PingInv, Life!Less
<1>4. WaitInv'
    BY <1>t, <1>u, <1>w DEF FlagType, PlaceType, TimeType, WaitInv, Life!Less
<1> QED  BY <1>1, <1>2, <1>3, <1>4 DEF LifeInv

LEMMA NextLifeInv ==
    ASSUME LifeInv, [Life!Next]_lifeVars
    PROVE  LifeInv'
<1>1. CASE UNCHANGED lifeVars \/ Life!Terminated
  <2>1. UNCHANGED lifeVars
      BY <1>1 DEF Life!Terminated, Life!vars, Life!clientVars, Life!serverVars, Life!watchVars,
                  Life!pingVars, lifeVars
  <2> QED  BY <2>1 DEF lifeVars, LifeInv, ThreadType, FlagType, PlaceType, TimeType,
                       StartInv, BootInv, QuitInv, InTime, PingInv, WaitInv
<1> QED  BY <1>1, ClientLifeInv, ServerLifeInv, WatchLifeInv, TickLifeInv DEF Life!Next

\* The watchdog cuts off no client that connected in time, lives and has not
\* asked for the end, whatever the phases and delays of its pings and the
\* watchdog's spurious wake-ups, and the destructor waits for the watchdog for
\* two windows at most, although its notification may be lost: for any periods
\* of the ping and the watchdog that leave room for one ping in a window.
THEOREM WatchdogSound == ControlSpec => []WatchdogIsSound
<1> DEFINE LifeIfAlive == part = "life" => LifeInv
<1>1. ControlInit => LifeIfAlive
    BY InitLifeInv DEF ControlInit
<1>2. LifeIfAlive /\ [ControlNext]_allVars => LifeIfAlive'
  <2> SUFFICES ASSUME LifeIfAlive, [ControlNext]_allVars, part' = "life" PROVE LifeInv'
      OBVIOUS
  <2>1. part = "life" /\ [Life!Next]_lifeVars
      BY DEF ControlNext, allVars
  <2> QED  BY <2>1, NextLifeInv
<1>3. LifeIfAlive => WatchdogIsSound
  <2> SUFFICES ASSUME LifeInv PROVE Life!TypeOK /\ Life!NoFalseAlarm /\ Life!JoinIsBounded
      BY DEF WatchdogIsSound
  <2>1. Life!TypeOK
    <3>1. ThreadType /\ TimeType
        BY DEF LifeInv
    <3> QED  BY <3>1 DEF ThreadType, FlagType, PlaceType, TimeType, Life!TypeOK
  <2>2. Life!NoFalseAlarm
      BY Periods DEF LifeInv, TimeType, InTime, PingInv, Life!NoFalseAlarm
  <2>3. Life!JoinIsBounded
      BY DEF LifeInv, WaitInv, Life!JoinIsBounded
  <2> QED  BY <2>1, <2>2, <2>3
<1> QED  BY <1>1, <1>2, <1>3, PTL DEF ControlSpec
=============================================================================
