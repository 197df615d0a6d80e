------------------------ MODULE BillingProcessProofs ------------------------
(***************************************************************************)
(* Proofs about the billing server as a process.  GuardIInv says what each *)
(* step of the guard leaves every descriptor open on; it is kept by every  *)
(* step of the process, and the promises about the wire follow.  What was  *)
(* proved of BillingServer carries over: a process with descriptors is a   *)
(* billing server.                                                         *)
(***************************************************************************)
EXTENDS BillingProcess, BillingServerProofs, TLAPS

LEMMA GuardInitInv == GuardInit => GuardIInv
BY DEF GuardInit, GuardIInv, GuardTypeOK, Targets, Kinds, Descriptors, Steps, PureWire,
       FramesArrive

(* A write adds kinds to what the client or stderr has seen, and nothing   *)
(* else; strays stay away from the client if they do not go there.         *)
LEMMA WrittenKinds ==
    ASSUME NEW target, NEW kinds, kinds \subseteq Kinds, Written(target, kinds),
           client \subseteq Kinds, logged \subseteq Kinds
    PROVE  /\ client' \subseteq Kinds /\ logged' \subseteq Kinds
           /\ "stray" \notin client /\ ~(target = "client" /\ "stray" \in kinds)
                 => "stray" \notin client'
           /\ "frame" \notin logged /\ ~(target = "stderr" /\ "frame" \in kinds)
                 => "frame" \notin logged'
BY DEF Written, Kinds
(* One step per system call of the guard, then one per writer.             *)
LEMMA GuardStep == GuardIInv /\ [GuardNext]_guardVars => GuardIInv'
<1> SUFFICES ASSUME GuardIInv, [GuardNext]_guardVars PROVE GuardIInv'
    OBVIOUS
<1> USE DEF GuardIInv, GuardTypeOK, PureWire, FramesArrive
<1>0. /\ pending \subseteq Kinds /\ {"frame"} \subseteq Kinds /\ {"stray"} \subseteq Kinds
      /\ pending \cup {"frame"} \subseteq Kinds
    BY DEF Kinds
<1>1. CASE EarlyPrint
    BY <1>1 DEF EarlyPrint, Kinds, Steps
<1>2. CASE Skip
    BY <1>2 DEF Skip, At, Steps
<1>3. CASE Flush
    BY <1>3, <1>0, WrittenKinds DEF Flush, At, Steps, Targets
<1>4. CASE FlushFails
    BY <1>4 DEF FlushFails, At, Steps
<1>5. CASE DupWire
    BY <1>5 DEF DupWire, Dup, Private, At, Steps, Descriptors
<1>6. CASE Divert
  <2>1. /\ DOMAIN fd' = DOMAIN fd /\ fd'["1"] = "stderr"
        /\ \A d \in DOMAIN fd : d # "1" => fd'[d] = fd[d]
      BY <1>6 DEF Divert, Diverted
  <2>2. step = "duplicated" /\ step' = "diverted" /\ step' \in Steps /\ "stderr" \in Targets
      BY <1>6 DEF Divert, At, Steps, Targets
  <2>3. ~disabled
      BY <2>2
  <2>4. UNCHANGED <<disabled, inheritable, out, pending, children, client, logged>>
      BY <1>6 DEF Divert
  <2> QED BY <2>1, <2>2, <2>3, <2>4
<1>7. CASE Rebuild
    BY <1>7 DEF Rebuild, Dup, At, Steps, Descriptors
<1>8. CASE FallBack
    BY <1>8 DEF FallBack, At, Steps
<1>9. CASE Return
    BY <1>9 DEF Return, At, Steps
<1>10. CASE Fails \/ Exit
  <2>1. Over /\ step \in {"flushed", "duplicated", "reserved", "serving"}
      BY <1>10 DEF Fails, Exit, Running
  <2>2. /\ client' \subseteq Kinds /\ logged' \subseteq Kinds
        /\ ~disabled => "stray" \notin client'
        /\ "frame" \notin logged'
      BY <2>1, WrittenKinds DEF Over
  <2>3. step' = "exited" /\ step' \in Steps /\ pending' = {}
      BY <2>1 DEF Over, Steps
  <2>4. UNCHANGED <<disabled, fd, inheritable, out, children>>
      BY <2>1 DEF Over
  <2> QED BY <2>2, <2>3, <2>4
<1>11. CASE Serve
    BY <1>11 DEF Serve, At, Steps
<1>12. CASE PrintLine
  <2>1. CASE out = "1"
    <3>1. disabled /\ "stray" \in Kinds
        BY <1>12, <2>1 DEF PrintLine, Running, Kinds
    <3>2. /\ pending' = pending \cup {"stray"}
          /\ UNCHANGED <<disabled, step, fd, inheritable, out, children, client, logged>>
        BY <1>12, <2>1 DEF PrintLine
    <3> QED BY <3>1, <3>2
  <2>2. CASE out # "1"
    <3>1. Written(fd[out], {"stray"}) /\ (~disabled => fd[out] = "stderr")
        BY <1>12, <2>2 DEF PrintLine, Running
    <3>2. /\ client' \subseteq Kinds /\ logged' \subseteq Kinds
          /\ ~disabled => "stray" \notin client'
          /\ "frame" \notin logged'
        BY <3>1, <1>0, WrittenKinds
    <3> QED BY <1>12, <2>2, <3>2 DEF PrintLine
  <2> QED BY <2>1, <2>2
<1>13. CASE RawWrite
    BY <1>13, <1>0, WrittenKinds DEF RawWrite, Running
<1>14. CASE Spawn
  <2>1. ~disabled => \A d \in inheritable : fd[d] = "stderr"
      BY <1>14 DEF Spawn, Running, Descriptors
  <2>2. {fd[d] : d \in inheritable} \subseteq Targets
      OBVIOUS
  <2>3. ~disabled => "client" \notin children'
      BY <1>14, <2>1 DEF Spawn
  <2>4. children' \subseteq Targets
      BY <1>14, <2>2 DEF Spawn
  <2>5. UNCHANGED <<disabled, step, fd, inheritable, out, pending, client, logged>>
      BY <1>14 DEF Spawn
  <2> QED BY <2>3, <2>4, <2>5
<1>15. CASE ChildWrites
    BY <1>15, <1>0, WrittenKinds DEF ChildWrites
<1>16. CASE ChildrenEnd
    BY <1>16 DEF ChildrenEnd
<1>17. CASE WriteFrame
    BY <1>17, <1>0, WrittenKinds DEF WriteFrame, Kinds
<1>18. CASE UNCHANGED guardVars
    BY <1>18 DEF guardVars
<1> QED BY <1>1, <1>2, <1>3, <1>4, <1>5, <1>6, <1>7, <1>8, <1>9, <1>10, <1>11, <1>12,
           <1>13, <1>14, <1>15, <1>16, <1>17, <1>18 DEF GuardNext, Reserve, Stray

(* A process is a guard and a billing server at once.                      *)
LEMMA ProcessStep == [ProcessNext]_processVars => [GuardNext]_guardVars /\ [Next]_vars
BY DEF ProcessNext, processVars, SendCall, AnswerCall, Meanwhile, GuardNext, Next

(* What is proved of BillingServer holds in the process: its steps are     *)
(* steps of the server or leave it as it is.                               *)
THEOREM ProcessIsServer == ProcessSpec => Spec
<1>1. ProcessInit => Init
    BY DEF ProcessInit
<1> QED BY <1>1, ProcessStep, PTL DEF ProcessSpec, Spec

(* What every descriptor is open on, at every point of the start and       *)
(* whatever fails or is written: GuardIInv of stdio_guard.py:54-120.       *)
THEOREM GuardInvariant == ProcessSpec => []GuardIInv
<1>1. ProcessInit => GuardIInv
    BY GuardInitInv DEF ProcessInit
<1> QED BY <1>1, GuardStep, ProcessStep, PTL DEF ProcessSpec

(* Nothing but frames reaches the client of a guarded process.             *)
THEOREM WireStaysPure == ProcessSpec => []PureWire
<1>1. GuardIInv => PureWire
    BY DEF GuardIInv
<1> QED BY <1>1, GuardInvariant, PTL

(* No child keeps the pipe of a guarded process open.                      *)
THEOREM ClientSeesHangUp == ProcessSpec => []HangUpSeen
<1>1. GuardIInv => HangUpSeen
    BY DEF GuardIInv, HangUpSeen
<1> QED BY <1>1, GuardInvariant, PTL

(* AnswersSeen needs the frames that were written counted with the answers.*)
LEMMA FramesStep == GuardIInv /\ IInv /\ AnswersSeen /\ [ProcessNext]_processVars => AnswersSeen'
<1> SUFFICES ASSUME GuardIInv, IInv, AnswersSeen, [ProcessNext]_processVars
             PROVE  AnswersSeen'
    OBVIOUS
<1>1. GuardIInv'
    BY ProcessStep, GuardStep
<1>2. CASE AnswerCall
  <2>1. DOMAIN answers' # {}
      BY <1>2 DEF AnswerCall, Handle, InvalidParams, GetRecord, Replay, Conflict, NotFound,
                  NotPermitted, Refund, Answer
  <2>2. "frame" \in client'
      BY <1>2 DEF AnswerCall, WriteFrame, Written, GuardIInv
  <2> QED BY <1>1, <2>1, <2>2 DEF AnswersSeen, GuardIInv, FramesArrive
<1>3. CASE SendCall \/ UNCHANGED processVars
    BY <1>3 DEF SendCall, Send, AnswersSeen, guardVars, processVars, vars
<1>4. CASE Meanwhile
  <2>1. UNCHANGED answers
      BY <1>4 DEF Meanwhile, vars
  <2>2. "frame" \in client' <=> "frame" \in client
      BY <1>4 DEF Meanwhile, Reserve, Serve, Stray, Exit, EarlyPrint, Skip, Flush, FlushFails,
                  DupWire, Divert, Rebuild, FallBack, Return, Fails, Over, PrintLine, RawWrite,
                  Spawn, ChildWrites, ChildrenEnd, Written, GuardIInv
  <2> QED BY <1>1, <2>1, <2>2 DEF AnswersSeen, GuardIInv, FramesArrive
<1> QED BY <1>2, <1>3, <1>4 DEF ProcessNext

(* The agent hears of every call that was answered.                        *)
THEOREM EveryAnswerSeen == ProcessSpec => []AnswersSeen
<1>1. ProcessInit => AnswersSeen
    BY DEF ProcessInit, Init, GuardInit, AnswersSeen
<1>2. ProcessSpec => []IInv
    BY ProcessIsServer, InvAlways, PTL
<1> QED BY <1>1, <1>2, GuardInvariant, FramesStep, PTL DEF ProcessSpec
=============================================================================
