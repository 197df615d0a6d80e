--------------------------- MODULE BillingProcess ---------------------------
(***************************************************************************)
(* The billing server as a process: the calls of BillingServer, answered   *)
(* over the descriptors of StdioGuard.  The agent may write its calls      *)
(* into the pipe while the process still starts; they are answered only    *)
(* when server.run reads them, an answer is a frame, and a process that    *)
(* has gone answers nothing more.  (A process that goes between the call   *)
(* and its frame takes the store with the answer, so one step is both.)    *)
(***************************************************************************)
EXTENDS BillingServer, StdioGuard

processVars == <<vars, guardVars>>

ProcessInit == Init /\ GuardInit

SendCall ==
    /\ step # "exited"
    /\ \E i \in Intents : Send(i)
    /\ UNCHANGED guardVars

(* call_tool returns or raises, and the session writes the response.       *)
AnswerCall == (\E c \in Calls : Handle(c)) /\ WriteFrame

(* Everything else that happens in the process leaves the store alone.     *)
Meanwhile == (Reserve \/ Serve \/ Stray \/ Exit) /\ UNCHANGED vars

ProcessNext == SendCall \/ AnswerCall \/ Meanwhile

ProcessSpec == ProcessInit /\ [][ProcessNext]_processVars

----------------------------------------------------------------------------
(* The agent hears of what was done: each answer's frame reached it, so no *)
(* refund was made whose answer went into the log, and it read no frame    *)
(* before the server had answered a call.                                  *)
AnswersSeen ==
    /\ (DOMAIN answers # {}) <=> ("frame" \in client)
    /\ "frame" \notin logged
=============================================================================
