----------------------------- MODULE StdioGuard -----------------------------
(***************************************************************************)
(* The descriptors of the billing server's process: how                    *)
(* reserve_stdout_for_protocol of stdio_guard.py takes descriptor 1 away   *)
(* from everybody but the transport, and who writes where from then on.    *)
(*                                                                         *)
(* Descriptor 1 is the pipe to the client when the process starts, and 2   *)
(* is stderr.  server.py calls the guard before it imports anything, so    *)
(* what may have been printed earlier is the interpreter's own start-up.   *)
(* Every call of the operating system is a step of its own and may fail.   *)
(* Afterwards any import, library or child may write at any time; chaos    *)
(* mode (emit_chaos) is one such sequence.  Bytes are kinds: "early",      *)
(* printed before the guard ran, which may reach either side; "frame", of  *)
(* the transport; "stray", all others, welcome on stderr and nowhere else. *)
(***************************************************************************)
VARIABLES
    disabled,      \* BILLING_MCP_DISABLE_GUARD is set
    step,          \* how far the process is
    fd,            \* the open descriptors, and what each is open on
    inheritable,   \* the descriptors that survive an exec
    out,           \* the descriptor sys.stdout writes to
    pending,       \* what is in the buffer of the original sys.stdout
    children,      \* what the descriptors of running children are open on
    client,        \* the kinds, other than early, that reached the client
    logged         \* the kinds, other than early and stray, that reached stderr

guardVars == <<disabled, step, fd, inheritable, out, pending, children, client, logged>>

Targets == {"client", "stderr"}
Kinds == {"early", "frame", "stray"}
Descriptors == {"1", "2", "wire", "diverted"}
Steps == {"start", "flushed", "duplicated", "diverted", "rebuilt", "reserved",
          "serving", "exited"}

GuardInit ==
    /\ disabled \in BOOLEAN
    /\ step = "start"
    /\ fd = [d \in {"1", "2"} |-> IF d = "1" THEN "client" ELSE "stderr"]
    /\ inheritable = {"1", "2"}
    /\ out = "1"
    /\ pending = {} /\ children = {} /\ client = {} /\ logged = {}

(* Bytes of these kinds are written to what a descriptor is open on.       *)
Written(target, kinds) ==
    /\ client' = IF target = "client" THEN client \cup (kinds \ {"early"}) ELSE client
    /\ logged' = IF target = "stderr" THEN logged \cup (kinds \cap {"frame"}) ELSE logged

(* The process ends, and the interpreter flushes what is still buffered.   *)
Over ==
    /\ step' = "exited"
    /\ Written(fd["1"], pending)
    /\ pending' = {}
    /\ UNCHANGED <<disabled, fd, inheritable, out, children>>

----------------------------------------------------------------------------
(* reserve_stdout_for_protocol.                                            *)

At(from, to) == step = from /\ step' = to

EarlyPrint ==
    /\ step = "start"
    /\ pending' = pending \cup {"early"}
    /\ UNCHANGED <<disabled, step, fd, inheritable, out, children, client, logged>>

(* The escape hatch: sys.stdout itself is the protocol's stream.           *)
Skip ==
    /\ disabled
    /\ At("start", "reserved")
    /\ UNCHANGED <<disabled, fd, inheritable, out, pending, children, client, logged>>

Flush ==
    /\ ~disabled
    /\ At("start", "flushed")
    /\ Written(fd["1"], pending)
    /\ pending' = {}
    /\ UNCHANGED <<disabled, fd, inheritable, out, children>>

(* The exception is swallowed; the bytes stay in the buffer.               *)
FlushFails ==
    /\ ~disabled
    /\ At("start", "flushed")
    /\ UNCHANGED <<disabled, fd, inheritable, out, pending, children, client, logged>>

(* os.dup(1), onto a new descriptor.                                       *)
Dup(new) == [d \in DOMAIN fd \cup {new} |-> IF d = new THEN fd["1"] ELSE fd[d]]

(* Mutation of Private: the duplicate survives an exec.                    *)
PrivateNot(opened) == inheritable \cup opened

(* os.dup leaves the duplicate uninheritable and set_inheritable says so.  *)
Private(opened) == inheritable \ opened

DupWire ==
    /\ At("flushed", "duplicated")
    /\ fd' = Dup("wire")
    /\ inheritable' = Private({"wire"})
    /\ UNCHANGED <<disabled, out, pending, children, client, logged>>

(* Mutations of Diverted: descriptor 1 is left where it is, or the wire is *)
(* diverted with it.                                                       *)
DivertedNot == fd
DivertedAll == [d \in DOMAIN fd |-> fd["2"]]

Diverted == [fd EXCEPT !["1"] = fd["2"]]

(* os.dup2(2, 1), which leaves descriptor 1 inheritable.                   *)
Divert ==
    /\ At("duplicated", "diverted")
    /\ fd' = Diverted
    /\ UNCHANGED <<disabled, inheritable, out, pending, children, client, logged>>

(* sys.stdout, rebuilt without a buffer on a duplicate of descriptor 1.    *)
Rebuild ==
    /\ At("diverted", "rebuilt")
    /\ fd' = Dup("diverted")
    /\ out' = "diverted"
    /\ UNCHANGED <<disabled, inheritable, pending, children, client, logged>>

FallBack ==
    /\ At("diverted", "rebuilt")
    /\ out' = "2"
    /\ UNCHANGED <<disabled, fd, inheritable, pending, children, client, logged>>

Return ==
    /\ At("rebuilt", "reserved")
    /\ UNCHANGED <<disabled, fd, inheritable, out, pending, children, client, logged>>

(* Mutation of Fails: a failing call of the operating system is passed     *)
(* over, and the server serves without the guard.                          *)
FailsOpen ==
    /\ At("flushed", "reserved")
    /\ fd' = Dup("wire")
    /\ UNCHANGED <<disabled, inheritable, out, pending, children, client, logged>>

(* os.dup or os.dup2 raises OSError: nobody catches it, and the import of  *)
(* server.py fails.                                                        *)
Fails ==
    /\ step \in {"flushed", "duplicated"}
    /\ Over

----------------------------------------------------------------------------
(* The rest of the process.                                                *)

(* main: stdio_server and server.run.                                      *)
Serve ==
    /\ At("reserved", "serving")
    /\ UNCHANGED <<disabled, fd, inheritable, out, pending, children, client, logged>>

Running == step \in {"reserved", "serving"}

(* print(): through sys.stdout, which has a buffer unless it was rebuilt.  *)
PrintLine ==
    /\ Running
    /\ IF out = "1" THEN /\ pending' = pending \cup {"stray"}
                         /\ UNCHANGED <<client, logged>>
                    ELSE /\ Written(fd[out], {"stray"})
                         /\ UNCHANGED pending
    /\ UNCHANGED <<disabled, step, fd, inheritable, out, children>>

(* A library that writes to descriptor 1 itself.                           *)
RawWrite ==
    /\ Running
    /\ Written(fd["1"], {"stray"})
    /\ UNCHANGED <<disabled, step, fd, inheritable, out, pending, children>>

(* A child is started, by Python or by a library that closes nothing.      *)
Spawn ==
    /\ Running
    /\ children' = children \cup {fd[d] : d \in inheritable}
    /\ UNCHANGED <<disabled, step, fd, inheritable, out, pending, client, logged>>

ChildWrites ==
    /\ \E target \in children : Written(target, {"stray"})
    /\ UNCHANGED <<disabled, step, fd, inheritable, out, pending, children>>

ChildrenEnd ==
    /\ children' = {}
    /\ UNCHANGED <<disabled, step, fd, inheritable, out, pending, client, logged>>

(* The transport writes a frame and flushes: the wire has no buffer; the   *)
(* original sys.stdout has one, and what was printed goes first.           *)
WriteFrame ==
    /\ step = "serving"
    /\ IF disabled THEN /\ Written(fd["1"], pending \cup {"frame"})
                        /\ pending' = {}
                   ELSE /\ Written(fd["wire"], {"frame"})
                        /\ UNCHANGED pending
    /\ UNCHANGED <<disabled, step, fd, inheritable, out, children>>

(* The client closes its end, or the process is interrupted.               *)
Exit == Running /\ Over

Reserve == \/ EarlyPrint \/ Skip \/ Flush \/ FlushFails \/ DupWire \/ Divert
           \/ Rebuild \/ FallBack \/ Return \/ Fails
Stray == PrintLine \/ RawWrite \/ Spawn \/ ChildWrites \/ ChildrenEnd

GuardNext == Reserve \/ Serve \/ Stray \/ WriteFrame \/ Exit

GuardSpec == GuardInit /\ [][GuardNext]_guardVars

----------------------------------------------------------------------------
GuardTypeOK ==
    /\ disabled \in BOOLEAN /\ step \in Steps
    /\ {"1", "2"} \subseteq DOMAIN fd /\ DOMAIN fd \subseteq Descriptors
    /\ \A d \in DOMAIN fd : fd[d] \in Targets
    /\ inheritable \subseteq DOMAIN fd /\ out \in DOMAIN fd
    /\ pending \subseteq Kinds /\ children \subseteq Targets
    /\ client \subseteq Kinds /\ logged \subseteq Kinds

(* Whatever the imports, the libraries and the children write, before the  *)
(* server serves, while it does and after it has gone, and whichever calls *)
(* of the operating system failed: nothing but the transport's frames, and *)
(* what was printed before the guard ran, reaches the client.              *)
PureWire == ~disabled => "stray" \notin client

(* The client reads end-of-file when the server has gone: no child that    *)
(* outlives it holds the pipe.                                             *)
HangUpSeen == ~disabled /\ step = "exited" => "client" \notin children

(* No frame is lost to stderr.                                             *)
FramesArrive == "frame" \notin logged

----------------------------------------------------------------------------
(* Why they hold: what each step leaves open on what.                      *)
GuardIInv ==
    /\ GuardTypeOK
    /\ fd["2"] = "stderr" /\ "frame" \notin pending
    /\ "wire" \in DOMAIN fd => fd["wire"] = "client" /\ "wire" \notin inheritable
    /\ disabled => fd["1"] = "client" /\ step \in {"start", "reserved", "serving", "exited"}
    /\ ~disabled =>
        /\ "diverted" \notin inheritable
        /\ "stray" \notin pending /\ "client" \notin children
        /\ step = "start" => fd["1"] = "client" /\ out = "1" /\ DOMAIN fd = {"1", "2"}
        /\ step = "flushed" => fd["1"] = "client" /\ DOMAIN fd = {"1", "2"}
        /\ step = "duplicated" => "wire" \in DOMAIN fd
        /\ step \in {"diverted", "rebuilt", "reserved", "serving"} =>
              "wire" \in DOMAIN fd /\ fd["1"] = "stderr"
        /\ step \in {"rebuilt", "reserved", "serving"} => out # "1" /\ fd[out] = "stderr"
    /\ PureWire /\ FramesArrive
=============================================================================
