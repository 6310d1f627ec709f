---------------------------- MODULE SocketListen ----------------------------
(***************************************************************************)
(* Several processes started with the same -n/--name: sandbox.Listen, the   *)
(* deferred listener.Close of run(), and crashes that leave the socket file *)
(* behind.  The processes share nothing but the path, and every system call *)
(* on it is one step.  The sockets and the file are external: bind makes a  *)
(* file or fails if there is one, a connect succeeds if the path names a    *)
(* socket on which listen was called, whose process lives and whose backlog *)
(* has room (EAGAIN otherwise), and Close of a Go UnixListener unlinks its  *)
(* path, whatever is there by then, before it closes the descriptor.        *)
(***************************************************************************)
CONSTANT Procs   \* processes started with this name

NoFile == "none"
ASSUME NoFileAssumption == NoFile \notin Procs

VARIABLES
    file,   \* what the path names: nothing, or the socket of a process
    pc,     \* where each process is; "off" and "failed" have exited
    \* History variables, which no guard reads.
    overlapped,  \* two startups have overlapped
    crowded,     \* a connect has failed because the backlog was full
    stopped      \* a process has finished or was killed

vars == <<file, pc, overlapped, crowded, stopped>>

Starting == {"dial", "remove", "bind", "listen"}
Leaving  == {"unlink", "closefd"}

\* Faulty variant: the descriptor is closed before the path is unlinked.
ListeningUntilFinish(p) == pc[p] = "serving"

\* The process has a socket on which listen was called.
Listening(p) == pc[p] \in {"serving"} \cup Leaving

\* net.Dial("unix", path) succeeds, unless the backlog is full.
Answers == file # NoFile /\ Listening(file)

Init ==
    /\ file = NoFile
    /\ pc = [p \in Procs |-> "off"]
    /\ overlapped = FALSE
    /\ crowded = FALSE
    /\ stopped = FALSE

Goto(p, label) == pc' = [pc EXCEPT ![p] = label]

history == <<overlapped, crowded, stopped>>

-----------------------------------------------------------------------------
(* Listen *)

Start(p) ==
    /\ pc[p] \in {"off", "failed"}
    /\ overlapped' = (overlapped \/ \E q \in Procs : pc[q] \in Starting)
    /\ Goto(p, "dial")
    /\ UNCHANGED <<file, crowded, stopped>>

\* A connection means that another instance is alive: Listen fails, and with
\* it the process.  None means that whatever file is there is left over.
Dial(p) ==
    /\ pc[p] = "dial"
    /\ Goto(p, IF Answers THEN "off" ELSE "remove")
    /\ UNCHANGED <<file, history>>

\* The connect is refused although the other instance is alive: its process
\* is stopped, or its Serve has ended, and nothing accepts.
DialCrowded(p) ==
    /\ pc[p] = "dial"
    /\ Answers
    /\ Goto(p, "remove")
    /\ crowded' = TRUE
    /\ UNCHANGED <<file, overlapped, stopped>>

\* Faulty variant: the left-over file stays.
RemoveNothing(p) ==
    /\ pc[p] = "remove"
    /\ Goto(p, "bind")
    /\ UNCHANGED <<file, history>>

\* os.Remove(path), whoever's the file is by now.
Remove(p) ==
    /\ pc[p] = "remove"
    /\ file' = NoFile
    /\ Goto(p, "bind")
    /\ UNCHANGED history

\* net.Listen, first system call: bind makes the file.
Bind(p) ==
    /\ pc[p] = "bind"
    /\ file = NoFile
    /\ file' = p
    /\ Goto(p, "listen")
    /\ UNCHANGED history

\* Faulty variant: the failed startup cleans the path up.
BindFailsAndRemoves(p) ==
    /\ pc[p] = "bind"
    /\ file # NoFile
    /\ file' = NoFile
    /\ Goto(p, "failed")
    /\ UNCHANGED history

\* bind fails, "address already in use", and so does Listen.
BindFails(p) ==
    /\ pc[p] = "bind"
    /\ file # NoFile
    /\ Goto(p, "failed")
    /\ UNCHANGED <<file, history>>

\* net.Listen, second system call.
ListenCall(p) ==
    /\ pc[p] = "listen"
    /\ Goto(p, "serving")
    /\ UNCHANGED <<file, history>>

-----------------------------------------------------------------------------
(* The end of a process *)

\* The guest has finished, and the deferred listener.Close begins.
Finish(p) ==
    /\ pc[p] = "serving"
    /\ stopped' = TRUE
    /\ Goto(p, "unlink")
    /\ UNCHANGED <<file, overlapped, crowded>>

\* listener.Close unlinks the path.
Unlink(p) ==
    /\ pc[p] = "unlink"
    /\ file' = NoFile
    /\ Goto(p, "closefd")
    /\ UNCHANGED history

\* listener.Close closes the descriptor, and the process exits.
CloseFd(p) ==
    /\ pc[p] = "closefd"
    /\ Goto(p, "off")
    /\ UNCHANGED <<file, history>>

\* The process is killed; the file stays.
Crash(p) ==
    /\ pc[p] \notin {"off", "failed"}
    /\ stopped' = TRUE
    /\ Goto(p, "off")
    /\ UNCHANGED <<file, overlapped, crowded>>

-----------------------------------------------------------------------------

ListenStep(p) ==
    Dial(p) \/ DialCrowded(p) \/ Remove(p) \/ Bind(p) \/ BindFails(p) \/ ListenCall(p)

Next ==
    \E p \in Procs :
        \/ Start(p) \/ ListenStep(p)
        \/ Finish(p) \/ Unlink(p) \/ CloseFd(p) \/ Crash(p)

Spec == Init /\ [][Next]_vars /\ \A p \in Procs : WF_vars(ListenStep(p))

-----------------------------------------------------------------------------
(* Properties *)

TypeOK ==
    /\ file \in Procs \cup {NoFile}
    /\ pc \in [Procs -> {"off", "failed", "serving"} \cup Starting \cup Leaving]
    /\ overlapped \in BOOLEAN
    /\ crowded \in BOOLEAN
    /\ stopped \in BOOLEAN

\* As long as no startups overlap and no backlog was full, a process that serves
\* is the one the path leads to: it can be reached, and since the path leads to
\* one process it is the only one.  The check, the removal and the bind are three
\* system calls of one process, and another's Close unlinks the path in between.
ServerReachable ==
    ~overlapped /\ ~crowded => \A p \in Procs : pc[p] = "serving" => file = p

\* As long as no startups overlap, a file never keeps a process from starting:
\* neither one left over nor that of an instance which does not accept.
NoStartFails == ~overlapped => \A p \in Procs : pc[p] # "failed"

\* However the startups interleave, as long as nobody stops, the name is
\* answered in the end: somebody's removal and bind come last.
NameServed == \A p \in Procs : pc[p] = "dial" ~> Answers \/ stopped

\* listener.go:17-20, and TestListen_rejectsWhenAlreadyListening: a second
\* Listen on an ID that is being listened on is an error.  A full backlog, which
\* lets another instance in by itself, is left out here: what is asked is
\* whether dial, remove and bind of two startups exclude each other.
OneServer ==
    ~crowded => \A p, q \in Procs : pc[p] = "serving" /\ pc[q] = "serving" => p = q
=============================================================================
