------------------------------- MODULE Sandbox -------------------------------
(***************************************************************************)
(* The life of one executable: it is built (module Stamp), perhaps over and *)
(* over, and then run: main() and run() of cmd/execsandbox/main.go from the *)
(* options to the exit code, with the guest reduced to the host calls it    *)
(* can be blocked in when the -t deadline passes.  wazero is                *)
(* external: with WithCloseOnContextDone, which RuntimeConfig asks for only *)
(* when -t is given, it ends a guest that is executing once the deadline    *)
(* has passed; it cannot end a host function.                               *)
(***************************************************************************)
EXTENDS Stamp, Options

CONSTANTS
    CommandLines,  \* the command lines of the program
    GuestCodes,    \* the codes a guest passes to proc_exit
    DeadlineCode,  \* sys.ExitCodeDeadlineExceeded, 0xefffffff
    Answered       \* the uncancelled host calls whose other side keeps up: a
                   \* peer or the reader of a pipe may be stopped, a terminal
                   \* left alone

TimeoutCode == 124   \* timeoutExitCode

ASSUME SandboxAssumption ==
    /\ CommandLines \subseteq
           Seq(Arguments({"n", "d", "e", "v", "m", "b", "f", "s", "l", "t", "a", "h"}))
    /\ GuestCodes \subseteq Nat
    /\ DeadlineCode \in Nat \ {0, 1, TimeoutCode}
    /\ Answered \subseteq {"send", "fd_read", "fd_write"}

VARIABLES
    args,     \* the command line
    opts,     \* what it was parsed to
    pc,       \* the next step of main() and run()
    pages,    \* the memory limit that wazero is given
    held,     \* what the deferred calls will close, in the order acquired
    guest,    \* what the guest is doing; a host call's name while in it (a
              \* module that is no wasm "runs" and fails at once)
    expired,  \* the deadline has passed
    ended,    \* how the guest ended: the code it chose, or another reason
    code,     \* the exit code that run() settles on
    exit      \* <<>> until os.Exit, then <<the exit code>>

runVars == <<args, opts, pc, pages, held, guest, expired, ended, code, exit>>
vars == <<buildVars, runVars>>

\* The host functions that can block: three of the four of RegisterHostModule,
\* and wazero's reads, writes and sleep (poll_oneoff).
HostCalls == {"recv", "send", "conn_write", "fd_read", "fd_write", "sleep"}
StartupSteps == {"open", "extract", "listen", "dest", "connlisten", "config",
                 "runtime", "register"}

Init ==
    /\ BuildInit
    /\ args = <<>>
    /\ opts = Defaults
    /\ pc = "parse"
    /\ pages = 0
    /\ held = <<>>
    /\ guest = "absent"
    /\ expired = FALSE
    /\ ended = <<"not">>
    /\ code = 0
    /\ exit = <<>>

-----------------------------------------------------------------------------
(* Building and starting *)

\* The file is written before it is run: a file that is being executed cannot
\* be opened for writing, nor one that is being written be executed.
Build == pc = "parse" /\ BuildStep /\ UNCHANGED runVars

\* main() accepts the options, or prints an error or the help text before
\* anything is opened.
Parse ==
    /\ pc = "parse"
    /\ build # "writing"
    /\ args' \in CommandLines
    /\ opts' = parseArgs(args')
    /\ IF ~opts'.err /\ ~opts'.help
       THEN pc' = "open" /\ UNCHANGED <<code, exit>>
       ELSE pc' = "exited" /\ code' = (IF opts'.err THEN 2 ELSE 0) /\ exit' = <<code'>>
    /\ UNCHANGED <<buildVars, pages, held, guest, expired, ended>>

\* One step of run() that succeeds, and the deferred calls it adds.
Passes(step, next, acquired) ==
    /\ pc = step
    /\ pc' = next
    /\ held' = held \o acquired
    /\ guest' = IF next = "guest" THEN "running" ELSE guest
    /\ UNCHANGED <<buildVars, args, opts, expired, ended, code, exit>>

\* RuntimeConfig: the step that fixes the memory limit.
Configure ==
    LET limit == MemoryLimitPages(opts.memLimit)
    IN  /\ ~limit.err
        /\ Passes("config", "runtime", <<>>)
        /\ pages' = limit.pages

Startup ==
    \/ /\ \/ Passes("open", "extract", <<"executable">>)
          \/ ExtractWASM(file).err = "nil" /\ Passes("extract", "listen", <<>>)
          \/ Passes("listen", "dest", IF opts.name # "" THEN <<"listener">> ELSE <<>>)
          \/ Passes("dest", "connlisten", <<"destTable">>)
          \/ Passes("connlisten", "config",
                    IF opts.listen # NoListen THEN <<"connListener", "connTable">> ELSE <<>>)
          \/ Passes("runtime", "register", <<"runtime">>)
          \/ Passes("register", "guest", <<>>)
       /\ UNCHANGED pages
    \/ Configure

\* The steps that return an error: a file that cannot be opened or read, no
\* intact module in it, Listen refused, the address in use, a -m beyond 4 GiB,
\* a module that cannot be registered.
MayFail ==
    \/ pc \in {"open", "extract", "register"}
    \/ pc = "listen" /\ opts.name # ""
    \/ pc = "connlisten" /\ opts.listen # NoListen
    \/ pc = "config" /\ MemoryLimitPages(opts.memLimit).err

\* Faulty variant: the error is reported on the spot.
StartupExits ==
    /\ MayFail
    /\ exit' = <<1>>
    /\ code' = 1
    /\ pc' = "exited"
    /\ UNCHANGED <<buildVars, args, opts, pages, held, guest, expired, ended>>

\* A step returns an error, and run() returns it.
StartupFails ==
    /\ MayFail
    /\ code' = 1
    /\ pc' = "deferred"
    /\ UNCHANGED <<buildVars, args, opts, pages, held, guest, expired, ended, exit>>

-----------------------------------------------------------------------------
(* The guest *)

\* The calls that return at once do not block: to a destination number or a
\* connection id that stands for nothing, on a stream that was not named (it is
\* empty, or discards), and a sleep without -a time.
Connected(f) ==
    /\ f = "send" => opts.dest # {}
    /\ f = "conn_write" => opts.listen # NoListen
    /\ f = "fd_read" => "in" \in opts.stdio
    /\ f = "fd_write" => opts.stdio \cap {"out", "err"} # {}
    /\ f = "sleep" => "time" \in opts.allow

Call(f) ==
    /\ guest = "running"
    /\ Connected(f)
    /\ guest' = f
    /\ UNCHANGED <<buildVars, args, opts, pc, pages, held, expired, ended, code, exit>>

CallReturns(f) ==
    /\ guest = f
    /\ guest' = "running"
    /\ UNCHANGED <<buildVars, args, opts, pc, pages, held, expired, ended, code, exit>>

\* recv delivers, conn_write's client or send's peer reads, a line is typed or
\* a pipe's reader reads, a sleep is over.
CallServed(f) ==
    CallReturns(f) /\ f \in Answered \cup {"recv", "conn_write", "sleep"}

\* Faulty variant: conn_write sets no write deadline.
RecvCancelledOnly == expired /\ CallReturns("recv")

\* recv returns -1 and conn_write fails when the deadline passes.  DestTable's
\* Send is given no context, and its Write has no deadline; nor have wazero's
\* own use of os.Stdin, os.Stdout and os.Stderr and its sleep.
CallCancelled == expired /\ \E f \in {"recv", "conn_write"} : CallReturns(f)

\* runCtx reaches the deadline of -t.
Expire ==
    /\ pc = "guest" /\ opts.timeout > 0 /\ ~expired
    /\ expired' = TRUE
    /\ UNCHANGED <<buildVars, args, opts, pc, pages, held, guest, ended, code, exit>>

\* InstantiateWithConfig returns, and run() picks the exit code.
GuestEnds(how, exitCode) ==
    /\ guest = "running"
    /\ guest' = "ended"
    /\ ended' = how
    /\ code' = exitCode
    /\ pc' = "deferred"
    /\ UNCHANGED <<buildVars, args, opts, pages, held, expired, exit>>

\* Faulty variant: the deadline's code is passed on as it is.
CodeOfPlain(exitErr) == exitErr

\* The exit code for an ExitError.
CodeOf(exitErr) == IF exitErr = DeadlineCode THEN TimeoutCode ELSE exitErr

Terminated == expired /\ GuestEnds(<<"terminated">>, CodeOf(DeadlineCode))

GuestReturns == GuestEnds(<<"returned">>, 0)
GuestTraps   == GuestEnds(<<"failed">>, 1)
GuestExits   == \E c \in GuestCodes : GuestEnds(<<"exited", c>>, CodeOf(c))

-----------------------------------------------------------------------------
(* The end of the process *)

\* One deferred call, last in first out.
Deferred ==
    /\ pc = "deferred"
    /\ held # <<>>
    /\ held' = SubSeq(held, 1, Len(held) - 1)
    /\ UNCHANGED <<buildVars, args, opts, pc, pages, guest, expired, ended, code, exit>>

\* run() has returned: os.Exit.
Exit ==
    /\ pc = "deferred"
    /\ held = <<>>
    /\ exit' = <<code>>
    /\ pc' = "exited"
    /\ UNCHANGED <<buildVars, args, opts, pages, held, guest, expired, ended, code>>

Next ==
    \/ Build \/ Parse
    \/ Startup \/ StartupFails
    \/ \E f \in HostCalls : Call(f) \/ CallServed(f)
    \/ CallCancelled
    \/ Expire
    \/ Terminated \/ GuestReturns \/ GuestTraps \/ GuestExits
    \/ Deferred \/ Exit

\* run() and the deferred calls make progress.  A call that the deadline
\* cancels, or whose other side keeps up, returns, and so does a sleep.  wazero looks for the
\* deadline at every loop and function entry, so a guest that executes again
\* and again is ended (strong fairness: in between it may be in host calls).
\* Nothing makes a message arrive or a client read.
Fairness ==
    /\ WF_vars(Startup \/ StartupFails)
    /\ WF_vars(CallCancelled)
    /\ \A f \in Answered \cup {"sleep"} : WF_vars(CallServed(f))
    /\ SF_vars(Terminated)
    /\ WF_vars(Deferred \/ Exit)

Spec == Init /\ [][Next]_vars /\ Fairness

-----------------------------------------------------------------------------
(* Properties *)

\* A process that exits by itself has closed all it opened; one whose startup
\* failed never let the guest run, and reports 2 only for bad options.
CleanExit ==
    pc = "exited" =>
        /\ held = <<>>
        /\ guest = "absent" =>
               exit = IF opts.err THEN <<2>> ELSE IF opts.help THEN <<0>> ELSE <<1>>
        /\ guest = "absent" \/ guest = "ended"

\* docs/usage: "Nothing by default".  A running guest has real random numbers,
\* the real clock, a stream or a writable directory only if an argument before
\* the first word asked for it, and the program listens beyond the loopback
\* interface only if the argument of -l has a host part.
LeastPrivilege ==
    guest # "absent" =>
        LET granted == ModuleConfig(opts)
            Asked(o, names) ==
                \E a \in Given(args, o) : Range(a.str) \cap names # {}
        IN  /\ granted.random # "error" => Asked("a", {"random", "all"})
            /\ granted.clock # "fake" => Asked("a", {"time", "all"})
            /\ \A s \in granted.stdio : Asked("s", {s, "all"})
            /\ \A m \in granted.mounts :
                   Append(m.host, m.guest) \o (IF m.ReadOnly THEN <<"ro">> ELSE <<>>)
                       \in {a.str : a \in Given(args, "v")}
            /\ opts.listen.network = "tcp" /\ opts.listen.host # "127.0.0.1" =>
                   \E a \in Given(args, "l") :
                       Len(a.str) = 2 /\ a.str[1] = opts.listen.host

\* docs/usage, -d: "the later one does not silently overwrite the earlier one",
\* nor does a later -l.  What the guest runs with is all that was assigned.
NothingOverwritten ==
    guest # "absent" =>
        LET flags == Flags(args)
            Times(o) == Cardinality({i \in DOMAIN flags : flags[i].opt = o})
        IN  /\ opts.dest = {[num |-> a.num, id |-> a.str[1]] : a \in Given(args, "d")}
            /\ Cardinality({d.num : d \in opts.dest}) = Times("d")
            /\ Times("l") = IF opts.listen = NoListen THEN 0 ELSE 1

\* The guest gets no less memory than the last -m says, at most an incomplete
\* page more, and never more than wasm's own maximum.  (Sizes within a page of
\* MaxInt64 make the sum of MemoryLimitPages wrap, and are left out.)
LimitHonoured ==
    (guest # "absent" /\ opts.memLimit <= MaxInt64 - wasmPageSize + 1) =>
        /\ pages \in 1..maxMemoryLimitPages
        /\ pages * wasmPageSize \in
               opts.memLimit .. opts.memLimit + wasmPageSize - 1

\* Exit code 124 stands for a deadline that passed, unless the guest chose the
\* number itself, and a deadline that ends the guest is reported as 124.
TimeoutCodeHonest ==
    pc = "exited" =>
        /\ ended = <<"terminated">> => expired /\ exit = <<TimeoutCode>>
        /\ exit = <<TimeoutCode>> =>
               \/ expired
               \/ \E c \in {TimeoutCode, DeadlineCode} : ended = <<"exited", c>>

\* docs/usage, --timeout: "Once the limit is reached, the WASM module is
\* forcibly terminated", whichever host call it is in.  (A sleep is slept out
\* first.)
TimeoutEndsProcess == expired ~> pc = "exited"
=============================================================================
