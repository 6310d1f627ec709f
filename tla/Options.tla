------------------------------- MODULE Options -------------------------------
(***************************************************************************)
(* The options of a finished program: parseArgs, validate and the Set       *)
(* methods of cmd/execsandbox/options.go, and sandbox/listenaddr.go.  -q    *)
(* only silences the log and is left out.                                   *)
(***************************************************************************)
EXTENDS FlagSet, Policy

CONSTANTS
    Multiplier,       \* what the suffixes of a size stand for
    Rooted,           \* the texts that begin with "/"
    Existing,         \* the host paths that exist
    MaxPort,          \* 65535
    defaultMemLimit, defaultMailboxLimit, defaultMaxFrame

ASSUME OptionsAssumption ==
    /\ Multiplier \in [DOMAIN Multiplier -> Nat \ {0}]
    /\ defaultMemLimit \in Nat

MaxInt32 == Word32 \div 2 - 1

NoListen == [network |-> "", host |-> ""]

Defaults ==
    [err |-> FALSE, help |-> FALSE, name |-> "", dest |-> {}, env |-> <<>>,
     volumes |-> <<>>, memLimit |-> defaultMemLimit,
     mailboxLimit |-> defaultMailboxLimit, maxFrame |-> defaultMaxFrame,
     stdio |-> {}, timeout |-> 0, allow |-> {}, listen |-> NoListen,
     guestArgs |-> <<>>]

Refused(o) == [o EXCEPT !.err = TRUE]

-----------------------------------------------------------------------------
(* Values *)

\* n digits' value and the multiplier of the suffix.
parseSize(n, suffix) ==
    LET mult == Multiplier[suffix]
    IN  IF suffix \notin DOMAIN Multiplier \/ n > MaxInt64 \/ n > MaxInt64 \div mult
        THEN [err |-> TRUE, bytes |-> 0]
        ELSE [err |-> FALSE, bytes |-> n * mult]

\* HOST:GUEST[:ro], cut at every ":"; HOST is all before the last one.
parseVolume(s) ==
    LET ro   == Len(s) > 1 /\ Last(s) = "ro"
        rest == IF ro THEN Front(s) ELSE s
    IN  IF Len(rest) < 2 \/ Front(rest) = <<"">> \/ Last(rest) \notin Rooted
        THEN [err |-> TRUE]
        ELSE [err |-> FALSE,
              mount |-> [host |-> Front(rest), guest |-> Last(rest), ReadOnly |-> ro]]

\* "#" is the number in a value, and a host in brackets one text.
validatePort(text, num) == text = "#" /\ num \in 1..MaxPort

\* Faulty variant: a port alone is passed on as it is.
ParseListenAddressOpen(s, num) ==
    IF s = <<"#">> /\ validatePort("#", num) THEN [network |-> "tcp", host |-> ""]
    ELSE NoListen

\* A Unix socket, or a port on an interface; NoListen is an error.
ParseListenAddress(s, num) ==
    IF (s[1] = "unix" /\ Len(s) > 1 /\ s # <<"unix", "">>) \/ s[1] \in Rooted
    THEN [network |-> "unix", host |-> ""]
    ELSE IF s[1] # "unix" /\ Len(s) \in {1, 2} /\ validatePort(Last(s), num)
    THEN [network |-> "tcp", host |-> IF Len(s) = 1 THEN "127.0.0.1" ELSE s[1]]
    ELSE NoListen

-----------------------------------------------------------------------------
(* The Set methods: the options with one more argument *)

\* -m and -f.
SetSize(o, field, a) ==
    LET size == parseSize(a.num, a.str[1])
    IN  IF size.err THEN Refused(o) ELSE [o EXCEPT ![field] = size.bytes]

\* Faulty variant: a later -d for the same number replaces the earlier one.
SetDestReplacing(o, a) ==
    [o EXCEPT !.dest = {d \in @ : d.num # a.num}
                           \cup {[num |-> a.num, id |-> a.str[1]]}]

\* -d: a positive number, not assigned yet, and an ID.
SetDest(o, a) ==
    IF a.num \in 1 .. Word32 - 1 /\ a.str[1] # "" /\ \A d \in o.dest : d.num # a.num
    THEN [o EXCEPT !.dest = @ \cup {[num |-> a.num, id |-> a.str[1]]}]
    ELSE Refused(o)

SetEnv(o, a) ==
    IF Len(a.str) = 2 /\ a.str[1] # ""
    THEN [o EXCEPT !.env = Append(@, [key |-> a.str[1], value |-> a.str[2]])]
    ELSE Refused(o)

SetVolume(o, a) ==
    LET m == parseVolume(a.str)
    IN  IF m.err THEN Refused(o) ELSE [o EXCEPT !.volumes = Append(@, m.mount)]

\* -s and -a: a list of names, or "all" of them.
SetList(o, field, a, names) ==
    IF Range(a.str) \subseteq names \cup {"all"}
    THEN [o EXCEPT ![field] = @ \cup IF "all" \in Range(a.str) THEN names
                                     ELSE Range(a.str)]
    ELSE Refused(o)

SetListen(o, a) ==
    LET address == ParseListenAddress(a.str, a.num)
    IN  IF o.listen # NoListen \/ address = NoListen THEN Refused(o)
        ELSE [o EXCEPT !.listen = address]

SetTimeout(o, a) == IF a.num > 0 THEN [o EXCEPT !.timeout = a.num] ELSE Refused(o)

\* One option of the command line; -h, -V and -L are one.
Set(o, a) ==
    CASE a.opt = "n" -> [o EXCEPT !.name = a.str[1]]
      [] a.opt = "d" -> SetDest(o, a)
      [] a.opt = "e" -> SetEnv(o, a)
      [] a.opt = "v" -> SetVolume(o, a)
      [] a.opt = "m" -> SetSize(o, "memLimit", a)
      [] a.opt = "b" -> [o EXCEPT !.mailboxLimit = a.num]
      [] a.opt = "f" -> SetSize(o, "maxFrame", a)
      [] a.opt = "s" -> SetList(o, "stdio", a, {"in", "out", "err"})
      [] a.opt = "l" -> SetListen(o, a)
      [] a.opt = "t" -> SetTimeout(o, a)
      [] a.opt = "a" -> SetList(o, "allow", a, {"random", "time"})
      [] a.opt = "h" -> [o EXCEPT !.help = TRUE]
      [] a.opt = "?" -> Refused(o)

validate(o) ==
    /\ o.memLimit > 0
    /\ o.mailboxLimit >= 1
    /\ o.maxFrame \in 1..MaxInt32
    /\ \A i \in DOMAIN o.volumes : o.volumes[i].host \in Existing

\* A request for help is granted before the values are checked together, but
\* after each was checked by itself.
parseArgs(args) ==
    LET o == FoldLeft(LAMBDA opts, a : IF opts.err THEN opts ELSE Set(opts, a),
                       Defaults, Flags(args))
    IN  IF o.err \/ o.help THEN o
        ELSE IF validate(o) THEN [o EXCEPT !.guestArgs = Args(args)]
        ELSE Refused(o)
=============================================================================
