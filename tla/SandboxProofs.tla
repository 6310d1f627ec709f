---------------------------- MODULE SandboxProofs ----------------------------
(***************************************************************************)
(* The life of a process, for all command lines, exit codes and             *)
(* executables: what is open, whether the guest ran and what the exit code  *)
(* means, and what parseArgs, a fold over any number of options, grants.    *)
(***************************************************************************)
EXTENDS Sandbox, StampProofs, FiniteSetTheorems

Calling == {"running"} \cup HostCalls

\* Where run() is, against what it holds, what the guest does and what is
\* known of the exit code.
Stages ==
    /\ pc \in {"parse", "guest", "deferred", "exited"} \cup StartupSteps
    /\ pc = "parse" => held = <<>>
    /\ pc \in {"parse"} \cup StartupSteps => guest = "absent"
    /\ pc \in StartupSteps \cup {"guest", "deferred"} => ~opts.err /\ ~opts.help
    /\ pc = "guest" => guest \in Calling
    /\ pc \in {"deferred", "exited"} => guest \in {"absent", "ended"}
    /\ pc = "deferred" /\ guest = "absent" => code = 1
    /\ held # <<>> => pc # "exited"
    /\ pc = "exited" /\ guest = "absent" =>
           code = IF opts.err THEN 2 ELSE IF opts.help THEN 0 ELSE 1
    /\ pc = "exited" => exit = <<code>>

\* What the exit code that was settled on says of the guest's end.
Settled ==
    /\ guest # "ended" => ended = <<"not">>
    /\ guest # "ended" => code \in {0, 1, 2}
    /\ ended = <<"terminated">> => expired /\ code = TimeoutCode
    /\ code = TimeoutCode =>
           \/ expired
           \/ ended = <<"exited", TimeoutCode>>
           \/ ended = <<"exited", DeadlineCode>>

IInv == Stages /\ Settled

\* It holds before main() has begun.
LEMMA Initially == Init => IInv
  BY DEF Init, IInv, Stages, Settled, StartupSteps, TimeoutCode, Calling, HostCalls

\* No step of main() or run(), of the guest or of a build breaks Stages.
LEMMA StagesKept == ASSUME Stages, Settled, [Next]_vars PROVE Stages'
<1> USE DEF Stages, Calling, HostCalls, StartupSteps
<1>1. CASE Build
  BY <1>1 DEF Build, runVars
<1>2. CASE Parse
  BY <1>2 DEF Parse
<1>3. CASE Startup
  BY <1>3 DEF Startup, Passes, Configure
<1>4. CASE StartupFails
  BY <1>4 DEF StartupFails, MayFail
<1>5. ASSUME NEW f \in HostCalls, Call(f) \/ CallServed(f) PROVE Stages'
  BY <1>5 DEF Call, CallServed, CallReturns
<1>6. CASE CallCancelled
  BY <1>6 DEF CallCancelled, CallReturns
<1>7. CASE Expire
  BY <1>7 DEF Expire
<1>8. CASE Terminated \/ GuestReturns \/ GuestTraps \/ GuestExits
  BY <1>8 DEF Terminated, GuestReturns, GuestTraps, GuestExits, GuestEnds
<1>9. CASE Deferred
  BY <1>9 DEF Deferred
<1>10. CASE Exit
  BY <1>10 DEF Exit
<1>11. CASE UNCHANGED vars
  BY <1>11 DEF vars, runVars
<1> QED
  BY <1>1, <1>2, <1>3, <1>4, <1>5, <1>6, <1>7, <1>8, <1>9, <1>10, <1>11 DEF Next

\* Nor Settled: the code is fixed when the guest ends, and the deadline does
\* not come back.
LEMMA SettledKept == ASSUME Stages, Settled, [Next]_vars PROVE Settled'
<1> USE DEF Stages, Settled, Calling, HostCalls, StartupSteps, TimeoutCode
<1>1. CASE Build
  BY <1>1 DEF Build, runVars
<1>2. CASE Parse
  BY <1>2 DEF Parse
<1>3. CASE Startup
  BY <1>3 DEF Startup, Passes, Configure
<1>4. CASE StartupFails
  <2>1. pc \in StartupSteps
    BY <1>4 DEF StartupFails, MayFail
  <2>2. guest = "absent"
    BY <2>1 DEF Stages
  <2> QED  BY <1>4, <2>2 DEF StartupFails
<1>5. ASSUME NEW f \in HostCalls, Call(f) \/ CallServed(f) PROVE Settled'
  BY <1>5 DEF Call, CallServed, CallReturns
<1>6. CASE CallCancelled
  BY <1>6 DEF CallCancelled, CallReturns
<1>7. CASE Expire
  BY <1>7 DEF Expire
<1>8. CASE Terminated
  BY <1>8, SandboxAssumption DEF Terminated, GuestEnds, CodeOf
<1>9. CASE GuestReturns \/ GuestTraps
  BY <1>9 DEF GuestReturns, GuestTraps, GuestEnds
<1>10. CASE GuestExits
  BY <1>10, SandboxAssumption DEF GuestExits, GuestEnds, CodeOf
<1>11. CASE Deferred
  BY <1>11 DEF Deferred
<1>12. CASE Exit
  BY <1>12 DEF Exit
<1>13. CASE UNCHANGED vars
  BY <1>13 DEF vars, runVars
<1> QED
  BY <1>1, <1>2, <1>3, <1>4, <1>5, <1>6, <1>7, <1>8, <1>9, <1>10, <1>11, <1>12,
     <1>13 DEF Next

\* Where run() is and what the exit code says, in every state.
LEMMA IInvHolds == Spec => []IInv
<1>1. IInv /\ [Next]_vars => IInv'
  BY StagesKept, SettledKept DEF IInv
<1> QED  BY <1>1, Initially, PTL DEF Spec

\* Whatever fails during startup and however the guest ends, a process that
\* exits has run its deferred calls and reports the failure it had.
THEOREM ExitsClean == Spec => []CleanExit
<1>1. IInv => CleanExit
  BY DEF IInv, Stages, CleanExit
<1> QED  BY <1>1, IInvHolds, PTL

\* 124 and the -t deadline stand for each other, whatever numbers wazero and
\* the guest use.
THEOREM TimeoutReported == Spec => []TimeoutCodeHonest
<1>1. IInv => TimeoutCodeHonest
  <2> SUFFICES ASSUME IInv, pc = "exited" PROVE TimeoutCodeHonest
    BY DEF TimeoutCodeHonest
  <2>1. exit = <<code>>
    BY DEF IInv, Stages
  <2>2. exit = <<TimeoutCode>> <=> code = TimeoutCode
    BY <2>1
  <2>3. code = TimeoutCode =>
            \/ expired
            \/ \E c \in {TimeoutCode, DeadlineCode} : ended = <<"exited", c>>
    BY DEF IInv, Settled
  <2>4. ended = <<"terminated">> => expired /\ code = TimeoutCode
    BY DEF IInv, Settled
  <2> QED  BY <2>2, <2>3, <2>4 DEF TimeoutCodeHonest
<1> QED  BY <1>1, IInvHolds, PTL

-----------------------------------------------------------------------------
(* One option of the command line, and FoldLeft over all of them *)

\* One more option: after an error none is looked at.
ArgAssigned(o, a) == IF o.err THEN o ELSE Set(o, a)

\* The function on the sets of positions that FoldLeft computes with.
ArgFolded(s, k, g) ==
    g = [x \in SUBSET (1..k) |->
             IF x = {} THEN Defaults
             ELSE ArgAssigned(g[x \ {Max(x)}], s[Max(x)])]

\* There is such a function, for any number of options.
LEMMA ArgFoldExists == ASSUME NEW s, NEW n \in Nat PROVE \E g : ArgFolded(s, n, g)
<1> DEFINE T == {k \in Nat : \E g : ArgFolded(s, k, g)}
<1>1. 0 \in T
  <2> DEFINE g == [x \in SUBSET (1..0) |-> Defaults]
  <2>1. \A x \in SUBSET (1..0) : x = {}
    OBVIOUS
  <2>2. g = [x \in SUBSET (1..0) |-> IF x = {} THEN Defaults
             ELSE ArgAssigned(g[x \ {Max(x)}], s[Max(x)])]
    BY <2>1, Zenon
  <2> QED  BY <2>2, Zenon DEF ArgFolded
<1>2. ASSUME NEW i \in 1..n, i - 1 \in T PROVE i \in T
  <2>1. PICK k \in Nat : k = i - 1 /\ i = k + 1
    OBVIOUS
  <2>2. PICK g : ArgFolded(s, k, g)
    BY <1>2, <2>1
  <2> DEFINE h == [x \in SUBSET (1..(k + 1)) |->
                       IF x \in SUBSET (1..k) THEN g[x]
                       ELSE ArgAssigned(g[x \ {k + 1}], s[k + 1])]
             Step(x) == IF x = {} THEN Defaults
                        ELSE ArgAssigned(h[x \ {Max(x)}], s[Max(x)])
  <2>3. \A x \in SUBSET (1..k) : x \in SUBSET (1..(k + 1))
    OBVIOUS
  <2>4. \A x \in SUBSET (1..k) : h[x] = g[x]
    BY <2>3, Zenon
  <2>5. ASSUME NEW x \in SUBSET (1..(k + 1)) PROVE h[x] = Step(x)
    <3>1. CASE x = {}
      <4>1. x \in SUBSET (1..k)
        BY <3>1
      <4>2. g[x] = Defaults
        BY <2>2, <3>1, <4>1, Zenon DEF ArgFolded
      <4> QED  BY <2>4, <3>1, <4>1, <4>2, Zenon
    <3>2. CASE x # {} /\ x \in SUBSET (1..k)
      <4>1. x \ {Max(x)} \in SUBSET (1..k)
        BY <2>1, <3>2, MaxOfFirst
      <4>2. g[x] = ArgAssigned(g[x \ {Max(x)}], s[Max(x)])
        BY <2>2, <3>2, Zenon DEF ArgFolded
      <4> QED  BY <2>4, <3>2, <4>1, <4>2, Zenon
    <3>3. CASE x \notin SUBSET (1..k)
      <4>1. x # {} /\ k + 1 \in x
        BY <2>1, <3>3
      <4>2. Max(x) = k + 1 /\ x \ {Max(x)} \in SUBSET (1..k)
        BY <2>1, <4>1, MaxOfFirst
      <4>3. h[x] = ArgAssigned(g[x \ {k + 1}], s[k + 1])
        BY <3>3, Zenon
      <4> QED  BY <2>4, <4>1, <4>2, <4>3, Zenon
    <3> QED  BY <3>1, <3>2, <3>3, Zenon
  <2>6. h = [x \in SUBSET (1..(k + 1)) |-> Step(x)]
    BY <2>5, Zenon
  <2>7. ArgFolded(s, k + 1, h)
    BY <2>6, Zenon DEF ArgFolded
  <2> QED  BY <2>1, <2>7
<1>3. n \in T
  <2>1. n \in 0..n
    OBVIOUS
  <2> HIDE DEF T
  <2> QED  BY <1>1, <1>2, <2>1, UpTo
<1> QED  BY <1>3, Zenon

\* The options after each argument, and after the last.
LEMMA ArgFoldSteps ==
    ASSUME NEW s, NEW n \in Nat, DOMAIN s = 1..n
    PROVE  \E at : /\ at[0] = Defaults
                   /\ \A i \in 1..n : at[i] = ArgAssigned(at[i - 1], s[i])
                   /\ FoldLeft(LAMBDA o, a : IF o.err THEN o ELSE Set(o, a),
                              Defaults, s) = at[n]
<1> DEFINE g == CHOOSE g : ArgFolded(s, n, g)
           at == [i \in 0..n |-> g[1..i]]
<1>1. ArgFolded(s, n, g)
  BY ArgFoldExists, Zenon
<1>2. g = [x \in SUBSET (1..n) |->
             IF x = {} THEN Defaults
             ELSE ArgAssigned(g[x \ {Max(x)}], s[Max(x)])]
  BY <1>1, Zenon DEF ArgFolded
<1>3. FoldLeft(LAMBDA o, a : IF o.err THEN o ELSE Set(o, a),
                              Defaults, s) = g[1..n]
  BY Zenon DEF FoldLeft, MapThenFoldSet, ArgFolded, ArgAssigned
<1> HIDE DEF g
<1>4. at[0] = Defaults
  <2>1. 0 \in 0..n /\ 1..0 = {} /\ {} \in SUBSET (1..n)
    OBVIOUS
  <2> QED  BY <1>2, <2>1, Zenon
<1>5. ASSUME NEW i \in 1..n PROVE at[i] = ArgAssigned(at[i - 1], s[i])
  <2>1. /\ i \in 0..n /\ i - 1 \in 0..n
        /\ 1..i \in SUBSET (1..n) /\ 1..i # {} /\ i \in 1..i
    <3>1. i \in Nat /\ 1 <= i /\ i <= n
      OBVIOUS
    <3> QED  BY <3>1
  <2>2. Max(1..i) = i
    <3>1. PICK k \in Nat : i = k + 1
      <4>1. i - 1 \in Nat /\ i = (i - 1) + 1
        OBVIOUS
      <4> QED  BY <4>1
    <3>2. 1..i \in SUBSET (1..(k + 1)) /\ k + 1 \in 1..i
      BY <2>1, <3>1
    <3> QED  BY <2>1, <3>1, <3>2, MaxOfFirst
  <2>3. (1..i) \ {i} = 1..(i - 1)
    OBVIOUS
  <2>4. g[1..i] = ArgAssigned(g[1..(i - 1)], s[i])
    BY <1>2, <2>1, <2>2, <2>3, Zenon
  <2> QED  BY <2>1, <2>4, Zenon
<1>6. at[n] = g[1..n]
  <2>1. n \in 0..n
    OBVIOUS
  <2> QED  BY <2>1, Zenon
<1> HIDE DEF at
<1> QED  BY <1>3, <1>4, <1>5, <1>6, Zenon

OptionNames == {"n", "d", "e", "v", "m", "b", "f", "s", "l", "t", "a", "h"}

\* What one option changes.
LEMMA OneChange ==
    ASSUME NEW o, NEW a, o = [f \in DOMAIN Defaults |-> o[f]],
           a.opt \in OptionNames \cup {"?"}, ~o.err
    PROVE  LET p == Set(o, a) IN
           /\ p = [f \in DOMAIN Defaults |-> p[f]]
           /\ ~p.err =>
                /\ IF a.opt = "d"
                   THEN /\ \A d \in o.dest : d.num # a.num
                        /\ p.dest = o.dest \cup {[num |-> a.num, id |-> a.str[1]]}
                   ELSE p.dest = o.dest
                /\ IF a.opt = "v"
                   THEN /\ ~parseVolume(a.str).err
                        /\ p.volumes = Append(o.volumes, parseVolume(a.str).mount)
                   ELSE p.volumes = o.volumes
                /\ p.memLimit = IF a.opt = "m" THEN parseSize(a.num, a.str[1]).bytes
                                ELSE o.memLimit
                /\ IF a.opt = "s"
                   THEN \A x \in p.stdio : x \in o.stdio \/ Range(a.str) \cap {x, "all"} # {}
                   ELSE p.stdio = o.stdio
                /\ IF a.opt = "a"
                   THEN \A x \in p.allow : x \in o.allow \/ Range(a.str) \cap {x, "all"} # {}
                   ELSE p.allow = o.allow
                /\ IF a.opt = "l"
                   THEN /\ o.listen = NoListen /\ p.listen # NoListen
                        /\ p.listen = ParseListenAddress(a.str, a.num)
                   ELSE p.listen = o.listen
<1> DEFINE p == Set(o, a)
           Fields == {"err", "help", "name", "dest", "env", "volumes", "memLimit",
                      "mailboxLimit", "maxFrame", "stdio", "timeout", "allow",
                      "listen", "guestArgs"}
<1>9. DOMAIN Defaults = Fields
  BY DEF Defaults
<1>10. o = [f \in Fields |-> o[f]]
  BY <1>9
<1> DEFINE Goal ==
           /\ p = [f \in Fields |-> p[f]]
           /\ ~p.err =>
                /\ IF a.opt = "d"
                   THEN /\ \A d \in o.dest : d.num # a.num
                        /\ p.dest = o.dest \cup {[num |-> a.num, id |-> a.str[1]]}
                   ELSE p.dest = o.dest
                /\ IF a.opt = "v"
                   THEN /\ ~parseVolume(a.str).err
                        /\ p.volumes = Append(o.volumes, parseVolume(a.str).mount)
                   ELSE p.volumes = o.volumes
                /\ p.memLimit = IF a.opt = "m" THEN parseSize(a.num, a.str[1]).bytes
                                ELSE o.memLimit
                /\ IF a.opt = "s"
                   THEN \A x \in p.stdio : x \in o.stdio \/ Range(a.str) \cap {x, "all"} # {}
                   ELSE p.stdio = o.stdio
                /\ IF a.opt = "a"
                   THEN \A x \in p.allow : x \in o.allow \/ Range(a.str) \cap {x, "all"} # {}
                   ELSE p.allow = o.allow
                /\ IF a.opt = "l"
                   THEN /\ o.listen = NoListen /\ p.listen # NoListen
                        /\ p.listen = ParseListenAddress(a.str, a.num)
                   ELSE p.listen = o.listen
<1> SUFFICES Goal
  BY <1>9
<1>1. ASSUME p = Refused(o) PROVE Goal
  BY <1>10, <1>1 DEF Refused
<1>2. CASE a.opt \in {"n", "e", "b", "f", "t", "h", "?"}
  <2>1. \/ p = Refused(o)
        \/ p = [o EXCEPT !.name = p.name] \/ p = [o EXCEPT !.env = p.env]
        \/ p = [o EXCEPT !.mailboxLimit = p.mailboxLimit]
        \/ p = [o EXCEPT !.maxFrame = p.maxFrame] \/ p = [o EXCEPT !.timeout = p.timeout]
        \/ p = [o EXCEPT !.help = p.help]
    BY <1>10, <1>2 DEF Set, SetSize, SetTimeout, SetEnv
  <2>2. p = [f \in Fields |-> p[f]] /\ (~p.err => /\ p.dest = o.dest /\ p.volumes = o.volumes
             /\ p.memLimit = o.memLimit /\ p.stdio = o.stdio /\ p.allow = o.allow
             /\ p.listen = o.listen)
    <3> HIDE DEF p
    <3> QED  BY <1>10, <2>1 DEF Refused
  <2> HIDE DEF p
  <2> QED  BY <1>2, <2>2
<1>3. CASE a.opt = "d"
  BY <1>10, <1>1, <1>3, ZenonT(40) DEF Set, SetDest
<1>4. CASE a.opt = "v"
  BY <1>10, <1>1, <1>4 DEF Set, SetVolume
<1>5. CASE a.opt = "m"
  BY <1>10, <1>1, <1>5 DEF Set, SetSize
<1>6. CASE a.opt = "s"
  BY <1>10, <1>1, <1>6 DEF Set, SetList
<1>7. CASE a.opt = "a"
  BY <1>10, <1>1, <1>7 DEF Set, SetList
<1>8. CASE a.opt = "l"
  BY <1>10, <1>1, <1>8 DEF Set, SetListen
<1> QED  BY <1>2, <1>3, <1>4, <1>5, <1>6, <1>7, <1>8 DEF OptionNames

Mounts == [host : Seq(STRING), guest : STRING, ReadOnly : BOOLEAN]

\* The argument of -v that a mount was given in.
VolumeText(m) == Append(m.host, m.guest) \o (IF m.ReadOnly THEN <<"ro">> ELSE <<>>)

\* A sequence is all but its last element, and that.
LEMMA FrontLast ==
    ASSUME NEW T, NEW r \in Seq(T), Len(r) > 0
    PROVE  Front(r) \in Seq(T) /\ Last(r) \in T /\ Append(Front(r), Last(r)) = r
<1>1. Len(r) \in Nat \ {0} /\ Len(r) \in 1..Len(r) /\ \A i \in 1..Len(r) : r[i] \in T
  BY LenProperties
<1>2. /\ Front(r) \in Seq(T) /\ Len(Front(r)) = Len(r) - 1
      /\ \A i \in 1..(Len(r) - 1) : Front(r)[i] = r[i]
  <2>1. PICK k \in Nat : k = Len(r) - 1
    BY <1>1
  <2>2. \A i \in 1..k : r[i] \in T
    BY <1>1, <2>1
  <2>3. /\ SubSeq(r, 1, k) \in Seq(T)
        /\ Len(SubSeq(r, 1, k)) = IF 1 <= k THEN k - 1 + 1 ELSE 0
        /\ \A i \in 1..(k - 1 + 1) : SubSeq(r, 1, k)[i] = r[1 + i - 1]
    BY <2>2, SubSeqProperties
  <2>4. k - 1 + 1 = k /\ (IF 1 <= k THEN k - 1 + 1 ELSE 0) = k /\ \A i \in 1..k : 1 + i - 1 = i
    OBVIOUS
  <2> QED  BY <2>1, <2>3, <2>4, Zenon DEF Front
<1>3. Last(r) \in T
  BY <1>1 DEF Last
<1>4. /\ Append(Front(r), Last(r)) \in Seq(T)
      /\ Len(Append(Front(r), Last(r))) = Len(r)
      /\ \A i \in 1..(Len(r) - 1) : Append(Front(r), Last(r))[i] = r[i]
      /\ Append(Front(r), Last(r))[Len(r)] = r[Len(r)]
  BY <1>1, <1>2, <1>3, AppendProperties DEF Last
<1>5. \A i \in 1..Len(r) : i \in 1..(Len(r) - 1) \/ i = Len(r)
  BY <1>1
<1>6. Append(Front(r), Last(r)) = r
  BY <1>4, <1>5, SeqEqual
<1> QED  BY <1>2, <1>3, <1>6

\* parseVolume loses nothing of a -v.
LEMMA VolumeRead ==
    ASSUME NEW s \in Seq(STRING), ~parseVolume(s).err
    PROVE  /\ parseVolume(s).mount \in Mounts
           /\ VolumeText(parseVolume(s).mount) = s
<1> DEFINE ro   == Len(s) > 1 /\ Last(s) = "ro"
           rest == IF ro THEN Front(s) ELSE s
           m    == [host |-> Front(rest), guest |-> Last(rest), ReadOnly |-> ro]
<1>1. parseVolume(s) = IF Len(rest) < 2 \/ Front(rest) = <<"">> \/ Last(rest) \notin Rooted
                       THEN [err |-> TRUE]
                       ELSE [err |-> FALSE, mount |-> m]
  BY Zenon DEF parseVolume
<1> HIDE DEF m
<1>2. parseVolume(s).mount = m /\ ~(Len(rest) < 2)
  <2> DEFINE bad == Len(rest) < 2 \/ Front(rest) = <<"">> \/ Last(rest) \notin Rooted
  <2>1. CASE bad
    <3>1. parseVolume(s) = [err |-> TRUE]
      BY <1>1, <2>1, Zenon
    <3> QED  BY <3>1
  <2>2. CASE ~bad
    <3>1. parseVolume(s) = [err |-> FALSE, mount |-> m]
      BY <1>1, <2>2, Zenon
    <3>2. parseVolume(s).mount = m
      BY <3>1
    <3> QED  BY <2>2, <3>2, Zenon
  <2> QED  BY <2>1, <2>2
<1>4. rest \in Seq(STRING) /\ Len(rest) > 0
  <2>1. rest \in Seq(STRING)
    BY FrontLast
  <2>2. Len(rest) \in Nat
    BY <2>1, LenProperties
  <2> HIDE DEF rest
  <2> QED  BY <1>2, <2>1, <2>2
<1>5. /\ Front(rest) \in Seq(STRING) /\ Last(rest) \in STRING
      /\ Append(Front(rest), Last(rest)) = rest
  <2> HIDE DEF rest
  <2> QED  BY <1>4, FrontLast
<1>6. m \in Mounts
  <2> HIDE DEF rest
  <2> QED  BY <1>5 DEF m, Mounts
<1>7. VolumeText(m) = rest \o (IF ro THEN <<"ro">> ELSE <<>>)
  <2> HIDE DEF rest, ro
  <2> QED  BY <1>5 DEF m, VolumeText
<1>8. rest \o (IF ro THEN <<"ro">> ELSE <<>>) = s
  <2>1. CASE ro
    <3>1. rest = Front(s) /\ Last(s) = "ro"
      BY <2>1
    <3>2. Front(s) \in Seq(STRING) /\ Append(Front(s), "ro") = s
      BY <2>1, <3>1, FrontLast
    <3>3. Front(s) \o <<"ro">> = Append(Front(s), "ro")
      BY <3>2, AppendIsConcat
    <3> QED  BY <2>1, <3>1, <3>2, <3>3
  <2>2. CASE ~ro
    <3>1. rest = s
      BY <2>2
    <3>2. s \o <<>> = s
      BY ConcatEmptySeq
    <3> QED  BY <2>2, <3>1, <3>2
  <2> QED  BY <2>1, <2>2
<1> QED  BY <1>2, <1>6, <1>7, <1>8, Zenon

\* A size is a number also where it is refused.
LEMMA SizeIsInt ==
    ASSUME NEW n \in Int, NEW suffix
    PROVE  parseSize(n, suffix).bytes \in Int
<1>1. CASE suffix \in DOMAIN Multiplier
  <2>1. PICK mult \in Nat \ {0} : mult = Multiplier[suffix]
    BY <1>1, OptionsAssumption
  <2>2. n * mult \in Int
    OBVIOUS
  <2>3. \/ parseSize(n, suffix) = [err |-> TRUE, bytes |-> 0]
        \/ parseSize(n, suffix) = [err |-> FALSE, bytes |-> n * mult]
    BY <2>1, Zenon DEF parseSize
  <2>4. parseSize(n, suffix).bytes \in {0, n * mult}
    BY <2>3
  <2> QED  BY <2>2, <2>4
<1>2. CASE suffix \notin DOMAIN Multiplier
  BY <1>2 DEF parseSize
<1> QED  BY <1>1, <1>2

\* Only a -l with a host part listens beyond the loopback interface.
LEMMA AddressRead ==
    ASSUME NEW s, NEW num, ParseListenAddress(s, num).network = "tcp",
           ParseListenAddress(s, num).host # "127.0.0.1"
    PROVE  Len(s) = 2 /\ s[1] = ParseListenAddress(s, num).host
<1> DEFINE p == ParseListenAddress(s, num)
<1>1. \/ p = [network |-> "unix", host |-> ""]
      \/ p = NoListen
      \/ /\ Len(s) \in {1, 2}
         /\ p = [network |-> "tcp", host |-> IF Len(s) = 1 THEN "127.0.0.1" ELSE s[1]]
  BY Zenon DEF ParseListenAddress
<1>2. p.network = "tcp" /\ p.host # "127.0.0.1"
  OBVIOUS
<1> HIDE DEF p
<1>3. /\ Len(s) = 1 \/ Len(s) = 2
      /\ p = [network |-> "tcp", host |-> IF Len(s) = 1 THEN "127.0.0.1" ELSE s[1]]
  <2> DEFINE unix == [network |-> "unix", host |-> ""]
  <2>1. unix.network # "tcp" /\ NoListen.network # "tcp"
    BY DEF NoListen
  <2> HIDE DEF unix
  <2>2. p # unix /\ p # NoListen
    BY <1>2, <2>1, Zenon
  <2>3. ASSUME Len(s) \in {1, 2} PROVE Len(s) = 1 \/ Len(s) = 2
    BY <2>3
  <2> QED  BY <1>1, <2>2, <2>3, Zenon DEF unix
<1>4. Len(s) # 1
  BY <1>2, <1>3
<1>5. p.host = s[1]
  BY <1>3, <1>4
<1> QED  BY <1>3, <1>4, <1>5 DEF p

-----------------------------------------------------------------------------
(* What parseArgs has understood after the first i options *)

Asked(flags, opt, x, i) ==
    \E j \in Flagged(flags, opt, i) : Range(flags[j].str) \cap {x, "all"} # {}

\* Every random source, clock and stream was asked for.
GrantsAsked(flags, i, o) ==
    /\ \A x \in o.allow : Asked(flags, "a", x, i)
    /\ \A x \in o.stdio : Asked(flags, "s", x, i)

\* Every mount is one of the -v, as it was written.
MountsAsked(flags, i, o) ==
    /\ o.volumes \in Seq(Mounts)
    /\ \A k \in 1..Len(o.volumes) :
           \E j \in Flagged(flags, "v", i) : VolumeText(o.volumes[k]) = flags[j].str

\* The address is that of the only -l.
ListenAsked(flags, i, o) ==
    /\ o.listen = NoListen <=> Flagged(flags, "l", i) = {}
    /\ \A j \in Flagged(flags, "l", i) :
           /\ o.listen = ParseListenAddress(flags[j].str, flags[j].num)
           /\ \A k \in Flagged(flags, "l", i) : k = j

DestOf(a) == [num |-> a.num, id |-> a.str[1]]

\* The destinations are those of all -d, which have different numbers.
DestsAsked(flags, i, o) ==
    /\ o.dest = {DestOf(flags[j]) : j \in Flagged(flags, "d", i)}
    /\ \A j, k \in Flagged(flags, "d", i) : flags[j].num = flags[k].num => j = k

OptionsParsed(flags, i, o) ==
    /\ o = [f \in DOMAIN Defaults |-> o[f]]
    /\ ~o.err => /\ o.memLimit \in Int
                 /\ GrantsAsked(flags, i, o)
                 /\ MountsAsked(flags, i, o)
                 /\ ListenAsked(flags, i, o)
                 /\ DestsAsked(flags, i, o)

\* Before the first option nothing is asked for, and nothing given.
LEMMA ParsedAtFirst == ASSUME NEW flags PROVE OptionsParsed(flags, 0, Defaults)
<1>1. \A opt : Flagged(flags, opt, 0) = {}
  BY DEF Flagged
<1>2. Defaults = [f \in DOMAIN Defaults |-> Defaults[f]]
  BY DEF Defaults
<1>3. /\ Defaults.memLimit \in Int /\ Defaults.allow = {} /\ Defaults.stdio = {}
      /\ Defaults.volumes = <<>> /\ Defaults.listen = NoListen /\ Defaults.dest = {}
  BY OptionsAssumption DEF Defaults
<1>4. <<>> \in Seq(Mounts) /\ 1..Len(<<>>) = {}
  OBVIOUS
<1>5. GrantsAsked(flags, 0, Defaults)
  BY <1>3 DEF GrantsAsked
<1>6. MountsAsked(flags, 0, Defaults)
  BY <1>3, <1>4 DEF MountsAsked
<1>7. ListenAsked(flags, 0, Defaults)
  BY <1>1, <1>3 DEF ListenAsked
<1>8. DestsAsked(flags, 0, Defaults)
  BY <1>1, <1>3 DEF DestsAsked
<1> QED  BY <1>2, <1>3, <1>5, <1>6, <1>7, <1>8 DEF OptionsParsed

\* Each Set method keeps what was understood.
LEMMA SetKeeps ==
    ASSUME NEW flags, NEW i \in Nat \ {0}, NEW o,
           flags[i] \in Arguments(OptionNames), flags[i].opt \in OptionNames \cup {"?"},
           OptionsParsed(flags, i - 1, o)
    PROVE  OptionsParsed(flags, i, ArgAssigned(o, flags[i]))
<1> DEFINE a == flags[i]
           p == Set(o, a)
           At(opt) == Flagged(flags, opt, i)
           Before(opt) == Flagged(flags, opt, i - 1)
<1>1. CASE o.err
  BY <1>1 DEF OptionsParsed, ArgAssigned
<1>2. CASE ~o.err
  <2>1. /\ o = [f \in DOMAIN Defaults |-> o[f]] /\ o.memLimit \in Int
        /\ GrantsAsked(flags, i - 1, o) /\ MountsAsked(flags, i - 1, o)
        /\ ListenAsked(flags, i - 1, o) /\ DestsAsked(flags, i - 1, o)
    BY <1>2 DEF OptionsParsed
  <2>2. a.num \in Int /\ a.str \in Seq(STRING)
    BY DEF Arguments
  <2>3. /\ \A opt : At(opt) = Before(opt) \cup IF a.opt = opt THEN {i} ELSE {}
        /\ \A opt : \A j \in Before(opt) : j \in 1..(i - 1)
    BY OneMoreFlag DEF Flagged
  <2>4. ArgAssigned(o, a) = p
    BY <1>2 DEF ArgAssigned
  <2>5. p = [f \in DOMAIN Defaults |-> p[f]]
    BY <1>2, <2>1, OneChange, Zenon
  <2> SUFFICES ASSUME ~p.err
               PROVE  /\ p.memLimit \in Int
                      /\ GrantsAsked(flags, i, p) /\ MountsAsked(flags, i, p)
                      /\ ListenAsked(flags, i, p) /\ DestsAsked(flags, i, p)
    BY <2>4, <2>5, Zenon DEF OptionsParsed
  <2>6. /\ IF a.opt = "d"
           THEN /\ \A d \in o.dest : d.num # a.num
                /\ p.dest = o.dest \cup {[num |-> a.num, id |-> a.str[1]]}
           ELSE p.dest = o.dest
        /\ IF a.opt = "v"
           THEN /\ ~parseVolume(a.str).err
                /\ p.volumes = Append(o.volumes, parseVolume(a.str).mount)
           ELSE p.volumes = o.volumes
        /\ p.memLimit = IF a.opt = "m" THEN parseSize(a.num, a.str[1]).bytes
                        ELSE o.memLimit
        /\ IF a.opt = "s"
           THEN \A x \in p.stdio : x \in o.stdio \/ Range(a.str) \cap {x, "all"} # {}
           ELSE p.stdio = o.stdio
        /\ IF a.opt = "a"
           THEN \A x \in p.allow : x \in o.allow \/ Range(a.str) \cap {x, "all"} # {}
           ELSE p.allow = o.allow
        /\ IF a.opt = "l"
           THEN /\ o.listen = NoListen /\ p.listen # NoListen
                /\ p.listen = ParseListenAddress(a.str, a.num)
           ELSE p.listen = o.listen
    BY <1>2, <2>1, OneChange, Zenon
  <2> HIDE DEF p
  <2>7. p.memLimit \in Int
    BY <2>1, <2>2, <2>6, SizeIsInt
  <2>8. GrantsAsked(flags, i, p)
    <3>1. \A opt, x : Asked(flags, opt, x, i - 1) => Asked(flags, opt, x, i)
      BY <2>3 DEF Asked
    <3>2. \A x : Range(a.str) \cap {x, "all"} # {} => Asked(flags, a.opt, x, i)
      BY <2>3 DEF Asked
    <3> QED  BY <2>1, <2>6, <3>1, <3>2, Zenon DEF GrantsAsked
  <2>9. MountsAsked(flags, i, p)
    <3>1. CASE a.opt = "v"
      <4>1. PICK m \in Mounts : m = parseVolume(a.str).mount /\ VolumeText(m) = a.str
        BY <2>2, <2>6, <3>1, VolumeRead
      <4>2. PICK s \in Seq(Mounts) : s = o.volumes
        BY <2>1 DEF MountsAsked
      <4>3. p.volumes = Append(s, m)
        BY <2>6, <3>1, <4>1, <4>2
      <4>4. /\ Append(s, m) \in Seq(Mounts) /\ Len(s) \in Nat
            /\ Len(Append(s, m)) = Len(s) + 1 /\ Append(s, m)[Len(s) + 1] = m
            /\ \A k \in 1..Len(s) : Append(s, m)[k] = s[k]
        BY AppendProperties, LenProperties
      <4>5. ASSUME NEW k \in 1..(Len(s) + 1)
            PROVE  \E j \in At("v") : VolumeText(Append(s, m)[k]) = flags[j].str
        <5>1. CASE k = Len(s) + 1
          <6>1. i \in At("v")
            BY <2>3, <3>1
          <6> QED  BY <4>1, <4>4, <5>1, <6>1
        <5>2. CASE k # Len(s) + 1
          <6>1. k \in 1..Len(s)
            BY <4>4, <5>2
          <6>2. \E j \in Before("v") : VolumeText(s[k]) = flags[j].str
            BY <2>1, <4>2, <6>1 DEF MountsAsked
          <6> QED  BY <2>3, <4>4, <6>1, <6>2
        <5> QED  BY <5>1, <5>2
      <4> QED  BY <4>3, <4>4, <4>5 DEF MountsAsked
    <3>2. CASE a.opt # "v"
      BY <2>1, <2>3, <2>6, <3>2, ZenonT(40) DEF MountsAsked
    <3> QED  BY <3>1, <3>2
  <2>10. ListenAsked(flags, i, p)
    <3>1. CASE a.opt = "l"
      <4>1. Before("l") = {}
        BY <2>1, <2>6, <3>1 DEF ListenAsked
      <4>2. At("l") = {i}
        BY <2>3, <3>1, <4>1
      <4> QED  BY <2>6, <3>1, <4>2 DEF ListenAsked
    <3>2. CASE a.opt # "l"
      <4>1. At("l") = Before("l") /\ p.listen = o.listen
        BY <2>3, <2>6, <3>2
      <4> QED  BY <2>1, <4>1 DEF ListenAsked
    <3> QED  BY <3>1, <3>2
  <2>11. DestsAsked(flags, i, p)
    <3>1. CASE a.opt = "d"
      <4>1. At("d") = Before("d") \cup {i}
        BY <2>3, <3>1
      <4>2. p.dest = {DestOf(flags[j]) : j \in At("d")}
        <5>1. p.dest = o.dest \cup {DestOf(a)}
          BY <2>6, <3>1 DEF DestOf
        <5>2. o.dest = {DestOf(flags[j]) : j \in Before("d")}
          BY <2>1 DEF DestsAsked
        <5> QED  BY <4>1, <5>1, <5>2
      <4>3. ASSUME NEW j \in Before("d") PROVE flags[j].num # a.num
        <5>1. DestOf(flags[j]) \in o.dest
          BY <2>1 DEF DestsAsked
        <5>2. DestOf(flags[j]).num = flags[j].num
          BY DEF DestOf
        <5> QED  BY <2>6, <3>1, <5>1, <5>2
      <4>4. \A j, k \in At("d") : flags[j].num = flags[k].num => j = k
        BY <2>1, <4>1, <4>3 DEF DestsAsked
      <4> QED  BY <4>2, <4>4 DEF DestsAsked
    <3>2. CASE a.opt # "d"
      <4>1. At("d") = Before("d") /\ p.dest = o.dest
        BY <2>3, <2>6, <3>2
      <4> QED  BY <2>1, <4>1 DEF DestsAsked
    <3> QED  BY <3>1, <3>2
  <2> QED  BY <2>7, <2>8, <2>9, <2>10, <2>11
<1> QED  BY <1>1, <1>2

\* What parseArgs accepts: the first options, up to the last.
LEMMA LineParsed ==
    ASSUME NEW line \in CommandLines, ~parseArgs(line).err, ~parseArgs(line).help
    PROVE  LET n == Len(Flags(line))
           IN  /\ n \in Nat /\ DOMAIN Flags(line) = 1..n
               /\ \A i \in 1..n : Flags(line)[i] \in Arguments(OptionNames)
               /\ parseArgs(line).memLimit \in Nat \ {0}
               /\ GrantsAsked(Flags(line), n, parseArgs(line))
               /\ MountsAsked(Flags(line), n, parseArgs(line))
               /\ ListenAsked(Flags(line), n, parseArgs(line))
               /\ DestsAsked(Flags(line), n, parseArgs(line))
<1> DEFINE flags == Flags(line)
           n == Len(flags)
           o == FoldLeft(LAMBDA p, a : IF p.err THEN p ELSE Set(p, a),
                         Defaults, flags)
           q == parseArgs(line)
<1>1. /\ n \in Nat /\ DOMAIN flags = 1..n
      /\ \A i \in 1..n : /\ flags[i] \in Arguments(OptionNames)
                         /\ flags[i].opt \in OptionNames \cup {"?"}
  <2>1. line \in Seq(Arguments(OptionNames))
    BY SandboxAssumption DEF OptionNames
  <2>2. /\ Flags(line) \in Seq(Arguments(OptionNames))
        /\ Len(Flags(line)) \in Nat /\ DOMAIN Flags(line) = 1..Len(Flags(line))
        /\ \A i \in 1..Len(Flags(line)) :
               Flags(line)[i].opt \in (OptionNames \cup {"?"}) \ {"word", "--"}
    BY <2>1, FlagsAre, Zenon
  <2> HIDE DEF flags
  <2>3. flags \in Seq(Arguments(OptionNames))
    BY <2>2 DEF flags
  <2> QED  BY <2>2, <2>3 DEF flags
<1> HIDE DEF flags
<1>2. PICK at : /\ at[0] = Defaults
                /\ \A i \in 1..n : at[i] = ArgAssigned(at[i - 1], flags[i])
                /\ o = at[n]
  BY <1>1, ArgFoldSteps
<1> DEFINE T == {i \in 0..n : OptionsParsed(flags, i, at[i])}
<1>3. 0 \in T
  <2>1. 0 \in 0..n
    BY <1>1
  <2> QED  BY <1>2, <2>1, ParsedAtFirst
<1>4. ASSUME NEW i \in 1..n, i - 1 \in T PROVE i \in T
  <2>1. i \in Nat \ {0} /\ i \in 0..n
    BY <1>1
  <2>2. OptionsParsed(flags, i - 1, at[i - 1])
    BY <1>4
  <2>3. OptionsParsed(flags, i, ArgAssigned(at[i - 1], flags[i]))
    BY <1>1, <2>1, <2>2, SetKeeps
  <2> QED  BY <1>2, <2>1, <2>3
<1>5. OptionsParsed(flags, n, o)
  <2> HIDE DEF T
  <2>1. n \in Nat /\ n \in 0..n
    BY <1>1
  <2>2. \A i \in 0..n : i \in T
    BY <1>3, <1>4, <2>1, UpTo
  <2> QED  BY <1>2, <2>1, <2>2 DEF T
<1>6. q = IF o.err \/ o.help THEN o
          ELSE IF validate(o) THEN [o EXCEPT !.guestArgs = Args(line)]
          ELSE Refused(o)
  BY Zenon DEF parseArgs, flags
<1>7. ~q.err /\ ~q.help
  OBVIOUS
<1> HIDE DEF o, q
<1>8. o = [f \in DOMAIN Defaults |-> o[f]] /\ "err" \in DOMAIN Defaults
  BY <1>5 DEF OptionsParsed, Defaults
<1>9. ~o.err /\ validate(o) /\ q = [o EXCEPT !.guestArgs = Args(line)]
  <2>1. CASE o.err \/ o.help
    BY <1>6, <1>7, <2>1
  <2>2. CASE q = Refused(o)
    BY <1>7, <1>8, <2>2 DEF Refused
  <2> QED  BY <1>6, <2>1, <2>2
<1>10. /\ q.memLimit = o.memLimit /\ q.allow = o.allow /\ q.stdio = o.stdio
       /\ q.volumes = o.volumes /\ q.listen = o.listen /\ q.dest = o.dest
  BY <1>8, <1>9 DEF Defaults
<1>11. o.memLimit \in Nat \ {0}
  BY <1>5, <1>9 DEF OptionsParsed, validate
<1>12. /\ GrantsAsked(flags, n, q) /\ MountsAsked(flags, n, q)
       /\ ListenAsked(flags, n, q) /\ DestsAsked(flags, n, q)
  <2>1. GrantsAsked(flags, n, o) /\ MountsAsked(flags, n, o)
    BY <1>5, <1>9, Zenon DEF OptionsParsed
  <2>2. ListenAsked(flags, n, o) /\ DestsAsked(flags, n, o)
    BY <1>5, <1>9, Zenon DEF OptionsParsed
  <2>3. GrantsAsked(flags, n, q)
    BY <1>10, <2>1, Zenon DEF GrantsAsked
  <2>4. MountsAsked(flags, n, q)
    BY <1>10, <2>1, Zenon DEF MountsAsked
  <2>5. ListenAsked(flags, n, q)
    BY <1>10, <2>2, Zenon DEF ListenAsked
  <2>6. DestsAsked(flags, n, q)
    BY <1>10, <2>2, Zenon DEF DestsAsked
  <2> QED  BY <2>3, <2>4, <2>5, <2>6
<1> QED  BY <1>1, <1>10, <1>11, <1>12 DEF flags, q

-----------------------------------------------------------------------------
(* The memory limit *)

\* A quotient is the whole multiples.
LEMMA Division ==
    ASSUME NEW x \in Nat, NEW b \in Nat \ {0}
    PROVE  /\ x \div b \in Nat /\ b * (x \div b) \in Int
           /\ b * (x \div b) <= x /\ x < b * (x \div b) + b
  OBVIOUS

\* Bytes are rounded up to whole pages (memoryLimitPages of policy.go).
LEMMA PagesEnough ==
    ASSUME NEW bytes \in Nat \ {0}, bytes <= MaxInt64 - wasmPageSize + 1,
           ~MemoryLimitPages(bytes).err
    PROVE  /\ MemoryLimitPages(bytes).pages \in 1..maxMemoryLimitPages
           /\ MemoryLimitPages(bytes).pages * wasmPageSize
                  \in bytes .. bytes + wasmPageSize - 1
<1> DEFINE x == bytes + (wasmPageSize - 1)
           k == x \div wasmPageSize
<1>1. /\ MaxInt64 \in Nat \ {0} /\ Word32 \in Nat \ {0} /\ wasmPageSize \in Nat \ {0}
      /\ maxMemoryLimitPages \in Nat \ {0} /\ maxMemoryLimitPages < Word32
  BY PolicyAssumption
<1>2. x \in Nat /\ x <= MaxInt64
  BY <1>1
<1>3. AsI64(x) = x
  <2>1. (x + MaxInt64 + 1) % (2 * (MaxInt64 + 1)) = x + MaxInt64 + 1
    BY <1>1, <1>2
  <2> QED  BY <1>1, <1>2, <2>1 DEF AsI64
<1>4. Quotient(AsI64(x), wasmPageSize) = k
  BY <1>2, <1>3 DEF Quotient
<1>5. /\ k \in Nat /\ wasmPageSize * k \in Int
      /\ wasmPageSize * k <= x /\ x < wasmPageSize * k + wasmPageSize
  BY <1>1, <1>2, Division
<1>6. MemoryLimitPages(bytes) =
          IF bytes <= 0 \/ k > maxMemoryLimitPages
          THEN [err |-> TRUE, pages |-> 0]
          ELSE [err |-> FALSE, pages |-> k % Word32]
  BY <1>4, Zenon DEF MemoryLimitPages, PagesRounded
<1> HIDE DEF k
<1>7. ~(k > maxMemoryLimitPages) /\ MemoryLimitPages(bytes).pages = k % Word32
  <2>1. CASE bytes <= 0 \/ k > maxMemoryLimitPages
    BY <1>6, <2>1
  <2>2. CASE ~(bytes <= 0 \/ k > maxMemoryLimitPages)
    BY <1>6, <2>2
  <2> QED  BY <2>1, <2>2
<1>8. k % Word32 = k
  BY <1>1, <1>5, <1>7
<1>9. k # 0
  <2>1. CASE k = 0
    <3>1. wasmPageSize * k = 0
      BY <1>1, <2>1
    <3> QED  BY <1>1, <1>5, <3>1
  <2> QED  BY <2>1
<1>10. k * wasmPageSize = wasmPageSize * k
  BY <1>1, <1>5
<1>11. k * wasmPageSize \in bytes .. bytes + wasmPageSize - 1
  BY <1>1, <1>5, <1>10
<1>12. k \in 1..maxMemoryLimitPages
  BY <1>1, <1>5, <1>7, <1>9
<1> QED  BY <1>7, <1>8, <1>11, <1>12

-----------------------------------------------------------------------------
(* The options while the process runs *)

\* What the guest runs with is what was parsed, and the memory limit of that.
Accepted ==
    /\ pc # "parse" => args \in CommandLines /\ opts = parseArgs(args)
    /\ guest # "absent" => pc # "parse" /\ ~opts.err /\ ~opts.help
    /\ pc \in {"runtime", "register"} \/ guest # "absent" =>
           /\ ~MemoryLimitPages(opts.memLimit).err
           /\ pages = MemoryLimitPages(opts.memLimit).pages

\* parseArgs runs once and RuntimeConfig once, before the guest starts.
LEMMA AcceptedHolds == Spec => []Accepted
<1>1. Init => Accepted
  BY DEF Init, Accepted
<1>2. Stages /\ Accepted /\ [Next]_vars => Accepted'
  <2> SUFFICES ASSUME Stages, Accepted, [Next]_vars PROVE Accepted'
    OBVIOUS
  <2> USE DEF Accepted
  <2>1. CASE Build
    BY <2>1 DEF Build, runVars
  <2>2. CASE Parse
    <3>1. /\ pc = "parse" /\ guest = "absent" /\ guest' = guest
          /\ args' \in CommandLines /\ opts' = parseArgs(args')
          /\ pc' \in {"open", "exited"}
      BY <2>2 DEF Parse, Stages
    <3> QED  BY <3>1
  <2>3. CASE Startup
    <3>1. guest = "absent"
      BY <2>3 DEF Startup, Passes, Configure, Stages, StartupSteps
    <3>2. ~opts.err /\ ~opts.help /\ opts' = opts /\ args' = args
      BY <2>3 DEF Startup, Passes, Configure, Stages, StartupSteps
    <3>3. CASE Configure
      BY <3>1, <3>2, <3>3 DEF Configure, Passes
    <3>4. CASE ~Configure
      BY <2>3, <3>1, <3>2, <3>4 DEF Startup, Passes
    <3> QED  BY <3>3, <3>4
  <2>4. CASE StartupFails
    BY <2>4 DEF StartupFails, MayFail, Stages, StartupSteps
  <2>5. ASSUME NEW f \in HostCalls, Call(f) \/ CallServed(f) PROVE Accepted'
    BY <2>5 DEF Call, CallServed, CallReturns, HostCalls, Stages, StartupSteps
  <2>6. CASE CallCancelled
    BY <2>6 DEF CallCancelled, CallReturns, Stages, StartupSteps
  <2>7. CASE Expire
    BY <2>7 DEF Expire
  <2>8. CASE Terminated \/ GuestReturns \/ GuestTraps \/ GuestExits
    BY <2>8 DEF Terminated, GuestReturns, GuestTraps, GuestExits, GuestEnds
  <2>9. CASE Deferred
    BY <2>9 DEF Deferred
  <2>10. CASE Exit
    BY <2>10 DEF Exit
  <2>11. CASE UNCHANGED vars
    BY <2>11 DEF vars, runVars
  <2> QED
    BY <2>1, <2>2, <2>3, <2>4, <2>5, <2>6, <2>7, <2>8, <2>9, <2>10, <2>11 DEF Next
<1>3. IInv => Stages
  BY DEF IInv
<1> QED  BY <1>1, <1>2, <1>3, IInvHolds, PTL DEF Spec

\* The memory that wazero gives the guest is what the last -m says in whole
\* pages (RuntimeConfig of policy.go), for every -m and page size.
THEOREM MemoryAsAsked == Spec => []LimitHonoured
<1>1. Accepted => LimitHonoured
  <2> SUFFICES ASSUME Accepted, guest # "absent",
                      opts.memLimit <= MaxInt64 - wasmPageSize + 1
               PROVE  /\ pages \in 1..maxMemoryLimitPages
                      /\ pages * wasmPageSize \in
                             opts.memLimit .. opts.memLimit + wasmPageSize - 1
    BY Zenon DEF LimitHonoured
  <2>1. opts.memLimit \in Nat \ {0}
    BY LineParsed DEF Accepted
  <2> QED  BY <2>1, PagesEnough DEF Accepted
<1> QED  BY <1>1, AcceptedHolds, PTL

\* Given and Flagged are two views of the same arguments.
LEMMA GivenFlagged ==
    ASSUME DOMAIN Flags(args) = 1..Len(Flags(args)), NEW opt
    PROVE  Given(args, opt) =
               {Flags(args)[j] : j \in Flagged(Flags(args), opt, Len(Flags(args)))}
  BY Zenon DEF Given, Flagged, Range

\* Nothing is granted, mounted or opened to the network that the command line
\* did not ask for (parseArgs of options.go, ModuleConfig of policy.go).
THEOREM OnlyWhatWasAsked == Spec => []LeastPrivilege
<1>1. Accepted => LeastPrivilege
  <2> SUFFICES ASSUME Accepted, guest # "absent" PROVE LeastPrivilege
    BY DEF LeastPrivilege
  <2> DEFINE flags == Flags(args)
             n == Len(flags)
             granted == ModuleConfig(opts)
             AskedFor(o, names) == \E a \in Given(args, o) : Range(a.str) \cap names # {}
  <2>1. /\ DOMAIN flags = 1..n
        /\ \A i \in 1..n : flags[i] \in Arguments(OptionNames)
        /\ GrantsAsked(flags, n, opts) /\ MountsAsked(flags, n, opts)
        /\ ListenAsked(flags, n, opts)
    BY LineParsed DEF Accepted
  <2>2. \A opt : Given(args, opt) = {flags[j] : j \in Flagged(flags, opt, n)}
    BY <2>1, GivenFlagged
  <2>3. \A opt, x : Asked(flags, opt, x, n) => AskedFor(opt, {x, "all"})
    BY <2>2, Zenon DEF Asked
  <2>4. granted.random # "error" => AskedFor("a", {"random", "all"})
    BY <2>1, <2>3 DEF ModuleConfig, GrantsAsked
  <2>5. granted.clock # "fake" => AskedFor("a", {"time", "all"})
    BY <2>1, <2>3 DEF ModuleConfig, GrantsAsked
  <2>6. \A s \in granted.stdio : AskedFor("s", {s, "all"})
    BY <2>1, <2>3 DEF ModuleConfig, GrantsAsked
  <2>7. ASSUME NEW m \in granted.mounts
        PROVE  Append(m.host, m.guest) \o (IF m.ReadOnly THEN <<"ro">> ELSE <<>>)
                   \in {a.str : a \in Given(args, "v")}
    <3>1. opts.volumes \in Seq(Mounts) /\ DOMAIN opts.volumes = 1..Len(opts.volumes)
      BY <2>1 DEF MountsAsked
    <3>2. PICK k \in 1..Len(opts.volumes) : m = opts.volumes[k]
      BY <3>1 DEF ModuleConfig, Latest
    <3>3. PICK j \in Flagged(flags, "v", n) : VolumeText(m) = flags[j].str
      BY <2>1, <3>2 DEF MountsAsked
    <3> QED  BY <2>2, <3>3, Zenon DEF VolumeText
  <2>8. ASSUME opts.listen.network = "tcp" /\ opts.listen.host # "127.0.0.1"
        PROVE  \E a \in Given(args, "l") : Len(a.str) = 2 /\ a.str[1] = opts.listen.host
    <3>1. opts.listen # NoListen
      <4>1. NoListen.network # "tcp"
        BY DEF NoListen
      <4> QED  BY <2>8, <4>1, Zenon
    <3>2. PICK j \in Flagged(flags, "l", n) :
              opts.listen = ParseListenAddress(flags[j].str, flags[j].num)
      BY <2>1, <3>1 DEF ListenAsked
    <3>3. Len(flags[j].str) = 2 /\ flags[j].str[1] = opts.listen.host
      BY <2>8, <3>2, AddressRead
    <3> QED  BY <2>2, <3>3
  <2> HIDE DEF granted
  <2> QED  BY <2>4, <2>5, <2>6, <2>7, <2>8, Zenon DEF LeastPrivilege, granted
<1> QED  BY <1>1, AcceptedHolds, PTL

\* As many different values as places.
LEMMA OneEach ==
    ASSUME NEW n \in Nat, NEW S, S \subseteq 1..n, NEW f, DOMAIN f = S,
           \A j, k \in S : f[j] = f[k] => j = k
    PROVE  Cardinality({f[j] : j \in S}) = Cardinality(S)
<1> DEFINE T == {f[j] : j \in S}
           b == [j \in S |-> f[j]]
<1>1. IsFiniteSet(S)
  <2>1. IsFiniteSet(1..n)
    BY FS_Interval
  <2> QED  BY <2>1, FS_Subset
<1>2. b \in [S -> T] /\ (\A j, k \in S : b[j] = b[k] => j = k)
      /\ \A t \in T : \E j \in S : b[j] = t
  OBVIOUS
<1>3. b \in Bijection(S, T)
  <2> HIDE DEF b, T
  <2> QED  BY <1>2, Zenon DEF Bijection, Injection, Surjection, IsInjective
<1>4. ExistsBijection(S, T)
  BY <1>3, Zenon DEF ExistsBijection
<1> QED  BY <1>1, <1>4, FS_Bijection

\* No destination or address given on the command line is lost or replaced by
\* a later one (options.go).
THEOREM EachDestKept == Spec => []NothingOverwritten
<1>1. Accepted => NothingOverwritten
  <2> SUFFICES ASSUME Accepted, guest # "absent" PROVE NothingOverwritten
    BY DEF NothingOverwritten
  <2> DEFINE flags == Flags(args)
             n == Len(flags)
             At(opt) == Flagged(flags, opt, n)
             Times(o) == Cardinality({i \in DOMAIN flags : flags[i].opt = o})
  <2>1. /\ n \in Nat /\ DOMAIN flags = 1..n
        /\ ListenAsked(flags, n, opts) /\ DestsAsked(flags, n, opts)
    BY LineParsed DEF Accepted
  <2>2. \A opt : Given(args, opt) = {flags[j] : j \in At(opt)}
    BY <2>1, GivenFlagged
  <2>3. \A opt : Times(opt) = Cardinality(At(opt))
    BY <2>1 DEF Flagged
  <2>4. opts.dest = {[num |-> a.num, id |-> a.str[1]] : a \in Given(args, "d")}
    <3>1. opts.dest = {DestOf(flags[j]) : j \in At("d")}
      BY <2>1 DEF DestsAsked
    <3>2. {DestOf(flags[j]) : j \in At("d")} = {DestOf(a) : a \in Given(args, "d")}
      <4> DEFINE J == At("d")
                 G == Given(args, "d")
      <4>1. G = {flags[j] : j \in J}
        BY <2>2
      <4> HIDE DEF J, G, flags
      <4>2. ASSUME NEW x PROVE (\E j \in J : x = DestOf(flags[j])) <=> \E a \in G : x = DestOf(a)
        BY <4>1
      <4>3. {DestOf(flags[j]) : j \in J} = {DestOf(a) : a \in G}
        BY <4>2
      <4> QED  BY <4>3 DEF J, G
    <3> QED  BY <3>1, <3>2, Zenon DEF DestOf
  <2>5. Cardinality({d.num : d \in opts.dest}) = Times("d")
    <3> DEFINE f == [j \in At("d") |-> flags[j].num]
    <3>1. {d.num : d \in opts.dest} = {f[j] : j \in At("d")}
      <4>1. \A a : DestOf(a).num = a.num
        BY DEF DestOf
      <4>2. opts.dest = {DestOf(flags[j]) : j \in At("d")}
        BY <2>1 DEF DestsAsked
      <4>3. \A j \in At("d") : f[j] = DestOf(flags[j]).num
        BY <4>1
      <4> DEFINE J == At("d")
      <4>4. opts.dest = {DestOf(flags[j]) : j \in J} /\ \A j \in J : f[j] = DestOf(flags[j]).num
        BY <4>2, <4>3
      <4> HIDE DEF J, f, flags
      <4>5. ASSUME NEW x PROVE (\E d \in opts.dest : x = d.num) <=> \E j \in J : x = f[j]
        BY <4>4
      <4>6. {d.num : d \in opts.dest} = {f[j] : j \in J}
        BY <4>5
      <4> QED  BY <4>6 DEF J
    <3>2. At("d") \subseteq 1..n /\ \A j, k \in At("d") : f[j] = f[k] => j = k
      BY <2>1 DEF DestsAsked, Flagged
    <3>3. DOMAIN f = At("d")
      OBVIOUS
    <3> HIDE DEF f
    <3>4. Cardinality({f[j] : j \in At("d")}) = Cardinality(At("d"))
      BY <2>1, <3>2, <3>3, OneEach
    <3> QED  BY <2>3, <3>1, <3>4, Zenon
  <2>6. Times("l") = IF opts.listen = NoListen THEN 0 ELSE 1
    <3>1. CASE opts.listen = NoListen
      <4>1. At("l") = {}
        BY <2>1, <3>1 DEF ListenAsked
      <4> QED  BY <2>3, <3>1, <4>1, FS_EmptySet
    <3>2. CASE opts.listen # NoListen
      <4>1. PICK j : At("l") = {j}
        BY <2>1, <3>2 DEF ListenAsked
      <4> QED  BY <2>3, <3>2, <4>1, FS_Singleton
    <3> QED  BY <3>1, <3>2
  <2> QED  BY <2>4, <2>5, <2>6, Zenon DEF NothingOverwritten
<1> QED  BY <1>1, AcceptedHolds, PTL

\* Seen from the file, the life of the process is a sequence of builds: what is
\* proved of those (module StampProofs) holds of the file that runs.
THEOREM BuildsOnly == Spec => BuildSpec
<1>1. Init => BuildInit
  BY DEF Init
<1>2. [Next]_vars => [BuildStep]_buildVars
  BY DEF Next, Build, Parse, Startup, Passes, Configure, StartupFails, Call, CallServed,
     CallReturns, CallCancelled, Expire, Terminated, GuestReturns, GuestTraps,
     GuestExits, GuestEnds, Deferred, Exit, vars
<1> QED  BY <1>1, <1>2, PTL DEF Spec, BuildSpec
=============================================================================
