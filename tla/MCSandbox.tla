----------------------------- MODULE MCSandbox -----------------------------
(* Module Sandbox with two targets, modules that are empty or a cell, one of  *)
(* them itself a stamped file, 7-bit integers for 64-bit ones, 3-bit for      *)
(* 32-bit ones, and pages of 4 bytes of which memory has at most 4.           *)
EXTENDS Sandbox

MCDeadlineCode == 1000
MCGuestCodes == {0, 3, TimeoutCode, MCDeadlineCode}

Linux == <<"linux", "amd64">>
Windows == <<"windows", "arm64">>
MCTargets == {Linux, Windows}
MCThisTarget == Linux
MCBase == Linux :> <<Code(1)>> @@ Windows :> <<Code(2), Code(1)>>
MCModules ==
    "empty" :> <<>> @@ "code" :> <<Code(3)>>
        @@ "stamped" :> stamp(MCBase[Linux], <<Code(3)>>)

Out1 == Option("o", 0, <<"out">>)
For(t) == Option("target", 0, t)
MCBuildLines ==
    {<<Out1, Word(m)>> : m \in DOMAIN MCModules \cup {"missing"}}
        \cup {<<For(t), Out1, Word("code")>> : t \in {Windows, <<"linux", "mips">>}}
        \cup {<<For(Windows), For(Linux), Out1, DashDash, Word("stamped")>>,
              <<Option("h", 0, <<>>)>>, <<Option("?", 0, <<>>)>>,
              <<Word("code")>>, <<Out1>>}

MCMultiplier == "" :> 1 @@ "k" :> 2 @@ "m" :> 8
Sizes == [n : {0, 3}, suffix : {""}] \cup [n : {4, 5}, suffix : {"k"}]
             \cup [n : {2, 3, 8}, suffix : {"m"}] \cup [n : {62, 64}, suffix : {"", "?"}]
MemLimits == {Option("m", s.n, <<s.suffix>>) : s \in Sizes}

Name == Option("n", 0, <<"core">>)
Time == Option("t", 5, <<"s">>)
Listens ==
    {Option("l", n, <<"#">>) : n \in {0, 7}}
        \cup {Option("l", 7, s) : s \in {<<"", "#">>, <<"unix", "/s">>, <<"C", "/s">>}}
Volumes ==
    {Option("v", 0, s) :
        s \in {<<"C", "/h", "/g">>, <<"C", "/h", "/g", "ro">>, <<"/h", "/g", "ro">>,
               <<"/no", "/g">>, <<"", "/g">>, <<"/h", "ro">>}}
Dests == {Option("d", n, <<"a">>) : n \in 0..2} \cup {Option("d", 1, <<"b">>)}
Lists == {Option("a", 0, <<"random">>), Option("a", 0, <<"all">>),
          Option("s", 0, <<"in", "out">>), Option("s", 0, <<"inn">>)}
Others == {Option("b", 0, <<>>), Option("f", 4, <<"">>), Option("t", 0, <<"s">>),
           Option("e", 0, <<"K", "1">>), Option("e", 0, <<"K", "2">>),
           Option("e", 0, <<"">>),
           Option("?", 0, <<>>), Option("h", 0, <<>>), Word("x"), DashDash}

MCHostPaths == {<<"C", "/h">>, <<"/h">>}

\* All pairs of arguments, and what the life of a process depends on together:
\* an address of its own, a deadline, the calls that its guest may be blocked in,
\* and its memory.
Pairs == SeqOf(Listens \cup Volumes \cup Dests \cup Lists \cup Others, 2)
Lives == {a \o b \o c \o <<m>> : a \in {<<>>, <<Name>>}, b \in {<<>>, <<Time>>},
             c \in {<<>>, <<Option("d", 1, <<"a">>), Option("l", 7, <<"#">>),
                           Option("s", 0, <<"all">>), Option("a", 0, <<"time">>)>>},
             m \in MemLimits}
MCCommandLines == Pairs \cup Lives
=============================================================================
