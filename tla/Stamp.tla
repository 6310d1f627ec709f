-------------------------------- MODULE Stamp --------------------------------
(***************************************************************************)
(* The executable file: the build tool, from its command line on, writes    *)
(* base, module and footer, and the finished program finds the module in    *)
(* its own file.  A file is a sequence of cells of footerSize bytes: a      *)
(* footer is one cell, any other cell stands for bytes that do not begin    *)
(* with the magic.  The version and the reserved bytes of a footer are      *)
(* never read and are left out.                                             *)
(***************************************************************************)
EXTENDS FlagSet

CONSTANTS
    supportedTargets,   \* pairs of a system and an architecture
    ThisTarget,         \* the pair that the build tool itself runs on
    Base,       \* the base binaries embedded in the build tool, by target
    Modules,    \* the files it can read, by name; it takes any file as a
                \* module, so also one that ends in a footer
    BuildLines  \* the command lines of the build tool

Cells == [magic : BOOLEAN, offset : Nat, length : Nat]

\* A base binary is not empty and has no footer of its own.
ASSUME StampAssumption ==
    /\ Base \in [supportedTargets -> Seq(Cells) \ {<<>>}]
    /\ \A t \in supportedTargets : \A i \in 1..Len(Base[t]) : ~Base[t][i].magic
    /\ Modules \in [DOMAIN Modules -> Seq(Cells)]
    /\ BuildLines \subseteq Seq(Arguments({"o", "target", "h"}))

footerSize == 1

Code(x) == [magic |-> FALSE, offset |-> x, length |-> 0]

Footer(base, wasm) ==
    [magic |-> TRUE, offset |-> Len(base), length |-> Len(wasm)]

\* What the build tool writes.
stamp(base, wasm) == base \o wasm \o <<Footer(base, wasm)>>

NotStamped  == [err |-> "ErrNotStamped", wasm |-> <<>>]
Corrupt     == [err |-> "corrupt footer", wasm |-> <<>>]
Module(w)   == [err |-> "nil", wasm |-> w]

\* Faulty variant: only the offsets are checked, not that they end at the
\* footer.
ExtractWASMInside(r) ==
    LET size == Len(r)
        footer == r[size]
    IN  IF size < footerSize \/ ~footer.magic THEN NotStamped
        ELSE IF footer.offset > size \/ footer.length > size - footer.offset
             THEN Corrupt
        ELSE Module(SubSeq(r, footer.offset + 1, footer.offset + footer.length))

\* What the finished program reads.  The sum of offset and length cannot wrap
\* once the first two tests have passed.
ExtractWASM(r) ==
    LET size == Len(r)
        footer == r[size]
    IN  IF size < footerSize \/ ~footer.magic THEN NotStamped
        ELSE IF \/ footer.offset > size
                \/ footer.length > size - footer.offset
                \/ footer.offset + footer.length # size - footerSize
             THEN Corrupt
        ELSE Module(SubSeq(r, footer.offset + 1, footer.offset + footer.length))

-----------------------------------------------------------------------------
(* The options of the build tool *)

BuildDefaults == [err |-> FALSE, help |-> FALSE, output |-> "", targetSet |-> FALSE,
                  target |-> <<>>, wasmPath |-> ""]

\* Faulty variant: --target is not marked as set.
SetTargetOnly(o, a) ==
    IF a.str \in supportedTargets THEN [o EXCEPT !.target = a.str]
    ELSE [o EXCEPT !.err = TRUE]

\* --target, parsed and looked up.
SetTarget(o, a) ==
    IF a.str \in supportedTargets
    THEN [o EXCEPT !.target = a.str, !.targetSet = TRUE]
    ELSE [o EXCEPT !.err = TRUE]

SetBuild(o, a) ==
    CASE a.opt = "o"      -> [o EXCEPT !.output = a.str[1]]
      [] a.opt = "target" -> SetTarget(o, a)
      [] a.opt = "h"      -> [o EXCEPT !.help = TRUE]
      [] a.opt = "?"      -> [o EXCEPT !.err = TRUE]

\* The tool's own platform is only looked up when no target was given.
parseBuildArgs(args) ==
    LET o == FoldLeft(LAMBDA opts, a : IF opts.err THEN opts ELSE SetBuild(opts, a),
                      BuildDefaults, Flags(args))
        files == Args(args)
    IN  IF o.err \/ o.help THEN o
        ELSE IF \/ ~o.targetSet /\ ThisTarget \notin supportedTargets
                \/ o.output = ""
                \/ Len(files) # 1
        THEN [o EXCEPT !.err = TRUE]
        ELSE [o EXCEPT !.target = IF o.targetSet THEN @ ELSE ThisTarget,
                       !.wasmPath = files[1].str[1]]

\* The tool gets as far as writing: base binary and module can be read.
Ready(o) ==
    /\ ~o.err /\ ~o.help
    /\ o.target \in DOMAIN Base
    /\ o.wasmPath \in DOMAIN Modules

\* The output for a command line.
Out(args) ==
    LET o == parseBuildArgs(args) IN stamp(Base[o.target], Modules[o.wasmPath])

-----------------------------------------------------------------------------
VARIABLES
    file,     \* the contents of the executable
    given,    \* the command line of the last build that opened its output
    build     \* "none", "writing", "cut" or "done": how far that build got

buildVars == <<file, given, build>>

ReadyLines == {line \in BuildLines : Ready(parseBuildArgs(line))}

\* A plain base binary, or what an earlier build has left.
BuildInit ==
    \/ file \in Range(Base) /\ given = <<>> /\ build = "none"
    \/ \E line \in ReadyLines : file = Out(line) /\ given = line /\ build = "done"

\* The tool has read base and module; os.WriteFile truncates the output.  (With
\* another command line the tool ends before it touches the output.)
OpenOutput ==
    /\ build # "writing"
    /\ given' \in ReadyLines
    /\ file' = <<>>
    /\ build' = "writing"

WriteOutput ==
    /\ build = "writing"
    /\ LET out == Out(given)
       IN  /\ file' = SubSeq(out, 1, Len(file) + 1)
           /\ build' = IF file' = out THEN "done" ELSE "writing"
    /\ UNCHANGED given

\* The disk is full, or the tool is killed; the output stays as it is.
WriteCut ==
    /\ build = "writing"
    /\ build' = "cut"
    /\ UNCHANGED <<file, given>>

BuildStep == OpenOutput \/ WriteOutput \/ WriteCut

BuildSpec == BuildInit /\ [][BuildStep]_buildVars

-----------------------------------------------------------------------------
\* A file that was written to the end yields the module it was built from; the
\* base alone and whatever is left of a build that was cut short are refused,
\* also when the module, itself a stamped file, has a footer of its own.
IntactOrRefused ==
    LET found == ExtractWASM(file)
    IN  IF build = "done"
        THEN found = Module(Modules[parseBuildArgs(given).wasmPath])
        ELSE found.err # "nil"

\* docs/usage, --target: a finished file is for the platform named last on the
\* command line, and for the tool's own when none was.
BuiltAsAsked ==
    LET flags == Flags(given)
        named == {i \in DOMAIN flags : flags[i].opt = "target"}
        asked == IF named = {} THEN ThisTarget ELSE flags[Max(named)].str
    IN  build = "done" => IsPrefix(Base[asked], file)
=============================================================================
