----------------------------- MODULE StampProofs -----------------------------
(***************************************************************************)
(* What the build tool has written to the end is read back whole, for every *)
(* base binary and every set of modules.                                    *)
(***************************************************************************)
EXTENDS Stamp, SequenceTheorems, WellFoundedInduction, TLAPS

\* The two implementations of the format agree (stamp.go and footer.go): what
\* stamp writes, ExtractWASM finds.
LEMMA RoundTrip ==
    ASSUME NEW base \in Seq(Cells), NEW wasm \in Seq(Cells)
    PROVE  ExtractWASM(stamp(base, wasm)) = Module(wasm)
<1> DEFINE f   == Footer(base, wasm)
           out == stamp(base, wasm)
           body == base \o wasm
<1>1. /\ f \in Cells
      /\ f.magic = TRUE /\ f.offset = Len(base) /\ f.length = Len(wasm)
  BY DEF Footer, Cells
<1>2. body \in Seq(Cells) /\ Len(body) = Len(base) + Len(wasm)
  OBVIOUS
<1>3. out = Append(body, f)
  BY <1>1, <1>2 DEF stamp
<1>4. /\ out \in Seq(Cells)
      /\ Len(out) = Len(base) + Len(wasm) + 1
      /\ out[Len(out)] = f
  BY <1>1, <1>2, <1>3
<1>5. SubSeq(out, Len(base) + 1, Len(base) + Len(wasm)) = wasm
  <2> DEFINE w == SubSeq(out, Len(base) + 1, Len(base) + Len(wasm))
  <2>1. w \in Seq(Cells) /\ Len(w) = Len(wasm)
    BY <1>4
  <2>2. ASSUME NEW i \in 1..Len(wasm) PROVE w[i] = wasm[i]
    <3>1. w[i] = out[Len(base) + i]
      BY <1>4
    <3>2. out[Len(base) + i] = body[Len(base) + i]
      BY <1>1, <1>2, <1>3
    <3>3. body[Len(base) + i] = wasm[i]
      OBVIOUS
    <3> QED BY <3>1, <3>2, <3>3
  <2> QED BY <2>1, <2>2, SeqEqual
<1>6. Len(base) \in Nat /\ Len(wasm) \in Nat
  OBVIOUS
<1> HIDE DEF f, out, body
<1>7. ExtractWASM(out) = Module(SubSeq(out, Len(base) + 1, Len(base) + Len(wasm)))
  <2>1. ~(Len(out) < footerSize) /\ f.magic
    BY <1>1, <1>4, <1>6 DEF footerSize
  <2>2. ~ \/ f.offset > Len(out)
          \/ f.length > Len(out) - f.offset
          \/ f.offset + f.length # Len(out) - footerSize
    BY <1>1, <1>4, <1>6 DEF footerSize
  <2> QED BY <1>1, <1>4, <2>1, <2>2, Zenon DEF ExtractWASM
<1> QED
  BY <1>5, <1>7 DEF out

\* A build that has opened its output has a base binary and a module, and once
\* it is done the file is all of its output.
Output ==
    /\ build \in {"none", "writing", "cut", "done"}
    /\ build # "none" => Ready(parseBuildArgs(given))
    /\ build = "done" => file = Out(given)

\* A finished build yields the module it was given.
Intact ==
    build = "done" =>
        ExtractWASM(file) = Module(Modules[parseBuildArgs(given).wasmPath])

\* Output holds in every state of every sequence of builds.
LEMMA OutputKept == BuildSpec => []Output
<1>1. BuildInit => Output
  BY DEF BuildInit, Output, ReadyLines
<1>2. Output /\ [BuildStep]_buildVars => Output'
  <2> SUFFICES ASSUME Output, [BuildStep]_buildVars PROVE Output'
    OBVIOUS
  <2>1. CASE OpenOutput
    BY <2>1 DEF OpenOutput, Output, ReadyLines
  <2>2. CASE WriteOutput
    BY <2>2 DEF WriteOutput, Output
  <2>3. CASE WriteCut
    BY <2>3 DEF WriteCut, Output
  <2>4. CASE UNCHANGED buildVars
    BY <2>4 DEF buildVars, Output
  <2> QED BY <2>1, <2>2, <2>3, <2>4 DEF BuildStep
<1> QED BY <1>1, <1>2, PTL DEF BuildSpec

\* However often the executable is built over, cut short or not: when the last
\* build was finished, the program that is run finds the module of that build.
THEOREM FinishedBuildsRun == BuildSpec => []Intact
<1>1. Output => Intact
  <2> SUFFICES ASSUME Output, build = "done" PROVE Intact
    BY DEF Intact
  <2> DEFINE o == parseBuildArgs(given)
  <2>1. o.target \in DOMAIN Base /\ o.wasmPath \in DOMAIN Modules
    BY DEF Output, Ready
  <2>2. Base[o.target] \in Seq(Cells) /\ Modules[o.wasmPath] \in Seq(Cells)
    BY <2>1, StampAssumption
  <2>3. file = stamp(Base[o.target], Modules[o.wasmPath])
    BY DEF Output, Out
  <2> QED BY <2>2, <2>3, RoundTrip DEF Intact
<1> QED BY <1>1, OutputKept, PTL

-----------------------------------------------------------------------------
(* Files whose build was not finished *)

\* No module carries, at a place where a build might be cut short behind it, a
\* footer whose numbers fit that place.  (What the build tool writes for such
\* a module and is then cut off there would be a stamped file.)
NoDecoy ==
    \A t \in supportedTargets, m \in DOMAIN Modules : \A i \in 1..Len(Modules[m]) :
        LET cell == Modules[m][i]
        IN  cell.magic => cell.offset + cell.length # Len(Base[t]) + i - footerSize

\* The file is what the base binaries' build left, or a beginning of the
\* output that lacks at least the footer.
Partial ==
    /\ build = "none" => file \in Range(Base)
    /\ build \in {"writing", "cut"} =>
           \E n \in Nat : n < Len(Out(given)) /\ file = SubSeq(Out(given), 1, n)

\* The parts of the output of a build that can be made.
LEMMA OutputParts ==
    ASSUME NEW line, Ready(parseBuildArgs(line))
    PROVE  \E t \in supportedTargets, m \in DOMAIN Modules :
               /\ t = parseBuildArgs(line).target
               /\ Out(line) = stamp(Base[t], Modules[m])
               /\ Base[t] \in Seq(Cells) /\ Modules[m] \in Seq(Cells)
               /\ Out(line) \in Seq(Cells)
               /\ Len(Out(line)) = Len(Base[t]) + Len(Modules[m]) + 1
               /\ \A i \in 1..(Len(Base[t]) + Len(Modules[m])) :
                      Out(line)[i] = IF i <= Len(Base[t]) THEN Base[t][i]
                                     ELSE Modules[m][i - Len(Base[t])]
<1> DEFINE o == parseBuildArgs(line)
<1>1. o.target \in DOMAIN Base /\ o.wasmPath \in DOMAIN Modules
  BY DEF Ready
<1>2. PICK t \in supportedTargets, m \in DOMAIN Modules :
          t = o.target /\ m = o.wasmPath
  BY <1>1, StampAssumption
<1>3. PICK b \in Seq(Cells) : b = Base[t]
  BY StampAssumption
<1>4. PICK w \in Seq(Cells) : w = Modules[m]
  BY StampAssumption
<1>5. Out(line) = stamp(b, w)
  BY <1>2, <1>3, <1>4 DEF Out
<1>6. Footer(b, w) \in Cells
  BY DEF Footer, Cells
<1>7. /\ b \o w \in Seq(Cells) /\ Len(b \o w) = Len(b) + Len(w)
      /\ \A i \in 1..(Len(b) + Len(w)) :
             (b \o w)[i] = IF i <= Len(b) THEN b[i] ELSE w[i - Len(b)]
  BY ConcatProperties
<1>8. stamp(b, w) = Append(b \o w, Footer(b, w))
  BY <1>6, <1>7, AppendIsConcat DEF stamp
<1>9. /\ stamp(b, w) \in Seq(Cells) /\ Len(stamp(b, w)) = Len(b \o w) + 1
      /\ \A i \in 1..Len(b \o w) : stamp(b, w)[i] = (b \o w)[i]
  BY <1>6, <1>7, <1>8, AppendProperties
<1>10. /\ Len(stamp(b, w)) = Len(b) + Len(w) + 1
       /\ \A i \in 1..(Len(b) + Len(w)) :
              stamp(b, w)[i] = IF i <= Len(b) THEN b[i] ELSE w[i - Len(b)]
  BY <1>7, <1>9
<1>11. /\ Out(line) = stamp(Base[t], Modules[m])
       /\ Base[t] \in Seq(Cells) /\ Modules[m] \in Seq(Cells)
       /\ Out(line) \in Seq(Cells)
  BY <1>3, <1>4, <1>5, <1>9
<1>12. /\ Len(Out(line)) = Len(Base[t]) + Len(Modules[m]) + 1
       /\ \A i \in 1..(Len(Base[t]) + Len(Modules[m])) :
              Out(line)[i] = IF i <= Len(Base[t]) THEN Base[t][i]
                             ELSE Modules[m][i - Len(Base[t])]
  BY <1>3, <1>4, <1>5, <1>10
<1> HIDE DEF o
<1> QED  BY <1>2, <1>11, <1>12 DEF o

\* Partial holds in every state of every sequence of builds.
LEMMA PartialKept == BuildSpec => []Partial
<1>1. BuildInit => Partial
  BY DEF BuildInit, Partial
<1>2. Output /\ Partial /\ [BuildStep]_buildVars => Partial'
  <2> SUFFICES ASSUME Output, Partial, [BuildStep]_buildVars PROVE Partial'
    OBVIOUS
  <2>1. CASE OpenOutput
    <3>1. given' \in ReadyLines /\ file' = <<>> /\ build' = "writing"
      BY <2>1 DEF OpenOutput
    <3>2. PICK line : line = given' /\ Ready(parseBuildArgs(line))
      BY <3>1 DEF ReadyLines
    <3>3. Out(line) \in Seq(Cells) /\ 0 < Len(Out(line))
      <4>1. PICK t \in supportedTargets, m \in DOMAIN Modules :
                /\ Base[t] \in Seq(Cells) /\ Modules[m] \in Seq(Cells)
                /\ Out(line) \in Seq(Cells)
                /\ Len(Out(line)) = Len(Base[t]) + Len(Modules[m]) + 1
        BY <3>2, OutputParts
      <4>2. Len(Base[t]) \in Nat /\ Len(Modules[m]) \in Nat
        BY <4>1, LenProperties
      <4> QED  BY <4>1, <4>2
    <3>4. file' = SubSeq(Out(line), 1, 0)
      BY <3>1, <3>3
    <3> QED  BY <3>1, <3>2, <3>3, <3>4 DEF Partial
  <2>2. CASE WriteOutput
    <3>1. /\ build = "writing" /\ given' = given
          /\ file' = SubSeq(Out(given), 1, Len(file) + 1)
          /\ build' = IF file' = Out(given) THEN "done" ELSE "writing"
      BY <2>2 DEF WriteOutput
    <3>2. PICK n \in Nat : n < Len(Out(given)) /\ file = SubSeq(Out(given), 1, n)
      BY <3>1 DEF Partial
    <3>3. PICK out \in Seq(Cells) : out = Out(given)
      BY <3>1, OutputParts DEF Output
    <3>4. Len(out) \in Nat /\ SubSeq(out, 1, Len(out)) = out /\ Len(SubSeq(out, 1, n)) = n
      BY <3>2, <3>3
    <3>5. file' = SubSeq(out, 1, n + 1)
      BY <3>1, <3>2, <3>3, <3>4
    <3>6. CASE n + 1 = Len(out)
      BY <3>1, <3>3, <3>4, <3>5, <3>6 DEF Partial
    <3>7. CASE n + 1 < Len(out)
      <4>1. n + 1 \in Nat /\ build' \in {"done", "writing"}
        BY <3>1
      <4> QED  BY <3>1, <3>3, <3>5, <3>7, <4>1 DEF Partial
    <3>8. n + 1 = Len(out) \/ n + 1 < Len(out)
      <4>1. n < Len(out) /\ n \in Nat /\ Len(out) \in Nat
        BY <3>2, <3>3, <3>4
      <4> QED  BY <4>1
    <3> QED  BY <3>6, <3>7, <3>8
  <2>3. CASE WriteCut
    BY <2>3 DEF WriteCut, Partial
  <2>4. CASE UNCHANGED buildVars
    BY <2>4 DEF buildVars, Partial
  <2> QED  BY <2>1, <2>2, <2>3, <2>4 DEF BuildStep
<1> QED  BY <1>1, <1>2, OutputKept, PTL DEF BuildSpec

\* A file whose last cell is no footer, or one whose numbers do not fit it, is
\* refused.
LEMMA NoFooter ==
    ASSUME NEW r \in Seq(Cells),
           r # <<>> /\ r[Len(r)].magic
               => r[Len(r)].offset + r[Len(r)].length # Len(r) - footerSize
    PROVE  ExtractWASM(r).err # "nil"
<1>1. CASE r = <<>>
  <2>1. Len(r) < footerSize
    BY <1>1 DEF footerSize
  <2>2. ExtractWASM(r) = NotStamped
    BY <2>1, Zenon DEF ExtractWASM
  <2> QED  BY <2>2 DEF NotStamped
<1>2. CASE r # <<>> /\ ~r[Len(r)].magic
  <2>1. ExtractWASM(r) = NotStamped
    BY <1>2, Zenon DEF ExtractWASM
  <2> QED  BY <2>1 DEF NotStamped
<1>3. CASE r # <<>> /\ r[Len(r)].magic
  <2>1. r[Len(r)].offset + r[Len(r)].length # Len(r) - footerSize
    BY <1>3
  <2>2. ExtractWASM(r) = Corrupt \/ ExtractWASM(r) = NotStamped
    BY <2>1, Zenon DEF ExtractWASM
  <2>3. Corrupt.err # "nil" /\ NotStamped.err # "nil"
    BY DEF Corrupt, NotStamped
  <2> QED  BY <2>2, <2>3, Zenon
<1> QED  BY <1>1, <1>2, <1>3

\* Whatever builds were made over each other and cut short, the program finds
\* in its file either the whole module of the build that was finished last, or
\* nothing that it would run (stamp.go, footer.go).
THEOREM CutBuildsRefused == ASSUME NoDecoy PROVE BuildSpec => []IntactOrRefused
<1>1. ASSUME Output, Partial, Intact PROVE IntactOrRefused
  <2>1. CASE build = "done"
    BY <1>1, <2>1 DEF Intact, IntactOrRefused
  <2>2. CASE build = "none"
    <3>1. PICK t \in supportedTargets : file = Base[t]
      BY <1>1, <2>2, StampAssumption DEF Partial, Range
    <3>2. file \in Seq(Cells) /\ file # <<>> /\ \A i \in 1..Len(file) : ~file[i].magic
      BY <3>1, StampAssumption
    <3>3. Len(file) \in 1..Len(file)
      BY <3>2, EmptySeq
    <3>4. ExtractWASM(file).err # "nil"
      BY <3>2, <3>3, NoFooter
    <3> QED  BY <2>2, <3>4 DEF IntactOrRefused
  <2>3. CASE build \in {"writing", "cut"}
    <3>1. PICK n \in Nat : n < Len(Out(given)) /\ file = SubSeq(Out(given), 1, n)
      BY <1>1, <2>3 DEF Partial
    <3>2. Ready(parseBuildArgs(given))
      BY <1>1, <2>3 DEF Output
    <3>3. PICK t \in supportedTargets, m \in DOMAIN Modules :
              /\ Base[t] \in Seq(Cells) /\ Modules[m] \in Seq(Cells)
              /\ Out(given) \in Seq(Cells)
              /\ Len(Out(given)) = Len(Base[t]) + Len(Modules[m]) + 1
              /\ \A i \in 1..(Len(Base[t]) + Len(Modules[m])) :
                     Out(given)[i] = IF i <= Len(Base[t]) THEN Base[t][i]
                                     ELSE Modules[m][i - Len(Base[t])]
      BY <3>2, OutputParts
    <3>4. PICK out \in Seq(Cells) : out = Out(given)
      BY <3>3
    <3>5. PICK r \in Seq(Cells) : r = SubSeq(out, 1, n)
      BY <3>1, <3>4
    <3>6. Len(r) = n /\ \A i \in 1..n : r[i] = out[i]
      BY <3>1, <3>4, <3>5
    <3>7. Len(Base[t]) \in Nat /\ Len(Modules[m]) \in Nat
      BY <3>3, LenProperties
    <3>8. ASSUME r # <<>>, r[n].magic
          PROVE  r[n].offset + r[n].length # n - footerSize
      <4>1. n \in 1..(Len(Base[t]) + Len(Modules[m]))
        BY <3>1, <3>3, <3>5, <3>6, <3>7, <3>8, EmptySeq
      <4>2. r[n] = IF n <= Len(Base[t]) THEN Base[t][n] ELSE Modules[m][n - Len(Base[t])]
        BY <3>3, <3>4, <3>6, <4>1, SMTT(30)
      <4>3. CASE n <= Len(Base[t])
        <5>1. n \in 1..Len(Base[t]) /\ r[n] = Base[t][n]
          BY <3>7, <4>1, <4>2, <4>3
        <5> QED  BY <3>8, <5>1, StampAssumption
      <4>4. CASE ~(n <= Len(Base[t]))
        <5>1. PICK a \in Nat, i \in Int : a = Len(Base[t]) /\ i = n - a
          BY <3>7
        <5>2. i \in 1..Len(Modules[m]) /\ r[n] = Modules[m][i] /\ n = a + i
          BY <3>7, <4>1, <4>2, <4>4, <5>1
        <5>3. Modules[m][i].magic
              => Modules[m][i].offset + Modules[m][i].length # Len(Base[t]) + i - footerSize
          BY <5>2 DEF NoDecoy
        <5>4. n = Len(Base[t]) + i /\ r[n] = Modules[m][i]
          BY <5>1, <5>2
        <5>5. r[n].magic => r[n].offset + r[n].length # Len(Base[t]) + i - footerSize
          BY <5>3, <5>4
        <5>6. r[n].offset + r[n].length # Len(Base[t]) + i - footerSize
          BY <3>8, <5>5
        <5> QED  BY <3>7, <5>1, <5>4, <5>6 DEF footerSize
      <4> QED  BY <4>3, <4>4
    <3>9. ExtractWASM(r).err # "nil"
      BY <3>6, <3>8, NoFooter
    <3> QED  BY <2>3, <3>1, <3>4, <3>5, <3>9 DEF IntactOrRefused
  <2> QED  BY <1>1, <2>1, <2>2, <2>3 DEF Output
<1> QED  BY <1>1, OutputKept, PartialKept, FinishedBuildsRun, PTL

-----------------------------------------------------------------------------
(* The command line of the build tool: FoldLeft over the options *)

\* The induction of these proofs: a set of naturals has a least element.
LEMMA LeastNatural ==
    ASSUME NEW T, T \subseteq Nat, T # {}
    PROVE  \E x \in T : \A y \in T : x <= y
<1>1. PICK x \in T : \A y \in T : <<y, x>> \notin OpToRel(<, Nat)
  BY WFMin, NatLessThanWellFounded, Zenon
<1>2. ASSUME NEW y \in T PROVE x <= y
  <2>1. x \in Nat /\ y \in Nat
    OBVIOUS
  <2>2. <<y, x>> \notin {ss \in Nat \X Nat : ss[1] < ss[2]}
    BY <1>1, Zenon DEF OpToRel
  <2>3. ~(y < x)
    BY <2>1, <2>2
  <2> QED  BY <2>1, <2>3
<1> QED  BY <1>2, Zenon

\* A set of naturals that has 0 and the successor of each of its elements
\* below a bound has all up to the bound.
LEMMA UpTo ==
    ASSUME NEW n \in Nat, NEW T, 0 \in T, \A i \in 1..n : i - 1 \in T => i \in T
    PROVE  \A i \in 0..n : i \in T
<1> SUFFICES ASSUME NEW j \in 0..n, j \notin T PROVE FALSE
  OBVIOUS
<1> DEFINE missing == {i \in 0..n : i \notin T}
<1>1. PICK i \in missing : \A k \in missing : i <= k
  <2>1. missing \subseteq Nat /\ missing # {}
    OBVIOUS
  <2> QED  BY <2>1, LeastNatural
<1>2. i \in 1..n /\ i - 1 \in 0..n /\ ~(i <= i - 1)
  BY <1>1
<1> QED  BY <1>1, <1>2

\* The largest of the first numbers.
LEMMA MaxOfFirst ==
    ASSUME NEW k \in Nat, NEW x \in SUBSET (1..(k + 1)), x # {}
    PROVE  /\ Max(x) \in x
           /\ x \ {Max(x)} \in SUBSET (1..k)
           /\ \A m \in x : m <= Max(x)
           /\ k + 1 \in x => Max(x) = k + 1
<1> DEFINE gaps == {k + 1 - m : m \in x}
<1>1. PICK d \in gaps : \A e \in gaps : d <= e
  <2>1. ASSUME NEW m \in x PROVE k + 1 - m \in Nat
    OBVIOUS
  <2>2. gaps \subseteq Nat
    BY <2>1
  <2>3. gaps # {}
    OBVIOUS
  <2> HIDE DEF gaps
  <2> QED  BY <2>2, <2>3, LeastNatural
<1>2. PICK m \in x : \A e \in x : k + 1 - m <= k + 1 - e
  BY <1>1
<1>3. \A e \in x : m >= e
  BY <1>2
<1>4. Max(x) \in x /\ \A e \in x : Max(x) >= e
  BY <1>3, Zenon DEF Max
<1>5. \A e \in x : e \in 1..(k + 1)
  OBVIOUS
<1>6. \A e \in x : e <= Max(x)
  BY <1>4, <1>5
<1>7. PICK top \in x : top = Max(x)
  BY <1>4
<1>8. \A e \in x : e <= top
  BY <1>6, <1>7
<1>9. \A e \in x \ {top} : e \in 1..k
  BY <1>5, <1>8
<1>10. k + 1 \in x => top = k + 1
  BY <1>5, <1>8
<1> QED  BY <1>6, <1>7, <1>9, <1>10, Zenon

\* What FlagSet parses: the arguments before the first word or "--".
LEMMA FlagsAre ==
    ASSUME NEW names, NEW line \in Seq(Arguments(names))
    PROVE  /\ Flags(line) \in Seq(Arguments(names))
           /\ Len(Flags(line)) \in Nat /\ DOMAIN Flags(line) = 1..Len(Flags(line))
           /\ \A i \in 1..Len(Flags(line)) :
                  Flags(line)[i].opt \in (names \cup {"?"}) \ {"word", "--"}
<1> DEFINE Ends(i) == line[i].opt \in {"word", "--"}
           ends == {i \in 1..Len(line) : Ends(i)}
           n == IF ends = {} THEN Len(line) ELSE Stop(line) - 1
<1>1. Stop(line) = IF ends # {} THEN Min(ends) ELSE 0
  BY Zenon DEF Stop, SelectInSeq
<1>2. ends \subseteq 1..Len(line) /\ Len(line) \in Nat
  OBVIOUS
<1>3. ASSUME ends # {} PROVE Stop(line) \in ends /\ \A k \in ends : Stop(line) <= k
  <2>1. PICK least \in ends : \A k \in ends : least <= k
    <3>1. ends \subseteq Nat
      BY <1>2
    <3> HIDE DEF ends
    <3> QED  BY <1>3, <3>1, LeastNatural
  <2>2. Min(ends) \in ends /\ \A k \in ends : Min(ends) <= k
    BY <2>1, Zenon DEF Min
  <2> QED  BY <1>1, <1>3, <2>2, Zenon
<1>4. n \in 0..Len(line) /\ \A i \in 1..n : i \in 1..Len(line) /\ i \notin ends
  <2> HIDE DEF ends
  <2>1. CASE ends = {}
    BY <1>2, <2>1
  <2>2. CASE ends # {}
    <3>1. PICK least \in 1..Len(line) : least = Stop(line) /\ \A k \in ends : least <= k
      BY <1>2, <1>3, <2>2
    <3> QED  BY <1>2, <2>2, <3>1
  <2> QED  BY <2>1, <2>2
<1>5. Flags(line) = SubSeq(line, 1, n)
  <2>1. CASE ends = {}
    <3>1. Flags(line) = line /\ SubSeq(line, 1, Len(line)) = line
      BY <1>1, <2>1 DEF Flags
    <3> QED  BY <2>1, <3>1
  <2>2. CASE ends # {}
    <3>1. Stop(line) # 0
      BY <1>2, <1>3, <2>2
    <3> HIDE DEF ends
    <3> QED  BY <2>2, <3>1 DEF Flags
  <2> QED  BY <2>1, <2>2
<1> HIDE DEF n
<1>6. PICK flags \in Seq(Arguments(names)) : flags = Flags(line)
  <2>1. n \in Nat /\ \A i \in 1..n : i \in 1..Len(line)
    BY <1>2, <1>4
  <2>2. SubSeq(line, 1, n) \in Seq(Arguments(names))
    BY <2>1, SubSeqProperties
  <2> QED  BY <1>5, <2>2
<1>7. Len(flags) = n /\ \A i \in 1..n : flags[i] = line[i]
  BY <1>4, <1>5, <1>6
<1>8. ASSUME NEW i \in 1..n
      PROVE  flags[i].opt \in (names \cup {"?"}) \ {"word", "--"}
  <2>1. line[i] \in Arguments(names) /\ ~Ends(i)
    BY <1>4
  <2>2. line[i].opt \in names \cup {"?", "word", "--"}
    BY <2>1 DEF Arguments
  <2> QED  BY <1>7, <2>1, <2>2
<1> QED  BY <1>4, <1>6, <1>7, <1>8

\* One more option: after an error none is looked at.
BuildAssigned(o, a) == IF o.err THEN o ELSE SetBuild(o, a)

\* The function on the sets of positions that FoldLeft computes with.
BuildFolded(s, k, g) ==
    g = [x \in SUBSET (1..k) |->
             IF x = {} THEN BuildDefaults
             ELSE BuildAssigned(g[x \ {Max(x)}], s[Max(x)])]

\* There is such a function, for any number of options.
LEMMA BuildFoldExists == ASSUME NEW s, NEW n \in Nat PROVE \E g : BuildFolded(s, n, g)
<1> DEFINE T == {k \in Nat : \E g : BuildFolded(s, k, g)}
<1>1. 0 \in T
  <2> DEFINE g == [x \in SUBSET (1..0) |-> BuildDefaults]
  <2>1. \A x \in SUBSET (1..0) : x = {}
    OBVIOUS
  <2>2. g = [x \in SUBSET (1..0) |-> IF x = {} THEN BuildDefaults
             ELSE BuildAssigned(g[x \ {Max(x)}], s[Max(x)])]
    BY <2>1, Zenon
  <2> QED  BY <2>2, Zenon DEF BuildFolded
<1>2. ASSUME NEW i \in 1..n, i - 1 \in T PROVE i \in T
  <2>1. PICK k \in Nat : k = i - 1 /\ i = k + 1
    OBVIOUS
  <2>2. PICK g : BuildFolded(s, k, g)
    BY <1>2, <2>1
  <2> DEFINE h == [x \in SUBSET (1..(k + 1)) |->
                       IF x \in SUBSET (1..k) THEN g[x]
                       ELSE BuildAssigned(g[x \ {k + 1}], s[k + 1])]
             Step(x) == IF x = {} THEN BuildDefaults
                        ELSE BuildAssigned(h[x \ {Max(x)}], s[Max(x)])
  <2>3. \A x \in SUBSET (1..k) : x \in SUBSET (1..(k + 1))
    OBVIOUS
  <2>4. \A x \in SUBSET (1..k) : h[x] = g[x]
    BY <2>3, Zenon
  <2>5. ASSUME NEW x \in SUBSET (1..(k + 1)) PROVE h[x] = Step(x)
    <3>1. CASE x = {}
      <4>1. x \in SUBSET (1..k)
        BY <3>1
      <4>2. g[x] = BuildDefaults
        BY <2>2, <3>1, <4>1, Zenon DEF BuildFolded
      <4> QED  BY <2>4, <3>1, <4>1, <4>2, Zenon
    <3>2. CASE x # {} /\ x \in SUBSET (1..k)
      <4>1. x \ {Max(x)} \in SUBSET (1..k)
        BY <2>1, <3>2, MaxOfFirst
      <4>2. g[x] = BuildAssigned(g[x \ {Max(x)}], s[Max(x)])
        BY <2>2, <3>2, Zenon DEF BuildFolded
      <4> QED  BY <2>4, <3>2, <4>1, <4>2, Zenon
    <3>3. CASE x \notin SUBSET (1..k)
      <4>1. x # {} /\ k + 1 \in x
        BY <2>1, <3>3
      <4>2. Max(x) = k + 1 /\ x \ {Max(x)} \in SUBSET (1..k)
        BY <2>1, <4>1, MaxOfFirst
      <4>3. h[x] = BuildAssigned(g[x \ {k + 1}], s[k + 1])
        BY <3>3, Zenon
      <4> QED  BY <2>4, <4>1, <4>2, <4>3, Zenon
    <3> QED  BY <3>1, <3>2, <3>3, Zenon
  <2>6. h = [x \in SUBSET (1..(k + 1)) |-> Step(x)]
    BY <2>5, Zenon
  <2>7. BuildFolded(s, k + 1, h)
    BY <2>6, Zenon DEF BuildFolded
  <2> QED  BY <2>1, <2>7
<1>3. n \in T
  <2>1. n \in 0..n
    OBVIOUS
  <2> HIDE DEF T
  <2> QED  BY <1>1, <1>2, <2>1, UpTo
<1> QED  BY <1>3, Zenon

\* The options after each argument, and after the last.
LEMMA BuildFoldSteps ==
    ASSUME NEW s, NEW n \in Nat, DOMAIN s = 1..n
    PROVE  \E at : /\ at[0] = BuildDefaults
                   /\ \A i \in 1..n : at[i] = BuildAssigned(at[i - 1], s[i])
                   /\ FoldLeft(LAMBDA o, a : IF o.err THEN o ELSE SetBuild(o, a),
                              BuildDefaults, s) = at[n]
<1> DEFINE g == CHOOSE g : BuildFolded(s, n, g)
           at == [i \in 0..n |-> g[1..i]]
<1>1. BuildFolded(s, n, g)
  BY BuildFoldExists, Zenon
<1>2. g = [x \in SUBSET (1..n) |->
             IF x = {} THEN BuildDefaults
             ELSE BuildAssigned(g[x \ {Max(x)}], s[Max(x)])]
  BY <1>1, Zenon DEF BuildFolded
<1>3. FoldLeft(LAMBDA o, a : IF o.err THEN o ELSE SetBuild(o, a),
                              BuildDefaults, s) = g[1..n]
  BY Zenon DEF FoldLeft, MapThenFoldSet, BuildFolded, BuildAssigned
<1> HIDE DEF g
<1>4. at[0] = BuildDefaults
  <2>1. 0 \in 0..n /\ 1..0 = {} /\ {} \in SUBSET (1..n)
    OBVIOUS
  <2> QED  BY <1>2, <2>1, Zenon
<1>5. ASSUME NEW i \in 1..n PROVE at[i] = BuildAssigned(at[i - 1], s[i])
  <2>1. /\ i \in 0..n /\ i - 1 \in 0..n
        /\ 1..i \in SUBSET (1..n) /\ 1..i # {} /\ i \in 1..i
    <3>1. i \in Nat /\ 1 <= i /\ i <= n
      OBVIOUS
    <3> QED  BY <3>1
  <2>2. Max(1..i) = i
    <3>1. PICK k \in Nat : i = k + 1
      <4>1. i - 1 \in Nat /\ i = (i - 1) + 1
        OBVIOUS
      <4> QED  BY <4>1
    <3>2. 1..i \in SUBSET (1..(k + 1)) /\ k + 1 \in 1..i
      BY <2>1, <3>1
    <3> QED  BY <2>1, <3>1, <3>2, MaxOfFirst
  <2>3. (1..i) \ {i} = 1..(i - 1)
    OBVIOUS
  <2>4. g[1..i] = BuildAssigned(g[1..(i - 1)], s[i])
    BY <1>2, <2>1, <2>2, <2>3, Zenon
  <2> QED  BY <2>1, <2>4, Zenon
<1>6. at[n] = g[1..n]
  <2>1. n \in 0..n
    OBVIOUS
  <2> QED  BY <2>1, Zenon
<1> HIDE DEF at
<1> QED  BY <1>3, <1>4, <1>5, <1>6, Zenon
\* The places of an option among the first i.
Flagged(flags, opt, i) == {j \in 1..i : flags[j].opt = opt}

\* What the tool has understood after i options: which --target was last.
BuildParsed(flags, i, o) ==
    /\ o = [f \in DOMAIN BuildDefaults |-> o[f]]
    /\ ~o.err =>
           /\ o.targetSet \in BOOLEAN
           /\ o.targetSet <=> Flagged(flags, "target", i) # {}
           /\ \A j \in Flagged(flags, "target", i) :
                  (\A k \in Flagged(flags, "target", i) : k <= j)
                      => o.target = flags[j].str

\* One option more is one place more, for that option.
LEMMA OneMoreFlag ==
    ASSUME NEW flags, NEW i \in Nat \ {0}
    PROVE  \A opt : Flagged(flags, opt, i) =
                        Flagged(flags, opt, i - 1)
                            \cup IF flags[i].opt = opt THEN {i} ELSE {}
<1>1. 1..i = (1..(i - 1)) \cup {i} /\ i \notin 1..(i - 1)
  OBVIOUS
<1> QED  BY <1>1, Zenon DEF Flagged

\* Each option keeps what was understood.
LEMMA SetBuildKeeps ==
    ASSUME NEW flags, NEW i \in Nat \ {0}, NEW o,
           flags[i].opt \in {"o", "target", "h", "?"},
           BuildParsed(flags, i - 1, o)
    PROVE  BuildParsed(flags, i, BuildAssigned(o, flags[i]))
<1> DEFINE a == flags[i]
           p == SetBuild(o, a)
           Fields == DOMAIN BuildDefaults
<1>0. Fields = {"err", "help", "output", "targetSet", "target", "wasmPath"}
  BY DEF BuildDefaults
<1>1. \A opt : Flagged(flags, opt, i) =
                   Flagged(flags, opt, i - 1) \cup IF a.opt = opt THEN {i} ELSE {}
  BY OneMoreFlag
<1>2. CASE o.err
  BY <1>2 DEF BuildParsed, BuildAssigned
<1>3. CASE ~o.err /\ a.opt = "target"
  <2>1. p = SetTarget(o, a)
    BY <1>3 DEF SetBuild
  <2>2. CASE a.str \in supportedTargets
    <3>1. p = [o EXCEPT !.target = a.str, !.targetSet = TRUE]
      BY <2>1, <2>2 DEF SetTarget
    <3>2. p = [f \in Fields |-> p[f]] /\ p.target = a.str /\ p.targetSet = TRUE
      BY <1>0, <3>1 DEF BuildParsed
    <3>3. Flagged(flags, "target", i) = Flagged(flags, "target", i - 1) \cup {i}
      BY <1>1, <1>3
    <3>4. ASSUME NEW j \in Flagged(flags, "target", i),
                 \A k \in Flagged(flags, "target", i) : k <= j
          PROVE  p.target = flags[j].str
      <4>1. j \in 1..i /\ i <= j
        BY <3>3, <3>4 DEF Flagged
      <4>2. j = i
        BY <4>1
      <4> QED  BY <3>2, <4>2
    <3> QED  BY <1>3, <3>2, <3>3, <3>4, Zenon DEF BuildParsed, BuildAssigned
  <2>3. CASE a.str \notin supportedTargets
    <3>1. p = [o EXCEPT !.err = TRUE]
      BY <2>1, <2>3 DEF SetTarget
    <3>2. p = [f \in Fields |-> p[f]] /\ p.err
      BY <1>0, <3>1 DEF BuildParsed
    <3> QED  BY <1>3, <3>2 DEF BuildParsed, BuildAssigned
  <2> QED  BY <2>2, <2>3
<1>4. CASE ~o.err /\ a.opt # "target"
  <2>1. Flagged(flags, "target", i) = Flagged(flags, "target", i - 1)
    BY <1>1, <1>4
  <2>2. \/ p = [o EXCEPT !.output = a.str[1]]
        \/ p = [o EXCEPT !.help = TRUE]
        \/ p = [o EXCEPT !.err = TRUE]
    BY <1>4 DEF SetBuild
  <2>3. /\ p = [f \in Fields |-> p[f]]
        /\ p.err \/ (p.err = o.err /\ p.target = o.target /\ p.targetSet = o.targetSet)
    BY <1>0, <2>2 DEF BuildParsed
  <2> QED  BY <1>4, <2>1, <2>3 DEF BuildParsed, BuildAssigned
<1> QED  BY <1>2, <1>3, <1>4

\* What parseBuildArgs accepts names the target that was given last.
LEMMA LastTarget ==
    ASSUME NEW line \in BuildLines, Ready(parseBuildArgs(line))
    PROVE  parseBuildArgs(line).target =
               LET flags == Flags(line)
                   named == {j \in DOMAIN flags : flags[j].opt = "target"}
               IN  IF named = {} THEN ThisTarget ELSE flags[Max(named)].str
<1> DEFINE flags == Flags(line)
           n == Len(flags)
           named == {j \in DOMAIN flags : flags[j].opt = "target"}
           o == FoldLeft(LAMBDA opts, a : IF opts.err THEN opts ELSE SetBuild(opts, a),
                         BuildDefaults, flags)
<1>1. /\ n \in Nat /\ DOMAIN flags = 1..n
      /\ \A i \in 1..n : flags[i].opt \in {"o", "target", "h", "?"}
  <2>1. line \in Seq(Arguments({"o", "target", "h"}))
    BY StampAssumption
  <2> HIDE DEF flags
  <2>2. /\ Len(Flags(line)) \in Nat /\ DOMAIN Flags(line) = 1..Len(Flags(line))
        /\ \A i \in 1..Len(Flags(line)) :
               Flags(line)[i].opt \in ({"o", "target", "h"} \cup {"?"}) \ {"word", "--"}
    BY <2>1, FlagsAre, Zenon
  <2> QED  BY <2>2 DEF flags
<1> HIDE DEF flags
<1>2. PICK at : /\ at[0] = BuildDefaults
                /\ \A i \in 1..n : at[i] = BuildAssigned(at[i - 1], flags[i])
                /\ o = at[n]
  BY <1>1, BuildFoldSteps
<1> DEFINE T == {i \in 0..n : BuildParsed(flags, i, at[i])}
<1>3. 0 \in T
  <2>1. Flagged(flags, "target", 0) = {}
    BY DEF Flagged
  <2>2. BuildParsed(flags, 0, BuildDefaults)
    BY <2>1 DEF BuildParsed, BuildDefaults
  <2>3. 0 \in 0..n
    BY <1>1
  <2> QED  BY <1>2, <2>2, <2>3
<1>4. ASSUME NEW i \in 1..n, i - 1 \in T PROVE i \in T
  <2>1. i \in Nat \ {0} /\ i \in 0..n
    BY <1>1
  <2>2. BuildParsed(flags, i - 1, at[i - 1])
    BY <1>4
  <2>3. BuildParsed(flags, i, BuildAssigned(at[i - 1], flags[i]))
    BY <1>1, <2>1, <2>2, SetBuildKeeps
  <2> QED  BY <1>2, <2>1, <2>3
<1>5. BuildParsed(flags, n, o)
  <2> HIDE DEF T
  <2>1. n \in T
    BY <1>1, <1>3, <1>4, UpTo
  <2> QED  BY <1>2, <2>1 DEF T
<1> DEFINE q == parseBuildArgs(line)
<1>6. q = IF o.err \/ o.help THEN o
          ELSE IF \/ ~o.targetSet /\ ThisTarget \notin supportedTargets
                  \/ o.output = ""
                  \/ Len(Args(line)) # 1
          THEN [o EXCEPT !.err = TRUE]
          ELSE [o EXCEPT !.target = IF o.targetSet THEN @ ELSE ThisTarget,
                         !.wasmPath = Args(line)[1].str[1]]
  BY Zenon DEF parseBuildArgs, flags
<1>7. ~q.err /\ ~q.help
  BY DEF Ready
<1> HIDE DEF o, q
<1>8. "err" \in DOMAIN o /\ "target" \in DOMAIN o
  BY <1>5 DEF BuildParsed, BuildDefaults
<1>9. ~o.err /\ q.target = IF o.targetSet THEN o.target ELSE ThisTarget
  <2>1. CASE o.err \/ o.help
    BY <1>6, <1>7, <2>1
  <2>2. CASE q = [o EXCEPT !.err = TRUE]
    BY <1>7, <1>8, <2>2
  <2>3. CASE /\ ~o.err
             /\ q = [o EXCEPT !.target = IF o.targetSet THEN @ ELSE ThisTarget,
                              !.wasmPath = Args(line)[1].str[1]]
    BY <1>8, <2>3
  <2> QED  BY <1>6, <2>1, <2>2, <2>3
<1>10. named = Flagged(flags, "target", n)
  BY <1>1 DEF Flagged
<1>11. CASE named = {}
  <2>1. q.target = ThisTarget
    BY <1>5, <1>9, <1>10, <1>11 DEF BuildParsed
  <2> QED  BY <1>11, <2>1, Zenon DEF flags, q
<1>12. CASE named # {}
  <2>1. named \in SUBSET (1..(n + 1))
    BY <1>1
  <2>2. Max(named) \in named /\ \A m \in named : m <= Max(named)
    BY <1>1, <1>12, <2>1, MaxOfFirst
  <2>3. q.target = flags[Max(named)].str
    BY <1>5, <1>9, <1>10, <1>12, <2>2, Zenon DEF BuildParsed
  <2> QED  BY <1>12, <2>3, Zenon DEF flags, q
<1> QED  BY <1>11, <1>12

\* A finished file is for the platform that was asked for last, whatever the
\* options and their order (options.go, main.go of execsandbox-build).
THEOREM BuiltForTarget == BuildSpec => []BuiltAsAsked
<1>1. BuildSpec => [](given \in BuildLines \/ build = "none")
  <2> DEFINE Line == given \in BuildLines \/ build = "none"
  <2>1. BuildInit => Line
    BY DEF BuildInit, ReadyLines
  <2>2. Line /\ [BuildStep]_buildVars => Line'
    BY DEF BuildStep, OpenOutput, WriteOutput, WriteCut, buildVars, ReadyLines
  <2> HIDE DEF Line
  <2>3. BuildSpec => []Line
    BY <2>1, <2>2, PTL DEF BuildSpec
  <2> QED  BY <2>3 DEF Line
<1>2. ASSUME Output, given \in BuildLines \/ build = "none" PROVE BuiltAsAsked
  <2> SUFFICES ASSUME build = "done"
               PROVE  IsPrefix(Base[parseBuildArgs(given).target], file)
    BY <1>2, LastTarget, Zenon DEF BuiltAsAsked, Output
  <2>1. PICK t \in supportedTargets, m \in DOMAIN Modules :
            /\ t = parseBuildArgs(given).target
            /\ Base[t] \in Seq(Cells) /\ Modules[m] \in Seq(Cells)
            /\ Out(given) \in Seq(Cells)
            /\ Len(Out(given)) = Len(Base[t]) + Len(Modules[m]) + 1
            /\ \A i \in 1..(Len(Base[t]) + Len(Modules[m])) :
                   Out(given)[i] = IF i <= Len(Base[t]) THEN Base[t][i]
                                   ELSE Modules[m][i - Len(Base[t])]
    BY <1>2, OutputParts DEF Output
  <2>2. PICK b \in Seq(Cells) : b = Base[t]
    BY <2>1
  <2>3. PICK f \in Seq(Cells) : f = file /\ f = Out(given)
    BY <1>2, <2>1 DEF Output
  <2>4. Len(b) \in Nat /\ Len(Modules[m]) \in Nat
    BY <2>1, LenProperties
  <2>5. /\ Len(b) <= Len(f)
        /\ \A i \in 1..Len(b) : i \in 1..(Len(Base[t]) + Len(Modules[m])) /\ i <= Len(Base[t])
    BY <2>1, <2>2, <2>3, <2>4
  <2>6. \A i \in 1..Len(b) : f[i] = b[i]
    BY <2>1, <2>2, <2>3, <2>5
  <2>7. SubSeq(f, 1, Len(b)) = SubSeq(b, 1, Len(b))
    BY <2>4, <2>5, <2>6
  <2> QED  BY <2>1, <2>2, <2>3, <2>5, <2>7, Zenon DEF IsPrefix
<1> QED  BY <1>1, <1>2, OutputKept, PTL
=============================================================================
