------------------------------- MODULE FlagSet -------------------------------
(***************************************************************************)
(* Command lines, as package flag of Go's library (external) cuts them: an  *)
(* argument is an option with its value or a word.  str is the text of the  *)
(* value, cut at the separators that its parser looks for, and num the      *)
(* number in it.  An option that does not exist, or that has no value or    *)
(* not the integer it takes, is "?".                                        *)
(***************************************************************************)
EXTENDS Integers, Sequences, SequencesExt

\* The arguments a program with these options can be given.
Arguments(options) ==
    [opt : options \cup {"?", "word", "--"}, num : Int, str : Seq(STRING)]

Option(o, n, s) == [opt |-> o, num |-> n, str |-> s]
Word(s) == Option("word", 0, <<s>>)
DashDash == Option("--", 0, <<>>)

\* The first word or "--" ends the options.
Stop(args) == SelectInSeq(args, LAMBDA a : a.opt \in {"word", "--"})

\* What is parsed as options, and what FlagSet.Args returns.
Flags(args) == IF Stop(args) = 0 THEN args ELSE SubSeq(args, 1, Stop(args) - 1)

Args(args) ==
    CASE Stop(args) = 0              -> <<>>
      [] args[Stop(args)] = DashDash -> SubSeq(args, Stop(args) + 1, Len(args))
      [] OTHER                       -> SubSeq(args, Stop(args), Len(args))

\* The arguments for one option, in a set.
Given(args, o) == {a \in Range(Flags(args)) : a.opt = o}
=============================================================================
