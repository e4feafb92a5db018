------------------------------ MODULE ShellArgs ------------------------------
(***************************************************************************)
(* GetShellArgcArgv (lib/cmdline.c) without a shell: the load options are  *)
(* copied into a static buffer, cut at each space, and the pointers are    *)
(* left in a static array.  Both keep what an earlier call has written.    *)
(***************************************************************************)
EXTENDS Integers, SequencesExt, FiniteSetsExt

CONSTANTS
  ImageOptions,           (* sequences of characters                        *)
  MAX_CMDLINE_SIZE, MAX_CMDLINE_ARGC,
  MaxCalls               (* bound: calls with other options                *)

VARIABLES
  ArgvContents, Argv, Argc,
  lastOptions,           (* those of the last call                         *)
  calls

shellVars == <<ArgvContents, Argv, Argc, lastOptions, calls>>

Nul == "nul"
Blank == "blank"

ShellInit ==
  /\ ArgvContents = [i \in 1..MAX_CMDLINE_SIZE |-> Nul]
  /\ Argv = [i \in 1..MAX_CMDLINE_ARGC |-> 0] /\ Argc = 0
  /\ lastOptions = <<>> /\ calls = 0

LastUnit == MAX_CMDLINE_SIZE

(* What is copied, with the last unit cut off.                             *)
Copied(options) ==
  [i \in 1..MAX_CMDLINE_SIZE |->
     IF i = LastUnit THEN Nul
     ELSE IF i <= Len(options) THEN options[i] ELSE ArgvContents[i]]

EndOf(contents) ==
  Min({i \in DOMAIN contents : contents[i] = Nul} \cup {MAX_CMDLINE_SIZE + 1})

StartsOf(contents) == {1} \cup {i \in 2..EndOf(contents) : contents[i - 1] = Blank}

(* An argument begins behind each space; an empty one at the end is none.  *)
GetShellArgcArgv ==
  /\ calls < MaxCalls /\ calls' = calls + 1
  /\ \E options \in ImageOptions :
       /\ options # <<>> /\ lastOptions' = options
       /\ LET contents == Copied(options)
              starts == {i \in StartsOf(contents) : i < EndOf(contents)}
              ordered == SetToSortSeq(starts, <)
              count == Min({Len(ordered), MAX_CMDLINE_ARGC})
          IN  /\ ArgvContents' = [i \in DOMAIN contents |->
                                    IF i < EndOf(contents) /\ contents[i] = Blank
                                    THEN Nul ELSE contents[i]]
              /\ Argv' = [k \in DOMAIN Argv |-> IF k <= count THEN ordered[k] ELSE Argv[k]]
              /\ Argc' = count

ShellNext == GetShellArgcArgv

-----------------------------------------------------------------------------
ArgumentAt(start) ==
  SubSeq(ArgvContents, start,
         Min({i \in start..MAX_CMDLINE_SIZE : ArgvContents[i] = Nul}) - 1)

(* The arguments joined by spaces are the options up to their NUL, but for *)
(* one space at the end and for what is beyond the buffer or the last      *)
(* argument; options without a NUL go on, from the second call on, in what *)
(* an earlier call has left behind them.                                   *)
JoinsToOptions ==
  LET joined == FoldLeft(LAMBDA s, k : s \o (IF k = 1 THEN <<>> ELSE <<Blank>>)
                                         \o ArgumentAt(Argv[k]),
                         <<>>, [k \in 1..Argc |-> k])
      text == SubSeq(lastOptions, 1,
                     Min({i \in DOMAIN lastOptions : lastOptions[i] = Nul}
                           \cup {Len(lastOptions) + 1, MAX_CMDLINE_SIZE}) - 1)
  IN  calls > 0 /\ (calls = 1 \/ Nul \in Range(lastOptions)) =>
        \/ joined = text \/ Append(joined, Blank) = text
        \/ Argc = MAX_CMDLINE_ARGC /\ IsPrefix(joined, text)
=============================================================================
