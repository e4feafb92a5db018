----------------------------- MODULE EfiOptions -----------------------------
(***************************************************************************)
(* efi_parse_options: the command line is copied, cut into arguments by    *)
(* next_arg, which writes NULs into the copy, and the efi= arguments set   *)
(* the options of the stub.  A character is a quote, a space, "=", ",", a  *)
(* NUL or one of the words the parser compares with, taken as a whole.     *)
(***************************************************************************)
EXTENDS Naturals, Sequences, FiniteSetsExt, SequencesExt

CONSTANT Lines    (* the command lines                                     *)

EndOfLine == "EndOfLine"
Space == "space"
Quote == "quote"

(* A line ends at its first NUL.                                           *)
ASSUME LinesAssumption == Lines \subseteq Seq(STRING \ {EndOfLine})

VARIABLES
  line,
  buf,       (* the copy                                                   *)
  str,       (* the position in it                                         *)
  stubOptions,   (* the options of the stub                                *)
  parsing

optionVars == <<line, buf, str, stubOptions, parsing>>

(* str is put behind the spaces at p.                                      *)
SkipSpaces(b, p) == Min({q \in p..Len(b) : b[q] # Space})

(* The string at p, up to the NUL.                                         *)
StringAt(b, p) ==
  SubSeq(b, p, Min({q \in p..Len(b) : b[q] = EndOfLine}) - 1)

OptionsInit ==
  /\ line \in Lines
  /\ buf = Append(line, EndOfLine)
  /\ str = SkipSpaces(Append(line, EndOfLine), 1)
  /\ stubOptions = [nochunk |-> FALSE, novamap |-> FALSE, noinitrd |-> FALSE,
                disable_pci_dma |-> FALSE]
  /\ parsing = "parse"

-----------------------------------------------------------------------------
(* next_arg.                                                               *)
QuoteCount(b, from, to) == Cardinality({q \in from..to : b[q] = Quote})

(* A null pointer in place of a value; no string has a NUL in it.          *)
NoValue == <<EndOfLine>>

(* mutation: a space ends the argument inside quotes too                   *)
ArgEnd_AtSpace(b, args, quoted) ==
  Min({i \in args..Len(b) : b[i] \in {EndOfLine, Space}})

(* The end of the argument: a NUL or a space outside quotes.               *)
ArgEnd(b, args, quoted) ==
  Min({i \in args..Len(b) :
         \/ b[i] = EndOfLine
         \/ b[i] = Space /\ (QuoteCount(b, args, i - 1) + (IF quoted THEN 1 ELSE 0)) % 2 = 0})

CutAt(b, positions) == [q \in DOMAIN b |-> IF q \in positions THEN EndOfLine ELSE b[q]]

(* The signs that may end the name; not one that is its first character.   *)
Signs(b, args, end) == {i \in (args + 1)..(end - 1) : b[i] = "="}

(* Where the next argument begins.                                         *)
NextStart(b, args, end) == SkipSpaces(b, IF b[end] # EndOfLine THEN end + 1 ELSE end)

(* The argument at p.  A value that begins with a quote, and an argument   *)
(* that does, lose a quote at their end.                                   *)
NextArg(b, p) ==
  LET quoted == b[p] = Quote
      args == IF quoted THEN p + 1 ELSE p
      end == ArgEnd(b, args, quoted)
      signs == Signs(b, args, end)
      equals == Min(signs)
      quotedVal == signs # {} /\ b[equals + 1] = Quote
      val == IF quotedVal THEN equals + 2 ELSE equals + 1
      lastQuote == (quotedVal \/ quoted) /\ end > args /\ b[end - 1] = Quote
      c == CutAt(b, {end} \cup (IF signs # {} THEN {equals} ELSE {})
                               \cup (IF lastQuote THEN {end - 1} ELSE {}))
  IN  [buf |-> c,
       param |-> StringAt(c, args),
       val |-> IF signs # {} THEN StringAt(c, val) ELSE NoValue,
       next |-> NextStart(b, args, end)]

(* parse_option_str: does one of the options in a list, separated by       *)
(* commas, have this name?                                                 *)
ParseOptionStr(list, option) ==
  \E i \in 1..Len(list) :
    /\ list[i] = option
    /\ i = 1 \/ list[i - 1] = ","
    /\ i = Len(list) \/ list[i + 1] = ","

EfiArgument(o, val) ==
  LET has(option) == ParseOptionStr(val, option)
  IN  [o EXCEPT
        !.nochunk = has("nochunk"),
        !.novamap = @ \/ has("novamap"),
        !.disable_pci_dma =
           IF has("no_disable_early_pci_dma") THEN FALSE
           ELSE @ \/ has("disable_early_pci_dma")]

ParseArgument ==
  /\ parsing = "parse" /\ buf[str] # EndOfLine
  /\ LET arg == NextArg(buf, str)
     IN  /\ buf' = arg.buf /\ str' = arg.next
         /\ IF arg.val = NoValue /\ arg.param = <<"--">>
              THEN parsing' = "done" /\ UNCHANGED stubOptions
            ELSE
              /\ stubOptions' =
                   IF arg.param = <<"noinitrd">> THEN [stubOptions EXCEPT !.noinitrd = TRUE]
                   ELSE IF arg.param = <<"efi">> /\ arg.val # NoValue
                     THEN EfiArgument(stubOptions, arg.val)
                   ELSE stubOptions
              /\ UNCHANGED parsing
  /\ UNCHANGED line

Finish ==
  /\ parsing = "parse" /\ buf[str] = EndOfLine
  /\ parsing' = "done"
  /\ UNCHANGED <<line, buf, str, stubOptions>>

OptionsNext == ParseArgument \/ Finish

OptionsSpec == OptionsInit /\ [][OptionsNext]_optionVars

-----------------------------------------------------------------------------
(* The position stays in the copy, which stays a string of its length.     *)
OptionsTypeOK ==
  /\ line \in Seq(STRING) /\ parsing \in {"parse", "done"}
  /\ Len(buf) = Len(line) + 1 /\ buf[Len(buf)] = EndOfLine
  /\ str \in 1..Len(buf)
  /\ stubOptions \in [{"nochunk", "novamap", "noinitrd", "disable_pci_dma"} -> BOOLEAN]

(* Whatever its quotes, an argument is cut with NULs written for separators*)
(* and quotes of its own: the rest of the line is still to be read.        *)
RestUntouched ==
  \A q \in 1..Len(line) :
    buf[q] # line[q] =>
      /\ q < str
      /\ buf[q] = EndOfLine /\ line[q] \in {Space, Quote, "="}

(* The arguments by the rule of next_arg, "you can use quotes around       *)
(* spaces": the longest stretches without a space that has an even number  *)
(* of quotes in front of it, from the beginning of the line on.            *)
Breaks(i) ==
  \/ i \in {0, Len(line) + 1}
  \/ line[i] = Space /\ QuoteCount(line, 1, i - 1) % 2 = 0
Arguments ==
  {arg \in (1..Len(line)) \X (1..Len(line)) :
     /\ arg[1] <= arg[2] /\ Breaks(arg[1] - 1) /\ Breaks(arg[2] + 1)
     /\ \A i \in arg[1]..arg[2] : ~Breaks(i)}

(* Quotes are around an argument or around its value.                      *)
QuotesIn(arg) == {i \in arg[1]..arg[2] : line[i] = Quote}
WellQuoted(arg) ==
  LET q == Min(QuotesIn(arg))
  IN  QuotesIn(arg) # {} =>
        /\ QuotesIn(arg) = {q, arg[2]} /\ q # arg[2]
        /\ q = arg[1] \/ {i \in arg[1]..q : line[i] = "="} = {q - 1}

(* Such an argument without them.                                          *)
Bare(arg) ==
  LET q == Min(QuotesIn(arg))
  IN  IF QuotesIn(arg) = {} THEN SubSeq(line, arg[1], arg[2])
      ELSE SubSeq(line, arg[1], q - 1) \o SubSeq(line, q + 1, arg[2] - 1)

(* The argument is the name, or it gives the name a value.                 *)
Gives(arg, name) == IsPrefix(<<name, "=">>, Bare(arg))
Asks(arg, option) ==
  LET list == Bare(arg)
  IN  /\ Gives(arg, "efi")
      /\ \E i \in 3..Len(list) :
           /\ list[i] = option
           /\ list[i - 1] = "," \/ i = 3
           /\ list[Min({i + 1, Len(list)})] = "," \/ i = Len(list)

(* The options that a set of arguments asks for, however they are quoted:  *)
(* novamap when any asks for it, nochunk when the last one does, and DMA   *)
(* is disabled when one asks for that and none from there on forbids it.   *)
OptionsOf(args) ==
  [novamap |-> \E arg \in args : Asks(arg, "novamap"),
   nochunk |-> \E arg \in args : /\ Asks(arg, "nochunk")
                                 /\ \A other \in args : Gives(other, "efi") => other[1] <= arg[1],
   noinitrd |-> \E arg \in args : Bare(arg) = <<"noinitrd">> \/ Gives(arg, "noinitrd"),
   disable_pci_dma |->
     \E arg \in args : /\ Asks(arg, "disable_early_pci_dma")
                        /\ \A other \in args : Asks(other, "no_disable_early_pci_dma") => other[1] < arg[1]]

(* The options of the stub are those of the arguments in front of "--".    *)
OptionsAsGiven ==
  LET before == {arg \in Arguments : \A d \in Arguments : Bare(d) = <<"--">> => arg[1] < d[1]}
  IN  parsing = "done" /\ (\A arg \in Arguments : WellQuoted(arg)) => stubOptions = OptionsOf(before)

(* efi_parse_options sets the options the arguments ask for, and next_arg  *)
(* writes to nothing behind the argument it cuts off.                      *)
OptionsParsed ==
  /\ OptionsTypeOK
  /\ RestUntouched
  /\ OptionsAsGiven
=============================================================================
