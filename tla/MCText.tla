------------------------------- MODULE MCText -------------------------------
(***************************************************************************)
(* The parsers and the printer of apps/lib, each in behaviours of its own: *)
(* the first state says which of them runs, the others rest.               *)
(*                                                                         *)
(* efi_convert_cmdline: all load options of up to five units out of one    *)
(* for every case of the conversion, with a kernel's buffer of six bytes.  *)
(* efi_parse_options: every line of up to five characters, and lines of up *)
(* to three arguments in all the quotings there are.  get_options: every   *)
(* text of up to five characters.  vsnprintf: every combination of flags,  *)
(* width, precision and type, in buffers that cut the text anywhere.       *)
(***************************************************************************)
EXTENDS Cmdline, EfiOptions, GetOptions, Vsprintf

VARIABLE user

textVars == <<user, vars, optionVars, listVars, printVars>>

-----------------------------------------------------------------------------
Units ==
  {NUL, NewLine, DoubleQuote, 32,
   97,        (* a          one byte                                        *)
   233,       (* U+00E9     two bytes                                       *)
   19968,     (* U+4E00     three bytes, the lower byte of the unit is zero *)
   55357,     (* 0xd83d     a high surrogate                                *)
   56832}     (* 0xde00     a low one                                       *)

ShortOptions == BoundedSeq(Units, 5)

(* efi_convert_cmdline is to "convert the unicode UEFI command line to     *)
(* ASCII to pass to kernel": a line of ASCII arrives as it is.             *)
AsciiArrives ==
  at = "done" /\ (\A i \in 1..Line : options[i] < 128) =>
    cmdline = SubSeq(options, 1, options_bytes - 1)

-----------------------------------------------------------------------------
Characters == {Space, Quote, "=", ",", "efi", "novamap", "--"}

Lists ==
  {<<"novamap">>, <<"nochunk">>, <<"x", ",", "novamap">>, <<"x", "novamap">>,
   <<"nochunk", ",", "novamap", "x">>, <<"novamap", Space, "nochunk">>,
   <<"disable_early_pci_dma">>, <<"no_disable_early_pci_dma">>}
InQuotes(s) == <<Quote>> \o s \o <<Quote>>
EfiArguments ==
  UNION {{<<"efi", "=">> \o l, <<"efi", "=">> \o InQuotes(l),
          InQuotes(<<"efi", "=">> \o l)} : l \in Lists}
SomeArguments ==
  EfiArguments \cup
  {<<"noinitrd">>, <<"noinitrd", "=", "x">>, <<"--">>, <<"--", "=">>,
   InQuotes(<<"--">>), InQuotes(<<Space>>), <<"x", "=", "novamap">>,
   <<"efi">>, <<>>}

SmallLines ==
  BoundedSeq(Characters, 5) \cup
  {a \o <<Space>> \o b : a \in SomeArguments, b \in SomeArguments} \cup
  {a \o <<Space, Space>> \o b \o <<Space>> \o c :
     a \in SomeArguments, b \in EfiArguments, c \in {<<"--">>, <<"noinitrd">>}}

-----------------------------------------------------------------------------
SmallNumbers ==
  [text \in {"0", "1", "2", "3", "4", "7", "9", "12", "40"} |->
     CHOOSE n \in 0..40 : ToString(n) = text]

SmallIntLists ==
  BoundedSeq({"1", "2", "4", ",", "-"}, 5) \cup
  {<<"1", "-", "4", ",", "7", "-", "7">>, <<"1", "-", "2", "-", "4", ",", "4">>,
   <<"2", "-", "4", "-", "7">>}

-----------------------------------------------------------------------------
(* With the bits of the bit-fields and types scaled down.                  *)
ScaledBits == [byte |-> 4, short |-> 5, int |-> 6, long |-> 8]

Num(n) == [value |-> n, at |-> "ok", chars |-> <<"a">>, bytes |-> <<>>]
Chars(s) ==
  [value |-> 77, at |-> "ok", chars |-> s, bytes |-> [i \in 1..31 |-> (37 * i) % 256]]
Bad(n, kind) == [value |-> n, at |-> kind, chars |-> <<>>, bytes |-> <<>>]

FlagSeqs ==
  {<<>>, <<"-">>, <<"0">>, <<"+">>, <<" ">>, <<"#">>, <<"-", "0">>, <<"+", "0">>,
   <<"#", "0">>, <<"#", "-">>, <<" ", "0">>}
Widths == {<<>>, <<"3">>, <<"9">>, <<"*">>, <<"40">>}
Precisions == {<<>>, <<".">>, <<".", "3">>, <<".", "*">>, <<".", "12">>}
Qualifiers == {<<>>, <<"h">>, <<"h", "h">>, <<"l">>, <<"l", "l">>, <<"z">>}

(* A format, with the arguments its stars take and one of those at the end. *)
Starred(f, last) ==
  UNION {LET stars == [i \in 1..Cardinality({j \in DOMAIN f : f[j] = "*"}) |-> Num(n)]
         IN  {<<f, stars \o l>> : l \in last} : n \in {-6, 5, 60}}

NumberFormats ==
  UNION {Starred(<<"%">> \o fl \o w \o p \o <<c>>, {<<Num(n)>> : n \in {0, 21, -32}}) :
           fl \in FlagSeqs, w \in Widths, p \in Precisions, c \in {"d", "x", "o"}}
  \cup
  UNION {Starred(<<"%">> \o fl \o q \o <<c>>, {<<Num(n)>> : n \in {7, -9, 200}}) :
           fl \in {<<>>, <<"+">>}, q \in Qualifiers, c \in {"i", "u", "X"}}

StringArgs ==
  {<<Chars(<<"a", "b", "c", "d">>)>>, <<Chars(<<>>)>>, <<Bad(0, "null")>>, <<Bad(3, "low")>>}
StringFormats ==
  UNION {Starred(<<"%">> \o fl \o w \o p \o <<"s">>, StringArgs)
           \cup Starred(<<"%">> \o fl \o w \o <<"c">>, {<<Num(0)>>}) :
           fl \in {<<>>, <<"-">>}, w \in Widths, p \in Precisions}

Modifiers ==
  {<<>>, <<"h">>, <<"h", "C">>, <<"h", "D">>, <<"h", "N">>, <<"m">>, <<"M">>,
   <<"M", "F">>, <<"M", "R">>, <<"m", "R">>, <<"x">>, <<"e">>, <<"u", "s">>, <<"k">>}
PointerFormats ==
  UNION {Starred(<<"%">> \o w \o <<"p">> \o m \o <<" ", "|">>,
                 {<<Chars(<<"a", "b">>)>>, <<Bad(0, "null")>>, <<Bad(-9, "err")>>}) :
           w \in {<<>>, <<"3">>, <<"*">>}, m \in Modifiers}

(* Several directives, and some that are not supported.                    *)
Mixed ==
  {<<<<"a", "%", "%", "|", "%", "d", ";", "%", "4", "s">>,
     <<Num(5), Chars(<<"b", "c">>)>>>>,
   <<<<"%", "*", ".", "*", "l", "s", "%", "c">>,
     <<Num(4), Num(2), Chars(<<"a", "b", "c">>), Num(0)>>>>,
   <<<<"a", "%", "n", "%", "d">>, <<Num(5)>>>>,
   <<<<"a", "%", "L", "L", "d">>, <<Num(5)>>>>,
   <<<<"%", "-", "4", "c", "%", "0", "4", "x", "a">>, <<Num(0), Num(10)>>>>,
   <<<<"%", "l", "s", "%">>, <<Chars(<<"a">>)>>>>, <<<<>>, <<>>>>}

SmallFormats == NumberFormats \cup StringFormats \cup PointerFormats \cup Mixed

-----------------------------------------------------------------------------
RestConvert ==
  /\ options = <<>> /\ next = 1 /\ options_bytes = 1 /\ safe_options_bytes = 0
  /\ in_quote = FALSE /\ at = "no_memory" /\ cmdline = <<>>
RestOptions ==
  /\ line = <<>> /\ buf = <<EndOfLine>> /\ str = 1 /\ parsing = "done"
  /\ stubOptions = [nochunk |-> FALSE, novamap |-> FALSE, noinitrd |-> FALSE,
                    disable_pci_dma |-> FALSE]
RestInts ==
  /\ list = <<EndOfList>> /\ nints = 0 /\ ints = <<Unwritten>>
  /\ where = 1 /\ count = 1 /\ listing = TRUE
RestPrint ==
  /\ form = <<EndOfString>> /\ given = <<>> /\ size = 0 /\ mem = Start(0).mem
  /\ fmt = 1 /\ taken = 0 /\ spec = NoSpec /\ pos = 0
  /\ returned = <<>> /\ printing = TRUE

TextInit ==
  \/ user = "efi_convert_cmdline" /\ Init /\ RestOptions /\ RestInts /\ RestPrint
  \/ user = "efi_parse_options" /\ RestConvert /\ OptionsInit /\ RestInts /\ RestPrint
  \/ user = "get_options" /\ RestConvert /\ RestOptions /\ IntsInit /\ RestPrint
  \/ user = "vsnprintf" /\ RestConvert /\ RestOptions /\ RestInts /\ PrintInit

TextNext ==
  /\ UNCHANGED user
  /\ \/ /\ user = "efi_convert_cmdline" /\ Next
        /\ UNCHANGED <<optionVars, listVars, printVars>>
     \/ /\ user = "efi_parse_options" /\ OptionsNext
        /\ UNCHANGED <<vars, listVars, printVars>>
     \/ user = "get_options" /\ IntsNext /\ UNCHANGED <<vars, optionVars, printVars>>
     \/ user = "vsnprintf" /\ PrintNext /\ UNCHANGED <<vars, optionVars, listVars>>

TextSpec == TextInit /\ [][TextNext]_textVars
=============================================================================
