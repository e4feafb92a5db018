------------------------------ MODULE EfiPrint ------------------------------
(***************************************************************************)
(* _Print (lib/print.c) and where its text goes: to the console in colours *)
(* (Print), into a caller's buffer (UnicodeVSPrint) or into a pool that    *)
(* grows (PoolPrint, CatPrint).  The text is collected in a short buffer   *)
(* and handed on whenever that is full.  A format is a sequence of         *)
(* characters, a number of several digits taken as one.  One that ends     *)
(* inside a directive is read on behind its NUL, where what happens to lie *)
(* in memory is taken for a format and what lies on the stack for its      *)
(* arguments.                                                              *)
(***************************************************************************)
EXTENDS Integers, SequencesExt, FiniteSetsExt

CONSTANTS
  EfiFormats,          (* pairs of a format and its arguments: each is     *)
                       (* a word of the stack, or what it points to        *)
  BehindFormats,       (* pairs of what may lie behind a format, up to the *)
                       (* next NUL, and behind its arguments               *)
  Sinks,               (* "console", "pool" and "string"                   *)
  StrUnits,            (* StrSize / sizeof(CHAR16) of UnicodeVSPrint       *)
  PRINT_STRING_LEN,
  WidthOf,             (* the numbers by their text                        *)
  UintBits, Uint64Bits,
  StringRoom,          (* bound: the caller's memory that is looked at     *)
  MaxPrints            (* bound: texts that are appended to one pool       *)

ASSUME PrintAssumption ==
  /\ EfiFormats \cup BehindFormats
       \subseteq Seq(STRING) \X Seq([number : Int, text : Seq(STRING)])
  /\ Sinks \subseteq {"console", "pool", "string"}
  /\ 2^UintBits \in Nat \ {0} /\ 2^Uint64Bits \in Nat \ {0, 1}
  /\ StrUnits \subseteq 0..(2^Uint64Bits - 1)
  /\ PRINT_STRING_LEN \in Nat /\ StringRoom \in Nat
  /\ WidthOf \in [DOMAIN WidthOf -> Nat]

VARIABLES
  efmt, eargs, index,  (* the format, its arguments and the next character *)
  phase,
  Item, value,         (* the item and, of a number, its value             *)
  Attr, RestoreAttr,
  base,                (* the attribute outside of fields                  *)
  twice,               (* a field has had two attributes since it was set  *)
  queue,               (* characters of the item that are still to be put  *)
  pending,             (* Buffer up to Pos                                 *)
  all,                 (* everything that was put                          *)
  sink, prints

efiPrintVars ==
  <<efmt, eargs, index, phase, Item, value, Attr, RestoreAttr, base, twice, queue, pending,
    all, sink, prints>>

Unset == 2^Uint64Bits - 1
NoAttr == "0"
NotPut == "?"

NewItem ==
  [FieldWidth |-> Unset, Width |-> 0, parse |-> "Width", Pad |-> " ", PadBefore |-> TRUE,
   Comma |-> FALSE, Long |-> FALSE, text |-> <<>>]

IntoBits(n, bits) == n % 2^bits

(* UnicodeVSPrint: without a size, or with less than one unit, the limit   *)
(* is the highest number there is.                                         *)
MaxLen(units) == IntoBits(units - 1, Uint64Bits)

(* Only the console has attributes: elsewhere all of them are zero.        *)
Attribute(a) == IF sink.kind = "console" THEN a ELSE NoAttr

EfiPrintInit ==
  /\ \E f \in EfiFormats : efmt = f[1] /\ eargs = f[2]
  /\ \E s \in Sinks : \E u \in (IF s = "string" THEN StrUnits ELSE {0}) :
       sink = [kind |-> s, units |-> u, len |-> 0,
               maxlen |-> IF s = "string" THEN MaxLen(u) ELSE 0,
               str |-> IF s = "string" THEN [i \in 1..StringRoom |-> NotPut] ELSE <<>>,
               lost |-> FALSE]
  /\ index = 1 /\ phase = "text" /\ Item = NewItem /\ value = 0
  /\ Attr = Attribute("mode") /\ base = Attr /\ RestoreAttr = NoAttr /\ twice = FALSE
  /\ queue = <<>> /\ pending = <<>> /\ all = <<>> /\ prints = 1

-----------------------------------------------------------------------------
(* The appenders.                                                          *)
(* mutation: the room is that of the whole string, not what is left of it  *)
SPrintLength_Whole(s, n) == IF s.len + n > s.maxlen THEN s.maxlen ELSE n

SPrintLength(s, n) == IF s.len + n > s.maxlen THEN s.maxlen - s.len ELSE n

(* What is appended to the string, with the zero behind it, which is not   *)
(* written if there is no place but for it.                                *)
SPrint(s, text) ==
  LET len == s.len + SPrintLength(s, Len(text))
      zero == IF len < s.maxlen THEN len + 1 ELSE IF s.maxlen # 0 THEN s.maxlen + 1 ELSE 0
  IN  [s EXCEPT !.len = len,
                !.str = [i \in DOMAIN s.str |->
                           IF i = zero THEN "zero"
                           ELSE IF i > s.len /\ i <= len THEN text[i - s.len] ELSE s.str[i]]]

PoolNeeds(s, text) == s.len + Len(text) + 1

(* The pool grows by more than is needed.  When it cannot, the text is     *)
(* lost, and so is what comes until it can.                                *)
PoolPrint(s, text) ==
  LET grown == [s EXCEPT !.maxlen = PoolNeeds(s, text) + PRINT_STRING_LEN,
                         !.str = [i \in 1..(PoolNeeds(s, text) + PRINT_STRING_LEN) |->
                                    IF i <= s.len THEN s.str[i] ELSE NotPut]]
      freed == [s EXCEPT !.str = <<>>, !.len = 0, !.maxlen = 0, !.lost = TRUE]
  IN  IF PoolNeeds(s, text) > s.maxlen
      THEN {SPrint(grown, text), SPrint(freed, text)} ELSE {SPrint(s, text)}

OutputTo(s, text) ==
  CASE s.kind = "console" ->
         {[s EXCEPT !.str = @ \o [i \in DOMAIN text |-> <<text[i], Attr>>]]}
    [] s.kind = "string" -> {SPrint(s, text)}
    [] s.kind = "pool" -> PoolPrint(s, text)

PFLUSH == sink' \in OutputTo(sink, pending) /\ pending' = <<>>

PSETATTR(a) == PFLUSH /\ Attr' = a

-----------------------------------------------------------------------------
(* A newline gets a carriage return.                                       *)
Lined(text) ==
  FlattenSeq([i \in DOMAIN text |-> IF text[i] = "lf" THEN <<"cr", "lf">> ELSE <<text[i]>>])

PPUTC ==
  /\ queue # <<>>
  /\ queue' = Tail(queue) /\ all' = Append(all, Head(queue))
  /\ IF Len(pending) + 1 = PRINT_STRING_LEN - 1
     THEN sink' \in OutputTo(sink, Append(pending, Head(queue))) /\ pending' = <<>>
     ELSE pending' = Append(pending, Head(queue)) /\ UNCHANGED sink
  /\ UNCHANGED <<efmt, eargs, index, phase, Item, value, Attr, RestoreAttr, base, twice,
                 prints>>

Ready(p) == phase = p /\ queue = <<>> /\ index <= Len(efmt)
Same == UNCHANGED <<efmt, all, prints>>

PlainChar ==
  /\ Ready("text") /\ Same /\ index' = index + 1
  /\ UNCHANGED <<eargs, value, Attr, base, twice, pending, sink>>
  /\ IF efmt[index] = "%"
     THEN phase' = "item" /\ Item' = NewItem /\ RestoreAttr' = NoAttr /\ UNCHANGED queue
     ELSE queue' = Lined(<<efmt[index]>>) /\ UNCHANGED <<phase, Item, RestoreAttr>>

(* The caller passes an argument for each item.                            *)
HasArgument == eargs # <<>>

SetsItem(item) ==
  /\ Item' = item
  /\ UNCHANGED <<phase, value, Attr, RestoreAttr, base, twice, queue, pending, sink>>

ItemFlag ==
  /\ Ready("item") /\ Same /\ index' = index + 1
  /\ \/ efmt[index] = "," /\ UNCHANGED eargs /\ SetsItem([Item EXCEPT !.Comma = TRUE])
     \/ efmt[index] = "-" /\ UNCHANGED eargs /\ SetsItem([Item EXCEPT !.PadBefore = FALSE])
     \/ efmt[index] = "." /\ UNCHANGED eargs /\ SetsItem([Item EXCEPT !.parse = "FieldWidth"])
     \/ efmt[index] = "0" /\ UNCHANGED eargs /\ SetsItem([Item EXCEPT !.Pad = "0"])
     \/ efmt[index] = "l" /\ UNCHANGED eargs /\ SetsItem([Item EXCEPT !.Long = TRUE])
     \/ /\ efmt[index] \in DOMAIN WidthOf \ {"0"} /\ UNCHANGED eargs
        /\ SetsItem([Item EXCEPT ![Item.parse] = WidthOf[efmt[index]]])
     \/ /\ efmt[index] = "*" /\ HasArgument /\ eargs' = Tail(eargs)
        /\ SetsItem([Item EXCEPT ![Item.parse] = IntoBits(Head(eargs).number, Uint64Bits)])

Colours == [n |-> "normal", h |-> "highlight", e |-> "error"]
Lasting == [N |-> "normal", H |-> "highlight", E |-> "error"]

SavedAttr(a) == Attr

(* For the field alone, or from here on; the latter ends the directive,    *)
(* but not where there are no attributes.  The attribute that is saved is  *)
(* the one before, be it the field's own.                                  *)
ItemAttr ==
  /\ Ready("item") /\ Same /\ index' = index + 1
  /\ UNCHANGED <<eargs, Item, value, queue>>
  /\ \/ /\ efmt[index] \in DOMAIN Colours
        /\ PSETATTR(Attribute(Colours[efmt[index]]))
        /\ RestoreAttr' = SavedAttr(Colours[efmt[index]])
        /\ twice' = (twice \/ RestoreAttr # NoAttr)
        /\ UNCHANGED <<phase, base>>
     \/ /\ efmt[index] \in DOMAIN Lasting /\ sink.kind = "console"
        /\ PSETATTR(Lasting[efmt[index]]) /\ RestoreAttr' = NoAttr
        /\ base' = Lasting[efmt[index]] /\ twice' = FALSE /\ phase' = "text"
     \/ /\ efmt[index] \in DOMAIN Lasting /\ sink.kind # "console"
        /\ UNCHANGED <<phase, Attr, RestoreAttr, base, twice, pending, sink>>

-----------------------------------------------------------------------------
HexDigits ==
  <<"0", "1", "2", "3", "4", "5", "6", "7", "8", "9", "A", "B", "C", "D", "E", "F">>

(* The digits, the last one first: what is left is divided on.             *)
DigitsOf(n, radix) ==
  LET digits[m \in 0..n] ==
        IF m < radix THEN <<HexDigits[m + 1]>>
        ELSE Append(digits[m \div radix], HexDigits[(m % radix) + 1])
  IN  digits[n]

SignedOf(n, bits) ==
  IF IntoBits(n, bits) >= 2^(bits - 1) THEN IntoBits(n, bits) - 2^bits ELSE IntoBits(n, bits)

FirstGroup(n) == IF n % 3 = 0 THEN 3 ELSE n % 3

(* The digits with a comma before each group of three but the first.       *)
Grouped(digits) ==
  FlattenSeq([i \in DOMAIN digits |->
    IF i > 1 /\ (i - 1 - FirstGroup(Len(digits))) >= 0
         /\ (i - 1 - FirstGroup(Len(digits))) % 3 = 0
    THEN <<",", digits[i]>> ELSE <<digits[i]>>])

ValueToString(v) ==
  LET digits == DigitsOf(IF v < 0 THEN -v ELSE v, 10)
      grouped == IF Item.Comma /\ v # 0 THEN Grouped(digits) ELSE digits
  IN  IF v < 0 THEN <<"-">> \o grouped ELSE grouped

ItemBits == IF Item.Long THEN Uint64Bits ELSE UintBits

Takes(text, item) ==
  /\ Item' = [item EXCEPT !.text = text]
  /\ phase' = "print"
  /\ UNCHANGED <<Attr, RestoreAttr, base, twice, queue, pending, sink>>

(* The integer part and the digits behind the point, which are the         *)
(* argument's text here: a number above -1 loses its sign with the former. *)
FloatToString(v, fraction) == ValueToString(v) \o <<".">> \o fraction

(* A number is passed to ValueToString as an INT64, whatever it was.       *)
NumberItem ==
  /\ Ready("item") /\ Same /\ index' = index + 1
  /\ LET c == efmt[index]
         n == Head(eargs).number
     IN  /\ c \in {"d", "u", "f", "x", "X", "p"} /\ HasArgument /\ eargs' = Tail(eargs)
         /\ value' = CASE c = "d" -> SignedOf(n, ItemBits)
                       [] c = "u" -> SignedOf(IntoBits(n, ItemBits), Uint64Bits)
                       [] c = "f" -> SignedOf(n, Uint64Bits)
                       [] OTHER -> IntoBits(n, ItemBits)
         /\ CASE c \in {"d", "u"} -> Takes(ValueToString(value'), Item)
              [] c = "f" -> Takes(FloatToString(value', Head(eargs).text), Item)
              [] c = "x" -> Takes(DigitsOf(value', 16), Item)
              [] c = "X" -> Takes(DigitsOf(value', 16),
                                  [Item EXCEPT !.Width = IF Item.Long THEN 16 ELSE 8,
                                               !.Pad = "0"])
              [] c = "p" -> Takes(<<"0", "x">> \o DigitsOf(value', 16),
                                  [Item EXCEPT !.Width = 0, !.Pad = "0"])

(* What is formatted elsewhere is an argument here: GUIDs, times, status   *)
(* codes and device paths.  "NULL" is a string that is none.               *)
TextItem ==
  /\ Ready("item") /\ Same /\ index' = index + 1 /\ UNCHANGED value
  /\ \/ /\ efmt[index] \in {"a", "s", "c", "D", "g", "r", "t"}
        /\ HasArgument /\ eargs' = Tail(eargs)
        /\ LET text == Head(eargs).text
           IN  Takes(IF text = <<"NULL">> THEN <<"(", "null", ")">> ELSE text, Item)
     \/ efmt[index] = "%" /\ UNCHANGED eargs /\ Takes(<<"%">>, Item)
     \/ efmt[index] = "unknown" /\ UNCHANGED eargs /\ Takes(<<"?">>, Item)

Spaces(n) == [i \in 1..n |-> " "]
Pads(n) == [i \in 1..n |-> Item.Pad]
Over(a, b) == Max({a - b, 0})

(* The field width cuts the item; the width pads it on the left, with the  *)
(* pad character, and only the field is justified.                         *)
PITEM ==
  /\ phase = "print" /\ queue = <<>>
  /\ LET len == IF Item.FieldWidth = Unset THEN Len(Item.text)
                ELSE Min({Len(Item.text), Item.FieldWidth})
         field == IF Item.FieldWidth = Unset THEN len ELSE Item.FieldWidth
         width == Max({len, Item.Width})
         text == Pads(width - len) \o SubSeq(Item.text, 1, len)
         space == Spaces(Over(field, width))
     IN  queue' = Lined(IF Item.PadBefore THEN space \o text ELSE text \o space)
  /\ phase' = "restore"
  /\ UNCHANGED <<efmt, eargs, index, Item, value, Attr, RestoreAttr, base, twice, pending,
                 all, sink, prints>>

(* The NUL ends the directive, and is then behind the next character.      *)
ItemEnds ==
  /\ phase = "item" /\ queue = <<>> /\ index = Len(efmt) + 1
  /\ index' = index + 1 /\ phase' = "restore"
  /\ UNCHANGED <<efmt, eargs, Item, value, Attr, RestoreAttr, base, twice, queue, pending,
                 all, sink, prints>>

Restore ==
  /\ phase = "restore" /\ queue = <<>> /\ phase' = "text"
  /\ IF RestoreAttr # NoAttr THEN PSETATTR(RestoreAttr) ELSE UNCHANGED <<Attr, pending, sink>>
  /\ RestoreAttr' = NoAttr
  /\ UNCHANGED <<efmt, eargs, index, Item, value, base, twice, queue, all, prints>>

(* The NUL has been read, and what is behind it comes next.                *)
ReadOn ==
  /\ phase = "text" /\ queue = <<>> /\ index = Len(efmt) + 2
  /\ \E f \in BehindFormats : efmt' = f[1] /\ eargs' = eargs \o f[2]
  /\ index' = 1
  /\ UNCHANGED <<phase, Item, value, Attr, RestoreAttr, base, twice, queue, pending, all, sink,
                 prints>>

PrintDone ==
  /\ phase = "text" /\ queue = <<>> /\ index = Len(efmt) + 1
  /\ phase' = "done" /\ PFLUSH
  /\ UNCHANGED <<efmt, eargs, index, Item, value, Attr, RestoreAttr, base, twice, queue, all,
                 prints>>

(* Another CatPrint to the same pool, as DevicePathToStr does.             *)
CatPrint ==
  /\ phase = "done" /\ sink.kind = "pool" /\ prints < MaxPrints
  /\ \E f \in EfiFormats : Len(f[1]) <= 3 /\ efmt' = f[1] /\ eargs' = f[2]
  /\ prints' = prints + 1 /\ phase' = "text" /\ index' = 1
  /\ UNCHANGED <<Item, value, Attr, RestoreAttr, base, twice, queue, pending, all, sink>>

EfiPrintNext ==
  PPUTC \/ PlainChar \/ ItemFlag \/ ItemAttr \/ NumberItem \/ TextItem \/ PITEM \/ ItemEnds
  \/ Restore \/ ReadOn \/ PrintDone \/ CatPrint

EfiPrintSpec == EfiPrintInit /\ [][EfiPrintNext]_efiPrintVars

-----------------------------------------------------------------------------
(* Whatever was put arrives in order however it is cut into pieces: on the *)
(* console all of it; in a string as much as there is place for, with a    *)
(* zero behind it where there is place for more than that, and nothing     *)
(* behind the place; in a pool all of it, or, when an allocation has       *)
(* failed, what was put after that.                                        *)
TextArrives ==
  phase = "done" =>
    CASE sink.kind = "console" -> [i \in DOMAIN sink.str |-> sink.str[i][1]] = all
      [] sink.kind = "string" ->
           /\ sink.len = Min({Len(all), sink.maxlen})
           /\ \A i \in DOMAIN sink.str :
                /\ i <= sink.len => sink.str[i] = all[i]
                /\ i = sink.len + 1 /\ sink.units # 1 => sink.str[i] = "zero"
                /\ i > sink.units /\ sink.units # 0 => sink.str[i] = NotPut
      [] sink.kind = "pool" ->
           LET text == SubSeq(sink.str, 1, sink.len)
           IN  /\ sink.len <= Len(sink.str)
               /\ IF sink.lost THEN IsSuffix(text, all) ELSE text = all
               /\ sink.str # <<>> => sink.str[sink.len + 1] = "zero"

(* A number is printed so that it is read back, with commas before every   *)
(* third digit from the right; but an unsigned one of 64 bits with its top *)
(* bit set is printed as the negative number of these bits.                *)
NumberReadsBack ==
  phase = "print" /\ efmt[index - 1] \in {"d", "u"} =>
    LET signed == Head(Item.text) = "-"
        body == IF signed THEN Tail(Item.text) ELSE Item.text
        digits == SelectSeq(body, LAMBDA c : c # ",")
        worth == FoldLeft(LAMBDA sum, c : 10 * sum + (CHOOSE d \in 0..9 : HexDigits[d + 1] = c),
                          0, digits)
    IN  /\ value = IF signed THEN -worth ELSE worth
        /\ \A i \in DOMAIN body :
             (body[i] = ",") <=> (Item.Comma /\ (Len(body) - i + 1) % 4 = 0)

(* An attribute for one field ends with it, whatever the field was, and    *)
(* one that lasts does so to the next one.  But a field that is given two  *)
(* ends only the last: what it leaves on stays on until an attribute that  *)
(* lasts.                                                                  *)
FieldAttribute ==
  phase \in {"text", "done"} /\ queue = <<>> => Attr = base \/ twice

(* What a directive may end with and still wait for its field: among it    *)
(* the attributes that last, where the text does not go to the console.    *)
OpenEnds ==
  {"%", ",", "-", ".", "0", "l", "*"} \cup DOMAIN WidthOf \cup DOMAIN Colours
  \cup (IF sink.kind = "console" THEN {} ELSE DOMAIN Lasting)

(* A format is read to its NUL and not behind it unless it ends inside a   *)
(* directive.                                                              *)
StopsAtEnd == index > Len(efmt) + 1 => efmt # <<>> /\ Last(efmt) \in OpenEnds

(* The whole text arrives where it is printed to, within its room, every   *)
(* field has its attribute, and only the format is printed, each with the  *)
(* exceptions that are said above.                                         *)
PrintArrives == TextArrives /\ FieldAttribute /\ StopsAtEnd
=============================================================================
