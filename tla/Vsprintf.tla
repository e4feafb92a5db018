------------------------------ MODULE Vsprintf ------------------------------
(***************************************************************************)
(* vsnprintf and snprintf (apps/lib/vsprintf.c).  A caller prints twice,   *)
(* as C99 has it: into a buffer that may be too short, and then into one   *)
(* of the size the first call has returned.                                *)
(*                                                                         *)
(* A format is a sequence of characters, its numbers taken as a whole.  An *)
(* argument has the value of an integer or of a pointer, and what is in    *)
(* memory there.                                                           *)
(***************************************************************************)
EXTENDS Integers, FiniteSets, FiniteSetsExt, SequencesExt

CONSTANTS
  Formats,        (* pairs of a format and its arguments                   *)
  BufferSizes,    (* for the first call                                    *)
  Atoi,           (* the numbers in the formats, by their text             *)
  Bits,           (* of a byte, short, int and long                        *)
  WidthBits,      (* of field_width, 24 in the code                        *)
  PrecisionBits   (* of precision, 16                                      *)

VARIABLES
  form, given,    (* the format and the arguments                          *)
  size,           (* of the buffer                                         *)
  fmt,            (* the position in the format                            *)
  taken,          (* the number of arguments that were taken               *)
  spec,           (* struct printf_spec                                    *)
  mem,            (* the memory at buf, up to behind the buffer            *)
  pos,            (* str - buf                                             *)
  returned,       (* what the calls have returned, and left in memory      *)
  printing

printVars ==
  <<form, given, size, fmt, taken, spec, mem, pos, returned, printing>>

EndOfString == "NUL"
Untouched == "?"
FlagChars == {"-", "+", " ", "#", "0"}
Fill(n, c) == [i \in 1..n |-> c]          \* empty unless n > 0

(* What is stored in a signed bit-field.                                   *)
Signed(n, bits) == ((n + 2^(bits - 1)) % 2^bits) - 2^(bits - 1)

NoSpec ==
  [type |-> "NONE", flags |-> {}, base |-> 0, width |-> 0, precision |-> 0]

Start(n) ==
  [size |-> n, mem |-> Fill(n + 4, Untouched)]

PrintInit ==
  /\ \E f \in Formats : form = Append(f[1], EndOfString) /\ given = f[2]
  /\ \E n \in BufferSizes : size = n /\ mem = Start(n).mem
  /\ fmt = 1 /\ taken = 0 /\ spec = NoSpec /\ pos = 0
  /\ returned = <<>> /\ printing = TRUE

-----------------------------------------------------------------------------
(* format_decode: a directive, or what there is of it up to a "*".         *)
Decoded(s, next) == [spec |-> s, next |-> next]

NumberType(qualifier) ==
  CASE qualifier \in {"L", "ll", "l", "z", "t"} -> "long"
    [] qualifier = "hh" -> "byte"
    [] qualifier = "h" -> "short"
    [] OTHER -> "int"

AtQualifier(s, p) ==
  LET has == form[p] \in {"h", "l", "L", "z", "t"}
      doubled == has /\ form[p] \in {"h", "l"} /\ form[p + 1] = form[p]
      conv == IF doubled THEN p + 2 ELSE IF has THEN p + 1 ELSE p
      qualifier == IF ~has THEN "" ELSE IF doubled THEN form[p] \o form[p] ELSE form[p]
      as(type, base, flags) ==
        Decoded([s EXCEPT !.type = type, !.base = base, !.flags = @ \cup flags],
                conv + 1)
      number == NumberType(qualifier)
  IN  CASE form[conv] = "c" -> as("CHAR", 10, {})
        [] form[conv] = "s" -> as("STR", 10, {})
        [] form[conv] = "p" -> as("PTR", 10, {})
        [] form[conv] = "%" -> as("PERCENT_CHAR", 10, {})
        [] form[conv] = "o" -> as(number, 8, {})
        [] form[conv] = "x" -> as(number, 16, {"SMALL"})
        [] form[conv] = "X" -> as(number, 16, {})
        [] form[conv] \in {"d", "i"} -> as(number, 10, {"SIGN"})
        [] form[conv] = "u" -> as(number, 10, {})
        [] OTHER -> Decoded([s EXCEPT !.type = "INVALID", !.base = 10], conv)

AtPrecision(s, p) ==
  LET none == [s EXCEPT !.precision = -1]
  IN  IF form[p] # "." THEN AtQualifier(none, p)
      ELSE IF form[p + 1] \in DOMAIN Atoi
        THEN AtQualifier([s EXCEPT
               !.precision = Max({0, Signed(Atoi[form[p + 1]], PrecisionBits)})], p + 2)
      ELSE IF form[p + 1] = "*" THEN Decoded([none EXCEPT !.type = "PRECISION"], p + 2)
      ELSE AtQualifier(none, p + 1)

Directive(p) ==
  LET q == Min({j \in (p + 1)..Len(form) : form[j] \notin FlagChars})
      s == [spec EXCEPT !.type = "NONE", !.width = -1,
                        !.flags = {form[j] : j \in (p + 1)..(q - 1)}]
  IN  IF form[q] \in DOMAIN Atoi
        THEN AtPrecision([s EXCEPT !.width = Signed(Atoi[form[q]], WidthBits)], q + 1)
      ELSE IF form[q] = "*" THEN Decoded([s EXCEPT !.type = "WIDTH"], q + 1)
      ELSE AtPrecision(s, q)

FormatDecode(p) ==
  CASE spec.type = "WIDTH" ->
         AtPrecision([spec EXCEPT !.type = "NONE",
                        !.flags = IF spec.width < 0 THEN @ \cup {"-"} ELSE @,
                        !.width = IF @ < 0 THEN -@ ELSE @], p)
    [] spec.type = "PRECISION" ->
         AtQualifier([spec EXCEPT !.type = "NONE", !.precision = Max({0, @})], p)
    [] form[p] = "%" -> Directive(p)
    [] OTHER -> Decoded([spec EXCEPT !.type = "NONE"],
                        Min({q \in p..Len(form) : form[q] \in {"%", EndOfString}}))

-----------------------------------------------------------------------------
(* Output: the memory and the position behind what was printed.            *)
Out(m, n) == [mem |-> m, pos |-> n]

(* Every character is written if it is in the buffer.                      *)
Put(o, text) ==
  Out([i \in DOMAIN o.mem |-> IF i > o.pos /\ i <= Min({size, o.pos + Len(text)})
                                THEN text[i - o.pos] ELSE o.mem[i]],
      o.pos + Len(text))

(* len characters behind from are moved, and spaces put in front of them,  *)
(* as far as the buffer goes.                                              *)
MoveRight(m, from, len, spaces) ==
  LET room == size - from
      moved == Min({len, room - spaces})
  IN  IF from >= size THEN m
      ELSE [i \in DOMAIN m |->
              IF i > from /\ i <= from + Min({spaces, room}) THEN " "
              ELSE IF i > from + spaces /\ i <= from + spaces + moved
                THEN m[i - spaces]
              ELSE m[i]]

WidenString(o, n, s) ==
  LET spaces == s.width - n
  IN  IF n >= s.width THEN o
      ELSE IF "-" \in s.flags THEN Put(o, Fill(spaces, " "))
      ELSE Out(MoveRight(o.mem, o.pos - n, n, spaces), o.pos + spaces)

StringNocheck(o, text, s) ==
  LET len == IF s.precision < 0 THEN Len(text) ELSE Min({s.precision, Len(text)})
  IN  WidenString(Put(o, SubSeq(text, 1, len)), len, s)

PointerChars == 16                \* 2 * sizeof(void *)
ErrorString(o, text, s) ==
  StringNocheck(o, text,
                [s EXCEPT !.precision = IF @ = -1 THEN PointerChars ELSE @])

(* check_pointer: the messages stand for their characters.                 *)
Message(text) ==
  CASE text = "null" -> <<"(", "n", "u", "l", "l", ")">>
    [] text = "einval" -> <<"(", "e", "i", "n", "v", "a", "l", ")">>
    [] OTHER -> <<"(", "e", "f", "a", "u", "l", "t", ")">>

Checked(o, arg, s, written) ==
  IF arg.at # "ok" THEN ErrorString(o, Message(arg.at), s) ELSE written

String(o, arg, s) ==
  Checked(o, arg, s, StringNocheck(o, arg.chars, s))

(* number: the digits, and what goes around them.                          *)
Digit(n, small) ==
  (IF small THEN <<"0", "1", "2", "3", "4", "5", "6", "7", "8", "9",
                   "a", "b", "c", "d", "e", "f">>
   ELSE <<"0", "1", "2", "3", "4", "5", "6", "7", "8", "9",
          "A", "B", "C", "D", "E", "F">>)[n + 1]

Digits(num, base, small) ==
  LET digits[n \in Nat] == (IF n < base THEN <<>> ELSE digits[n \div base])
                             \o <<Digit(n % base, small)>>
  IN  digits[num]

(* What is left of the field beside the sign, the prefix and the digits.   *)
Padding(s, sign, prefix, precision) ==
  s.width - Len(sign) - Len(prefix) - precision

Number(o, num, s) ==
  LET left == "-" \in s.flags
      zeropad == "0" \in s.flags /\ ~left
      small == "SMALL" \in s.flags
      sign == IF "SIGN" \notin s.flags THEN <<>>
              ELSE IF Signed(num, Bits["long"]) < 0 THEN <<"-">>
              ELSE IF "+" \in s.flags THEN <<"+">>
              ELSE IF " " \in s.flags THEN <<" ">> ELSE <<>>
      prefix == IF "#" \notin s.flags THEN <<>>
                ELSE CASE s.base = 16 -> <<"0", IF small THEN "x" ELSE "X">>
                       [] s.base = 8 /\ num # 0 -> <<"0">>
                       [] OTHER -> <<>>
      value == IF sign = <<"-">> THEN 2^Bits["long"] - num ELSE num
      digits == Digits(value, s.base, small)
      precision == Max({Len(digits), s.precision})
      pad == Padding(s, sign, prefix, precision)
  IN  Put(o, (IF left \/ zeropad THEN <<>> ELSE Fill(pad, " "))
               \o sign \o prefix
               \o (IF zeropad THEN Fill(pad, "0") ELSE <<>>)
               \o Fill(precision - Len(digits), "0") \o digits
               \o (IF left THEN Fill(pad, " ") ELSE <<>>))

-----------------------------------------------------------------------------
(* pointer: "%p" and what the characters behind it ask for.                *)
PointerString(o, arg, s) ==
  Number(o, arg.value % 2^Bits["long"],
         [s EXCEPT !.base = 16,
                   !.flags = @ \cup {"SMALL"} \cup (IF s.width = -1 THEN {"0"} ELSE {}),
                   !.width = IF @ = -1 THEN PointerChars ELSE @])

HexByte(b) == <<Digit(b \div 16, TRUE), Digit(b % 16, TRUE)>>

Joining(separator, bytes) ==
  FoldLeft(LAMBDA text, b : (IF text = <<>> THEN <<>> ELSE text \o separator) \o HexByte(b),
           <<>>, bytes)

(* hex_string prints as many bytes as the field is wide, at most 64.       *)
HexString(o, arg, s, modifier) ==
  LET separator == CASE modifier = "C" -> <<":">> [] modifier = "D" -> <<"-">>
                     [] modifier = "N" -> <<>> [] OTHER -> <<" ">>
      len == IF s.width > 0 THEN Min({s.width, 64}) ELSE 1
  IN  IF s.width = 0 THEN o
      ELSE Checked(o, arg, s, Put(o, Joining(separator, SubSeq(arg.bytes, 1, len))))

MacAddressString(o, arg, s, joined, modifier) ==
  LET bytes == IF modifier = "R" THEN Reverse(SubSeq(arg.bytes, 1, 6))
               ELSE SubSeq(arg.bytes, 1, 6)
      separator == IF joined THEN <<>> ELSE IF modifier = "F" THEN <<"-">> ELSE <<":">>
  IN  Checked(o, arg, s, StringNocheck(o, Joining(separator, bytes), s))

(* err_ptr prints PTR_ERR as a number, default_pointer the address.        *)
Pointer(o, arg, s, p) ==
  CASE form[p] = "h" -> HexString(o, arg, s, form[p + 1])
    [] form[p] \in {"M", "m"} ->
         MacAddressString(o, arg, s, form[p] = "m", form[p + 1])
    [] form[p] = "e" /\ arg.at = "err" ->
         Number(o, arg.value % 2^Bits["long"],
                [s EXCEPT !.base = 10, !.flags = @ \cup {"SIGN"}])
    [] form[p] \in {"u", "k"} ->
         IF form[p + 1] = "s" THEN String(o, arg, s)
         ELSE ErrorString(o, Message("einval"), s)
    [] OTHER -> PointerString(o, arg, s)

Alnum == {"h", "M", "m", "e", "u", "k", "x", "s", "C", "D", "N", "F", "R", "d", "c"}
           \cup DOMAIN Atoi
BehindModifiers(p) == Min({q \in p..Len(form) : form[q] \notin Alnum})

-----------------------------------------------------------------------------
(* vsnprintf, a turn of its loop at a time.  d is what format_decode has   *)
(* found.                                                                  *)
Goes(o, next, s, n) ==
  /\ mem' = o.mem /\ pos' = o.pos
  /\ fmt' = next /\ spec' = s /\ taken' = taken + n
  /\ UNCHANGED <<form, given, size, returned, printing>>

Here == Out(mem, pos)
Argument == given[taken + 1]

Literal(d) ==
  /\ d.spec.type = "NONE"
  /\ Goes(Put(Here, SubSeq(form, fmt, d.next - 1)), d.next, d.spec, 0)

(* The clamped value of an argument for a bit-field of so many bits.       *)
Clamped(n, low, bits) == Max({low, Min({n, 2^(bits - 1) - 1})})

SetFieldWidth(d) ==
  /\ d.spec.type = "WIDTH"
  /\ LET least == -(2^(WidthBits - 1) - 1)
         width == IF Argument.value = Signed(Argument.value, WidthBits) THEN Argument.value
                  ELSE Clamped(Argument.value, least, WidthBits)
     IN  Goes(Here, d.next, [d.spec EXCEPT !.width = width], 1)

SetPrecision(d) ==
  /\ d.spec.type = "PRECISION"
  /\ LET n == Argument.value
         precision == IF n = Signed(n, PrecisionBits) THEN n
                      ELSE Clamped(n, 0, PrecisionBits)
     IN  Goes(Here, d.next, [d.spec EXCEPT !.precision = precision], 1)

(* The padding counts field_width down, in the bit-field.                  *)
Char(d) ==
  /\ d.spec.type = "CHAR"
  /\ LET left == "-" \in d.spec.flags
         less(n) == Signed(n - 1, WidthBits)
         first == IF left THEN 0 ELSE Max({0, less(d.spec.width)})
         then == IF left THEN d.spec.width
                 ELSE IF first > 0 THEN 0 ELSE less(d.spec.width)
         last == Max({0, less(then)})
     IN  Goes(Put(Here, Fill(first, " ") \o <<Argument.chars[1]>> \o Fill(last, " ")),
              d.next, [d.spec EXCEPT !.width = IF last > 0 THEN 0 ELSE less(then)], 1)

Str(d) ==
  /\ d.spec.type = "STR"
  /\ Goes(String(Here, Argument, d.spec), d.next, d.spec, 1)

Ptr(d) ==
  /\ d.spec.type = "PTR"
  /\ Goes(Pointer(Here, Argument, d.spec, d.next), BehindModifiers(d.next), d.spec, 1)

PercentChar(d) ==
  /\ d.spec.type = "PERCENT_CHAR"
  /\ Goes(Put(Here, <<"%">>), d.next, d.spec, 0)

(* The argument as the type has it, in an unsigned long long.              *)
NumberOf(value, s) ==
  LET n == value % 2^Bits[s.type]
  IN  IF "SIGN" \in s.flags THEN Signed(n, Bits[s.type]) % 2^Bits["long"] ELSE n

PrintNumber(d) ==
  /\ d.spec.type \in {"byte", "short", "int", "long"}
  /\ Goes(Number(Here, NumberOf(Argument.value, d.spec), d.spec), d.next, d.spec, 1)

(* The end: a NUL is put behind the text or at the end of the buffer.  The *)
(* caller prints again, with the room that it takes.                       *)
TerminatedText_IfShort ==         \* mutation: no NUL in a buffer that is full
  IF size = 0 \/ pos >= size THEN mem ELSE [mem EXCEPT ![pos + 1] = EndOfString]

TerminatedText ==
  IF size = 0 THEN mem
  ELSE [mem EXCEPT ![IF pos < size THEN pos + 1 ELSE size] = EndOfString]

Return ==
  /\ returned' = Append(returned, [ret |-> pos, size |-> size, mem |-> TerminatedText])
  /\ IF Len(returned) = 0
       THEN size' = pos + 1 /\ mem' = Start(pos + 1).mem /\ UNCHANGED printing
     ELSE printing' = FALSE /\ UNCHANGED <<size, mem>>
  /\ fmt' = 1 /\ taken' = 0 /\ spec' = NoSpec /\ pos' = 0
  /\ UNCHANGED <<form, given>>

PrintNext ==
  /\ printing
  /\ IF form[fmt] = EndOfString THEN Return
     ELSE LET d == FormatDecode(fmt)
          IN  \/ Literal(d) \/ SetFieldWidth(d) \/ SetPrecision(d)
              \/ Char(d) \/ Str(d) \/ Ptr(d) \/ PercentChar(d) \/ PrintNumber(d)
              \/ d.spec.type = "INVALID" /\ Return

PrintSpec == PrintInit /\ [][PrintNext]_printVars
-----------------------------------------------------------------------------
(* No character is written behind the buffer, and the bit-fields of the    *)
(* specification hold what they can.                                       *)
PrintTypeOK ==
  /\ pos >= 0 /\ taken \in 0..Len(given) /\ Len(mem) = size + 4
  /\ spec.width = Signed(spec.width, WidthBits)
  /\ spec.precision = Signed(spec.precision, PrecisionBits)
  /\ \A i \in (size + 1)..Len(mem) : mem[i] = Untouched

Text == SubSeq(returned[2].mem, 1, returned[2].ret)

(* What the first call returns is the room the text takes without its NUL: *)
(* a buffer of one more holds all of it, and a shorter one the beginning   *)
(* of it, cut anywhere in a directive, with a NUL at its end.              *)
FitsAsMeasured ==
  ~printing =>
    LET first == returned[1]
        kept == Min({first.size - 1, first.ret})
    IN  /\ returned[2].ret = first.ret
        /\ \A i \in 1..Len(Text) : Text[i] \notin {Untouched, EndOfString}
        /\ returned[2].mem[first.ret + 1] = EndOfString
        /\ first.size > 0 =>
             /\ SubSeq(first.mem, 1, kept) = SubSeq(Text, 1, kept)
             /\ first.mem[kept + 1] = EndOfString
             /\ \A i \in (kept + 2)..Len(first.mem) : first.mem[i] = Untouched

(* A format of a single directive; what it asks for by its characters, for *)
(* the numbers a bit-field holds.                                          *)
Conversion == form[Len(form) - 1]
IsSingle == form[1] = "%" /\ \A i \in 2..Len(form) : form[i] # "%"
Point == {i \in DOMAIN form : form[i] = "."}
Stars == {i \in DOMAIN form : form[i] = "*"}
FlagsEnd == Min({i \in 2..Len(form) : form[i] \notin FlagChars})
Flags == {form[i] : i \in 2..(FlagsEnd - 1)}
NumberAt(i, default) ==
  IF form[i] = "*" THEN given[Cardinality({j \in Stars : j <= i})].value
  ELSE IF form[i] \in DOMAIN Atoi THEN Atoi[form[i]] ELSE default
AskedWidth == NumberAt(FlagsEnd, 0)
AskedPrecision == IF Point = {} THEN -1 ELSE NumberAt(Min(Point) + 1, -1)
IsInRange ==
  /\ AskedWidth \in (-2^(WidthBits - 1) + 1)..(2^(WidthBits - 1) - 1)
  /\ AskedPrecision \in -1..(2^(PrecisionBits - 1) - 1)
AskedLeft == "-" \in Flags \/ AskedWidth < 0
Field == IF AskedWidth < 0 THEN -AskedWidth ELSE AskedWidth

(* A number reads back as the argument has it in its type; it has the sign *)
(* and the prefix that are asked for, fills its field to the side it       *)
(* should, and is no longer than it must be.                               *)
Qualified(c) == \E i \in DOMAIN form : form[i] = c
BitsAsked ==
  Bits[IF \E c \in {"l", "z"} : Qualified(c) THEN "long"
       ELSE IF ~Qualified("h") THEN "int"
       ELSE IF Cardinality({i \in DOMAIN form : form[i] = "h"}) = 2 THEN "byte"
       ELSE "short"]
DigitValue(c) == CHOOSE n \in 0..15 : c \in {Digit(n, TRUE), Digit(n, FALSE)}

NumbersReadBack ==
  ~printing /\ IsSingle /\ IsInRange /\ Conversion \in {"d", "i", "u", "o", "x", "X"} =>
    LET base == CASE Conversion \in {"x", "X"} -> 16 [] Conversion = "o" -> 8 [] OTHER -> 10
        arg == given[Len(given)].value % 2^BitsAsked
        meant == IF Conversion \in {"d", "i"} THEN Signed(arg, BitsAsked) ELSE arg
        abs == IF meant < 0 THEN -meant ELSE meant
        signed == Conversion \in {"d", "i"} /\ (meant < 0 \/ Flags \cap {"+", " "} # {})
        prefixed == IF "#" \notin Flags THEN 0
                    ELSE IF base = 16 THEN 2 ELSE IF base = 8 /\ abs # 0 THEN 1 ELSE 0
        digits == SelectSeq(Text, LAMBDA c : c \notin {" ", "+", "-", "x", "X"})
        least == Max({1} \cup {Len(digits) - i + 1 : i \in {j \in DOMAIN digits : digits[j] # "0"}})
        body == (IF signed THEN 1 ELSE 0) + prefixed + Max({least, AskedPrecision})
        dense == {i \in 1..Len(Text) : Text[i] # " "}
    IN  /\ FoldLeft(LAMBDA n, c : n * base + DigitValue(c), 0, digits) = abs
        /\ Len(Text) = Max({Field, body})
        /\ meant < 0 <=> \E i \in dense : Text[i] = "-"
        /\ \A i, j \in dense : \A k \in i..j : k \in dense
        /\ Len(Text) > Cardinality(dense) + 1 =>
             IF AskedLeft THEN Text[Len(Text)] = " " ELSE Text[1] = " "

(* A string is cut at its precision and then put at the side of its field. *)
StringsPlaced ==
  ~printing /\ IsSingle /\ IsInRange /\ Conversion = "s" /\ given[Len(given)].at = "ok" =>
    LET chars == given[Len(given)].chars
        cut == IF AskedPrecision < 0 THEN chars
               ELSE SubSeq(chars, 1, Min({AskedPrecision, Len(chars)}))
        pad == Fill(Field - Len(cut), " ")
    IN  Text = IF AskedLeft THEN cut \o pad ELSE pad \o cut

(* vsnprintf returns the length the text needs, writes the part of it      *)
(* that fits, prints numbers that read back and strings in their fields.   *)
PrintedAsAsked ==
  /\ PrintTypeOK
  /\ FitsAsMeasured
  /\ NumbersReadBack
  /\ StringsPlaced
=============================================================================
