------------------------------ MODULE Cmdline -------------------------------
(***************************************************************************)
(* efi_convert_cmdline: the firmware's load options, UTF-16 in units of    *)
(* two bytes, become the command line of the kernel, in UTF-8 and in a     *)
(* pool of the right size.  A first pass measures the UTF-8, the second is *)
(* snprintf, which copies bytes.                                           *)
(***************************************************************************)
EXTENDS Integers, Sequences, FiniteSetsExt

CONSTANTS
  LoadOptions,        (* the load options a firmware may pass; an image    *)
                      (* without any is the empty sequence                 *)
  COMMAND_LINE_SIZE   (* the size of the kernel's buffer                   *)

efi_char16_t == 0..65535

ASSUME CmdlineAssumption ==
  /\ LoadOptions \subseteq Seq(efi_char16_t)
  /\ COMMAND_LINE_SIZE \in Nat \ {0}

VARIABLES
  options,
  next,           (* the unit read next, s2 in the code                    *)
  options_bytes,  (* the bytes of UTF-8 up to there                        *)
  safe_options_bytes,  (* and up to the last space between arguments       *)
  in_quote,
  at,             (* where the conversion is                               *)
  cmdline         (* the bytes written in front of the NUL                 *)

vars == <<options, next, options_bytes, safe_options_bytes, in_quote, at, cmdline>>

NUL == 0
NewLine == 10
DoubleQuote == 34
IsSpace(c) == c \in {9, 11, 12, 13, 32}
IsHigh(c) == c \div 1024 = 54      (* (c & 0xfc00) == 0xd800 *)
IsLow(c) == c \div 1024 = 55       (* (c & 0xfc00) == 0xdc00 *)

Init ==
  /\ options \in LoadOptions
  /\ next = 1 /\ options_bytes = 0 /\ safe_options_bytes = 0
  /\ in_quote = FALSE /\ at = "measure" /\ cmdline = <<>>

-----------------------------------------------------------------------------
(* The loop over the units.                                                *)
Unit == options[next]
Reads == at = "measure" /\ options_bytes < COMMAND_LINE_SIZE /\ next <= Len(options)
Counts(units, bytes) == next' = next + units /\ options_bytes' = options_bytes + bytes

EndsLoop ==
  /\ at = "measure"
  /\ Reads => Unit \in {NUL, NewLine}
  /\ at' = "cut"
  /\ UNCHANGED <<options, next, options_bytes, safe_options_bytes, in_quote, cmdline>>

CountAscii_InQuotes ==          \* mutation: a space inside quotes is safe
  /\ Reads /\ Unit < 128 /\ Unit \notin {NUL, NewLine}
  /\ in_quote' = IF Unit = DoubleQuote THEN ~in_quote ELSE in_quote
  /\ safe_options_bytes' =
       IF IsSpace(Unit) THEN options_bytes ELSE safe_options_bytes
  /\ Counts(1, 1)
  /\ UNCHANGED <<options, at, cmdline>>

CountAscii ==
  /\ Reads /\ Unit < 128 /\ Unit \notin {NUL, NewLine}
  /\ in_quote' = IF Unit = DoubleQuote THEN ~in_quote ELSE in_quote
  /\ safe_options_bytes' =
       IF ~in_quote /\ IsSpace(Unit) THEN options_bytes ELSE safe_options_bytes
  /\ Counts(1, 1)
  /\ UNCHANGED <<options, at, cmdline>>

(* A high surrogate in the last unit is ignored, one with its low half is  *)
(* four bytes; any other unit is a character of two or three bytes.        *)
CountOther ==
  /\ Reads /\ Unit >= 128
  /\ IF ~IsHigh(Unit) THEN Counts(1, IF Unit >= 2048 THEN 3 ELSE 2)
     ELSE IF next = Len(options) THEN Counts(1, 0)
     ELSE IF IsLow(options[next + 1]) THEN Counts(2, 4)
     ELSE Counts(1, 3)
  /\ UNCHANGED <<options, safe_options_bytes, in_quote, at, cmdline>>

Cut_AtSize ==                   \* mutation: > for >=
  /\ at = "cut"
  /\ options_bytes' =
       1 + IF options_bytes > COMMAND_LINE_SIZE THEN safe_options_bytes ELSE options_bytes
  /\ at' = "allocate"
  /\ UNCHANGED <<options, next, safe_options_bytes, in_quote, cmdline>>

(* What is too long is cut; one byte more for the NUL.                     *)
Cut ==
  /\ at = "cut"
  /\ options_bytes' =
       1 + IF options_bytes >= COMMAND_LINE_SIZE THEN safe_options_bytes ELSE options_bytes
  /\ at' = "allocate"
  /\ UNCHANGED <<options, next, safe_options_bytes, in_quote, cmdline>>

Allocate ==
  /\ at = "allocate"
  /\ at' \in {"write", "no_memory"}
  /\ UNCHANGED <<options, next, options_bytes, safe_options_bytes, in_quote, cmdline>>

(* The load options as they lie in memory, the lower byte first, and what  *)
(* lies behind them.                                                       *)
Behind == 256
Memory(p) ==
  IF p > 2 * Len(options) THEN Behind
  ELSE LET c == options[(p + 1) \div 2]
       IN  IF p % 2 = 1 THEN c % 256 ELSE c \div 256

(* snprintf with "%.*ls": the format is read as "%.*s", that is, bytes are *)
(* copied up to a NUL, as many as the precision at most.                   *)
Precision == options_bytes - 1

Write ==
  /\ at = "write"
  /\ \E n \in 0..Precision :
       /\ \A p \in 1..n : Memory(p) # NUL
       /\ n = Precision \/ Memory(n + 1) \in {NUL, Behind}
       /\ cmdline' = [p \in 1..n |-> Memory(p)]
  /\ at' = "done"
  /\ UNCHANGED <<options, next, options_bytes, safe_options_bytes, in_quote>>

Next == EndsLoop \/ CountAscii \/ CountOther \/ Cut \/ Allocate \/ Write

Spec == Init /\ [][Next]_vars

-----------------------------------------------------------------------------
(* The counts stay in their ranges, and the command line and its NUL are   *)
(* inside the pool that was allocated for them.                            *)
TypeOK ==
  /\ options \in Seq(efi_char16_t) /\ next \in 1..(Len(options) + 1)
  /\ options_bytes \in 0..(COMMAND_LINE_SIZE + 3)
  /\ safe_options_bytes \in 0..(COMMAND_LINE_SIZE - 1)
  /\ in_quote \in BOOLEAN
  /\ at \in {"measure", "cut", "allocate", "no_memory", "write", "done"}
  /\ at = "done" => Len(cmdline) < options_bytes

(* Whatever the characters before the limit and across it, the command     *)
(* line and its NUL fit into the kernel's buffer, and the pool has a byte. *)
FitsKernelBuffer ==
  at \in {"allocate", "no_memory", "write", "done"} =>
    options_bytes \in 1..COMMAND_LINE_SIZE

(* The length of the options in UTF-8, from the definition of UTF-16: a    *)
(* low half adds one byte to the three of its high half, everything is     *)
(* read up to the end of the first line, and half a character at the very  *)
(* end is none.                                                            *)
Line == Min({Len(options) + 1} \cup
            {i \in 1..Len(options) : options[i] \in {NUL, NewLine}}) - 1

BytesOf(i) ==
  LET c == options[i]
  IN  IF IsLow(c) /\ i > 1 /\ IsHigh(options[i - 1]) THEN 1
      ELSE IF IsHigh(c) /\ i = Len(options) THEN 0
      ELSE IF c < 128 THEN 1
      ELSE IF c < 2048 THEN 2
      ELSE 3

LengthOf(n) ==
  LET upTo[i \in 0..n] == IF i = 0 THEN 0 ELSE upTo[i - 1] + BytesOf(i)
  IN  upTo[n]

Measured == at \in {"allocate", "write", "done"}

(* The first pass counts exactly the bytes of the line in UTF-8 and a NUL, *)
(* whatever its surrogates, when that fits into the kernel's buffer.  This *)
(* is of the count alone: what is written into the pool of that size are   *)
(* the bytes of the UTF-16 (Write and AsciiArrives).                       *)
MeasuredIsUtf8 ==
  Measured /\ LengthOf(Line) < COMMAND_LINE_SIZE => options_bytes = LengthOf(Line) + 1

(* Of a line that is too long the count is that of what is in front of a   *)
(* space outside quotes, the last one up to which it fits.                 *)
Quoted(i) == Cardinality({j \in 1..(i - 1) : options[j] = DoubleQuote}) % 2 = 1
CutPoints == {i \in 1..Line : IsSpace(options[i]) /\ ~Quoted(i)
                                /\ LengthOf(i - 1) < COMMAND_LINE_SIZE}

CutBetweenArguments ==
  Measured /\ LengthOf(Line) >= COMMAND_LINE_SIZE =>
    options_bytes = 1 + IF CutPoints = {} THEN 0 ELSE LengthOf(Max(CutPoints) - 1)

(* The first pass of efi_convert_cmdline, two bytes at a time and with a   *)
(* state for surrogates and quotes, counts the bytes the line has in       *)
(* UTF-8, up to the last place between two arguments where it is too long. *)
LengthMeasured ==
  /\ MeasuredIsUtf8
  /\ CutBetweenArguments
=============================================================================
