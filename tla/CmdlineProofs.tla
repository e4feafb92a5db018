---------------------------- MODULE CmdlineProofs ----------------------------
(***************************************************************************)
(* Theorems about efi_convert_cmdline, for all load options and every size *)
(* of the kernel's buffer, about get_options, for all lists, and about     *)
(* efi_parse_options, for all lines.                                       *)
(***************************************************************************)
EXTENDS Cmdline, EfiOptions, GetOptions, NumberTheorems, SequenceTheorems,
        FiniteSetTheorems, TLAPS

(* The counts alone do not bound what the step that copies may write: that *)
(* the pool has at least the byte of the NUL is a fact of its own.         *)
IInv == TypeOK /\ FitsKernelBuffer

(* A run begins in the invariant.                                          *)
LEMMA InitIInv == Init => IInv
<1> SUFFICES ASSUME Init PROVE IInv
  OBVIOUS
<1> USE CmdlineAssumption DEF CmdlineAssumption
<1>1. options \in Seq(efi_char16_t)
  BY DEF Init
<1>2. Len(options) \in Nat
  BY <1>1
<1>3. next \in 1..(Len(options) + 1)
  BY <1>2 DEF Init
<1>4. options_bytes \in 0..(COMMAND_LINE_SIZE + 3)
        /\ safe_options_bytes \in 0..(COMMAND_LINE_SIZE - 1)
  BY DEF Init
<1>5. at = "measure" /\ in_quote \in BOOLEAN
  BY DEF Init
<1> QED
  BY <1>1, <1>3, <1>4, <1>5 DEF IInv, TypeOK, FitsKernelBuffer

(* Every step of the two passes keeps it.                                  *)
LEMMA StepIInv == IInv /\ [Next]_vars => IInv'
<1> SUFFICES ASSUME IInv, [Next]_vars PROVE IInv'
  OBVIOUS
<1> USE CmdlineAssumption DEF CmdlineAssumption, IInv
<1>0. Len(options) \in Nat /\ \A i \in 1..Len(options) : options[i] \in efi_char16_t
  BY DEF TypeOK
<1>1. CASE EndsLoop
  BY <1>1 DEF EndsLoop, TypeOK, FitsKernelBuffer
<1>2. CASE CountAscii
  <2>1. options_bytes' = options_bytes + 1 /\ next' = next + 1 /\ Reads
    BY <1>2 DEF CountAscii, Counts
  <2>2. safe_options_bytes' \in {options_bytes, safe_options_bytes}
    BY <1>2 DEF CountAscii
  <2>3. in_quote' \in BOOLEAN
    BY <1>2 DEF CountAscii, TypeOK
  <2>4. UNCHANGED <<options, at, cmdline>>
    BY <1>2 DEF CountAscii
  <2> QED
    BY <1>0, <2>1, <2>2, <2>3, <2>4 DEF TypeOK, FitsKernelBuffer, Reads
<1>3. CASE CountOther
  <2>1. Reads /\ UNCHANGED <<options, safe_options_bytes, in_quote, at, cmdline>>
    BY <1>3 DEF CountOther
  <2>2. PICK units \in {1, 2}, bytes \in {0, 2, 3, 4} :
          /\ Counts(units, bytes)
          /\ units = 2 => next # Len(options)
    BY <1>3 DEF CountOther
  <2>3. options_bytes' = options_bytes + bytes /\ next' = next + units
    BY <2>2 DEF Counts
  <2> QED
    BY <1>0, <2>1, <2>2, <2>3 DEF TypeOK, FitsKernelBuffer, Reads
<1>4. CASE Cut
  <2>1. options_bytes' \in 1..COMMAND_LINE_SIZE
    BY <1>4 DEF Cut, TypeOK
  <2> QED
    BY <1>4, <2>1 DEF Cut, TypeOK, FitsKernelBuffer
<1>5. CASE Allocate
  BY <1>5 DEF Allocate, TypeOK, FitsKernelBuffer
<1>6. CASE Write
  <2>1. PICK n \in 0..Precision : cmdline' = [p \in 1..n |-> Memory(p)]
    BY <1>6 DEF Write
  <2>2. options_bytes \in 1..COMMAND_LINE_SIZE
    BY <1>6 DEF Write, FitsKernelBuffer
  <2>3. n \in Nat /\ n < options_bytes
    BY <2>2, <2>1 DEF Precision
  <2>4. Len(cmdline') = n
    BY <2>1, <2>3
  <2> QED
    BY <1>6, <2>2, <2>3, <2>4 DEF Write, TypeOK, FitsKernelBuffer
<1>7. CASE UNCHANGED vars
  BY <1>7 DEF vars, TypeOK, FitsKernelBuffer
<1> QED
  BY <1>1, <1>2, <1>3, <1>4, <1>5, <1>6, <1>7 DEF Next

(* Whatever the load options are, the counts stay in their ranges and the  *)
(* command line with its NUL stays inside the pool.                        *)
THEOREM TypeCorrect == Spec => []TypeOK
<1>1. Init => IInv
  BY InitIInv
<1>2. IInv /\ [Next]_vars => IInv'
  BY StepIInv
<1>3. IInv => TypeOK
  BY DEF IInv
<1> QED
  BY <1>1, <1>2, <1>3, PTL DEF Spec

(* No load options make a command line the kernel's buffer does not hold.  *)
THEOREM FitsKernelBufferTheorem == Spec => []FitsKernelBuffer
<1>1. Init => IInv
  BY InitIInv
<1>2. IInv /\ [Next]_vars => IInv'
  BY StepIInv
<1>3. IInv => FitsKernelBuffer
  BY DEF IInv
<1> QED
  BY <1>1, <1>2, <1>3, PTL DEF Spec

-----------------------------------------------------------------------------
(* The measuring, and where a line that is too long is cut (helper.c).     *)

(* What LengthOf's recursive function is: the bytes up to each unit.       *)
IsLengths(u, n) ==
  u = [i \in 0..n |-> IF i = 0 THEN 0 ELSE u[i - 1] + BytesOf(i)]

(* A unit has up to three bytes.                                           *)
LEMMA BytesOfType == \A i : BytesOf(i) \in Nat
  BY SMTT(30) DEF BytesOf

(* A unit is a number.                                                     *)
LEMMA UnitsAreNumbers == \A c \in efi_char16_t : c \in Nat
  BY SMTT(30) DEF efi_char16_t

(* Surrogates are two different kinds of units of three bytes, and none    *)
(* of the characters the measuring looks for.                              *)
LEMMA UnitKinds ==
  ASSUME NEW c \in Nat
  PROVE  /\ IsHigh(c) => c >= 2048 /\ ~IsLow(c)
         /\ IsLow(c) => c >= 2048
         /\ c >= 128 => ~IsSpace(c) /\ c # DoubleQuote /\ c \notin {NUL, NewLine}
<1>1. c \div 1024 = 54 => c >= 2048
  OBVIOUS
<1>2. c \div 1024 = 55 => c >= 2048
  OBVIOUS
<1>3. c >= 128 => c \notin {9, 11, 12, 13, 32} /\ c # 34 /\ c # 0 /\ c # 10
  OBVIOUS
<1> QED
  BY <1>1, <1>2, <1>3 DEF IsHigh, IsLow, IsSpace, DoubleQuote, NUL, NewLine

(* The lengths of one unit more.                                           *)
LEMMA OneMoreLength ==
  ASSUME NEW n \in Nat, NEW u, IsLengths(u, n)
  PROVE  \E v : IsLengths(v, n + 1) /\ v[n + 1] = u[n] + BytesOf(n + 1)
<1> DEFINE v == [i \in 0..(n + 1) |-> IF i = n + 1 THEN u[n] + BytesOf(n + 1) ELSE u[i]]
<1>1. ASSUME NEW i \in 0..(n + 1)
      PROVE  v[i] = IF i = 0 THEN 0 ELSE v[i - 1] + BytesOf(i)
  <2>1. CASE i = n + 1
    <3>1. v[i] = u[n] + BytesOf(i) /\ i # 0 /\ i - 1 = n /\ v[n] = u[n]
      BY <2>1
    <3> QED
      BY <3>1
  <2>2. CASE i # n + 1
    <3>1. v[i] = u[i] /\ i \in 0..n /\ (i # 0 => v[i - 1] = u[i - 1])
      BY <2>2
    <3> HIDE DEF v
    <3>2. u[i] = IF i = 0 THEN 0 ELSE u[i - 1] + BytesOf(i)
      BY <3>1 DEF IsLengths
    <3> QED
      BY <3>1, <3>2
  <2> QED
    BY <2>1, <2>2
<1>2. v = [i \in 0..(n + 1) |-> v[i]] /\ v[n + 1] = u[n] + BytesOf(n + 1)
  OBVIOUS
<1> HIDE DEF v
<1>3. IsLengths(v, n + 1)
  BY <1>1, <1>2 DEF IsLengths
<1> QED
  BY <1>2, <1>3

(* The recursion has a solution.                                           *)
LEMMA LengthsExist ==
  ASSUME NEW n \in Nat
  PROVE  \E u : IsLengths(u, n)
<1> DEFINE T == {k \in Nat : \E u : IsLengths(u, k)}
<1>1. 0 \in T
  <2>1. IsLengths([i \in 0..0 |-> 0], 0)
    BY DEF IsLengths
  <2> QED
    BY <2>1
<1>2. ASSUME NEW k \in Nat, k \in T PROVE k + 1 \in T
  BY <1>2, OneMoreLength
<1> HIDE DEF T
<1>3. n \in T
  BY <1>1, <1>2, AllNat
<1> QED
  BY <1>3 DEF T

(* Any solution gives the length.                                          *)
LEMMA LengthIs ==
  ASSUME NEW n \in Nat, NEW u, IsLengths(u, n)
  PROVE  LengthOf(n) = u[n]
<1> DEFINE w == CHOOSE w : IsLengths(w, n)
<1>1. LengthOf(n) = w[n]
  BY DEF LengthOf, IsLengths
<1>2. IsLengths(w, n)
  BY LengthsExist
<1> HIDE DEF w
<1> DEFINE T == {k \in Nat : k <= n => w[k] = u[k]}
<1>3. 0 \in T
  BY <1>2 DEF IsLengths
<1>4. ASSUME NEW k \in Nat, k \in T PROVE k + 1 \in T
  <2> SUFFICES ASSUME k + 1 <= n PROVE w[k + 1] = u[k + 1]
    OBVIOUS
  <2>1. w[k] = u[k]
    BY <1>4
  <2>2. k + 1 \in 0..n /\ k + 1 # 0 /\ (k + 1) - 1 = k
    OBVIOUS
  <2>3. w[k + 1] = w[k] + BytesOf(k + 1)
    BY <1>2, <2>2 DEF IsLengths
  <2>4. u[k + 1] = u[k] + BytesOf(k + 1)
    BY <2>2 DEF IsLengths
  <2> QED
    BY <2>1, <2>3, <2>4
<1> HIDE DEF T
<1>5. n \in T
  BY <1>3, <1>4, AllNat
<1> QED
  BY <1>1, <1>5 DEF T

(* Each unit adds its bytes.                                               *)
LEMMA LengthStep ==
  ASSUME NEW n \in Nat
  PROVE  LengthOf(n + 1) = LengthOf(n) + BytesOf(n + 1)
<1>1. PICK u : IsLengths(u, n)
  BY LengthsExist
<1>2. PICK v : IsLengths(v, n + 1) /\ v[n + 1] = u[n] + BytesOf(n + 1)
  BY <1>1, OneMoreLength
<1>3. LengthOf(n + 1) = v[n + 1]
  BY <1>2, LengthIs
<1> QED
  BY <1>1, <1>2, <1>3, LengthIs

(* And nothing has no length.                                              *)
LEMMA LengthOfNothing == LengthOf(0) = 0
<1>1. IsLengths([i \in 0..0 |-> 0], 0)
  BY DEF IsLengths
<1> QED
  BY <1>1, LengthIs

(* A length is a number.                                                   *)
LEMMA LengthType == \A n \in Nat : LengthOf(n) \in Nat
<1> DEFINE T == {n \in Nat : LengthOf(n) \in Nat}
<1>1. 0 \in T
  BY LengthOfNothing
<1>2. ASSUME NEW n \in Nat, n \in T PROVE n + 1 \in T
  BY <1>2, LengthStep, BytesOfType
<1> HIDE DEF T
<1>3. \A n \in Nat : n \in T
  BY <1>1, <1>2, AllNat
<1> QED
  BY <1>3 DEF T

(* What is longer has no fewer bytes.                                      *)
LEMMA LengthGrows ==
  ASSUME NEW m \in Nat, NEW n \in Nat, m <= n
  PROVE  LengthOf(m) <= LengthOf(n)
<1> DEFINE T == {k \in Nat : LengthOf(m) <= LengthOf(m + k)}
<1>1. 0 \in T
  BY LengthType
<1>2. ASSUME NEW k \in Nat, k \in T PROVE k + 1 \in T
  <2>1. PICK j \in Nat : j = m + k
    OBVIOUS
  <2>2. LengthOf(j + 1) = LengthOf(j) + BytesOf(j + 1)
    BY LengthStep
  <2>3. LengthOf(m) <= LengthOf(j) /\ BytesOf(j + 1) \in Nat /\ LengthOf(j) \in Nat
        /\ LengthOf(m) \in Nat
    BY <1>2, <2>1, BytesOfType, LengthType
  <2>4. LengthOf(m) <= LengthOf(j + 1)
    BY <2>2, <2>3
  <2>5. m + (k + 1) = j + 1
    BY <2>1
  <2> QED
    BY <2>4, <2>5
<1> HIDE DEF T
<1>3. n - m \in Nat /\ m + (n - m) = n
  OBVIOUS
<1>4. n - m \in T
  BY <1>1, <1>2, <1>3, AllNat
<1> QED
  BY <1>3, <1>4 DEF T

(* The first line is what is in front of the first NUL or newline.         *)
LEMMA LineIs ==
  ASSUME options \in Seq(efi_char16_t)
  PROVE  /\ Line \in 0..Len(options)
         /\ \A i \in 1..Line : options[i] \notin {NUL, NewLine}
         /\ Line = Len(options) \/ options[Line + 1] \in {NUL, NewLine}
<1> DEFINE ends == {Len(options) + 1} \cup
                   {i \in 1..Len(options) : options[i] \in {NUL, NewLine}}
<1>1. Len(options) \in Nat
  OBVIOUS
<1>2. ends \subseteq Nat \ {0} /\ ends # {} /\ \A i \in ends : i <= Len(options) + 1
  BY <1>1
<1>3. \E x \in ends : \A y \in ends : x <= y
  BY <1>2, LeastNat
<1>4. Min(ends) = CHOOSE x \in ends : \A y \in ends : x <= y
  BY DEF Min
<1>5. PICK first \in Nat \ {0} : first = Min(ends) /\ first \in ends
                                /\ \A y \in ends : first <= y
  BY <1>2, <1>3, <1>4
<1>6. Line = first - 1
  BY <1>5 DEF Line
<1>7. first <= Len(options) + 1
  BY <1>2, <1>5
<1>8. ASSUME NEW i \in 1..(first - 1) PROVE options[i] \notin {NUL, NewLine}
  <2>1. i \in 1..Len(options) /\ i \notin ends
    BY <1>1, <1>5, <1>7
  <2> QED
    BY <2>1
<1>9. first = Len(options) + 1 \/ options[first] \in {NUL, NewLine}
  BY <1>5
<1>10. first - 1 \in 0..Len(options) /\ (first - 1) + 1 = first
  BY <1>1, <1>5, <1>7
<1> HIDE DEF ends
<1> QED
  BY <1>1, <1>6, <1>8, <1>9, <1>10

(* A quote turns the quoting round, anything else leaves it.               *)
LEMMA QuotedStep ==
  ASSUME NEW n \in Nat \ {0}
  PROVE  Quoted(n + 1) <=> IF options[n] = DoubleQuote THEN ~Quoted(n) ELSE Quoted(n)
<1> DEFINE Q(m) == {j \in 1..(m - 1) : options[j] = DoubleQuote}
<1>1. IsFiniteSet(Q(n)) /\ Cardinality(Q(n)) \in Nat
  <2>1. IsFiniteSet(1..(n - 1))
    BY FS_Interval
  <2> QED
    BY <2>1, FS_Subset, FS_CardinalityType
<1>2. Q(n + 1) = IF options[n] = DoubleQuote THEN Q(n) \cup {n} ELSE Q(n)
  OBVIOUS
<1>3. n \notin Q(n)
  OBVIOUS
<1>4. Quoted(n) <=> Cardinality(Q(n)) % 2 = 1
  BY DEF Quoted
<1>5. Quoted(n + 1) <=> Cardinality(Q(n + 1)) % 2 = 1
  BY DEF Quoted
<1> HIDE DEF Q
<1>6. PICK c \in Nat : c = Cardinality(Q(n))
  BY <1>1
<1>7. Quoted(n) <=> c % 2 = 1
  BY <1>4, <1>6
<1>8. CASE options[n] = DoubleQuote
  <2>1. Cardinality(Q(n + 1)) = c + 1
    BY <1>1, <1>2, <1>3, <1>6, <1>8, FS_AddElement
  <2>2. Quoted(n + 1) <=> (c + 1) % 2 = 1
    BY <1>5, <2>1
  <2>3. (c + 1) % 2 = 1 <=> ~(c % 2 = 1)
    OBVIOUS
  <2>4. Quoted(n + 1) <=> ~Quoted(n)
    BY <1>7, <2>2, <2>3, Zenon
  <2> QED
    BY <1>8, <2>4
<1>9. CASE options[n] # DoubleQuote
  <2>1. Q(n + 1) = Q(n)
    BY <1>2, <1>9
  <2>2. Quoted(n + 1) <=> c % 2 = 1
    BY <1>5, <1>6, <2>1
  <2>3. Quoted(n + 1) <=> Quoted(n)
    BY <1>7, <2>2, Zenon
  <2> QED
    BY <1>9, <2>3
<1> QED
  BY <1>8, <1>9

-----------------------------------------------------------------------------
(* The spaces outside quotes in front of a unit.                           *)
SafeSpaces(k) == {i \in 1..(k - 1) : IsSpace(options[i]) /\ ~Quoted(i)}

(* How many bytes are in front of the last of some spaces.                 *)
BytesBefore(spaces) == IF spaces = {} THEN 0 ELSE LengthOf(Max(spaces) - 1)

(* The measuring has counted the bytes of the units in front of the next   *)
(* one, which is no half of a character that was counted; it knows whether *)
(* the next unit is in quotes, and the bytes up to the last safe space.    *)
CountInv ==
  /\ at \in {"measure", "cut"} =>
       /\ options_bytes = LengthOf(next - 1)
       /\ next - 1 <= Line
       /\ next > 1 /\ next <= Len(options) => ~(IsHigh(options[next - 1]) /\ IsLow(options[next]))
       /\ in_quote <=> Quoted(next)
       /\ \A i \in SafeSpaces(next) : LengthOf(i - 1) < COMMAND_LINE_SIZE
       /\ safe_options_bytes = BytesBefore(SafeSpaces(next))
  /\ at = "cut" => options_bytes >= COMMAND_LINE_SIZE \/ next - 1 = Line

(* What was measured stays as it is.                                       *)
CutInv ==
  at \in {"allocate", "no_memory", "write", "done"} =>
    options_bytes = 1 + IF LengthOf(Line) < COMMAND_LINE_SIZE THEN LengthOf(Line)
                        ELSE BytesBefore(CutPoints)

(* The next unit is in front of the end of the line while it is counted.   *)
LEMMA ReadsInLine ==
  ASSUME TypeOK, CountInv, Reads, Unit \notin {NUL, NewLine}
  PROVE  next \in 1..Line
<1>1. options \in Seq(efi_char16_t) /\ next \in Nat \ {0} /\ Len(options) \in Nat
      /\ next <= Len(options)
  BY DEF TypeOK, Reads
<1>2. Line \in 0..Len(options) /\ (Line = Len(options) \/ options[Line + 1] \in {NUL, NewLine})
      /\ next - 1 <= Line
  BY <1>1, LineIs DEF CountInv, Reads
<1>3. next # Line + 1
  BY <1>1, <1>2 DEF Unit
<1> QED
  BY <1>1, <1>2, <1>3

(* Counting a unit that is no space outside quotes.                        *)
LEMMA SafeSpacesKept ==
  ASSUME NEW k \in Nat \ {0}, ~(IsSpace(options[k]) /\ ~Quoted(k))
  PROVE  SafeSpaces(k + 1) = SafeSpaces(k)
<1>1. ASSUME NEW i \in SafeSpaces(k + 1) PROVE i \in SafeSpaces(k)
  <2>1. i \in 1..k /\ i # k
    BY <1>1 DEF SafeSpaces
  <2> QED
    BY <1>1, <2>1 DEF SafeSpaces
<1>2. SafeSpaces(k) \subseteq SafeSpaces(k + 1)
  BY DEF SafeSpaces
<1> QED
  BY <1>1, <1>2

(* And a space outside quotes, which is the last one then.                 *)
LEMMA SafeSpacesGrow ==
  ASSUME NEW k \in Nat \ {0}, IsSpace(options[k]), ~Quoted(k)
  PROVE  /\ SafeSpaces(k + 1) = SafeSpaces(k) \cup {k}
         /\ BytesBefore(SafeSpaces(k + 1)) = LengthOf(k - 1)
<1> DEFINE S == SafeSpaces(k + 1)
<1>1. S = SafeSpaces(k) \cup {k} /\ k \in S /\ \A i \in S : i \in 1..k
  BY DEF SafeSpaces
<1> HIDE DEF S
<1>2. Max(S) = CHOOSE x \in S : \A y \in S : x >= y
  BY DEF Max
<1>3. k \in S /\ \A y \in S : k >= y
  BY <1>1
<1>4. PICK x \in S : x = Max(S) /\ \A y \in S : x >= y
  BY <1>2, <1>3
<1>5. Max(S) = k
  <2>1. x \in 1..k /\ x >= k
    BY <1>1, <1>4
  <2> QED
    BY <1>4, <2>1
<1> QED
  BY <1>1, <1>5 DEF BytesBefore, S

(* What has to be known of the units counted after a step.                 *)
LEMMA CountedTo ==
  ASSUME NEW k \in Nat \ {0}, next' = k, options' = options, at' = "measure",
         options_bytes' = LengthOf(k - 1), k - 1 <= Line,
         k > 1 /\ k <= Len(options) => ~(IsHigh(options[k - 1]) /\ IsLow(options[k])),
         in_quote' <=> Quoted(k),
         \A i \in SafeSpaces(k) : LengthOf(i - 1) < COMMAND_LINE_SIZE,
         safe_options_bytes' = BytesBefore(SafeSpaces(k))
  PROVE  CountInv' /\ CutInv'
<1>1. /\ LengthOf(k - 1)' = LengthOf(k - 1)
      /\ Line' = Line
      /\ Quoted(k)' <=> Quoted(k)
      /\ SafeSpaces(k)' = SafeSpaces(k)
      /\ \A i : LengthOf(i)' = LengthOf(i)
      /\ BytesBefore(SafeSpaces(k))' = BytesBefore(SafeSpaces(k))
  BY DEF LengthOf, BytesOf, Quoted, Line, SafeSpaces, BytesBefore
<1> QED
  BY <1>1 DEF CountInv, CutInv

(* A unit of one byte.                                                     *)
LEMMA CountAsciiStep ==
  ASSUME TypeOK, CountInv, CountAscii
  PROVE  CountInv' /\ CutInv'
<1>1. /\ Reads /\ Unit < 128 /\ Unit \notin {NUL, NewLine} /\ at = "measure"
      /\ options' = options /\ at' = at
      /\ next' = next + 1 /\ options_bytes' = options_bytes + 1
  BY DEF CountAscii, Counts, Reads
<1>2. /\ next \in 1..Line /\ next \in Nat \ {0} /\ Line \in 0..Len(options)
      /\ Len(options) \in Nat /\ Unit \in Nat
  <2>1. next \in 1..Line
    BY <1>1, ReadsInLine
  <2>2. options \in Seq(efi_char16_t) /\ Len(options) \in Nat /\ next \in Nat \ {0}
        /\ next <= Len(options)
    BY <1>1 DEF TypeOK, Reads
  <2>3. Unit \in efi_char16_t
    BY <2>2 DEF Unit
  <2> QED
    BY <2>1, <2>2, <2>3, LineIs, UnitsAreNumbers
<1>3. PICK k \in Nat \ {0} : k = next /\ k - 1 \in Nat /\ (k - 1) + 1 = k /\ (k + 1) - 1 = k
                             /\ k + 1 \in Nat \ {0}
  BY <1>2
<1>4. ~IsHigh(Unit) /\ ~IsLow(Unit)
  BY <1>1, <1>2, UnitKinds
<1>5. BytesOf(k) = 1
  BY <1>1, <1>2, <1>3, <1>4 DEF BytesOf, Unit
<1>6. LengthOf(k) = LengthOf(k - 1) + 1
  BY <1>3, <1>5, LengthStep
<1>7. /\ options_bytes = LengthOf(k - 1)
      /\ in_quote <=> Quoted(k)
      /\ \A i \in SafeSpaces(k) : LengthOf(i - 1) < COMMAND_LINE_SIZE
      /\ safe_options_bytes = BytesBefore(SafeSpaces(k))
      /\ options_bytes < COMMAND_LINE_SIZE
  BY <1>1, <1>3 DEF CountInv, Reads
<1>8. in_quote' <=> Quoted(k + 1)
  <2>1. in_quote' = IF options[k] = DoubleQuote THEN ~in_quote ELSE in_quote
    BY <1>3 DEF CountAscii, Unit
  <2>2. Quoted(k + 1) <=> IF options[k] = DoubleQuote THEN ~Quoted(k) ELSE Quoted(k)
    BY QuotedStep
  <2> QED
    BY <1>7, <2>1, <2>2, Zenon
<1>9. safe_options_bytes' = BytesBefore(SafeSpaces(k + 1))
      /\ \A i \in SafeSpaces(k + 1) : LengthOf(i - 1) < COMMAND_LINE_SIZE
  <2>1. CASE IsSpace(options[k]) /\ ~Quoted(k)
    <3>1. safe_options_bytes' = options_bytes
      BY <1>3, <1>7, <2>1 DEF CountAscii, Unit
    <3>2. SafeSpaces(k + 1) = SafeSpaces(k) \cup {k}
          /\ BytesBefore(SafeSpaces(k + 1)) = LengthOf(k - 1)
      BY <2>1, SafeSpacesGrow
    <3> QED
      BY <1>7, <3>1, <3>2
  <2>2. CASE ~(IsSpace(options[k]) /\ ~Quoted(k))
    <3>1. safe_options_bytes' = safe_options_bytes
      BY <1>3, <1>7, <2>2 DEF CountAscii, Unit
    <3>2. SafeSpaces(k + 1) = SafeSpaces(k)
      BY <2>2, SafeSpacesKept
    <3> QED
      BY <1>7, <3>1, <3>2
  <2> QED
    BY <2>1, <2>2
<1>10. ~IsHigh(options[(k + 1) - 1]) /\ (k + 1) - 1 <= Line
  BY <1>2, <1>3, <1>4 DEF Unit
<1>11. options_bytes' = LengthOf((k + 1) - 1) /\ next' = k + 1 /\ at' = "measure"
  BY <1>1, <1>3, <1>6, <1>7
<1> QED
  BY <1>1, <1>3, <1>8, <1>9, <1>10, <1>11, CountedTo

(* A unit that is no ASCII takes no part in quoting.                       *)
LEMMA OtherUnit ==
  ASSUME NEW k \in Nat \ {0}, options[k] \in efi_char16_t, options[k] >= 128
  PROVE  SafeSpaces(k + 1) = SafeSpaces(k) /\ (Quoted(k + 1) <=> Quoted(k))
<1>1. ~IsSpace(options[k]) /\ options[k] # DoubleQuote
  BY UnitKinds, UnitsAreNumbers
<1> QED
  BY <1>1, QuotedStep, SafeSpacesKept

(* A unit of several bytes, with its other half if it has one.             *)
LEMMA CountOtherStep ==
  ASSUME TypeOK, CountInv, CountOther
  PROVE  CountInv' /\ CutInv'
<1>1. /\ Reads /\ Unit >= 128 /\ at = "measure"
      /\ UNCHANGED <<options, safe_options_bytes, in_quote, at>>
  BY DEF CountOther, Reads
<1>2. options \in Seq(efi_char16_t) /\ next \in Nat \ {0} /\ next <= Len(options)
      /\ Len(options) \in Nat /\ Unit \in efi_char16_t
  BY <1>1 DEF TypeOK, Reads, Unit
<1>3. Unit \notin {NUL, NewLine}
  BY <1>1, <1>2, UnitKinds, UnitsAreNumbers
<1>4. next \in 1..Line /\ Line \in 0..Len(options)
  BY <1>1, <1>2, <1>3, ReadsInLine, LineIs
<1>5. PICK k \in Nat \ {0} : k = next /\ k - 1 \in Nat /\ (k - 1) + 1 = k /\ (k + 1) - 1 = k
                             /\ k + 1 \in Nat \ {0} /\ k <= Line
  BY <1>2, <1>4
<1>6. /\ options_bytes = LengthOf(k - 1)
      /\ in_quote <=> Quoted(k)
      /\ \A i \in SafeSpaces(k) : LengthOf(i - 1) < COMMAND_LINE_SIZE
      /\ safe_options_bytes = BytesBefore(SafeSpaces(k))
      /\ k > 1 => ~(IsHigh(options[k - 1]) /\ IsLow(options[k]))
  BY <1>1, <1>2, <1>5 DEF CountInv
<1>7. LengthOf(k) = LengthOf(k - 1) + BytesOf(k)
  BY <1>5, LengthStep
<1>8. options[k] = Unit
  BY <1>5 DEF Unit
<1>9. SafeSpaces(k + 1) = SafeSpaces(k) /\ (Quoted(k + 1) <=> Quoted(k))
  BY <1>1, <1>2, <1>8, OtherUnit
<1>10. ASSUME next' = k + 1, options_bytes' = LengthOf(k),
              k + 1 <= Len(options) => ~(IsHigh(options[k]) /\ IsLow(options[k + 1]))
       PROVE  CountInv' /\ CutInv'
  <2>1. in_quote' <=> Quoted(k + 1)
    BY <1>1, <1>6, <1>9, Zenon
  <2>2. safe_options_bytes' = BytesBefore(SafeSpaces(k + 1))
        /\ \A i \in SafeSpaces(k + 1) : LengthOf(i - 1) < COMMAND_LINE_SIZE
    BY <1>1, <1>6, <1>9
  <2>3. (k + 1) - 1 <= Line /\ options_bytes' = LengthOf((k + 1) - 1)
        /\ (k + 1 > 1 /\ k + 1 <= Len(options) =>
               ~(IsHigh(options[(k + 1) - 1]) /\ IsLow(options[k + 1])))
    BY <1>5, <1>10
  <2> QED
    BY <1>1, <1>5, <1>10, <2>1, <2>2, <2>3, CountedTo
<1>11. CASE ~IsHigh(Unit)
  <2>1. next' = k + 1 /\ options_bytes' = options_bytes + IF Unit >= 2048 THEN 3 ELSE 2
    BY <1>5, <1>11 DEF CountOther, Counts
  <2>2. BytesOf(k) = IF Unit >= 2048 THEN 3 ELSE 2
    <3>1. ~(IsLow(options[k]) /\ k > 1 /\ IsHigh(options[k - 1])) /\ ~IsHigh(options[k])
      BY <1>6, <1>8, <1>11
    <3>2. Unit \in Nat /\ ~(Unit < 128) /\ (Unit < 2048 <=> ~(Unit >= 2048))
      BY <1>1, <1>2, UnitsAreNumbers
    <3> QED
      BY <1>8, <3>1, <3>2 DEF BytesOf
  <2> QED
    BY <1>6, <1>7, <1>8, <1>10, <1>11, <2>1, <2>2
<1>12. CASE IsHigh(Unit)
  <2>1. ~IsLow(Unit) /\ Unit >= 2048
    BY <1>2, <1>12, UnitKinds, UnitsAreNumbers
  <2>2. CASE k = Len(options)
    <3>1. next' = k + 1 /\ options_bytes' = options_bytes + 0
      BY <1>5, <1>12, <2>2 DEF CountOther, Counts
    <3>2. BytesOf(k) = 0 /\ LengthOf(k - 1) \in Nat
      <4>1. IsHigh(options[k]) /\ ~IsLow(options[k])
        BY <1>8, <1>12, <2>1
      <4>2. BytesOf(k) = 0
        BY <2>2, <4>1 DEF BytesOf
      <4> QED
        BY <1>5, <4>2, LengthType
    <3>3. ~(k + 1 <= Len(options))
      BY <2>2
    <3> QED
      BY <1>6, <1>7, <1>10, <3>1, <3>2, <3>3
  <2>3. CASE k # Len(options)
    <3>1. BytesOf(k) = 3
      <4>1. Unit \in Nat /\ ~(Unit < 128) /\ ~(Unit < 2048)
        BY <1>2, <2>1, UnitsAreNumbers
      <4> QED
        BY <1>8, <2>1, <2>3, <4>1 DEF BytesOf
    <3>2. CASE ~IsLow(options[k + 1])
      <4>1. next' = k + 1 /\ options_bytes' = options_bytes + 3
        BY <1>5, <1>12, <2>3, <3>2 DEF CountOther, Counts
      <4> QED
        BY <1>6, <1>7, <1>10, <3>1, <3>2, <4>1
    <3>3. CASE IsLow(options[k + 1])
      <4>1. next' = k + 2 /\ options_bytes' = options_bytes + 4
        BY <1>5, <1>12, <2>3, <3>3 DEF CountOther, Counts
      <4>2. PICK j \in Nat \ {0} : j = k + 1 /\ j \in 1..Len(options) /\ j > 1 /\ j - 1 = k
                                   /\ j + 1 = k + 2 /\ (j + 1) - 1 = j /\ k + 2 \in Nat \ {0}
        BY <1>2, <1>5, <2>3
      <4>3. options[j] \in efi_char16_t /\ IsLow(options[j])
        BY <1>2, <3>3, <4>2
      <4>4. options[j] >= 128 /\ ~IsHigh(options[j]) /\ options[j] \notin {NUL, NewLine}
        <5>1. options[j] \in Nat
          BY <4>3, UnitsAreNumbers
        <5>2. ~IsHigh(options[j]) /\ options[j] >= 128
          BY <4>3, <5>1, UnitKinds
        <5> QED
          BY <5>1, <5>2, UnitKinds
      <4>5. BytesOf(j) = 1
        BY <1>8, <1>12, <4>2, <4>3 DEF BytesOf
      <4>6. LengthOf(j) = LengthOf(k) + 1
        BY <4>2, <4>5, LengthStep
      <4>7. options_bytes' = LengthOf(j)
        <5>1. LengthOf(k - 1) \in Nat
          BY <1>5, LengthType
        <5> QED
          BY <1>6, <1>7, <3>1, <4>1, <4>6, <5>1
      <4>8. j <= Line
        <5>1. Line = Len(options) \/ options[Line + 1] \in {NUL, NewLine}
          BY <1>2, LineIs
        <5>2. Line # k
          BY <2>3, <4>2, <4>4, <5>1
        <5> QED
          BY <1>4, <1>5, <4>2, <5>2
      <4>9. SafeSpaces(j + 1) = SafeSpaces(k) /\ (Quoted(j + 1) <=> Quoted(k))
        <5>1. SafeSpaces(j + 1) = SafeSpaces(j) /\ (Quoted(j + 1) <=> Quoted(j))
          BY <4>2, <4>3, <4>4, OtherUnit
        <5> QED
          BY <1>9, <4>2, <5>1
      <4>10. in_quote' <=> Quoted(j + 1)
        BY <1>1, <1>6, <4>9, Zenon
      <4>11. safe_options_bytes' = BytesBefore(SafeSpaces(j + 1))
             /\ \A i \in SafeSpaces(j + 1) : LengthOf(i - 1) < COMMAND_LINE_SIZE
        BY <1>1, <1>6, <4>9
      <4>12. j + 1 \in Nat \ {0} /\ next' = j + 1 /\ options_bytes' = LengthOf((j + 1) - 1)
             /\ (j + 1) - 1 <= Line /\ ~IsHigh(options[(j + 1) - 1])
        BY <4>1, <4>2, <4>4, <4>7, <4>8
      <4> QED
        BY <1>1, <4>10, <4>11, <4>12, CountedTo
    <3> QED
      BY <3>2, <3>3
  <2> QED
    BY <2>2, <2>3
<1> QED
  BY <1>11, <1>12

(* The measuring ends at the end of the line or of the kernel's buffer.    *)
LEMMA EndsLoopStep ==
  ASSUME TypeOK, CountInv, EndsLoop
  PROVE  CountInv' /\ CutInv'
<1>1. /\ at = "measure" /\ at' = "cut"
      /\ UNCHANGED <<options, next, options_bytes, safe_options_bytes, in_quote>>
      /\ Reads => Unit \in {NUL, NewLine}
  BY DEF EndsLoop
<1>2. options \in Seq(efi_char16_t) /\ next \in 1..(Len(options) + 1) /\ Len(options) \in Nat
      /\ options_bytes \in Nat /\ COMMAND_LINE_SIZE \in Nat
  BY CmdlineAssumption DEF TypeOK
<1>3. /\ Line \in 0..Len(options)
      /\ \A i \in 1..Line : options[i] \notin {NUL, NewLine}
  BY <1>2, LineIs
<1>4. options_bytes >= COMMAND_LINE_SIZE \/ next - 1 = Line
  <2>1. CASE options_bytes >= COMMAND_LINE_SIZE
    BY <2>1
  <2>2. CASE options_bytes < COMMAND_LINE_SIZE
    <3>1. next - 1 <= Line
      BY <1>1 DEF CountInv
    <3>2. next = Len(options) + 1 \/ options[next] \in {NUL, NewLine}
      BY <1>1, <1>2, <2>2 DEF Reads, Unit
    <3>3. ~(next <= Line)
      <4> SUFFICES ASSUME next <= Line PROVE FALSE
        OBVIOUS
      <4>1. next \in 1..Line
        BY <1>2, <1>3
      <4> QED
        BY <1>2, <1>3, <3>2, <4>1
    <3> QED
      BY <1>2, <1>3, <3>1, <3>3
  <2> QED
    BY <1>2, <2>1, <2>2
<1>5. /\ \A i : LengthOf(i)' = LengthOf(i)
      /\ Line' = Line
      /\ Quoted(next)' <=> Quoted(next)
      /\ SafeSpaces(next)' = SafeSpaces(next)
      /\ BytesBefore(SafeSpaces(next))' = BytesBefore(SafeSpaces(next))
      /\ LengthOf(next - 1)' = LengthOf(next - 1)
  BY <1>1 DEF LengthOf, BytesOf, Quoted, Line, SafeSpaces, BytesBefore
<1> QED
  BY <1>1, <1>4, <1>5 DEF CountInv, CutInv

(* What is cut, is what the reader of the line would cut.                  *)
LEMMA CutStep ==
  ASSUME TypeOK, CountInv, Cut
  PROVE  CountInv' /\ CutInv'
<1>1. /\ at = "cut" /\ at' = "allocate" /\ options' = options
      /\ options_bytes' = 1 + IF options_bytes >= COMMAND_LINE_SIZE THEN safe_options_bytes
                              ELSE options_bytes
  BY DEF Cut
<1>2. options \in Seq(efi_char16_t) /\ next \in Nat \ {0} /\ Len(options) \in Nat
      /\ COMMAND_LINE_SIZE \in Nat
  BY CmdlineAssumption DEF TypeOK
<1>3. Line \in Nat
  BY <1>2, LineIs
<1>4. PICK m \in Nat : m = next - 1 /\ next = m + 1
  BY <1>2
<1>5. /\ options_bytes = LengthOf(m) /\ m <= Line
      /\ options_bytes >= COMMAND_LINE_SIZE \/ m = Line
      /\ \A i \in SafeSpaces(next) : LengthOf(i - 1) < COMMAND_LINE_SIZE
      /\ safe_options_bytes = BytesBefore(SafeSpaces(next))
  BY <1>1, <1>4 DEF CountInv
<1>6. LengthOf(m) \in Nat /\ LengthOf(Line) \in Nat /\ LengthOf(m) <= LengthOf(Line)
  BY <1>3, <1>5, LengthType, LengthGrows
<1>7. options_bytes' = 1 + IF LengthOf(Line) < COMMAND_LINE_SIZE THEN LengthOf(Line)
                           ELSE BytesBefore(CutPoints)
  <2>1. CASE LengthOf(m) < COMMAND_LINE_SIZE
    <3>1. m = Line
      BY <1>2, <1>5, <1>6, <2>1
    <3> QED
      BY <1>1, <1>2, <1>5, <1>6, <2>1, <3>1
  <2>2. CASE LengthOf(m) >= COMMAND_LINE_SIZE
    <3>1. ASSUME NEW i \in CutPoints PROVE i \in SafeSpaces(next)
      <4>1. i \in 1..Line /\ IsSpace(options[i]) /\ ~Quoted(i) /\ i - 1 \in Nat
            /\ LengthOf(i - 1) < COMMAND_LINE_SIZE
        BY <1>3, <3>1 DEF CutPoints
      <4>2. ~(m <= i - 1)
        <5> SUFFICES ASSUME m <= i - 1 PROVE FALSE
          OBVIOUS
        <5>1. LengthOf(m) <= LengthOf(i - 1) /\ LengthOf(i - 1) \in Nat
          BY <4>1, LengthGrows, LengthType
        <5> QED
          BY <1>2, <1>6, <2>2, <4>1, <5>1
      <4>3. i \in 1..(next - 1)
        BY <1>3, <1>4, <4>1, <4>2
      <4> QED
        BY <4>1, <4>3 DEF SafeSpaces
    <3>2. ASSUME NEW i \in SafeSpaces(next) PROVE i \in CutPoints
      <4>1. i \in 1..Line /\ IsSpace(options[i]) /\ ~Quoted(i)
        BY <1>3, <1>4, <1>5, <3>2 DEF SafeSpaces
      <4> QED
        BY <1>5, <3>2, <4>1 DEF CutPoints
    <3>3. CutPoints = SafeSpaces(next)
      BY <3>1, <3>2
    <3>4. ~(LengthOf(Line) < COMMAND_LINE_SIZE)
      BY <1>2, <1>6, <2>2
    <3> QED
      BY <1>1, <1>5, <2>2, <3>3, <3>4
  <2> QED
    BY <1>2, <1>6, <2>1, <2>2
<1>8. LengthOf(Line)' = LengthOf(Line) /\ BytesBefore(CutPoints)' = BytesBefore(CutPoints)
  BY <1>1 DEF LengthOf, BytesOf, Quoted, Line, CutPoints, BytesBefore
<1> QED
  BY <1>1, <1>7, <1>8 DEF CountInv, CutInv

(* What comes after the cut leaves the measures as they are.               *)
LEMMA AfterCut ==
  ASSUME CutInv, at \in {"allocate", "no_memory", "write", "done"},
         at' \in {"allocate", "no_memory", "write", "done"},
         UNCHANGED <<options, options_bytes>>
  PROVE  CountInv' /\ CutInv'
<1>1. LengthOf(Line)' = LengthOf(Line) /\ BytesBefore(CutPoints)' = BytesBefore(CutPoints)
  BY DEF LengthOf, BytesOf, Quoted, Line, CutPoints, BytesBefore
<1> QED
  BY <1>1 DEF CountInv, CutInv

(* The counting begins with nothing counted.                               *)
LEMMA CountStart == Init => CountInv /\ CutInv
<1> SUFFICES ASSUME Init PROVE CountInv /\ CutInv
  OBVIOUS
<1>1. options \in Seq(efi_char16_t) /\ next = 1 /\ at = "measure" /\ options_bytes = 0
      /\ safe_options_bytes = 0 /\ in_quote = FALSE
  BY CmdlineAssumption DEF Init
<1>2. next - 1 = 0 /\ SafeSpaces(next) = {} /\ next - 1 <= Line
  BY <1>1, LineIs DEF SafeSpaces
<1>3. ~Quoted(next)
  <2>1. {j \in 1..(next - 1) : options[j] = DoubleQuote} = {}
    BY <1>1
  <2>2. Cardinality({}) = 0 /\ 0 % 2 # 1
    BY FS_EmptySet
  <2> QED
    BY <2>1, <2>2 DEF Quoted
<1>4. BytesBefore(SafeSpaces(next)) = 0
  BY <1>2 DEF BytesBefore
<1> QED
  BY <1>1, <1>2, <1>3, <1>4, LengthOfNothing DEF CountInv, CutInv

(* All that is known of the conversion.                                    *)
MeasureInv == IInv /\ CountInv /\ CutInv

(* Every step of the conversion keeps what is known of the measures.       *)
LEMMA MeasureInductive == MeasureInv /\ [Next]_vars => MeasureInv'
<1> SUFFICES ASSUME MeasureInv, [Next]_vars PROVE MeasureInv'
  OBVIOUS
<1>1. IInv' /\ TypeOK
  BY StepIInv DEF MeasureInv, IInv
<1>2. CASE EndsLoop
  BY <1>1, <1>2, EndsLoopStep DEF MeasureInv
<1>3. CASE CountAscii
  BY <1>1, <1>3, CountAsciiStep DEF MeasureInv
<1>4. CASE CountOther
  BY <1>1, <1>4, CountOtherStep DEF MeasureInv
<1>5. CASE Cut
  BY <1>1, <1>5, CutStep DEF MeasureInv
<1>6. CASE Allocate
  BY <1>1, <1>6, AfterCut DEF MeasureInv, Allocate
<1>7. CASE Write
  BY <1>1, <1>7, AfterCut DEF MeasureInv, Write
<1>8. CASE UNCHANGED vars
  <2>1. /\ \A i : LengthOf(i)' = LengthOf(i)
        /\ Line' = Line
        /\ Quoted(next)' <=> Quoted(next)
        /\ SafeSpaces(next)' = SafeSpaces(next)
        /\ BytesBefore(SafeSpaces(next))' = BytesBefore(SafeSpaces(next))
        /\ LengthOf(next - 1)' = LengthOf(next - 1)
        /\ LengthOf(Line)' = LengthOf(Line)
        /\ BytesBefore(CutPoints)' = BytesBefore(CutPoints)
    BY <1>8 DEF vars, LengthOf, BytesOf, Quoted, Line, SafeSpaces, BytesBefore, CutPoints
  <2>2. UNCHANGED <<options, next, options_bytes, safe_options_bytes, in_quote, at>>
    BY <1>8 DEF vars
  <2> QED
    BY <1>1, <2>1, <2>2 DEF MeasureInv, CountInv, CutInv
<1> QED
  BY <1>2, <1>3, <1>4, <1>5, <1>6, <1>7, <1>8 DEF Next

(* Whatever the load options are (helper.c), the first pass counts the     *)
(* bytes of their first line in UTF-8 and one more, or, when these do not  *)
(* fit, those in front of the last space outside quotes that does.  What   *)
(* the second pass writes is not part of this.                             *)
THEOREM LengthMeasuredTheorem == Spec => []LengthMeasured
<1>1. Init => MeasureInv
  BY InitIInv, CountStart DEF MeasureInv
<1>2. MeasureInv => LengthMeasured
  <2> SUFFICES ASSUME MeasureInv PROVE LengthMeasured
    OBVIOUS
  <2>1. options \in Seq(efi_char16_t) /\ COMMAND_LINE_SIZE \in Nat
    BY CmdlineAssumption DEF MeasureInv, IInv, TypeOK
  <2>2. PICK bytes \in Nat : bytes = LengthOf(Line)
    BY <2>1, LineIs, LengthType
  <2>3. Measured => options_bytes = 1 + IF bytes < COMMAND_LINE_SIZE THEN bytes
                                        ELSE BytesBefore(CutPoints)
    BY <2>2 DEF MeasureInv, CutInv, Measured
  <2>4. MeasuredIsUtf8
    BY <2>2, <2>3 DEF MeasuredIsUtf8
  <2>5. CutBetweenArguments
    BY <2>1, <2>2, <2>3 DEF CutBetweenArguments, BytesBefore
  <2> QED
    BY <2>4, <2>5 DEF LengthMeasured
<1> QED
  BY <1>1, <1>2, MeasureInductive, PTL DEF Spec

-----------------------------------------------------------------------------
(* The numbers of a list (get_options).                                    *)

(* The numbers of the first p characters, one character behind the other.  *)
Ascending(a, b) == [j \in 1..(b - a) |-> a + j]
NumbersStep(p, s) ==
  IF ~IsNumber(p) THEN s
  ELSE IF p > 1 /\ IsHyphen(p - 1) THEN s \o Ascending(Strtoull(p - 2), Strtoull(p))
  ELSE Append(s, Strtoull(p))
IsNumbers(u) ==
  u = [p \in 0..Len(list) |->
        IF p = 0 THEN <<>>
        ELSE IF ~IsNumber(p) THEN u[p - 1]
        ELSE IF p > 1 /\ IsHyphen(p - 1)
          THEN u[p - 1] \o [j \in 1..(Strtoull(p) - Strtoull(p - 2)) |-> Strtoull(p - 2) + j]
        ELSE Append(u[p - 1], Strtoull(p))]
UpTo == CHOOSE u : IsNumbers(u)

LEMMA StrtoullNat == \A p : Strtoull(p) \in Nat
BY IntsAssumption DEF Strtoull, IsNumber

LEMMA AscendingIs ==
  ASSUME NEW a \in Nat, NEW b \in Nat
  PROVE  /\ Ascending(a, b) \in Seq(Nat)
         /\ Len(Ascending(a, b)) = IF a <= b THEN b - a ELSE 0
         /\ \A j \in 1..(b - a) : Ascending(a, b)[j] = a + j
<1>1. CASE a <= b
  <2>1. b - a \in Nat /\ \A j \in 1..(b - a) : a + j \in Nat
    BY <1>1
  <2> DEFINE n == b - a
  <2>2. [j \in 1..n |-> a + j] \in Seq(Nat) /\ Len([j \in 1..n |-> a + j]) = n
    <3> HIDE DEF n
    <3> QED
      BY <2>1 DEF n
  <2> QED
    BY <1>1, <2>2 DEF Ascending
<1>2. CASE ~(a <= b)
  <2>1. 1..(b - a) = 1..0
    BY <1>2
  <2>2. Ascending(a, b) = [j \in 1..0 |-> a + j]
    BY <2>1 DEF Ascending
  <2>3. [j \in 1..0 |-> a + j] \in Seq(Nat) /\ Len([j \in 1..0 |-> a + j]) = 0
    OBVIOUS
  <2> QED
    BY <1>2, <2>1, <2>2, <2>3
<1> QED
  BY <1>1, <1>2

(* The definition of Numbers has a solution.                               *)
LEMMA NumbersExist ==
  ASSUME Len(list) \in Nat
  PROVE  \E u : IsNumbers(u) /\ u \in [0..Len(list) -> Seq(Nat)]
<1> DEFINE N == Len(list)
           S == Seq(Nat)
           step == [p \in 1..N |-> [x \in S |-> NumbersStep(p, x)]]
<1>1. N \in Nat /\ <<>> \in S
  OBVIOUS
<1>2. step \in [1..N -> [S -> S]]
  <2>1. ASSUME NEW p \in 1..N, NEW x \in S PROVE NumbersStep(p, x) \in S
    <3>1. Strtoull(p) \in Nat /\ Strtoull(p - 2) \in Nat
      BY StrtoullNat
    <3>2. Ascending(Strtoull(p - 2), Strtoull(p)) \in S
      BY <3>1, AscendingIs
    <3>3. x \o Ascending(Strtoull(p - 2), Strtoull(p)) \in S /\ Append(x, Strtoull(p)) \in S
      BY <3>1, <3>2
    <3> QED
      BY <3>3 DEF NumbersStep
  <2> HIDE DEF S
  <2> QED
    BY <2>1
<1>3. ASSUME NEW p \in 1..N, NEW x \in S PROVE step[p][x] = NumbersStep(p, x)
  <2> HIDE DEF S
  <2> QED
    OBVIOUS
<1> HIDE DEF step
<1>4. PICK u : Recurs(u, N, S, <<>>, step)
  <2> HIDE DEF S, N
  <2> QED
    BY <1>1, <1>2, RecursionExists
<1>5. u \in [0..N -> S] /\ u[0] = <<>> /\ \A p \in 1..N : u[p] = step[p][u[p - 1]]
  BY <1>4 DEF Recurs
<1>6. ASSUME NEW p \in 1..N PROVE p - 1 \in 0..N /\ p # 0 /\ u[p - 1] \in S
  <2>1. p - 1 \in 0..N /\ p # 0
    BY <1>1
  <2> HIDE DEF S
  <2> QED
    BY <1>5, <2>1
<1>7. ASSUME NEW p \in 0..N
      PROVE  u[p] = IF p = 0 THEN <<>>
                    ELSE IF ~IsNumber(p) THEN u[p - 1]
                    ELSE IF p > 1 /\ IsHyphen(p - 1)
                      THEN u[p - 1] \o [j \in 1..(Strtoull(p) - Strtoull(p - 2)) |->
                                          Strtoull(p - 2) + j]
                    ELSE Append(u[p - 1], Strtoull(p))
  <2>1. CASE p # 0
    <3>1. p \in 1..N
      BY <1>1, <2>1
    <3>2. u[p] = NumbersStep(p, u[p - 1])
      BY <1>3, <1>5, <1>6, <3>1
    <3> QED
      BY <2>1, <3>2 DEF NumbersStep, Ascending
  <2> QED
    BY <1>5, <2>1
<1> DEFINE v == [p \in 0..N |-> u[p]]
<1>8. u = v
  BY <1>5
<1>9. IsNumbers(u)
  BY <1>7, <1>8 DEF IsNumbers
<1> QED
  BY <1>5, <1>9

(* The numbers, character by character.                                    *)
LEMMA UpToIs ==
  ASSUME Len(list) \in Nat
  PROVE  /\ Numbers = UpTo[Len(list)] /\ UpTo \in [0..Len(list) -> Seq(Nat)]
         /\ UpTo[0] = <<>> /\ \A p \in 1..Len(list) : UpTo[p] = NumbersStep(p, UpTo[p - 1])
<1>1. IsNumbers(UpTo)
  BY NumbersExist DEF UpTo
<1>2. Numbers = UpTo[Len(list)]
  BY DEF Numbers, UpTo, IsNumbers
<1> DEFINE N == Len(list)
           u == UpTo
<1> HIDE DEF u
<1>3. \A p \in 0..N :
        u[p] = IF p = 0 THEN <<>>
               ELSE IF ~IsNumber(p) THEN u[p - 1]
               ELSE IF p > 1 /\ IsHyphen(p - 1)
                 THEN u[p - 1] \o [j \in 1..(Strtoull(p) - Strtoull(p - 2)) |->
                                     Strtoull(p - 2) + j]
               ELSE Append(u[p - 1], Strtoull(p))
  BY <1>1 DEF IsNumbers, u
<1>4. u[0] = <<>> /\ 0 \in 0..N
  <2>1. 0 \in 0..N
    OBVIOUS
  <2> HIDE DEF N
  <2> QED
    BY <1>3, <2>1
<1>5. ASSUME NEW p \in 1..N PROVE u[p] = NumbersStep(p, u[p - 1])
  <2>1. p # 0 /\ p \in 0..N
    OBVIOUS
  <2> QED
    BY <1>3, <2>1 DEF NumbersStep, Ascending
<1>6. UpTo \in [0..Len(list) -> Seq(Nat)]
  <2> DEFINE T == {p \in 0..N : u[p] \in Seq(Nat)}
  <2>1. 0 \in T
    <3>1. <<>> \in Seq(Nat)
      OBVIOUS
    <3> QED
      BY <1>4, <3>1
  <2>2. ASSUME NEW p \in 0..(N - 1), p \in T PROVE p + 1 \in T
    <3>1. PICK q \in 1..N : q = p + 1 /\ q - 1 = p
      OBVIOUS
    <3>2. Strtoull(q) \in Nat /\ Strtoull(q - 2) \in Nat /\ u[q - 1] \in Seq(Nat)
      BY <2>2, <3>1, StrtoullNat
    <3>3. Ascending(Strtoull(q - 2), Strtoull(q)) \in Seq(Nat)
      BY <3>2, AscendingIs
    <3>4. NumbersStep(q, u[q - 1]) \in Seq(Nat)
      BY <3>2, <3>3 DEF NumbersStep
    <3> QED
      BY <1>5, <3>1, <3>4
  <2> HIDE DEF T
  <2>3. \A p \in 0..N : p \in T
    BY <2>1, <2>2, AllUpTo
  <2>4. u = [p \in 0..N |-> u[p]]
    BY <1>1 DEF IsNumbers, u
  <2> QED
    BY <2>3, <2>4 DEF T, u
<1> QED
  BY <1>2, <1>4, <1>5, <1>6 DEF u

-----------------------------------------------------------------------------
(* What holds while a list is parsed.                                      *)
IntsTypes ==
  /\ Len(list) \in Nat \ {0} /\ list[Len(list)] = EndOfList
  /\ nints \in Nat /\ count \in Nat \ {0} /\ where \in 1..Len(list)
  /\ \E size \in Nat : 1 <= size /\ nints <= size /\ ints \in [1..size -> Int]
  /\ \A j \in DOMAIN ints : j > 1 /\ j > nints => ints[j] = Unwritten

(* Up to the number that is read next, the numbers are in the array.       *)
Expanding ==
  /\ where % 2 = 1 /\ where < Len(list)
  /\ count = Len(UpTo[where]) /\ UpTo[where][count] = Strtoull(where)
  /\ \A j \in 1..(count - 1) : j < nints => ints[j + 1] = UpTo[where][j]

IntsInv ==
  /\ IntsTypes
  /\ listing /\ IsList => Expanding
  /\ ListExpanded

LEMMA MaxOfOneAnd ==
  ASSUME NEW n \in Nat
  PROVE  Max({1, n}) = IF n > 1 THEN n ELSE 1
<1> DEFINE S == {1, n}
           m == IF n > 1 THEN n ELSE 1
<1>1. m \in S /\ \A y \in S : m >= y
  OBVIOUS
<1>2. \A x \in S : (\A y \in S : x >= y) => x = m
  OBVIOUS
<1> HIDE DEF S, m
<1>3. Max(S) = m
  BY <1>1, <1>2 DEF Max
<1> QED
  BY <1>3 DEF S, m

LEMMA MinOfPair ==
  ASSUME NEW a \in Int, NEW b \in Int
  PROVE  Min({a, b}) = IF a < b THEN a ELSE b
<1> DEFINE S == {a, b}
           m == IF a < b THEN a ELSE b
<1>1. m \in S /\ \A y \in S : m <= y
  OBVIOUS
<1>2. \A x \in S : (\A y \in S : x <= y) => x = m
  OBVIOUS
<1> HIDE DEF S, m
<1>3. Min(S) = m
  BY <1>1, <1>2 DEF Min
<1> QED
  BY <1>3 DEF S, m

(* One number more leaves those in front of it.                            *)
LEMMA UpToGrows ==
  ASSUME Len(list) \in Nat, NEW w \in 0..Len(list), NEW q \in 0..Len(list), w <= q
  PROVE  /\ Len(UpTo[w]) \in Nat /\ Len(UpTo[q]) \in Nat /\ Len(UpTo[w]) <= Len(UpTo[q])
         /\ \A j \in 1..Len(UpTo[w]) : UpTo[q][j] = UpTo[w][j]
<1> DEFINE N == Len(list)
           u == UpTo
           Keeps(p) == /\ Len(u[w]) <= Len(u[p])
                       /\ \A j \in 1..Len(u[w]) : u[p][j] = u[w][j]
           T == {p \in 0..N : w <= p => Keeps(p)}
<1>1. u \in [0..N -> Seq(Nat)] /\ \A p \in 1..N : u[p] = NumbersStep(p, u[p - 1])
  BY UpToIs
<1> HIDE DEF u
<1>2. \A p \in 0..N : u[p] \in Seq(Nat) /\ Len(u[p]) \in Nat
  BY <1>1
<1>3. Keeps(w)
  BY <1>2
<1>4. 0 \in T
  BY <1>3
<1>5. ASSUME NEW p \in 0..(N - 1), p \in T PROVE p + 1 \in T
  <2>1. PICK r \in 1..N : r = p + 1 /\ r - 1 = p /\ r \in 0..N
    OBVIOUS
  <2>2. CASE w = r
    BY <1>3, <2>1, <2>2
  <2>3. CASE w # r
    <3> SUFFICES ASSUME w <= r PROVE Keeps(r)
      BY <2>1
    <3>1. Keeps(p)
      BY <1>5, <2>1, <2>3
    <3> DEFINE x == u[p]
               a == Ascending(Strtoull(r - 2), Strtoull(r))
    <3>2. x \in Seq(Nat) /\ Len(x) \in Nat
      BY <1>2
    <3>3. a \in Seq(Nat) /\ Len(a) \in Nat /\ Strtoull(r) \in Nat
      <4>1. Strtoull(r) \in Nat /\ Strtoull(r - 2) \in Nat
        BY StrtoullNat
      <4>2. a \in Seq(Nat)
        BY <4>1, AscendingIs
      <4> HIDE DEF a
      <4> QED
        BY <4>1, <4>2
    <3>4. u[r] = NumbersStep(r, x)
      BY <1>1, <2>1
    <3> HIDE DEF a, x
    <3>5. Len(x) <= Len(x \o a) /\ \A j \in 1..Len(x) : (x \o a)[j] = x[j]
      BY <3>2, <3>3
    <3>6. Len(x) <= Len(Append(x, Strtoull(r)))
          /\ \A j \in 1..Len(x) : Append(x, Strtoull(r))[j] = x[j]
      BY <3>2, <3>3, AppendProperties
    <3>7. Len(x) <= Len(u[r]) /\ \A j \in 1..Len(x) : u[r][j] = x[j]
      BY <3>4, <3>5, <3>6 DEF NumbersStep, a
    <3>8. Len(u[w]) <= Len(x) /\ \A j \in 1..Len(u[w]) : x[j] = u[w][j]
      BY <3>1 DEF x
    <3>9. Len(u[w]) \in Nat /\ Len(u[r]) \in Nat
      BY <1>2, <2>1
    <3> DEFINE lw == Len(u[w])
               lr == Len(u[r])
               lx == Len(x)
    <3> HIDE DEF lw, lr, lx
    <3>10. lw <= lr /\ \A j \in 1..lw : j \in 1..lx
      BY <3>2, <3>7, <3>8, <3>9 DEF lw, lr, lx
    <3>11. \A j \in 1..lw : u[r][j] = u[w][j]
      BY <3>7, <3>8, <3>10 DEF lw, lx
    <3> QED
      BY <3>10, <3>11 DEF lw, lr
  <2> QED
    BY <2>2, <2>3
<1> HIDE DEF T
<1>6. \A p \in 0..N : p \in T
  BY <1>4, <1>5, AllUpTo
<1> QED
  BY <1>2, <1>6 DEF T, u

(* From one number of a list of numbers to the next.                       *)
LEMMA NextNumber ==
  ASSUME IntsTypes, IsList, NEW p \in 1..Len(list), p % 2 = 1, p < Len(list)
  PROVE  /\ IsNumber(p) /\ Strtol(p) = Strtoull(p) /\ list[p] # "-" /\ list[p] # EndOfList
         /\ \/ p + 1 = Len(list) /\ Numbers = UpTo[p] /\ list[p + 1] = EndOfList
            \/ /\ p + 2 < Len(list) /\ (p + 2) % 2 = 1 /\ IsNumber(p + 2)
               /\ Strtol(p + 2) = Strtoull(p + 2)
               /\ \/ /\ list[p + 1] = "," /\ UpTo[p + 2] = Append(UpTo[p], Strtoull(p + 2))
                  \/ /\ list[p + 1] = "-" /\ Strtoull(p) <= Strtoull(p + 2)
                     /\ UpTo[p + 2] = UpTo[p] \o Ascending(Strtoull(p), Strtoull(p + 2))
<1> DEFINE N == Len(list)
<1>1. N \in Nat /\ list[N] = EndOfList
  BY DEF IntsTypes
<1>2. \A q : IsNumber(q) => list[q] \notin {",", "-", EndOfList} /\ Strtol(q) = Strtoull(q)
  BY IntsAssumption DEF IsNumber, Strtol
<1>3. /\ \A q \in 1..(N - 1) : IF q % 2 = 1 THEN IsNumber(q) ELSE list[q] \in {",", "-"}
      /\ N % 2 = 0
      /\ \A q \in 2..(N - 2) : IsHyphen(q) => Strtoull(q - 1) <= Strtoull(q + 1)
  BY DEF IsList
<1>4. IsNumber(p) /\ p \in 1..(N - 1)
  <2>1. p \in 1..(N - 1)
    BY <1>1
  <2> QED
    BY <1>3, <2>1
<1>5. \A q \in 1..N : UpTo[q] = NumbersStep(q, UpTo[q - 1])
  BY <1>1, UpToIs
<1>6. Numbers = UpTo[N]
  BY <1>1, UpToIs
<1>7. p + 1 \in 1..N /\ (p + 1) - 1 = p
  BY <1>1
<1>8. CASE p + 1 = N
  <2>1. ~IsNumber(N)
    BY <1>1, <1>2
  <2>2. UpTo[N] = UpTo[p]
    BY <1>5, <1>7, <1>8, <2>1 DEF NumbersStep
  <2> QED
    BY <1>1, <1>2, <1>4, <1>6, <1>8, <2>2
<1>9. CASE p + 1 # N
  <2>1. /\ p + 1 \in 1..(N - 1) /\ (p + 1) % 2 # 1 /\ p + 2 <= N /\ (p + 2) % 2 = 1
    BY <1>1, <1>9
  <2>2. p + 2 # N
    BY <1>3, <2>1
  <2>3. /\ p + 2 < N /\ p + 2 \in 1..(N - 1) /\ p + 2 \in 1..N /\ p + 1 \in 2..(N - 2)
        /\ (p + 2) - 1 = p + 1 /\ (p + 2) - 2 = p /\ p + 2 > 1 /\ (p + 1) + 1 = p + 2
    BY <1>1, <2>1, <2>2
  <2>4. list[p + 1] \in {",", "-"} /\ IsNumber(p + 2)
    BY <1>3, <2>1, <2>3
  <2>5. ~IsNumber(p + 1)
    BY <1>2, <2>4
  <2>6. UpTo[p + 1] = UpTo[p]
    BY <1>5, <1>7, <2>5 DEF NumbersStep
  <2>7. UpTo[p + 2] = NumbersStep(p + 2, UpTo[p])
    BY <1>5, <2>3, <2>6
  <2>8. CASE list[p + 1] = ","
    <3>1. ~IsHyphen(p + 1)
      BY <2>8 DEF IsHyphen
    <3>2. UpTo[p + 2] = Append(UpTo[p], Strtoull(p + 2))
      BY <2>3, <2>4, <2>7, <3>1 DEF NumbersStep
    <3> QED
      BY <1>2, <1>4, <2>1, <2>3, <2>4, <2>8, <3>2
  <2>9. CASE list[p + 1] = "-"
    <3>1. IsHyphen(p + 1)
      BY <2>9 DEF IsHyphen
    <3>2. UpTo[p + 2] = UpTo[p] \o Ascending(Strtoull(p), Strtoull(p + 2))
      BY <2>3, <2>4, <2>7, <3>1 DEF NumbersStep
    <3>3. Strtoull(p) <= Strtoull(p + 2)
      BY <1>3, <1>7, <2>3, <3>1
    <3> QED
      BY <1>2, <1>4, <2>1, <2>3, <2>4, <2>9, <3>2, <3>3
  <2> QED
    BY <2>4, <2>8, <2>9
<1> QED
  BY <1>8, <1>9

(* What get_option finds.                                                  *)
Found(o) ==
  /\ o.value \in Int /\ o.next \in 1..Len(list) /\ o.res \in {0, 1, 2, 3}
  /\ o.res = 3 => o.next + 1 \in 1..Len(list)
FoundNumber(o) ==
  /\ o.value = Strtoull(where)
  /\ o.res = IF list[where + 1] = "," THEN 2 ELSE IF list[where + 1] = "-" THEN 3 ELSE 1
  /\ o.next = IF list[where + 1] = "," THEN where + 2 ELSE where + 1

LEMMA GetOptionIs ==
  ASSUME IntsTypes, list[where] # EndOfList, NEW o, o = GetOption(where)
  PROVE  Found(o) /\ (IsNumber(where) /\ list[where] # "-" => FoundNumber(o))
<1> DEFINE N == Len(list)
           cur == IF list[where] = "-" THEN where + 1 ELSE where
<1>1. N \in Nat /\ list[N] = EndOfList /\ where \in 1..N /\ where # N /\ where + 1 \in 1..N
  BY DEF IntsTypes
<1>2. \A q : IsNumber(q) => list[q] # EndOfList
  BY IntsAssumption DEF IsNumber
<1>3. Strtol(where) \in Int
  <2>1. Strtoull(where) \in Nat /\ Strtoull(where + 1) \in Nat
    BY StrtoullNat
  <2> QED
    BY <2>1 DEF Strtol
<1>4. PICK c \in 1..N : c = cur
  BY <1>1
<1> HIDE DEF N
<1>5. o = CASE ~IsNumber(c) -> [res |-> 0, value |-> 0, next |-> c]
            [] IsNumber(c) /\ list[c + 1] = "," ->
                 [res |-> 2, value |-> Strtol(where), next |-> c + 1 + 1]
            [] IsNumber(c) /\ list[c + 1] = "-" ->
                 [res |-> 3, value |-> Strtol(where), next |-> c + 1]
            [] OTHER -> [res |-> 1, value |-> Strtol(where), next |-> c + 1]
  BY <1>4 DEF GetOption
<1>6. list[where] # "-" => c = where /\ Strtol(where) = Strtoull(where)
  BY <1>4 DEF Strtol
<1> HIDE DEF cur
<1>7. CASE ~IsNumber(c)
  <2>1. o = [res |-> 0, value |-> 0, next |-> c]
    BY <1>5, <1>7
  <2>2. Found(o)
    BY <2>1 DEF Found, N
  <2> QED
    BY <1>6, <1>7, <2>2
<1>8. CASE IsNumber(c)
  <2>1. c # N /\ c + 1 \in 1..N
    BY <1>1, <1>2, <1>4, <1>8
  <2>2. list[c + 1] # EndOfList => c + 1 + 1 \in 1..N /\ c + 1 + 1 = c + 2
    BY <1>1, <2>1
  <2>3. "," # EndOfList /\ "-" # EndOfList /\ "," # "-"
    BY DEF EndOfList
  <2>4. CASE list[c + 1] = ","
    <3>1. o = [res |-> 2, value |-> Strtol(where), next |-> c + 1 + 1]
      BY <1>5, <1>8, <2>3, <2>4
    <3>2. o.res = 2 /\ o.value = Strtol(where) /\ o.next = c + 1 + 1
      BY <3>1
    <3>3. o.next \in 1..N /\ (o.res = 3 => o.next + 1 \in 1..N)
      <4>1. list[c + 1] # EndOfList
        BY <2>3, <2>4
      <4>2. c + 1 \in 1..N /\ c + 1 + 1 \in 1..N
        BY <2>1, <2>2, <4>1
      <4>3. o.next \in 1..N /\ (o.next = c + 1 => o.next + 1 \in 1..N)
        BY <3>2, <4>2
      <4> QED
        BY <3>2, <4>3
    <3>4. Found(o)
      BY <1>3, <3>2, <3>3 DEF Found, N
    <3>5. ASSUME list[where] # "-" PROVE FoundNumber(o)
      BY <1>6, <2>2, <2>3, <2>4, <3>2, <3>5 DEF FoundNumber
    <3> QED
      BY <3>4, <3>5
  <2>5. CASE list[c + 1] = "-"
    <3>1. o = [res |-> 3, value |-> Strtol(where), next |-> c + 1]
      BY <1>5, <1>8, <2>3, <2>5
    <3>2. o.res = 3 /\ o.value = Strtol(where) /\ o.next = c + 1
      BY <3>1
    <3>3. o.next \in 1..N /\ (o.res = 3 => o.next + 1 \in 1..N)
      <4>1. list[c + 1] # EndOfList
        BY <2>3, <2>5
      <4>2. c + 1 \in 1..N /\ c + 1 + 1 \in 1..N
        BY <2>1, <2>2, <4>1
      <4>3. o.next \in 1..N /\ (o.next = c + 1 => o.next + 1 \in 1..N)
        BY <3>2, <4>2
      <4> QED
        BY <3>2, <4>3
    <3>4. Found(o)
      BY <1>3, <3>2, <3>3 DEF Found, N
    <3>5. ASSUME list[where] # "-" PROVE FoundNumber(o)
      BY <1>6, <2>2, <2>3, <2>5, <3>2, <3>5 DEF FoundNumber
    <3> QED
      BY <3>4, <3>5
  <2>6. CASE list[c + 1] \notin {",", "-"}
    <3>1. o = [res |-> 1, value |-> Strtol(where), next |-> c + 1]
      BY <1>5, <1>8, <2>3, <2>6
    <3>2. o.res = 1 /\ o.value = Strtol(where) /\ o.next = c + 1
      BY <3>1
    <3>3. o.next \in 1..N /\ (o.res = 3 => o.next + 1 \in 1..N)
      BY <2>1, <3>2
    <3>4. Found(o)
      BY <1>3, <3>2, <3>3 DEF Found, N
    <3>5. ASSUME list[where] # "-" PROVE FoundNumber(o)
      BY <1>6, <2>2, <2>3, <2>6, <3>2, <3>5 DEF FoundNumber
    <3> QED
      BY <3>4, <3>5
  <2> QED
    BY <2>4, <2>5, <2>6
<1> QED
  BY <1>7, <1>8

(* The numbers of a list do not change while it is parsed.                 *)
LEMMA SameNumbers ==
  ASSUME list' = list
  PROVE  /\ UpTo' = UpTo /\ Numbers' = Numbers /\ (IsList' <=> IsList)
         /\ \A p : (Strtoull(p))' = Strtoull(p)
<1>1. \A p : /\ (IsNumber(p))' = IsNumber(p) /\ (Strtoull(p))' = Strtoull(p)
             /\ (IsHyphen(p))' = IsHyphen(p)
  BY DEF IsNumber, Strtoull, IsHyphen
<1>2. UpTo' = UpTo
  BY DEF UpTo, IsNumbers, IsNumber, Strtoull, IsHyphen
<1>3. Numbers' = Numbers
  BY DEF Numbers, IsNumber, Strtoull, IsHyphen
<1>4. IsList' <=> IsList
  BY DEF IsList, IsNumber, Strtoull, IsHyphen
<1> QED
  BY <1>1, <1>2, <1>3, <1>4

(* Parsing begins at the first number.                                     *)
LEMMA IntsStart == IntsInit => IntsInv
<1> SUFFICES ASSUME IntsInit PROVE IntsInv
  OBVIOUS
<1>1. PICK l \in IntLists : list = Append(l, EndOfList)
  BY DEF IntsInit
<1>2. l \in Seq(Range(l) \cup {EndOfList})
  <2>1. l \in Seq(Range(l))
    BY IntsAssumption
  <2> DEFINE R == Range(l)
  <2> HIDE DEF R
  <2>2. l \in Seq(R) => l \in Seq(R \cup {EndOfList})
    OBVIOUS
  <2> QED
    BY <2>1, <2>2 DEF R
<1>3. /\ Len(list) \in Nat \ {0} /\ list[Len(list)] = EndOfList
      /\ 1 \in 1..Len(list)
  <2> DEFINE S == Range(l) \cup {EndOfList}
  <2>1. EndOfList \in S
    OBVIOUS
  <2> HIDE DEF S
  <2>2. list = Append(l, EndOfList) /\ l \in Seq(S)
    BY <1>1, <1>2 DEF S
  <2> QED
    BY <2>1, <2>2
<1>4. PICK m \in ArraySizes : \A n \in ArraySizes : n <= m
  BY IntsAssumption
<1>5. Max(ArraySizes) = m
  <2>1. \A x \in ArraySizes : (\A y \in ArraySizes : x >= y) => x = m
    <3>1. m \in Nat /\ \A x \in ArraySizes : x \in Nat /\ x <= m
      BY <1>4, IntsAssumption
    <3> QED
      BY <1>4, <3>1
  <2>2. \A y \in ArraySizes : m >= y
    BY <1>4, IntsAssumption
  <2> QED
    BY <1>4, <2>1, <2>2 DEF Max
<1> DEFINE size == m + 8
<1>6. nints \in Nat /\ size \in Nat /\ 1 <= size /\ nints <= size
  <2>1. nints \in ArraySizes /\ nints \in Nat /\ m \in Nat
    BY IntsAssumption DEF IntsInit
  <2>2. nints <= m
    BY <1>4, <2>1
  <2> QED
    BY <2>1, <2>2
<1>7. ints = [j \in 1..size |-> Unwritten] /\ Unwritten \in Int
  BY <1>5 DEF IntsInit, Unwritten
<1>8. where = 1 /\ count = 1 /\ listing = TRUE
  BY DEF IntsInit
<1> HIDE DEF size
<1>9. ints \in [1..size -> Int] /\ \A j \in DOMAIN ints : ints[j] = Unwritten
  BY <1>7
<1>10. IntsTypes
  BY <1>3, <1>6, <1>8, <1>9 DEF IntsTypes
<1>11. ASSUME IsList PROVE Expanding
  <2>1. Len(list) % 2 = 0 /\ 1 % 2 = 1
    <3>1. Len(list) % 2 = 0
      BY <1>11 DEF IsList
    <3> QED
      BY <3>1
  <2>2. 1 < Len(list)
    BY <1>3, <2>1
  <2>3. IsNumber(1)
    BY <1>3, <1>10, <1>11, <2>1, <2>2, NextNumber
  <2>4. UpTo[1] = NumbersStep(1, UpTo[0]) /\ UpTo[0] = <<>>
    BY <1>3, UpToIs
  <2>5. UpTo[1] = <<Strtoull(1)>>
    <3>1. NumbersStep(1, <<>>) = Append(<<>>, Strtoull(1))
      BY <2>3 DEF NumbersStep
    <3> QED
      BY <2>4, <3>1
  <2>6. Len(UpTo[1]) = 1 /\ UpTo[1][1] = Strtoull(1)
    BY <2>5
  <2> QED
    BY <1>8, <2>1, <2>2, <2>6 DEF Expanding
<1>12. ListExpanded
  BY <1>8 DEF ListExpanded
<1> QED
  BY <1>10, <1>11, <1>12 DEF IntsInv

(* One number is read, and the range that begins with it.                  *)
LEMMA ParseOptionTypes ==
  ASSUME IntsTypes, ParseOption
  PROVE  IntsTypes' /\ list' = list /\ nints' = nints
<1> DEFINE N == Len(list)
           validate == nints = 0
           slot == IF validate THEN 1 ELSE count + 1
           n == IF validate THEN 0 ELSE nints - count
<1>1. /\ N \in Nat /\ list[N] = EndOfList /\ where \in 1..N /\ nints \in Nat
      /\ count \in Nat \ {0} /\ (count < nints \/ nints = 0) /\ list[where] # EndOfList
  BY DEF IntsTypes, ParseOption, HasRoom
<1>2. PICK size \in Nat : 1 <= size /\ nints <= size /\ ints \in [1..size -> Int]
  BY DEF IntsTypes
<1>3. PICK o : o = GetOption(where)
  OBVIOUS
<1>4. Found(o)
  BY <1>1, <1>3, GetOptionIs
<1>5. PICK v \in Int : v = o.value
  BY <1>4 DEF Found
<1>6. PICK upper \in Int : upper = Strtol(o.next + 1)
  <2>1. \A q : Strtoull(q) \in Nat
    BY StrtoullNat
  <2> QED
    BY <2>1 DEF Strtol
<1> DEFINE a == [ints EXCEPT ![slot] = v]
           nums == upper - v
<1>7. /\ list' = list /\ nints' = nints
      /\ \/ Break(a, o.next, count)
         \/ Break(a, o.next, count + 1)
         \/ Parse(a, o.next, count + 1)
         \/ o.res = 3 /\ Break(a, o.next + 1, count)
         \/ o.res = 3 /\ ~(nums < 0)
            /\ Parse(GetRange(a, slot, v, n, upper), o.next + 1, AfterRange(count, nums))
  <2>1. CASE o.res # 3
    BY <1>3, <1>4, <1>5, <2>1 DEF ParseOption, Break, Parse, Found
  <2>2. CASE o.res = 3
    BY <1>3, <1>5, <1>6, <2>2 DEF ParseOption, Break, Parse
  <2> QED
    BY <2>1, <2>2
<1> DEFINE Kept(b) == /\ b \in [1..size -> Int]
                      /\ \A j \in 1..size : j > 1 /\ j > nints => b[j] = Unwritten
<1>8. slot \in 1..size /\ (slot > 1 => slot <= nints) /\ n \in Nat /\ (n > 0 => slot + n = nints + 1)
  BY <1>1, <1>2
<1>9. \A j \in 1..size : j > 1 /\ j > nints => ints[j] = Unwritten
  BY <1>2 DEF IntsTypes
<1> HIDE DEF slot, n, validate
<1>10. Kept(a)
  <2>1. a \in [1..size -> Int]
    BY <1>2, <1>8
  <2>2. \A j \in 1..size : j # slot => a[j] = ints[j]
    BY <1>2
  <2>3. \A j \in 1..size : j > 1 /\ j > nints => j # slot
    BY <1>1, <1>8
  <2> QED
    BY <1>9, <2>1, <2>2, <2>3
<1> HIDE DEF a
<1>11. Kept(GetRange(a, slot, v, n, upper))
  <2> DEFINE m == Min({n, upper - v})
             b == GetRange(a, slot, v, n, upper)
  <2>1. m \in Int /\ m <= n
    BY <1>8, MinOfPair
  <2> HIDE DEF m
  <2>2. b = [j \in 1..size |-> IF j >= slot /\ j < slot + m THEN v + j - slot ELSE a[j]]
    BY <1>10 DEF GetRange, m
  <2> HIDE DEF b
  <2>3. b \in [1..size -> Int]
    <3>1. \A j \in 1..size : v + j - slot \in Int /\ a[j] \in Int
      BY <1>8, <1>10
    <3> QED
      BY <2>2, <3>1
  <2>4. \A j \in 1..size : j > 1 /\ j > nints => ~(j >= slot /\ j < slot + m)
    BY <1>1, <1>8, <2>1
  <2> QED
    BY <1>10, <2>2, <2>3, <2>4 DEF b
<1>12. \A b, c : Kept(b) => Kept([b EXCEPT ![1] = count - 1]) /\ Kept([b EXCEPT ![1] = count])
  <2> SUFFICES ASSUME NEW b, Kept(b), NEW w \in Int PROVE Kept([b EXCEPT ![1] = w])
    BY <1>1
  <2>1. 1 \in 1..size
    BY <1>2
  <2> QED
    BY <2>1
<1>13. Kept(ints') /\ count' \in Nat \ {0} /\ where' \in 1..N
  <2>1. count + 1 \in Nat \ {0} /\ (count + 1) - 1 = count
    BY <1>1
  <2>2. ~(nums < 0) => AfterRange(count, nums) \in Nat \ {0}
    BY <1>1 DEF AfterRange
  <2>3. o.next \in 1..N /\ (o.res = 3 => o.next + 1 \in 1..N)
    BY <1>4 DEF Found
  <2> HIDE DEF Kept, nums, N
  <2> QED
    BY <1>1, <1>7, <1>10, <1>11, <1>12, <2>1, <2>2, <2>3, ZenonT(40) DEF Break, Parse
<1> QED
  BY <1>1, <1>2, <1>7, <1>13 DEF IntsTypes

(* Where the list is one of numbers, the array has them.                   *)
LEMMA ParseOptionExpands ==
  ASSUME IntsInv, ParseOption, IsList
  PROVE  (listing' => Expanding') /\ ListExpanded'
<1> DEFINE N == Len(list)
           w == where
           validate == nints = 0
           slot == IF validate THEN 1 ELSE count + 1
           n == IF validate THEN 0 ELSE nints - count
           v == Strtoull(w)
           a == [ints EXCEPT ![slot] = v]
           upper == Strtoull(w + 2)
           U == UpTo[w]
<1>1. /\ listing /\ (count < nints \/ nints = 0) /\ list[w] # EndOfList /\ Expanding
      /\ IntsTypes /\ w % 2 = 1 /\ w < N /\ N \in Nat /\ nints \in Nat /\ w \in 1..N
      /\ count \in Nat \ {0}
  BY DEF ParseOption, HasRoom, IntsInv, Expanding, IntsTypes
<1>2. PICK size \in Nat : 1 <= size /\ nints <= size /\ ints \in [1..size -> Int]
  BY <1>1 DEF IntsTypes
<1>3. /\ IsNumber(w) /\ list[w] # "-"
      /\ \/ w + 1 = N /\ Numbers = UpTo[w] /\ list[w + 1] = EndOfList
         \/ /\ w + 2 < N /\ (w + 2) % 2 = 1 /\ Strtol(w + 2) = upper
            /\ \/ /\ list[w + 1] = "," /\ UpTo[w + 2] = Append(U, upper)
               \/ /\ list[w + 1] = "-" /\ v <= upper /\ UpTo[w + 2] = U \o Ascending(v, upper)
  BY <1>1, NextNumber
<1>4. PICK o : o = GetOption(w)
  OBVIOUS
<1>5. FoundNumber(o)
  BY <1>1, <1>3, <1>4, GetOptionIs
<1>6. /\ v \in Nat /\ upper \in Nat
  BY StrtoullNat
<1>7. /\ U \in Seq(Nat) /\ count = Len(U) /\ U[count] = v
      /\ \A j \in 1..(count - 1) : j < nints => ints[j + 1] = U[j]
  <2>1. UpTo \in [0..N -> Seq(Nat)] /\ w \in 0..N
    BY <1>1, UpToIs
  <2> QED
    BY <1>1, <2>1 DEF Expanding
<1>8. /\ list' = list /\ nints' = nints /\ UpTo' = UpTo /\ Numbers' = Numbers
      /\ \A p : (Strtoull(p))' = Strtoull(p)
  BY <1>1, ParseOptionTypes, SameNumbers
<1>9. slot \in 1..size /\ (nints # 0 => slot = count + 1 /\ count < nints)
  BY <1>1, <1>2
(* What the array holds with the number that was read.                     *)
<1>10. a \in [1..size -> Int] /\ \A j \in 1..count : j < nints => a[j + 1] = U[j]
  <2>1. a \in [1..size -> Int]
    BY <1>2, <1>6, <1>9
  <2>2. ASSUME NEW j \in 1..count, j < nints PROVE a[j + 1] = U[j]
    <3>1. j + 1 \in 1..size /\ nints # 0
      BY <1>1, <1>2, <2>2
    <3>2. slot = count + 1
      BY <1>9, <3>1
    <3>3. CASE j = count
      <4>1. a[slot] = v
        BY <1>2, <1>9
      <4> QED
        BY <1>7, <3>2, <3>3, <4>1
    <3>4. CASE j # count
      <4>1. j \in 1..(count - 1) /\ j + 1 # slot
        BY <1>1, <3>2, <3>4
      <4>2. a[j + 1] = ints[j + 1]
        BY <1>2, <3>1, <4>1
      <4> QED
        BY <1>7, <2>2, <4>1, <4>2
    <3> QED
      BY <3>3, <3>4
  <2> QED
    BY <2>1, <2>2
<1> HIDE DEF N, slot, n, validate, a, U, v, upper
<1>11. CASE w + 1 = N /\ Numbers = U /\ list[w + 1] = EndOfList
  <2>1. o.res = 1 /\ o.value = v /\ o.next = w + 1
    BY <1>5, <1>11 DEF FoundNumber, EndOfList, v
  <2>2. Break(a, w + 1, count + 1)
    BY <1>4, <2>1 DEF ParseOption, a, slot, validate
  <2>3. /\ listing' = FALSE /\ where' = N /\ ints' = [a EXCEPT ![1] = count]
    BY <1>1, <1>11, <2>2 DEF Break
  <2>4. ints'[1] = count /\ \A j \in 1..count : j < nints => ints'[j + 1] = U[j]
    <3>1. 1 \in 1..size /\ \A j \in 1..count : j + 1 # 1 /\ (j < nints => j + 1 \in 1..size)
      BY <1>1, <1>2
    <3> QED
      BY <1>10, <2>3, <3>1
  <2>5. ListExpanded'
    <3>1. Min({Len(U), nints - 1}) = IF Len(U) < nints - 1 THEN Len(U) ELSE nints - 1
      BY <1>1, <1>7, MinOfPair
    <3>2. \A j \in 1..Min({Len(U), nints - 1}) : j \in 1..count /\ j < nints
      BY <1>1, <1>7, <3>1
    <3> QED
      BY <1>7, <1>8, <1>11, <2>3, <2>4, <3>2 DEF ListExpanded, N
  <2> QED
    BY <2>3, <2>5
<1>12. CASE /\ w + 2 < N /\ (w + 2) % 2 = 1 /\ list[w + 1] = "," /\ UpTo[w + 2] = Append(U, upper)
  <2>1. o.res = 2 /\ o.value = v /\ o.next = w + 2
    BY <1>5, <1>12 DEF FoundNumber, v
  <2>2. Parse(a, w + 2, count + 1)
    BY <1>4, <2>1 DEF ParseOption, a, slot, validate
  <2>3. listing' = listing /\ where' = w + 2 /\ ints' = a /\ count' = count + 1
    BY <2>2 DEF Parse
  <2>4. /\ Len(Append(U, upper)) = count + 1 /\ Append(U, upper)[count + 1] = upper
        /\ \A j \in 1..count : Append(U, upper)[j] = U[j]
    BY <1>6, <1>7
  <2>5. Expanding'
    <3>1. count' - 1 = count
      BY <1>1, <2>3
    <3>2. (Strtoull(where))' = upper
      BY <1>8, <2>3 DEF upper, Strtoull, IsNumber
    <3> QED
      BY <1>8, <1>10, <1>12, <2>3, <2>4, <3>1, <3>2 DEF Expanding, N
  <2>6. ListExpanded'
    BY <1>1, <2>3 DEF ListExpanded
  <2> QED
    BY <2>5, <2>6
<1>13. CASE /\ w + 2 < N /\ (w + 2) % 2 = 1 /\ list[w + 1] = "-" /\ v <= upper
            /\ UpTo[w + 2] = U \o Ascending(v, upper) /\ Strtol(w + 2) = upper
  <2> DEFINE b == GetRange(a, slot, v, n, upper)
             A == Ascending(v, upper)
             c == count + (upper - v)
  <2>1. o.res = 3 /\ o.value = v /\ o.next = w + 1
    BY <1>5, <1>13 DEF FoundNumber, v
  <2>2. /\ Strtol(o.next + 1) = upper /\ o.next + 1 = w + 2 /\ ~(upper - v < 0)
        /\ AfterRange(count, upper - v) = c
    BY <1>1, <1>6, <1>13, <2>1 DEF AfterRange
  <2>3. Parse(b, w + 2, c)
    <3> HIDE DEF c
    <3> QED
      BY <1>4, <2>1, <2>2 DEF ParseOption, a, slot, n, validate
  <2>4. listing' = listing /\ where' = w + 2 /\ ints' = b /\ count' = c
    BY <2>3 DEF Parse
  <2>5. A \in Seq(Nat) /\ Len(A) = upper - v /\ \A j \in 1..(upper - v) : A[j] = v + j
    BY <1>6, <1>13, AscendingIs
  <2> HIDE DEF A
  <2>6. /\ Len(U \o A) = c /\ c \in Nat \ {0}
        /\ \A j \in 1..count : (U \o A)[j] = U[j]
        /\ \A j \in (count + 1)..c : (U \o A)[j] = v + (j - count)
    <3>1. /\ Len(U \o A) = Len(U) + Len(A)
          /\ \A j \in 1..(Len(U) + Len(A)) :
               (U \o A)[j] = IF j <= Len(U) THEN U[j] ELSE A[j - Len(U)]
      BY <1>7, <2>5, ConcatProperties
    <3>2. Len(U) = count /\ Len(A) = upper - v /\ Len(U) + Len(A) = c /\ c \in Nat \ {0}
      BY <1>1, <1>6, <1>7, <1>13, <2>5
    <3>3. /\ \A j \in 1..count : j \in 1..c /\ j <= count
          /\ \A j \in (count + 1)..c : j \in 1..c /\ ~(j <= count) /\ j - count \in 1..(upper - v)
      BY <1>1, <1>6, <1>13
    <3> HIDE DEF c
    <3> QED
      BY <2>5, <3>1, <3>2, <3>3
  <2>7. (U \o A)[c] = upper
    <3>1. CASE upper = v
      BY <1>1, <1>6, <1>7, <2>6, <3>1
    <3>2. CASE upper # v
      <4>1. c \in (count + 1)..c /\ v + (c - count) = upper
        BY <1>1, <1>6, <1>13, <3>2
      <4> HIDE DEF c
      <4> QED
        BY <2>6, <4>1
    <3> QED
      BY <3>1, <3>2
  <2>8. ASSUME NEW j \in 1..(c - 1), j < nints PROVE b[j + 1] = (U \o A)[j]
    <3>1. slot = count + 1 /\ j + 1 \in 1..size /\ n = nints - count /\ j \in Nat
      BY <1>1, <1>2, <1>9, <2>6, <2>8 DEF n, validate
    <3> DEFINE m == Min({n, upper - v})
    <3>2. m = IF n < upper - v THEN n ELSE upper - v
      BY <1>1, <1>6, <3>1, MinOfPair
    <3> HIDE DEF m
    <3>3. b = [k \in 1..size |-> IF k >= slot /\ k < slot + m THEN v + k - slot ELSE a[k]]
      BY <1>10 DEF GetRange, m
    <3>4. CASE j < count
      <4>1. b[j + 1] = a[j + 1] /\ j \in 1..count
        BY <1>1, <3>1, <3>3, <3>4
      <4> QED
        BY <1>10, <2>6, <2>8, <4>1
    <3>5. CASE ~(j < count)
      <4>1. j + 1 >= slot /\ j + 1 < slot + m
        BY <1>1, <1>6, <2>8, <3>1, <3>2, <3>5
      <4>2. b[j + 1] = v + (j - count)
        BY <1>1, <1>6, <3>1, <3>3, <4>1
      <4>3. CASE j = count
        <5>1. count \in 1..count /\ v + (j - count) = v
          BY <1>1, <1>6, <4>3
        <5> QED
          BY <1>7, <2>6, <4>2, <4>3, <5>1
      <4>4. CASE j # count
        <5>1. j \in (count + 1)..c
          BY <1>1, <2>6, <3>1, <3>5, <4>4
        <5> QED
          BY <2>6, <4>2, <5>1
      <4> QED
        BY <4>3, <4>4
    <3> QED
      BY <3>4, <3>5
  <2> HIDE DEF b, c
  <2>9. Expanding'
    <3>1. (Strtoull(where))' = upper
      BY <1>8, <2>4 DEF upper, Strtoull, IsNumber
    <3>2. UpTo[w + 2] = U \o A
      BY <1>13 DEF A
    <3> QED
      BY <1>8, <1>13, <2>4, <2>6, <2>7, <2>8, <3>1, <3>2 DEF Expanding, N
  <2>10. ListExpanded'
    BY <1>1, <2>4 DEF ListExpanded
  <2> QED
    BY <2>9, <2>10
<1> QED
  BY <1>3, <1>11, <1>12, <1>13 DEF U, N

(* Where nothing is left to read, or no room, the array has what fits.     *)
LEMMA StopParsingStep == IntsInv /\ StopParsing => IntsInv'
<1> SUFFICES ASSUME IntsInv, StopParsing PROVE IntsInv'
  OBVIOUS
<1> DEFINE N == Len(list)
           w == where
<1>1. /\ IntsTypes /\ listing /\ (HasRoom => list[w] = EndOfList)
      /\ ints' = [ints EXCEPT ![1] = count - 1] /\ listing' = FALSE
      /\ UNCHANGED <<list, nints, where, count>>
  BY DEF IntsInv, StopParsing, Break
<1>2. /\ N \in Nat \ {0} /\ list[N] = EndOfList /\ w \in 1..N /\ nints \in Nat
      /\ count \in Nat \ {0}
  BY <1>1 DEF IntsTypes
<1>3. PICK size \in Nat : 1 <= size /\ nints <= size /\ ints \in [1..size -> Int]
  BY <1>1 DEF IntsTypes
<1>4. /\ ints' \in [1..size -> Int] /\ ints'[1] = count - 1
      /\ \A j \in 1..size : j # 1 => ints'[j] = ints[j]
  <2>1. 1 \in 1..size /\ count - 1 \in Int
    BY <1>2, <1>3
  <2> QED
    BY <1>1, <1>3, <2>1
<1>5. IntsTypes'
  <2>1. \A j \in DOMAIN ints' : j > 1 /\ j > nints' => ints'[j] = Unwritten
    BY <1>1, <1>3, <1>4 DEF IntsTypes
  <2> QED
    BY <1>1, <1>2, <1>3, <1>4, <2>1 DEF IntsTypes
<1>6. ASSUME IsList PROVE ListExpanded'
  <2>1. Expanding /\ w % 2 = 1 /\ w < N
    BY <1>1, <1>6 DEF IntsInv, Expanding
  <2>2. list[w] # EndOfList
    BY <1>1, <1>2, <1>6, <2>1, NextNumber
  <2>3. nints # 0 /\ count >= nints
    BY <1>1, <1>2, <2>2 DEF HasRoom
  <2> DEFINE U == UpTo[w]
  <2>4. /\ count = Len(U) /\ \A j \in 1..(count - 1) : j < nints => ints[j + 1] = U[j]
    BY <2>1 DEF Expanding
  <2>5. /\ Len(Numbers) \in Nat /\ Len(U) <= Len(Numbers)
        /\ \A j \in 1..Len(U) : Numbers[j] = U[j]
    <3>1. w \in 0..N /\ N \in 0..N /\ w <= N
      BY <1>2
    <3>2. Numbers = UpTo[N]
      BY <1>2, UpToIs
    <3> QED
      BY <1>2, <3>1, <3>2, UpToGrows
  <2> HIDE DEF U
  <2>6. Min({Len(Numbers), nints - 1}) = nints - 1
    BY <1>2, <2>3, <2>4, <2>5, MinOfPair
  <2>7. ASSUME NEW j \in 1..(nints - 1) PROVE ints'[j + 1] = Numbers[j]
    <3>1. j \in 1..(count - 1) /\ j < nints /\ j + 1 \in 1..size /\ j + 1 # 1 /\ j \in 1..Len(U)
      BY <1>2, <1>3, <2>3, <2>4
    <3> QED
      BY <1>4, <2>4, <2>5, <3>1
  <2>8. ~(nints = 0 \/ Len(Numbers) < nints)
    BY <1>2, <2>3, <2>4, <2>5
  <2>9. Numbers' = Numbers
    BY <1>1, SameNumbers
  <2> QED
    BY <1>1, <2>6, <2>7, <2>8, <2>9 DEF ListExpanded
<1>7. IsList' <=> IsList
  BY <1>1, SameNumbers
<1>8. ListExpanded'
  BY <1>6, <1>7 DEF ListExpanded
<1> QED
  BY <1>1, <1>5, <1>8 DEF IntsInv

LEMMA IntsInductive == IntsInv /\ [IntsNext]_listVars => IntsInv'
<1>1. ASSUME IntsInv, UNCHANGED listVars PROVE IntsInv'
  <2>1. UNCHANGED <<list, nints, ints, where, count, listing>>
    BY <1>1 DEF listVars
  <2>2. IntsTypes' <=> IntsTypes
    BY <2>1 DEF IntsTypes
  <2>3. /\ UpTo' = UpTo /\ Numbers' = Numbers /\ (IsList' <=> IsList)
        /\ (Strtoull(where))' = Strtoull(where)
    BY <2>1, SameNumbers DEF Strtoull, IsNumber
  <2>4. (Expanding' <=> Expanding) /\ (ListExpanded' <=> ListExpanded)
    BY <2>1, <2>3 DEF Expanding, ListExpanded
  <2> QED
    BY <1>1, <2>1, <2>2, <2>3, <2>4 DEF IntsInv
<1>2. ASSUME IntsInv, ParseOption PROVE IntsInv'
  <2>1. IntsTypes' /\ list' = list
    BY <1>2, ParseOptionTypes DEF IntsInv
  <2>2. IsList' <=> IsList
    BY <2>1, SameNumbers
  <2>3. CASE IsList
    BY <1>2, <2>1, <2>2, <2>3, ParseOptionExpands DEF IntsInv
  <2>4. CASE ~IsList
    BY <2>1, <2>2, <2>4 DEF IntsInv, ListExpanded
  <2> QED
    BY <2>3, <2>4
<1> QED
  BY <1>1, <1>2, StopParsingStep DEF IntsNext

(* For any list, any numbers in it and any size of the array: nothing is   *)
(* written behind the array, and a list of numbers and ranges that ascend  *)
(* becomes its numbers in order, as many as there is room for.             *)
THEOREM ListParsedHolds == IntsSpec => []ListParsed
<1>1. IntsInv => ListParsed
  <2> SUFFICES ASSUME IntsInv PROVE ArrayKept
    BY DEF IntsInv, ListParsed
  <2>1. /\ nints \in Nat /\ where \in 1..Len(list)
        /\ \A j \in DOMAIN ints : j > 1 /\ j > nints => ints[j] = Unwritten
        /\ \E size \in Nat : ints \in [1..size -> Int]
    BY DEF IntsInv, IntsTypes
  <2>2. Max({1, nints}) = IF nints > 1 THEN nints ELSE 1
    BY <2>1, MaxOfOneAnd
  <2> QED
    BY <2>1, <2>2 DEF ArrayKept
<1> QED
  BY <1>1, IntsStart, IntsInductive, PTL DEF IntsSpec

-----------------------------------------------------------------------------
(* What next_arg does to a line of characters, in any quoting.             *)
LEMMA LeastIs ==
  ASSUME NEW S, S \subseteq Nat, S # {}
  PROVE  Min(S) \in S /\ Min(S) \in Nat /\ \A y \in S : Min(S) <= y
<1>1. \E x \in S : \A y \in S : x <= y
  BY LeastNat
<1>2. Min(S) \in S /\ \A y \in S : Min(S) <= y
  BY <1>1 DEF Min
<1> QED
  BY <1>2

(* The quotes of a stretch are those of its two parts.                     *)
LEMMA QuotesAdd ==
  ASSUME NEW b, NEW from \in Nat, NEW m \in Nat, NEW to \in Nat, from <= m + 1, m <= to
  PROVE  /\ QuoteCount(b, from, to) = QuoteCount(b, from, m) + QuoteCount(b, m + 1, to)
         /\ QuoteCount(b, from, m) \in Nat /\ QuoteCount(b, m + 1, to) \in Nat
<1> DEFINE Q(i, j) == {q \in i..j : b[q] = Quote}
<1>1. \A i, j \in Nat : IsFiniteSet(Q(i, j)) /\ Cardinality(Q(i, j)) \in Nat
  <2>1. TAKE i, j \in Nat
  <2>2. IsFiniteSet(i..j)
    BY FS_Interval
  <2> QED
    BY <2>2, FS_Subset, FS_CardinalityType
<1>2. Q(from, to) = Q(from, m) \cup Q(m + 1, to)
  OBVIOUS
<1>3. Q(from, m) \cap Q(m + 1, to) = {}
  OBVIOUS
<1>4. IsFiniteSet(Q(from, m)) /\ IsFiniteSet(Q(m + 1, to))
      /\ Cardinality(Q(from, m)) \in Nat /\ Cardinality(Q(m + 1, to)) \in Nat
  BY <1>1
<1> HIDE DEF Q
<1>5. Cardinality(Q(from, to)) = Cardinality(Q(from, m)) + Cardinality(Q(m + 1, to))
  <2>1. Cardinality(Q(from, to))
          = Cardinality(Q(from, m)) + Cardinality(Q(m + 1, to)) - Cardinality({})
    BY <1>2, <1>3, <1>4, FS_Union
  <2>2. Cardinality({}) = 0
    BY FS_EmptySet
  <2> QED
    BY <1>4, <2>1, <2>2
<1> QED
  BY <1>4, <1>5 DEF QuoteCount, Q

(* Where there is none there are no quotes to count,                       *)
LEMMA NoQuotes ==
  ASSUME NEW b, NEW from, NEW to, \A q \in from..to : b[q] # Quote
  PROVE  QuoteCount(b, from, to) = 0
<1>1. {q \in from..to : b[q] = Quote} = {}
  OBVIOUS
<1> QED
  BY <1>1, FS_EmptySet DEF QuoteCount

(* and one counts one.                                                     *)
LEMMA OneQuote ==
  ASSUME NEW b, NEW p \in Nat, b[p] = Quote
  PROVE  QuoteCount(b, p, p) = 1
<1>1. {q \in p..p : b[q] = Quote} = {p}
  OBVIOUS
<1> QED
  BY <1>1, FS_Singleton DEF QuoteCount

(* Two lines that agree on a stretch have the same quotes there.           *)
LEMMA SameQuotes ==
  ASSUME NEW b, NEW c, NEW from, NEW to, \A q \in from..to : b[q] = c[q]
  PROVE  QuoteCount(b, from, to) = QuoteCount(c, from, to)
<1>1. {q \in from..to : b[q] = Quote} = {q \in from..to : c[q] = Quote}
  OBVIOUS
<1> QED
  BY <1>1 DEF QuoteCount

(* The sum of an even number and another is even when the other is.        *)
LEMMA EvenSum ==
  ASSUME NEW x \in Nat, NEW y \in Nat, x % 2 = 0
  PROVE  (x + y) % 2 = y % 2
OBVIOUS

(* The string at a place goes up to the first NUL behind it.               *)
LEMMA StringIs ==
  ASSUME NEW b, NEW p \in Nat, NEW m \in p..Len(b), Len(b) \in Nat, b[m] = EndOfLine,
         \A q \in p..(m - 1) : b[q] # EndOfLine
  PROVE  StringAt(b, p) = SubSeq(b, p, m - 1)
<1> DEFINE S == {q \in p..Len(b) : b[q] = EndOfLine}
<1>1. S \subseteq Nat /\ m \in S
  OBVIOUS
<1>2. Min(S) \in S /\ \A y \in S : Min(S) <= y
  BY <1>1, LeastIs
<1>3. Min(S) = m
  BY <1>1, <1>2
<1> QED
  BY <1>3 DEF StringAt

(* A copy of the line is as it was from a place on.                        *)
Characters == STRING \cup {EndOfLine}
IsCopy(b, p) ==
  /\ b \in Seq(Characters) /\ Len(b) = Len(line) + 1 /\ b[Len(line) + 1] = EndOfLine
  /\ \A q \in p..Len(line) : b[q] = line[q]

(* An argument begins at a place.                                          *)
AtArgument(p) ==
  /\ p \in 1..Len(line) /\ line[p] # Space
  /\ Breaks(p - 1) /\ QuoteCount(line, 1, p - 1) % 2 = 0

(* Where it is read from, and up to where.                                 *)
ArgStart(b, p) == IF b[p] = Quote THEN p + 1 ELSE p
ArgStop(b, p) == ArgEnd(b, ArgStart(b, p), b[p] = Quote)
IsLine == line \in Seq(STRING \ {EndOfLine})

(* The characters of a line.                                               *)
LEMMA LineFields ==
  ASSUME IsLine
  PROVE  Len(line) \in Nat /\ \A q \in 1..Len(line) : line[q] \in STRING /\ line[q] # EndOfLine
BY DEF IsLine

(* next_arg counts the quotes of the argument; those in front of it are    *)
(* even, so that it knows where a space breaks the line.                   *)
LEMMA QuotesSoFar ==
  ASSUME IsLine, NEW p, AtArgument(p), NEW b, IsCopy(b, p),
         NEW i \in ArgStart(b, p)..(Len(line) + 1)
  PROVE  (QuoteCount(b, ArgStart(b, p), i - 1) + (IF b[p] = Quote THEN 1 ELSE 0)) % 2
           = QuoteCount(line, 1, i - 1) % 2
<1> DEFINE a == ArgStart(b, p)
<1>1. Len(line) \in Nat /\ p \in Nat /\ p >= 1 /\ p <= Len(line) /\ a \in Nat /\ i \in Nat
      /\ a >= p /\ i >= a /\ i - 1 \in Nat /\ p - 1 \in Nat /\ i <= Len(line) + 1
  BY LineFields DEF AtArgument, ArgStart
<1>2. b[p] = line[p]
  BY <1>1 DEF IsCopy
<1>3. QuoteCount(line, 1, i - 1) = QuoteCount(line, 1, p - 1) + QuoteCount(line, p, i - 1)
      /\ QuoteCount(line, 1, p - 1) \in Nat /\ QuoteCount(line, p, i - 1) \in Nat
  <2>1. PICK m \in Nat : m = p - 1 /\ m + 1 = p /\ 1 <= m + 1 /\ m <= i - 1
    BY <1>1
  <2>2. PICK t \in Nat : t = i - 1 /\ m <= t
    BY <1>1, <2>1
  <2>3. PICK o \in Nat : o = 1 /\ o <= m + 1
    BY <2>1
  <2>4. QuoteCount(line, o, t) = QuoteCount(line, o, m) + QuoteCount(line, m + 1, t)
        /\ QuoteCount(line, o, m) \in Nat /\ QuoteCount(line, m + 1, t) \in Nat
    <3>1. o <= m + 1 /\ m <= t
      BY <2>2, <2>3
    <3> QED
      BY <3>1, QuotesAdd
  <2> QED
    BY <2>1, <2>2, <2>3, <2>4
<1>4. QuoteCount(b, a, i - 1) = QuoteCount(line, a, i - 1)
  <2>1. \A q \in a..(i - 1) : b[q] = line[q]
    BY <1>1 DEF IsCopy
  <2> QED
    BY <2>1, SameQuotes
<1>5. QuoteCount(line, p, i - 1) = QuoteCount(line, a, i - 1) + (IF b[p] = Quote THEN 1 ELSE 0)
  <2>1. CASE b[p] = Quote
    <3>1. a = p + 1 /\ p <= p + 1 /\ p <= i - 1
      BY <1>1, <2>1 DEF ArgStart
    <3>2. QuoteCount(line, p, i - 1) = QuoteCount(line, p, p) + QuoteCount(line, p + 1, i - 1)
          /\ QuoteCount(line, p + 1, i - 1) \in Nat
      BY <1>1, <3>1, QuotesAdd
    <3>3. QuoteCount(line, p, p) = 1
      BY <1>1, <1>2, <2>1, OneQuote
    <3> QED
      BY <2>1, <3>1, <3>2, <3>3
  <2>2. CASE b[p] # Quote
    <3>1. a = p
      BY <2>2 DEF ArgStart
    <3> QED
      BY <1>3, <2>2, <3>1
  <2> QED
    BY <2>1, <2>2
<1>6. QuoteCount(line, 1, p - 1) % 2 = 0
  BY DEF AtArgument
<1> QED
  BY <1>3, <1>4, <1>5, <1>6, EvenSum

(* The argument ends at the first break behind its beginning.              *)
LEMMA StopIs ==
  ASSUME IsLine, NEW p, AtArgument(p), NEW b, IsCopy(b, p)
  PROVE  /\ ArgStop(b, p) \in (p + 1)..(Len(line) + 1) /\ ArgStop(b, p) >= ArgStart(b, p)
         /\ Breaks(ArgStop(b, p)) /\ \A i \in p..(ArgStop(b, p) - 1) : ~Breaks(i)
<1> DEFINE a == ArgStart(b, p)
           N == Len(line) + 1
           Ends(i) == \/ b[i] = EndOfLine
                      \/ b[i] = Space /\ (QuoteCount(b, a, i - 1) + (IF b[p] = Quote THEN 1 ELSE 0)) % 2 = 0
           S == {i \in a..Len(b) : Ends(i)}
<1>1. Len(line) \in Nat /\ p \in Nat /\ p >= 1 /\ p <= Len(line) /\ a \in {p, p + 1}
      /\ Len(b) = N /\ b[N] = EndOfLine /\ b[p] = line[p] /\ a <= N /\ N \in Nat /\ a \in Nat
      /\ line[p] # Space
  BY LineFields DEF AtArgument, ArgStart, IsCopy
<1>2. \A i \in a..N : Ends(i) <=> Breaks(i)
  <2>1. SUFFICES ASSUME NEW i \in a..N PROVE Ends(i) <=> Breaks(i)
    OBVIOUS
  <2>2. (QuoteCount(b, a, i - 1) + (IF b[p] = Quote THEN 1 ELSE 0)) % 2
           = QuoteCount(line, 1, i - 1) % 2
    BY QuotesSoFar
  <2>3. CASE i = N
    BY <1>1, <2>3 DEF Breaks
  <2>4. CASE i # N
    <3>1. i \in 1..Len(line) /\ b[i] = line[i] /\ line[i] # EndOfLine /\ i \notin {0, Len(line) + 1}
      BY <1>1, <2>1, <2>4, LineFields DEF IsCopy
    <3> QED
      BY <2>2, <3>1 DEF Breaks
  <2> QED
    BY <2>3, <2>4
<1>3. S \subseteq Nat /\ N \in S
  BY <1>1
<1>4. Min(S) \in S /\ \A i \in S : Min(S) <= i
  BY <1>3, LeastIs
<1>5. ArgStop(b, p) = Min(S)
  BY DEF ArgStop, ArgEnd
<1> HIDE DEF Ends
<1>6. PICK e \in a..N : e = ArgStop(b, p) /\ Breaks(e) /\ \A i \in a..(e - 1) : ~Breaks(i)
  <2>1. Min(S) \in a..N /\ Ends(Min(S))
    BY <1>1, <1>4
  <2>2. \A i \in a..(Min(S) - 1) : ~Breaks(i)
    <3>1. TAKE i \in a..(Min(S) - 1)
    <3>2. i \in a..N /\ i < Min(S)
      BY <1>1, <2>1
    <3>3. i \notin S
      BY <1>1, <1>4, <2>1, <3>2
    <3>4. ~Ends(i)
      BY <1>1, <3>2, <3>3
    <3> QED
      BY <1>2, <3>2, <3>4
  <2> QED
    BY <1>2, <1>5, <2>1, <2>2
<1>7. ~Breaks(p)
  BY <1>1 DEF Breaks
<1>8. e # p
  BY <1>6, <1>7
<1>9. e \in (p + 1)..N
  BY <1>1, <1>6, <1>8
<1>10. \A i \in p..(e - 1) : ~Breaks(i)
  BY <1>1, <1>6, <1>7
<1> QED
  BY <1>6, <1>9, <1>10

(* The three characters that structure a line are different.               *)
LEMMA CharactersDiffer == Space # Quote /\ Space # EndOfLine /\ Quote # EndOfLine
BY DEF Space, Quote, EndOfLine

(* Skipping spaces stops at the first other character.                     *)
LEMMA SkipIs ==
  ASSUME IsLine, NEW b, NEW p, IsCopy(b, p), p \in Nat, NEW q \in 1..(Len(line) + 1), p <= q
  PROVE  /\ SkipSpaces(b, q) \in q..(Len(line) + 1)
         /\ SkipSpaces(b, q) = Len(line) + 1 \/ line[SkipSpaces(b, q)] # Space
         /\ \A i \in q..(SkipSpaces(b, q) - 1) : i \in 1..Len(line) /\ line[i] = Space
<1> DEFINE N == Len(line) + 1
           S == {i \in q..Len(b) : b[i] # Space}
<1>1. Len(line) \in Nat /\ N \in Nat /\ Len(b) = N /\ b[N] = EndOfLine /\ q \in Nat /\ q >= 1
      /\ \A i \in q..Len(line) : b[i] = line[i]
  BY LineFields DEF IsCopy
<1>2. S \subseteq Nat /\ N \in S
  BY <1>1, CharactersDiffer
<1>3. Min(S) \in S /\ \A i \in S : Min(S) <= i
  BY <1>2, LeastIs
<1>4. SkipSpaces(b, q) = Min(S)
  BY DEF SkipSpaces
<1>5. PICK s \in q..N : s = SkipSpaces(b, q) /\ b[s] # Space /\ \A i \in S : s <= i
  BY <1>1, <1>3, <1>4
<1>6. \A i \in q..(s - 1) : i \in 1..Len(line) /\ line[i] = Space
  <2>1. TAKE i \in q..(s - 1)
  <2>2. i \in q..N /\ i < s /\ i \in 1..Len(line) /\ i \in q..Len(line)
    BY <1>1, <1>5
  <2>3. i \notin S
    BY <1>5, <2>2
  <2>4. b[i] = Space
    BY <1>1, <2>2, <2>3
  <2> QED
    BY <1>1, <2>2, <2>4
<1>7. s = N \/ line[s] # Space
  BY <1>1, <1>5
<1> QED
  BY <1>5, <1>6, <1>7

(* From a break on, spaces break the line.                                 *)
LEMMA SpacesBreak ==
  ASSUME IsLine, NEW e \in 1..Len(line), Breaks(e), NEW n \in (e + 1)..(Len(line) + 1),
         \A i \in e..(n - 1) : line[i] = Space
  PROVE  /\ \A i \in e..(n - 1) : Breaks(i)
         /\ QuoteCount(line, 1, n - 1) % 2 = 0
<1>1. Len(line) \in Nat /\ e \in Nat /\ e >= 1 /\ e <= Len(line) /\ n \in Nat /\ n <= Len(line) + 1
  BY LineFields
<1>2. QuoteCount(line, 1, e - 1) % 2 = 0
  BY <1>1 DEF Breaks
<1>3. ASSUME NEW i \in (e + 1)..n
      PROVE  QuoteCount(line, 1, i - 1) % 2 = 0
  <2>1. \A q \in e..(i - 1) : line[q] # Quote
    BY <1>1, CharactersDiffer
  <2>2. QuoteCount(line, e, i - 1) = 0
    BY <2>1, NoQuotes
  <2>3. PICK m \in Nat : m = e - 1 /\ m + 1 = e
    BY <1>1
  <2>4. PICK t \in Nat : t = i - 1 /\ m <= t
    BY <1>1, <2>3
  <2>5. QuoteCount(line, 1, t) = QuoteCount(line, 1, m) + QuoteCount(line, m + 1, t)
        /\ QuoteCount(line, 1, m) \in Nat
    <3>1. 1 <= m + 1 /\ m <= t /\ 1 \in Nat
      BY <2>4
    <3> QED
      BY <3>1, QuotesAdd
  <2> QED
    BY <1>2, <2>2, <2>3, <2>4, <2>5
<1>4. \A i \in e..(n - 1) : Breaks(i)
  <2>1. TAKE i \in e..(n - 1)
  <2>2. CASE i = e
    BY <2>2
  <2>3. CASE i # e
    <3>1. i \in (e + 1)..n
      BY <1>1, <2>3
    <3> QED
      BY <1>3, <3>1 DEF Breaks
  <2> QED
    BY <2>2, <2>3
<1>5. n \in (e + 1)..n
  BY <1>1
<1> QED
  BY <1>3, <1>4, <1>5

(* The arguments that begin in front of a place.                           *)
Passed(p) == {arg \in Arguments : arg[1] < p}
ArgNext(b, p) == NextStart(b, ArgStart(b, p), ArgStop(b, p))

(* next_arg stops where the next argument begins, or at the end.           *)
LEMMA NextIs ==
  ASSUME IsLine, NEW p, AtArgument(p), NEW b, IsCopy(b, p)
  PROVE  /\ ArgNext(b, p) \in ArgStop(b, p)..(Len(line) + 1)
         /\ ArgNext(b, p) = Len(line) + 1 \/ AtArgument(ArgNext(b, p))
         /\ ArgStop(b, p) <= Len(line) => ArgNext(b, p) > ArgStop(b, p)
         /\ \A i \in ArgStop(b, p)..(ArgNext(b, p) - 1) : i <= Len(line) /\ Breaks(i)
<1> DEFINE e == ArgStop(b, p)
           n == ArgNext(b, p)
           N == Len(line) + 1
<1>1. /\ Len(line) \in Nat /\ N \in Nat /\ p \in Nat /\ p >= 1
      /\ e \in (p + 1)..N /\ Breaks(e)
  BY LineFields, StopIs DEF AtArgument
<1> HIDE DEF e
<1>2. CASE e = N
  <2>1. b[e] = EndOfLine
    BY <1>2 DEF IsCopy
  <2>2. n = SkipSpaces(b, e)
    BY <2>1 DEF ArgNext, NextStart, e
  <2>3. SkipSpaces(b, e) \in e..N
    <3>1. e \in 1..N /\ p <= e
      BY <1>1
    <3> QED
      BY <1>1, <3>1, SkipIs
  <2>4. n = N
    BY <1>1, <1>2, <2>2, <2>3
  <2> QED
    BY <1>1, <1>2, <2>4 DEF e
<1>3. CASE e # N
  <2>1. e \in 1..Len(line) /\ e + 1 \in 1..N /\ p <= e + 1
    BY <1>1, <1>3
  <2>2. b[e] # EndOfLine
    <3>1. e \in p..Len(line)
      BY <1>1, <2>1
    <3>2. b[e] = line[e]
      BY <3>1 DEF IsCopy
    <3> QED
      BY <2>1, <3>2, LineFields
  <2>3. n = SkipSpaces(b, e + 1)
    BY <2>2 DEF ArgNext, NextStart, e
  <2> HIDE DEF n
  <2>4. /\ n \in (e + 1)..N
        /\ n = N \/ line[n] # Space
        /\ \A i \in (e + 1)..(n - 1) : i \in 1..Len(line) /\ line[i] = Space
    BY <1>1, <2>1, <2>3, SkipIs
  <2>5. line[e] = Space
    BY <1>1, <2>1 DEF Breaks
  <2>6. \A i \in e..(n - 1) : line[i] = Space
    BY <1>1, <2>1, <2>4, <2>5
  <2>7. (\A i \in e..(n - 1) : Breaks(i)) /\ QuoteCount(line, 1, n - 1) % 2 = 0
    BY <1>1, <2>1, <2>4, <2>6, SpacesBreak
  <2>8. n = N \/ AtArgument(n)
    <3>1. n - 1 \in e..(n - 1)
      BY <1>1, <2>1, <2>4
    <3>2. n # N => n \in 1..Len(line)
      BY <1>1, <2>1, <2>4
    <3> QED
      BY <2>4, <2>7, <3>1, <3>2 DEF AtArgument
  <2>9. \A i \in e..(n - 1) : i <= Len(line)
    BY <1>1, <2>4
  <2>10. n \in e..N /\ n > e
    BY <1>1, <2>4
  <2> QED
    BY <2>7, <2>8, <2>9, <2>10 DEF e, n
<1> QED
  BY <1>2, <1>3

(* The argument that is cut off is one of the line, and the only one that  *)
(* begins in front of the next place and not in front of this one.         *)
LEMMA PassedIs ==
  ASSUME IsLine, NEW p, AtArgument(p), NEW b, IsCopy(b, p)
  PROVE  /\ <<p, ArgStop(b, p) - 1>> \in Arguments
         /\ Passed(ArgNext(b, p)) = Passed(p) \cup {<<p, ArgStop(b, p) - 1>>}
<1> DEFINE N == Len(line) + 1
<1>1. PICK e \in (p + 1)..N : e = ArgStop(b, p) /\ Breaks(e) /\ \A i \in p..(e - 1) : ~Breaks(i)
  BY StopIs
<1>2. PICK n \in e..N : /\ n = ArgNext(b, p) /\ \A i \in e..(n - 1) : i <= Len(line) /\ Breaks(i)
  BY <1>1, NextIs
<1>3. /\ Len(line) \in Nat /\ p \in 1..Len(line) /\ p \in Nat /\ e \in Nat /\ n \in Nat
      /\ e > p /\ e <= N /\ n >= e /\ n <= N /\ N \in Nat
      /\ e - 1 \in 1..Len(line) /\ p <= e - 1 /\ e - 1 + 1 = e
  BY LineFields DEF AtArgument
<1>4. Breaks(p - 1)
  BY DEF AtArgument
<1> DEFINE D == <<p, e - 1>>
<1>5. D \in Arguments
  <2>1. D \in (1..Len(line)) \X (1..Len(line)) /\ D[1] = p /\ D[2] = e - 1
    BY <1>3
  <2> QED
    BY <1>1, <1>3, <1>4, <2>1 DEF Arguments
<1>6. \A arg \in Arguments : arg[1] < n => arg[1] < p \/ arg = D
  <2>1. SUFFICES ASSUME NEW arg \in Arguments, arg[1] < n, ~(arg[1] < p) PROVE arg = D
    OBVIOUS
  <2>2. PICK x \in 1..Len(line), y \in 1..Len(line) : arg = <<x, y>>
    BY DEF Arguments
  <2>3. x <= y /\ Breaks(x - 1) /\ Breaks(y + 1) /\ \A i \in x..y : ~Breaks(i)
    BY <2>2 DEF Arguments
  <2>4. x < n /\ x >= p
    BY <1>3, <2>1, <2>2
  <2>5. x < e
    <3>1. x \in x..y
      BY <2>3
    <3>2. x >= e => x \in e..(n - 1)
      BY <1>3, <2>4
    <3> QED
      BY <1>2, <1>3, <2>3, <3>1, <3>2
  <2>6. x = p
    <3>1. x > p => x - 1 \in p..(e - 1)
      BY <1>3, <2>5
    <3> QED
      BY <1>1, <1>3, <2>3, <2>4, <3>1
  <2>7. y < e
    <3>1. x \in Nat /\ y \in Nat
      BY <1>3
    <3>2. y >= e => e \in x..y
      BY <1>3, <2>5, <3>1
    <3>3. ~(y >= e)
      BY <1>1, <2>3, <3>2
    <3> QED
      BY <1>3, <3>1, <3>3
  <2>8. y + 1 = e
    <3>1. x \in Nat /\ y \in Nat /\ x <= y
      BY <1>3, <2>3
    <3>2. y + 1 < e => y + 1 \in p..(e - 1)
      BY <1>3, <2>6, <3>1
    <3>3. ~(y + 1 < e)
      BY <1>1, <2>3, <3>2
    <3> QED
      BY <1>3, <2>7, <3>1, <3>3
  <2> QED
    BY <1>3, <2>2, <2>6, <2>8
<1>7. p < n
  BY <1>3
<1>8. Passed(n) = Passed(p) \cup {D}
  <2>1. \A arg \in Arguments : arg[1] \in Nat
    BY DEF Arguments
  <2>2. D[1] = p
    OBVIOUS
  <2>3. \A arg \in Arguments : arg[1] < p => arg[1] < n
    BY <1>3, <2>1
  <2> HIDE DEF D
  <2> QED
    BY <1>5, <1>6, <1>7, <2>2, <2>3 DEF Passed
<1> QED
  BY <1>1, <1>2, <1>5, <1>8

(* What next_arg writes NULs over: the end of the argument, the sign behind*)
(* its name, and a quote at its end.                                       *)
SignsOf(b, p) == Signs(b, ArgStart(b, p), ArgStop(b, p))
Sign(b, p) == Min(SignsOf(b, p))
QuotedValue(b, p) == SignsOf(b, p) # {} /\ b[Sign(b, p) + 1] = Quote
LastQuote(b, p) ==
  /\ QuotedValue(b, p) \/ b[p] = Quote
  /\ ArgStop(b, p) > ArgStart(b, p) /\ b[ArgStop(b, p) - 1] = Quote
Cuts(b, p) ==
  {ArgStop(b, p)} \cup (IF SignsOf(b, p) # {} THEN {Sign(b, p)} ELSE {})
                  \cup (IF LastQuote(b, p) THEN {ArgStop(b, p) - 1} ELSE {})
ValueStart(b, p) == IF QuotedValue(b, p) THEN Sign(b, p) + 2 ELSE Sign(b, p) + 1

(* So next_arg leaves a copy with NULs there, and the name and the value   *)
(* begin in it.                                                            *)
LEMMA NextArgIs ==
  ASSUME NEW b, NEW p
  PROVE  /\ NextArg(b, p).buf = CutAt(b, Cuts(b, p))
         /\ NextArg(b, p).param = StringAt(NextArg(b, p).buf, ArgStart(b, p))
         /\ SignsOf(b, p) = {} => NextArg(b, p).val = NoValue
         /\ SignsOf(b, p) # {} =>
              NextArg(b, p).val = StringAt(NextArg(b, p).buf, ValueStart(b, p))
         /\ NextArg(b, p).next = ArgNext(b, p)
<1> DEFINE c == CutAt(b, Cuts(b, p))
           param == StringAt(c, ArgStart(b, p))
           val == IF SignsOf(b, p) # {} THEN StringAt(c, ValueStart(b, p)) ELSE NoValue
           next0 == ArgNext(b, p)
<1>1. NextArg(b, p) = [buf |-> c, param |-> param, val |-> val, next |-> next0]
  BY DEF NextArg, SignsOf, Sign, QuotedValue, LastQuote, Cuts, ValueStart, ArgNext, ArgStart, ArgStop
<1> HIDE DEF c, param, val, next0
<1>2. NextArg(b, p).buf = c /\ NextArg(b, p).param = param /\ NextArg(b, p).val = val
      /\ NextArg(b, p).next = next0
  BY <1>1
<1> QED
  BY <1>2 DEF c, param, val, next0

(* The signs and where they are.                                           *)
LEMMA SignIs ==
  ASSUME IsLine, NEW p, AtArgument(p), NEW b, IsCopy(b, p)
  PROVE  /\ SignsOf(b, p) = {i \in (ArgStart(b, p) + 1)..(ArgStop(b, p) - 1) : line[i] = "="}
         /\ SignsOf(b, p) # {} =>
              /\ Sign(b, p) \in (ArgStart(b, p) + 1)..(ArgStop(b, p) - 1) /\ line[Sign(b, p)] = "="
              /\ \A i \in (ArgStart(b, p) + 1)..(Sign(b, p) - 1) : line[i] # "="
<1> DEFINE a == ArgStart(b, p)
           e == ArgStop(b, p)
           S == SignsOf(b, p)
<1>1. Len(line) \in Nat /\ p \in Nat /\ a \in Nat /\ a >= p /\ e \in (p + 1)..(Len(line) + 1) /\ e \in Nat
  BY LineFields, StopIs DEF AtArgument, ArgStart
<1> HIDE DEF a, e
<1>2. \A i \in (a + 1)..(e - 1) : b[i] = line[i]
  BY <1>1 DEF IsCopy
<1>3. S = {i \in (a + 1)..(e - 1) : line[i] = "="}
  BY <1>2 DEF SignsOf, Signs, a, e
<1>4. ASSUME S # {}
      PROVE  Sign(b, p) \in S /\ Sign(b, p) \in Nat /\ \A i \in S : Sign(b, p) <= i
  <2>1. S \subseteq Nat
    BY <1>1, <1>3
  <2> QED
    BY <1>4, <2>1, LeastIs DEF Sign
<1>5. ASSUME S # {}
      PROVE  \A i \in (a + 1)..(Sign(b, p) - 1) : line[i] # "="
  <2>1. TAKE i \in (a + 1)..(Sign(b, p) - 1)
  <2>2. Sign(b, p) <= e - 1 /\ Sign(b, p) \in Nat
    BY <1>1, <1>3, <1>4, <1>5
  <2>3. i \in (a + 1)..(e - 1) /\ i < Sign(b, p)
    BY <1>1, <2>2
  <2>4. i \notin S
    BY <1>4, <1>5, <2>2, <2>3
  <2> QED
    BY <1>3, <2>3, <2>4
<1> QED
  BY <1>3, <1>4, <1>5 DEF a, e

(* A copy with NULs where it is cut.                                       *)
LEMMA CutIs ==
  ASSUME IsLine, NEW b \in Seq(Characters), Len(b) = Len(line) + 1, NEW S
  PROVE  /\ CutAt(b, S) \in Seq(Characters) /\ Len(CutAt(b, S)) = Len(line) + 1
         /\ \A i \in 1..(Len(line) + 1) :
              CutAt(b, S)[i] = IF i \in S THEN EndOfLine ELSE b[i]
<1>1. Len(line) \in Nat /\ Len(line) + 1 \in Nat
  BY LineFields
<1>2. DOMAIN b = 1..(Len(line) + 1) /\ \A i \in 1..(Len(line) + 1) : b[i] \in Characters
  OBVIOUS
<1>3. EndOfLine \in Characters
  BY DEF Characters
<1>4. CutAt(b, S) = [i \in 1..(Len(line) + 1) |-> IF i \in S THEN EndOfLine ELSE b[i]]
  BY <1>2 DEF CutAt
<1>5. CutAt(b, S) \in [1..(Len(line) + 1) -> Characters]
  BY <1>2, <1>3, <1>4
<1>6. CutAt(b, S) \in Seq(Characters) /\ Len(CutAt(b, S)) = Len(line) + 1
  BY <1>1, <1>5
<1> QED
  BY <1>4, <1>6

(* It writes NULs over separators and quotes of the argument, and over     *)
(* nothing behind it.                                                      *)
LEMMA CutsIn ==
  ASSUME IsLine, NEW p, AtArgument(p), NEW b, IsCopy(b, p)
  PROVE  /\ IsCopy(NextArg(b, p).buf, ArgNext(b, p))
         /\ \A q \in 1..Len(line) : NextArg(b, p).buf[q] # b[q] =>
              /\ q < ArgNext(b, p) /\ NextArg(b, p).buf[q] = EndOfLine
              /\ line[q] \in {Space, Quote, "="}
<1> DEFINE N == Len(line) + 1
           c == NextArg(b, p).buf
           S == Cuts(b, p)
           e == ArgStop(b, p)
           n == ArgNext(b, p)
<1>1. /\ Len(line) \in Nat /\ p \in Nat /\ e \in (p + 1)..N /\ Breaks(e) /\ n \in e..N
      /\ e <= Len(line) => n > e
      /\ ArgStart(b, p) \in Nat /\ ArgStart(b, p) >= p
  BY LineFields, StopIs, NextIs DEF AtArgument, ArgStart
<1>2. c = CutAt(b, S)
  BY NextArgIs
<1>3. /\ c \in Seq(Characters) /\ Len(c) = N
      /\ \A i \in 1..N : c[i] = IF i \in S THEN EndOfLine ELSE b[i]
  BY <1>2, CutIs DEF IsCopy
<1> HIDE DEF c, e, n
<1>4. \A q \in 1..Len(line) : q \in S => q \in p..e /\ q < n /\ line[q] \in {Space, Quote, "="}
  <2>1. TAKE q \in 1..Len(line)
  <2>2. CASE q = e
    <3>1. e <= Len(line) /\ e \in p..e
      BY <1>1, <2>2
    <3> QED
      BY <1>1, <2>2, <3>1 DEF Breaks
  <2>3. CASE SignsOf(b, p) # {} /\ q = Sign(b, p)
    <3>1. q \in (ArgStart(b, p) + 1)..(e - 1) /\ line[q] = "="
      BY <2>3, SignIs DEF e
    <3> QED
      BY <1>1, <3>1
  <2>4. CASE LastQuote(b, p) /\ q = e - 1
    <3>1. b[e - 1] = Quote /\ e > ArgStart(b, p)
      BY <2>4 DEF LastQuote, e
    <3>2. q \in p..Len(line) /\ q < e /\ q < n /\ q \in p..e
      BY <1>1, <2>4, <3>1
    <3>3. b[q] = line[q]
      BY <3>2 DEF IsCopy
    <3> QED
      BY <2>4, <3>1, <3>2, <3>3
  <2>5. q \in S => q = e \/ (SignsOf(b, p) # {} /\ q = Sign(b, p)) \/ (LastQuote(b, p) /\ q = e - 1)
    BY DEF Cuts, e
  <2> QED
    BY <2>2, <2>3, <2>4, <2>5
<1>5. \A q \in n..Len(line) : c[q] = line[q]
  <2>1. TAKE q \in n..Len(line)
  <2>2. q \in 1..Len(line) /\ q \in p..Len(line) /\ ~(q < n) /\ q \in 1..N
    BY <1>1
  <2>3. q \notin S
    BY <1>4, <2>2
  <2>4. b[q] = line[q]
    BY <2>2 DEF IsCopy
  <2> QED
    BY <1>3, <2>2, <2>3, <2>4
<1>6. c[N] = EndOfLine
  <2>1. b[N] = EndOfLine /\ N \in 1..N
    BY <1>1 DEF IsCopy
  <2> QED
    BY <1>3, <2>1
<1>7. IsCopy(c, n)
  BY <1>3, <1>5, <1>6 DEF IsCopy
<1>8. \A q \in 1..Len(line) : c[q] # b[q] => q \in S /\ c[q] = EndOfLine
  <2>1. \A q \in 1..Len(line) : q \in 1..N
    BY <1>1
  <2> QED
    BY <1>3, <2>1
<1> QED
  BY <1>4, <1>7, <1>8 DEF c, n

(* A string of characters of the line, from a place on.                    *)
IsPart(u, x, n) ==
  /\ u \in Seq(STRING \ {EndOfLine}) /\ Len(u) = n
  /\ \A i \in 1..n : u[i] = line[x + i - 1]

(* Up to a NUL the copy has the string of the line.                        *)
LEMMA StringOf ==
  ASSUME IsLine, NEW c \in Seq(Characters), Len(c) = Len(line) + 1,
         NEW x \in 1..(Len(line) + 1), NEW m \in x..(Len(line) + 1), c[m] = EndOfLine,
         \A q \in x..(m - 1) : c[q] = line[q]
  PROVE  IsPart(StringAt(c, x), x, m - x)
<1>1. Len(line) \in Nat /\ x \in Nat /\ m \in Nat /\ x >= 1 /\ m >= x /\ m <= Len(line) + 1
  BY LineFields
<1>2. \A q \in x..(m - 1) : c[q] \in STRING \ {EndOfLine}
  <2>1. TAKE q \in x..(m - 1)
  <2>2. q \in 1..Len(line)
    BY <1>1
  <2> QED
    BY <2>2, LineFields
<1>3. StringAt(c, x) = SubSeq(c, x, m - 1)
  <2>1. \A q \in x..(m - 1) : c[q] # EndOfLine
    BY <1>2
  <2>2. Len(c) \in Nat /\ m \in x..Len(c)
    BY <1>1
  <2> QED
    BY <1>1, <2>1, <2>2, StringIs
<1>4. /\ SubSeq(c, x, m - 1) \in Seq(STRING \ {EndOfLine})
      /\ Len(SubSeq(c, x, m - 1)) = IF x <= m - 1 THEN m - 1 - x + 1 ELSE 0
      /\ \A i \in 1..(m - 1 - x + 1) : SubSeq(c, x, m - 1)[i] = c[x + i - 1]
  <2>1. x \in Int /\ m - 1 \in Int
    BY <1>1
  <2> QED
    BY <1>2, <2>1, SubSeqProperties
<1> DEFINE u == SubSeq(c, x, m - 1)
<1> HIDE DEF u
<1>5. Len(u) = m - x
  BY <1>1, <1>4 DEF u
<1>6. \A i \in 1..(m - x) : u[i] = line[x + i - 1]
  <2>1. TAKE i \in 1..(m - x)
  <2>2. i \in 1..(m - 1 - x + 1) /\ x + i - 1 \in x..(m - 1)
    BY <1>1
  <2>3. u[i] = c[x + i - 1]
    BY <1>4, <2>2 DEF u
  <2> QED
    BY <2>2, <2>3
<1> QED
  BY <1>3, <1>4, <1>5, <1>6 DEF IsPart, u

(* A stretch of the line.                                                  *)
LEMMA StretchIs ==
  ASSUME IsLine, NEW x \in Nat, NEW y \in Nat, x >= 1, y + 1 >= x, y <= Len(line)
  PROVE  IsPart(SubSeq(line, x, y), x, y - x + 1)
<1>1. \A q \in x..y : line[q] \in STRING \ {EndOfLine}
  <2>1. \A q \in x..y : q \in 1..Len(line)
    BY LineFields
  <2> QED
    BY <2>1, LineFields
<1>2. /\ SubSeq(line, x, y) \in Seq(STRING \ {EndOfLine})
      /\ Len(SubSeq(line, x, y)) = IF x <= y THEN y - x + 1 ELSE 0
      /\ \A i \in 1..(y - x + 1) : SubSeq(line, x, y)[i] = line[x + i - 1]
  BY <1>1, SubSeqProperties
<1> DEFINE u == SubSeq(line, x, y)
<1> HIDE DEF u
<1>3. Len(u) = y - x + 1
  BY <1>2 DEF u
<1> QED
  BY <1>2, <1>3 DEF IsPart, u

(* A string agrees with n elements of another behind the first k.          *)
Agrees(u, s, k, n) == 
  /\ u \in Seq(STRING \ {EndOfLine}) /\ Len(u) = n
  /\ \A i \in 1..n : u[i] = s[k + i]

(* What is read of an argument: a name and the value behind its first sign,*)
(* or the whole as a name.  An argument that begins with a sign is kept,   *)
(* with its quotes, as the name of nothing.                                *)
IsRead(param, val, s) ==
  /\ s \in Seq(STRING \ {EndOfLine}) /\ param \in Seq(STRING \ {EndOfLine})
  /\ \/ \E k \in 2..Len(s) : /\ s[k] = "=" /\ \A i \in 2..(k - 1) : s[i] # "="
                             /\ Agrees(param, s, 0, k - 1) /\ Agrees(val, s, k, Len(s) - k)
     \/ val = NoValue /\ param = s /\ \A i \in 2..Len(s) : s[i] # "="
     \/ Len(s) >= 1 /\ s[1] = "=" /\ Len(param) >= 1 /\ param[1] = "="

(* An argument that is a stretch of the line is read in the two parts of   *)
(* it that the first sign separates,                                       *)
LEMMA ReadParts ==
  ASSUME NEW s, NEW param, NEW val, NEW x \in Nat, NEW n \in Nat, IsPart(s, x, n),
         NEW g \in (x + 1)..(x + n - 1), line[g] = "=", \A i \in (x + 1)..(g - 1) : line[i] # "=",
         IsPart(param, x, g - x), IsPart(val, g + 1, x + n - 1 - g)
  PROVE  IsRead(param, val, s)
<1> DEFINE k == g - x + 1
<1>1. g \in Nat /\ g > x /\ g < x + n /\ k \in 2..n /\ k \in Nat /\ n - k = x + n - 1 - g /\ k - 1 = g - x
  OBVIOUS
<1>2. s \in Seq(STRING \ {EndOfLine}) /\ Len(s) = n /\ \A i \in 1..n : s[i] = line[x + i - 1]
  BY DEF IsPart
<1>3. s[k] = "="
  <2>1. k \in 1..n /\ x + k - 1 = g
    BY <1>1
  <2> QED
    BY <1>2, <2>1
<1>4. \A i \in 2..(k - 1) : s[i] # "="
  <2>1. TAKE i \in 2..(k - 1)
  <2>2. i \in 1..n /\ x + i - 1 \in (x + 1)..(g - 1)
    BY <1>1
  <2> QED
    BY <1>2, <2>2
<1>5. Agrees(param, s, 0, k - 1)
  <2>1. param \in Seq(STRING \ {EndOfLine}) /\ Len(param) = k - 1
    BY <1>1 DEF IsPart
  <2>2. \A i \in 1..(k - 1) : param[i] = s[0 + i]
    <3>1. TAKE i \in 1..(k - 1)
    <3>2. i \in 1..n /\ i \in 1..(g - x) /\ 0 + i = i
      BY <1>1
    <3>3. param[i] = line[x + i - 1] /\ s[i] = line[x + i - 1]
      BY <1>2, <3>2 DEF IsPart
    <3> QED
      BY <3>2, <3>3
  <2> QED
    BY <2>1, <2>2 DEF Agrees
<1>6. Agrees(val, s, k, n - k)
  <2>1. val \in Seq(STRING \ {EndOfLine}) /\ Len(val) = n - k
    BY <1>1 DEF IsPart
  <2>2. \A i \in 1..(n - k) : val[i] = s[k + i]
    <3>1. TAKE i \in 1..(n - k)
    <3>2. k + i \in 1..n /\ i \in 1..(x + n - 1 - g) /\ g + 1 + i - 1 = x + (k + i) - 1
      BY <1>1
    <3>3. val[i] = line[g + 1 + i - 1] /\ s[k + i] = line[x + (k + i) - 1]
      BY <1>2, <3>2 DEF IsPart
    <3> QED
      BY <3>2, <3>3
  <2> QED
    BY <2>1, <2>2 DEF Agrees
<1>7. k \in 2..Len(s) /\ Agrees(val, s, k, Len(s) - k)
  BY <1>1, <1>2, <1>6
<1>8. param \in Seq(STRING \ {EndOfLine})
  BY DEF IsPart
<1> HIDE DEF k
<1> QED
  BY <1>2, <1>3, <1>4, <1>5, <1>7, <1>8 DEF IsRead

(* and without a sign as the name alone.                                   *)
LEMMA ReadWhole ==
  ASSUME NEW s, NEW param, NEW x \in Nat, NEW n \in Nat, IsPart(s, x, n), IsPart(param, x, n),
         \A i \in (x + 1)..(x + n - 1) : line[i] # "="
  PROVE  IsRead(param, NoValue, s)
<1>1. s \in Seq(STRING \ {EndOfLine}) /\ Len(s) = n /\ \A i \in 1..n : s[i] = line[x + i - 1]
  BY DEF IsPart
<1>2. param \in Seq(STRING \ {EndOfLine}) /\ Len(param) = n
      /\ \A i \in 1..n : param[i] = line[x + i - 1]
  BY DEF IsPart
<1>3. param = s
  BY <1>1, <1>2
<1>4. \A i \in 2..Len(s) : s[i] # "="
  <2>1. TAKE i \in 2..Len(s)
  <2>2. i \in 1..n /\ x + i - 1 \in (x + 1)..(x + n - 1)
    BY <1>1
  <2> QED
    BY <1>1, <2>2
<1> QED
  BY <1>1, <1>3, <1>4 DEF IsRead

(* What is known of the argument at a place.                               *)
LEMMA ArgumentIs ==
  ASSUME IsLine, NEW p, AtArgument(p), NEW b, IsCopy(b, p)
  PROVE  /\ Len(line) \in Nat /\ p \in Nat /\ p >= 1 /\ ArgStop(b, p) \in Nat
         /\ ArgStop(b, p) \in (p + 1)..(Len(line) + 1)
         /\ \A i \in p..(ArgStop(b, p) - 1) : b[i] = line[i] /\ i \in 1..Len(line)
         /\ QuotesIn(<<p, ArgStop(b, p) - 1>>) = {i \in p..(ArgStop(b, p) - 1) : line[i] = Quote}
         /\ NextArg(b, p).buf \in Seq(Characters) /\ Len(NextArg(b, p).buf) = Len(line) + 1
         /\ \A i \in 1..(Len(line) + 1) :
              NextArg(b, p).buf[i] = IF i \in Cuts(b, p) THEN EndOfLine ELSE b[i]
         /\ b[ArgStop(b, p)] # Quote
<1> DEFINE e == ArgStop(b, p)
<1>1. Len(line) \in Nat /\ p \in Nat /\ p >= 1 /\ e \in (p + 1)..(Len(line) + 1) /\ Breaks(e) /\ e \in Nat
  BY LineFields, StopIs DEF AtArgument
<1> HIDE DEF e
<1>2. \A i \in p..(e - 1) : b[i] = line[i] /\ i \in 1..Len(line)
  BY <1>1 DEF IsCopy
<1>3. b[e] # Quote
  <2>1. CASE e = Len(line) + 1
    BY <2>1, CharactersDiffer DEF IsCopy
  <2>2. CASE e # Len(line) + 1
    <3>1. e \in p..Len(line)
      BY <1>1, <2>2
    <3>2. line[e] = Space
      BY <1>1, <2>2 DEF Breaks
    <3> QED
      BY <3>1, <3>2, CharactersDiffer DEF IsCopy
  <2> QED
    BY <2>1, <2>2
<1>4. QuotesIn(<<p, e - 1>>) = {i \in p..(e - 1) : line[i] = Quote}
  BY DEF QuotesIn
<1>5. NextArg(b, p).buf = CutAt(b, Cuts(b, p))
  BY NextArgIs
<1>6. b \in Seq(Characters) /\ Len(b) = Len(line) + 1
  BY DEF IsCopy
<1> QED
  <2>1. CutAt(b, Cuts(b, p)) \in Seq(Characters) /\ Len(CutAt(b, Cuts(b, p))) = Len(line) + 1
        /\ \A i \in 1..(Len(line) + 1) :
             CutAt(b, Cuts(b, p))[i] = IF i \in Cuts(b, p) THEN EndOfLine ELSE b[i]
    BY <1>6, CutIs
  <2> QED
    BY <1>1, <1>2, <1>3, <1>4, <1>5, <2>1 DEF e

(* An argument without quotes.                                             *)
LEMMA ReadBare ==
  ASSUME IsLine, NEW p, AtArgument(p), NEW b, IsCopy(b, p),
         QuotesIn(<<p, ArgStop(b, p) - 1>>) = {}
  PROVE  IsRead(NextArg(b, p).param, NextArg(b, p).val, Bare(<<p, ArgStop(b, p) - 1>>))
<1> DEFINE e == ArgStop(b, p)
           D == <<p, e - 1>>
           c == NextArg(b, p).buf
           N == Len(line) + 1
           g == Sign(b, p)
<1>1. /\ Len(line) \in Nat /\ p \in Nat /\ p >= 1 /\ e \in Nat /\ e > p /\ e <= N
      /\ \A i \in p..(e - 1) : b[i] = line[i] /\ line[i] # Quote /\ i \in 1..N
      /\ b[e] # Quote /\ c \in Seq(Characters) /\ Len(c) = N
      /\ \A i \in 1..N : c[i] = IF i \in Cuts(b, p) THEN EndOfLine ELSE b[i]
  BY ArgumentIs
<1> HIDE DEF c
<1>2. ArgStart(b, p) = p
  <2>1. p \in p..(e - 1)
    BY <1>1
  <2> QED
    BY <1>1, <2>1 DEF ArgStart
<1>3. /\ SignsOf(b, p) = {i \in (p + 1)..(e - 1) : line[i] = "="}
      /\ SignsOf(b, p) # {} => /\ g \in (p + 1)..(e - 1) /\ line[g] = "="
                               /\ \A i \in (p + 1)..(g - 1) : line[i] # "="
  BY <1>2, SignIs
<1>4. ~LastQuote(b, p)
  <2>1. e - 1 \in p..(e - 1)
    BY <1>1
  <2> QED
    BY <1>1, <2>1 DEF LastQuote
<1>5. Cuts(b, p) = {e} \cup (IF SignsOf(b, p) # {} THEN {g} ELSE {})
  BY <1>4 DEF Cuts
<1>6. IsPart(Bare(D), p, e - p)
  <2>1. Bare(D) = SubSeq(line, p, e - 1)
    BY DEF Bare
  <2>2. p <= Len(line) /\ e - 1 \in Nat /\ e - 1 + 1 >= p /\ e - 1 <= Len(line) /\ e - 1 - p + 1 = e - p
    BY <1>1
  <2> QED
    BY <1>1, <2>1, <2>2, StretchIs
<1> HIDE DEF e, g
<1>7. CASE SignsOf(b, p) = {}
  <2>1. c[e] = EndOfLine /\ \A i \in p..(e - 1) : c[i] = line[i]
    <3>1. \A i \in p..(e - 1) : i \in 1..N /\ i \notin Cuts(b, p)
      BY <1>1, <1>5, <1>7
    <3>2. e \in 1..N /\ e \in Cuts(b, p)
      BY <1>1, <1>5
    <3> QED
      BY <1>1, <3>1, <3>2
  <2>2. IsPart(StringAt(c, p), p, e - p)
    <3>1. p \in 1..N /\ e \in p..N
      BY <1>1
    <3> QED
      BY <1>1, <2>1, <3>1, StringOf
  <2>3. NextArg(b, p).param = StringAt(c, p) /\ NextArg(b, p).val = NoValue
    BY <1>2, <1>7, NextArgIs DEF c
  <2>4. \A i \in (p + 1)..(p + (e - p) - 1) : line[i] # "="
    BY <1>1, <1>3, <1>7
  <2>5. e - p \in Nat
    BY <1>1
  <2>6. IsRead(StringAt(c, p), NoValue, Bare(D))
    BY <1>1, <1>6, <2>2, <2>4, <2>5, ReadWhole
  <2> QED
    BY <2>3, <2>6 DEF e
<1>8. CASE SignsOf(b, p) # {}
  <2>1. g \in (p + 1)..(e - 1) /\ line[g] = "=" /\ \A i \in (p + 1)..(g - 1) : line[i] # "="
    BY <1>3, <1>8
  <2>2. g \in Nat /\ g > p /\ g < e
    BY <1>1, <2>1
  <2>3. c[g] = EndOfLine /\ c[e] = EndOfLine
        /\ (\A i \in p..(g - 1) : c[i] = line[i]) /\ \A i \in (g + 1)..(e - 1) : c[i] = line[i]
    <3>1. \A i \in p..(e - 1) : i # g => i \in 1..N /\ i \notin Cuts(b, p)
      BY <1>1, <1>5, <1>8
    <3>2. e \in 1..N /\ e \in Cuts(b, p) /\ g \in 1..N /\ g \in Cuts(b, p)
      BY <1>1, <1>5, <1>8, <2>2
    <3>3. \A i \in p..(e - 1) : i # g => c[i] = line[i]
      BY <1>1, <3>1
    <3>4. \A i : i \in p..(g - 1) \/ i \in (g + 1)..(e - 1) => i \in p..(e - 1) /\ i # g
      BY <1>1, <2>2
    <3> QED
      BY <1>1, <3>2, <3>3, <3>4
  <2>4. IsPart(StringAt(c, p), p, g - p)
    <3>1. p \in 1..N /\ g \in p..N
      BY <1>1, <2>2
    <3> QED
      BY <1>1, <2>3, <3>1, StringOf
  <2>5. IsPart(StringAt(c, g + 1), g + 1, e - (g + 1))
    <3>1. g + 1 \in 1..N /\ e \in (g + 1)..N
      BY <1>1, <2>2
    <3> QED
      BY <1>1, <2>3, <3>1, StringOf
  <2>6. ~QuotedValue(b, p)
    <3>1. g + 1 \in p..(e - 1) \/ g + 1 = e
      BY <1>1, <2>2
    <3> QED
      BY <1>1, <3>1 DEF QuotedValue, g
  <2>7. NextArg(b, p).param = StringAt(c, p) /\ NextArg(b, p).val = StringAt(c, g + 1)
    <3>1. ValueStart(b, p) = g + 1
      BY <2>6 DEF ValueStart, g
    <3> QED
      BY <1>2, <1>8, <3>1, NextArgIs DEF c
  <2>8. e - p \in Nat /\ g \in (p + 1)..(p + (e - p) - 1) /\ e - (g + 1) = p + (e - p) - 1 - g
    BY <1>1, <2>2
  <2>9. IsRead(StringAt(c, p), StringAt(c, g + 1), Bare(D))
    BY <1>1, <1>6, <2>1, <2>4, <2>5, <2>8, ReadParts
  <2> QED
    BY <2>7, <2>9 DEF e
<1> QED
  BY <1>7, <1>8

(* An argument in quotes.                                                  *)
LEMMA ReadQuoted ==
  ASSUME IsLine, NEW p, AtArgument(p), NEW b, IsCopy(b, p),
         QuotesIn(<<p, ArgStop(b, p) - 1>>) = {p, ArgStop(b, p) - 1}, p # ArgStop(b, p) - 1
  PROVE  IsRead(NextArg(b, p).param, NextArg(b, p).val, Bare(<<p, ArgStop(b, p) - 1>>))
<1> DEFINE e == ArgStop(b, p)
           D == <<p, e - 1>>
           c == NextArg(b, p).buf
           N == Len(line) + 1
           g == Sign(b, p)
<1>1. /\ Len(line) \in Nat /\ p \in Nat /\ p >= 1 /\ e \in Nat /\ e > p + 1 /\ e <= N
      /\ \A i \in p..(e - 1) : b[i] = line[i] /\ i \in 1..N
      /\ \A i \in p..(e - 1) : line[i] = Quote <=> i = p \/ i = e - 1
      /\ b[e] # Quote /\ c \in Seq(Characters) /\ Len(c) = N
      /\ \A i \in 1..N : c[i] = IF i \in Cuts(b, p) THEN EndOfLine ELSE b[i]
  <2>1. /\ Len(line) \in Nat /\ p \in Nat /\ p >= 1 /\ e \in Nat /\ e > p /\ e <= N
        /\ \A i \in p..(e - 1) : b[i] = line[i] /\ i \in 1..N
        /\ {i \in p..(e - 1) : line[i] = Quote} = {p, e - 1}
        /\ b[e] # Quote /\ c \in Seq(Characters) /\ Len(c) = N
        /\ \A i \in 1..N : c[i] = IF i \in Cuts(b, p) THEN EndOfLine ELSE b[i]
    BY ArgumentIs
  <2> HIDE DEF c, e
  <2>2. e > p + 1
    BY <2>1 DEF e
  <2>3. \A i \in p..(e - 1) : line[i] = Quote <=> i = p \/ i = e - 1
    BY <2>1
  <2> QED
    BY <2>1, <2>2, <2>3
<1> HIDE DEF c
<1>2. ArgStart(b, p) = p + 1 /\ b[p] = Quote /\ b[e - 1] = Quote
  <2>1. p \in p..(e - 1) /\ e - 1 \in p..(e - 1)
    BY <1>1
  <2> QED
    BY <1>1, <2>1 DEF ArgStart
<1>3. /\ SignsOf(b, p) = {i \in (p + 2)..(e - 1) : line[i] = "="}
      /\ SignsOf(b, p) # {} => /\ g \in (p + 2)..(e - 1) /\ line[g] = "="
                               /\ \A i \in (p + 2)..(g - 1) : line[i] # "="
  <2>1. p + 1 + 1 = p + 2
    BY <1>1
  <2> QED
    BY <1>2, <2>1, SignIs
<1>4. LastQuote(b, p)
  BY <1>1, <1>2 DEF LastQuote
<1>5. Cuts(b, p) = {e, e - 1} \cup (IF SignsOf(b, p) # {} THEN {g} ELSE {})
  BY <1>4 DEF Cuts
<1>6. IsPart(Bare(D), p + 1, e - 2 - p)
  <2>1. Min(QuotesIn(D)) = p
    <3>1. QuotesIn(D) = {p, e - 1}
      OBVIOUS
    <3> HIDE DEF D, e
    <3>2. p \in Int /\ e - 1 \in Int /\ p < e - 1
      BY <1>1
    <3> QED
      BY <3>1, <3>2, MinOfPair
  <2>2. Bare(D) = SubSeq(line, p, p - 1) \o SubSeq(line, p + 1, e - 2)
    <3>1. D[1] = p /\ D[2] = e - 1
      OBVIOUS
    <3>2. QuotesIn(D) # {}
      OBVIOUS
    <3> HIDE DEF D, e
    <3>3. e - 1 - 1 = e - 2
      BY <1>1
    <3> QED
      BY <2>1, <3>1, <3>2, <3>3 DEF Bare
  <2>3. SubSeq(line, p, p - 1) = <<>>
    BY <1>1, SubSeqEmpty
  <2>4. IsPart(SubSeq(line, p + 1, e - 2), p + 1, e - 2 - p)
    <3>1. p + 1 \in Nat /\ e - 2 \in Nat /\ p + 1 >= 1 /\ e - 2 + 1 >= p + 1 /\ e - 2 <= Len(line)
          /\ e - 2 - (p + 1) + 1 = e - 2 - p
      BY <1>1
    <3> QED
      BY <3>1, StretchIs
  <2>5. <<>> \o SubSeq(line, p + 1, e - 2) = SubSeq(line, p + 1, e - 2)
    BY <2>4 DEF IsPart
  <2> QED
    BY <2>2, <2>3, <2>4, <2>5
<1> HIDE DEF e, g
<1>7. CASE SignsOf(b, p) = {}
  <2>1. c[e - 1] = EndOfLine /\ \A i \in (p + 1)..(e - 1 - 1) : c[i] = line[i]
    <3>1. \A i \in (p + 1)..(e - 1 - 1) : i \in 1..N /\ i \notin Cuts(b, p) /\ i \in p..(e - 1)
      BY <1>1, <1>5, <1>7
    <3>2. e - 1 \in 1..N /\ e - 1 \in Cuts(b, p)
      BY <1>1, <1>5
    <3> QED
      BY <1>1, <3>1, <3>2
  <2>2. IsPart(StringAt(c, p + 1), p + 1, e - 2 - p)
    <3>1. p + 1 \in 1..N /\ e - 1 \in (p + 1)..N /\ e - 1 - (p + 1) = e - 2 - p
      BY <1>1
    <3>2. IsPart(StringAt(c, p + 1), p + 1, e - 1 - (p + 1))
      BY <1>1, <2>1, <3>1, StringOf
    <3> QED
      BY <3>1, <3>2
  <2>3. NextArg(b, p).param = StringAt(c, p + 1) /\ NextArg(b, p).val = NoValue
    BY <1>2, <1>7, NextArgIs DEF c
  <2>4. \A i \in (p + 1 + 1)..(p + 1 + (e - 2 - p) - 1) : line[i] # "="
    BY <1>1, <1>3, <1>7
  <2>5. e - 2 - p \in Nat /\ p + 1 \in Nat
    BY <1>1
  <2>6. IsRead(StringAt(c, p + 1), NoValue, Bare(D))
    BY <1>6, <2>2, <2>4, <2>5, ReadWhole
  <2> QED
    BY <2>3, <2>6 DEF e
<1>8. CASE SignsOf(b, p) # {}
  <2>1. g \in (p + 2)..(e - 1) /\ line[g] = "=" /\ \A i \in (p + 2)..(g - 1) : line[i] # "="
    BY <1>3, <1>8
  <2>2. g \in Nat /\ g > p + 1 /\ g < e - 1
    <3>1. e - 1 \in p..(e - 1) /\ line[e - 1] = Quote
      BY <1>1
    <3>2. g # e - 1
      BY <2>1, <3>1 DEF Quote
    <3> QED
      BY <1>1, <2>1, <3>2
  <2>3. c[g] = EndOfLine /\ c[e - 1] = EndOfLine /\ c[e] = EndOfLine
        /\ (\A i \in (p + 1)..(g - 1) : c[i] = line[i]) /\ \A i \in (g + 1)..(e - 1 - 1) : c[i] = line[i]
    <3>1. \A i \in p..(e - 2) : i # g => i \in 1..N /\ i \notin Cuts(b, p)
      BY <1>1, <1>5, <1>8
    <3>2. e \in 1..N /\ e \in Cuts(b, p) /\ g \in 1..N /\ g \in Cuts(b, p)
          /\ e - 1 \in 1..N /\ e - 1 \in Cuts(b, p)
      BY <1>1, <1>5, <1>8, <2>2
    <3>3. ASSUME NEW i \in p..(e - 2), i # g PROVE c[i] = line[i]
      <4>1. i \in 1..N /\ i \notin Cuts(b, p)
        BY <3>1, <3>3
      <4>2. i \in p..(e - 1)
        BY <1>1
      <4>3. b[i] = line[i]
        BY <1>1, <4>2
      <4>4. c[i] = b[i]
        BY <1>1, <4>1
      <4> QED
        BY <4>3, <4>4
    <3>4. \A i : i \in (p + 1)..(g - 1) \/ i \in (g + 1)..(e - 1 - 1) => i \in p..(e - 2) /\ i # g
      BY <1>1, <2>2
    <3> QED
      BY <1>1, <3>2, <3>3, <3>4
  <2>4. IsPart(StringAt(c, p + 1), p + 1, g - (p + 1))
    <3>1. p + 1 \in 1..N /\ g \in (p + 1)..N
      BY <1>1, <2>2
    <3> QED
      BY <1>1, <2>3, <3>1, StringOf
  <2>5. IsPart(NextArg(b, p).val, g + 1, e - 2 - g)
    <3>1. NextArg(b, p).val = StringAt(c, ValueStart(b, p))
      BY <1>8, NextArgIs DEF c
    <3>2. CASE b[g + 1] = Quote
      <4>1. ValueStart(b, p) = e /\ g + 1 = e - 1
        <5>1. g + 1 \in p..(e - 1)
          BY <1>1, <2>2
        <5>2. g + 1 = e - 1
          BY <1>1, <2>2, <3>2, <5>1
        <5>3. QuotedValue(b, p)
          BY <1>8, <3>2 DEF QuotedValue, g
        <5>4. ValueStart(b, p) = g + 2
          BY <5>3 DEF ValueStart, g
        <5> QED
          BY <1>1, <2>2, <5>2, <5>4
      <4>2. IsPart(StringAt(c, e), e, e - e)
        <5>1. e \in 1..N /\ e \in e..N /\ \A i \in e..(e - 1) : c[i] = line[i]
          BY <1>1
        <5> QED
          BY <1>1, <2>3, <5>1, StringOf
      <4>3. e - e = 0 /\ e - 2 - g = 0
        BY <1>1, <2>2, <4>1
      <4> QED
        BY <3>1, <4>1, <4>2, <4>3 DEF IsPart
    <3>3. CASE b[g + 1] # Quote
      <4>1. ValueStart(b, p) = g + 1
        BY <3>3 DEF ValueStart, QuotedValue, g
      <4>2. g + 1 \in 1..N /\ e - 1 \in (g + 1)..N /\ e - 1 - (g + 1) = e - 2 - g
        BY <1>1, <2>2
      <4>3. IsPart(StringAt(c, g + 1), g + 1, e - 1 - (g + 1))
        BY <1>1, <2>3, <4>2, StringOf
      <4> QED
        BY <3>1, <4>1, <4>2, <4>3
    <3> QED
      BY <3>2, <3>3
  <2>6. NextArg(b, p).param = StringAt(c, p + 1)
    BY <1>2, NextArgIs DEF c
  <2>7. /\ e - 2 - p \in Nat /\ p + 1 \in Nat /\ g \in (p + 1 + 1)..(p + 1 + (e - 2 - p) - 1)
        /\ e - 2 - g = p + 1 + (e - 2 - p) - 1 - g
        /\ \A i \in (p + 1 + 1)..(g - 1) : line[i] # "="
    BY <1>1, <2>1, <2>2
  <2>8. IsRead(StringAt(c, p + 1), NextArg(b, p).val, Bare(D))
    BY <1>6, <2>1, <2>4, <2>5, <2>7, ReadParts
  <2> QED
    BY <2>6, <2>8 DEF e
<1> QED
  BY <1>7, <1>8

(* An argument with quotes around its value, without them.                 *)
LEMMA BareValue ==
  ASSUME IsLine, NEW p \in Nat, NEW q \in Nat, NEW e \in Nat, p >= 1, p < q, q < e - 1, e <= Len(line) + 1,
         QuotesIn(<<p, e - 1>>) = {q, e - 1}
  PROVE  /\ Bare(<<p, e - 1>>) \in Seq(STRING \ {EndOfLine})
         /\ Len(Bare(<<p, e - 1>>)) = e - 2 - p
         /\ \A i \in 1..(q - p) : Bare(<<p, e - 1>>)[i] = line[p + i - 1]
         /\ \A i \in 1..(e - 2 - q) : Bare(<<p, e - 1>>)[q - p + i] = line[q + i]
<1> DEFINE D == <<p, e - 1>>
           T == STRING \ {EndOfLine}
           x == SubSeq(line, p, q - 1)
           y == SubSeq(line, q + 1, e - 2)
<1>1. Len(line) \in Nat
  BY LineFields
<1>2. Min(QuotesIn(D)) = q
  <2>1. q \in Int /\ e - 1 \in Int /\ q < e - 1
    OBVIOUS
  <2> QED
    BY <2>1, MinOfPair
<1>3. Bare(D) = x \o y
  <2>1. D[1] = p /\ D[2] = e - 1
    OBVIOUS
  <2>2. QuotesIn(D) # {}
    OBVIOUS
  <2> HIDE DEF D
  <2>3. e - 1 - 1 = e - 2
    OBVIOUS
  <2> QED
    BY <1>2, <2>1, <2>2, <2>3 DEF Bare
<1>4. IsPart(x, p, q - p)
  <2>1. q - 1 \in Nat /\ q - 1 + 1 >= p /\ q - 1 <= Len(line) /\ q - 1 - p + 1 = q - p
    BY <1>1
  <2> QED
    BY <2>1, StretchIs
<1>5. IsPart(y, q + 1, e - 2 - q)
  <2>1. q + 1 \in Nat /\ e - 2 \in Nat /\ q + 1 >= 1 /\ e - 2 + 1 >= q + 1 /\ e - 2 <= Len(line)
        /\ e - 2 - (q + 1) + 1 = e - 2 - q
    BY <1>1
  <2> QED
    BY <2>1, StretchIs
<1> HIDE DEF x, y
<1>6. x \in Seq(T) /\ y \in Seq(T) /\ Len(x) = q - p /\ Len(y) = e - 2 - q
  BY <1>4, <1>5 DEF IsPart
<1>7. /\ x \o y \in Seq(T) /\ Len(x \o y) = Len(x) + Len(y)
      /\ \A i \in 1..(Len(x) + Len(y)) : (x \o y)[i] = IF i <= Len(x) THEN x[i] ELSE y[i - Len(x)]
  BY <1>6, ConcatProperties, ZenonT(40)
<1>8. Len(x \o y) = e - 2 - p
  BY <1>6, <1>7
<1>9. \A i \in 1..(q - p) : (x \o y)[i] = line[p + i - 1]
  <2>1. TAKE i \in 1..(q - p)
  <2>2. i \in 1..(Len(x) + Len(y)) /\ i <= Len(x)
    BY <1>6
  <2>3. (x \o y)[i] = x[i]
    BY <1>7, <2>2
  <2> QED
    BY <1>4, <2>3 DEF IsPart
<1>10. \A i \in 1..(e - 2 - q) : (x \o y)[q - p + i] = line[q + i]
  <2>1. TAKE i \in 1..(e - 2 - q)
  <2>2. q - p + i \in 1..(Len(x) + Len(y)) /\ ~(q - p + i <= Len(x)) /\ q - p + i - Len(x) = i
    BY <1>6
  <2>3. (x \o y)[q - p + i] = y[i]
    <3>1. PICK j \in 1..(Len(x) + Len(y)) : j = q - p + i /\ ~(j <= Len(x)) /\ j - Len(x) = i
      BY <2>2
    <3>2. (x \o y)[j] = y[j - Len(x)]
      BY <1>7, <3>1
    <3> QED
      BY <3>1, <3>2
  <2>4. y[i] = line[q + 1 + i - 1] /\ q + 1 + i - 1 = q + i
    BY <1>5 DEF IsPart
  <2> QED
    BY <2>3, <2>4
<1> QED
  BY <1>3, <1>7, <1>8, <1>9, <1>10

(* Such an argument is read in the two parts that the sign in front of the *)
(* quote separates, or begins with a sign.                                 *)
LEMMA ReadValue ==
  ASSUME IsLine, NEW p, AtArgument(p), NEW b, IsCopy(b, p), NEW q \in (p + 1)..(ArgStop(b, p) - 2),
         QuotesIn(<<p, ArgStop(b, p) - 1>>) = {q, ArgStop(b, p) - 1},
         {i \in p..q : line[i] = "="} = {q - 1}
  PROVE  IsRead(NextArg(b, p).param, NextArg(b, p).val, Bare(<<p, ArgStop(b, p) - 1>>))
<1> DEFINE e == ArgStop(b, p)
           c == NextArg(b, p).buf
           N == Len(line) + 1
           g == Sign(b, p)
           s == Bare(<<p, e - 1>>)
<1>1. /\ Len(line) \in Nat /\ p \in Nat /\ p >= 1 /\ e \in Nat /\ e > p /\ e <= N
      /\ q \in Nat /\ q > p /\ q < e - 1
      /\ \A i \in p..(e - 1) : b[i] = line[i] /\ i \in 1..N
      /\ \A i \in p..(e - 1) : line[i] = Quote <=> i = q \/ i = e - 1
      /\ \A i \in p..q : line[i] = "=" <=> i = q - 1
      /\ b[e] # Quote /\ c \in Seq(Characters) /\ Len(c) = N
      /\ \A i \in 1..N : c[i] = IF i \in Cuts(b, p) THEN EndOfLine ELSE b[i]
  <2>1. /\ Len(line) \in Nat /\ p \in Nat /\ p >= 1 /\ e \in Nat /\ e > p /\ e <= N
        /\ \A i \in p..(e - 1) : b[i] = line[i] /\ i \in 1..N
        /\ {i \in p..(e - 1) : line[i] = Quote} = {q, e - 1}
        /\ b[e] # Quote /\ c \in Seq(Characters) /\ Len(c) = N
        /\ \A i \in 1..N : c[i] = IF i \in Cuts(b, p) THEN EndOfLine ELSE b[i]
    BY ArgumentIs
  <2>2. q \in (p + 1)..(e - 2)
    OBVIOUS
  <2> HIDE DEF c, e
  <2>3. q \in Nat /\ q > p /\ q < e - 1
    BY <2>1, <2>2
  <2>4. \A i \in p..(e - 1) : line[i] = Quote <=> i = q \/ i = e - 1
    BY <2>1
  <2>5. \A i \in p..q : line[i] = "=" <=> i = q - 1
    OBVIOUS
  <2> QED
    BY <2>1, <2>3, <2>4, <2>5
<1> HIDE DEF c
<1>2. ArgStart(b, p) = p /\ b[q] = Quote /\ b[e - 1] = Quote /\ b[p] # Quote
  <2>1. p \in p..(e - 1) /\ q \in p..(e - 1) /\ e - 1 \in p..(e - 1) /\ p # q /\ p # e - 1
    BY <1>1
  <2> QED
    BY <1>1, <2>1 DEF ArgStart
<1>3. /\ SignsOf(b, p) = {i \in (p + 1)..(e - 1) : line[i] = "="}
      /\ SignsOf(b, p) # {} => /\ g \in (p + 1)..(e - 1) /\ line[g] = "="
                               /\ \A i \in (p + 1)..(g - 1) : line[i] # "="
  BY <1>2, SignIs
<1>4. /\ s \in Seq(STRING \ {EndOfLine}) /\ Len(s) = e - 2 - p
      /\ \A i \in 1..(q - p) : s[i] = line[p + i - 1]
      /\ \A i \in 1..(e - 2 - q) : s[q - p + i] = line[q + i]
  <2>1. QuotesIn(<<p, e - 1>>) = {q, e - 1}
    OBVIOUS
  <2>2. p \in Nat /\ q \in Nat /\ e \in Nat /\ p >= 1 /\ p < q /\ q < e - 1 /\ e <= Len(line) + 1
    BY <1>1
  <2> HIDE DEF e
  <2> QED
    BY <2>1, <2>2, BareValue, ZenonT(60) DEF s
<1>5. NextArg(b, p).param = StringAt(c, p)
  BY <1>2, NextArgIs DEF c
<1> HIDE DEF s
<1>6. CASE q - 1 = p
  <2> DEFINE m == IF SignsOf(b, p) # {} THEN g ELSE IF LastQuote(b, p) THEN e - 1 ELSE e
  <2>1. m \in (p + 1)..e /\ m \in Cuts(b, p)
    <3>1. SignsOf(b, p) # {} => g \in (p + 1)..e
      BY <1>1, <1>3
    <3>2. e - 1 \in (p + 1)..e /\ e \in (p + 1)..e
      BY <1>1
    <3> QED
      BY <3>1, <3>2 DEF Cuts
  <2>2. \A i \in p..(m - 1) : i \notin Cuts(b, p)
    <3>1. SignsOf(b, p) # {} => g < e - 1
      <4>1. e - 1 \in p..(e - 1) /\ line[e - 1] = Quote
        BY <1>1
      <4>2. SignsOf(b, p) # {} => g # e - 1 /\ g \in (p + 1)..(e - 1)
        BY <1>3, <4>1 DEF Quote
      <4>3. e \in Nat
        BY <1>1
      <4> HIDE DEF e, g
      <4>4. CASE SignsOf(b, p) # {}
        BY <4>2, <4>3, <4>4
      <4> QED
        BY <4>4
    <3>2. \A i : i \in Cuts(b, p) => \/ i = e
                                     \/ (i = g /\ SignsOf(b, p) # {})
                                     \/ (i = e - 1 /\ LastQuote(b, p))
      BY DEF Cuts
    <3> HIDE DEF e, g
    <3>3. \A i \in Int : i <= m - 1 => i # e /\ (SignsOf(b, p) # {} => i # g)
                                        /\ (LastQuote(b, p) => i # e - 1)
      <4>1. SignsOf(b, p) # {} => g \in Nat
        BY <1>1, <1>3
      <4>2. CASE SignsOf(b, p) # {}
        BY <1>1, <3>1, <4>1, <4>2
      <4>3. CASE SignsOf(b, p) = {}
        BY <1>1, <4>3
      <4> QED
        BY <4>2, <4>3
    <3>4. \A i \in p..(m - 1) : i \in Int /\ i <= m - 1
      OBVIOUS
    <3> QED
      BY <3>2, <3>3, <3>4
  <2> HIDE DEF m, e
  <2>3. m \in Nat /\ m > p /\ m <= e
    BY <1>1, <2>1
  <2>4. c[m] = EndOfLine /\ \A i \in p..(m - 1) : c[i] = line[i]
    <3>1. m \in 1..N
      BY <1>1, <2>3
    <3>2. \A i \in p..(m - 1) : i \in p..(e - 1)
      BY <1>1, <2>3
    <3> QED
      BY <1>1, <2>1, <2>2, <3>1, <3>2
  <2>5. IsPart(StringAt(c, p), p, m - p)
    <3>1. p \in 1..N /\ m \in p..N
      BY <1>1, <2>3
    <3> QED
      BY <1>1, <2>4, <3>1, StringOf
  <2>6. line[p] = "=" /\ 1 \in 1..(m - p) /\ 1 \in 1..(q - p) /\ p + 1 - 1 = p /\ m - p >= 1
    <3>1. p \in p..q /\ p = q - 1
      BY <1>1, <1>6
    <3> QED
      BY <1>1, <2>3, <3>1
  <2> DEFINE u == StringAt(c, p)
  <2> HIDE DEF u
  <2>7. u \in Seq(STRING \ {EndOfLine}) /\ Len(u) >= 1 /\ u[1] = "="
    BY <2>5, <2>6 DEF IsPart, u
  <2>8. s[1] = "=" /\ Len(s) >= 1
    BY <1>1, <1>4, <2>6
  <2> QED
    BY <1>4, <1>5, <2>7, <2>8 DEF IsRead, u, s, e
<1>7. CASE q - 1 # p
  <2>1. q - 1 \in SignsOf(b, p)
    <3>1. q - 1 \in p..q /\ q - 1 \in (p + 1)..(e - 1)
      BY <1>1, <1>7
    <3> QED
      BY <1>1, <1>3, <3>1
  <2>2. g = q - 1
    <3>1. g \in (p + 1)..(e - 1) /\ line[g] = "=" /\ \A i \in (p + 1)..(g - 1) : line[i] # "="
      BY <1>3, <2>1
    <3>2. q - 1 \in (p + 1)..(e - 1) /\ line[q - 1] = "="
      BY <1>3, <2>1
    <3> HIDE DEF g, e
    <3>3. ~(q - 1 < g)
      <4>1. q - 1 < g => q - 1 \in (p + 1)..(g - 1)
        BY <1>1, <3>1, <3>2
      <4> QED
        BY <3>1, <3>2, <4>1
    <3>4. ~(g < q - 1)
      <4>1. g < q - 1 => g \in p..q /\ g # q - 1
        BY <1>1, <3>1
      <4> QED
        BY <1>1, <3>1, <4>1
    <3> QED
      BY <1>1, <3>1, <3>3, <3>4
  <2>3. QuotedValue(b, p) /\ ValueStart(b, p) = q + 1
    <3>1. Sign(b, p) + 1 = q /\ Sign(b, p) + 2 = q + 1
      BY <1>1, <2>2
    <3> QED
      BY <1>2, <2>1, <3>1 DEF QuotedValue, ValueStart
  <2>4. LastQuote(b, p)
    BY <1>1, <1>2, <2>3 DEF LastQuote
  <2>5. Cuts(b, p) = {e, q - 1, e - 1}
    BY <2>1, <2>2, <2>4 DEF Cuts
  <2> HIDE DEF e, g
  <2>6. c[q - 1] = EndOfLine /\ c[e - 1] = EndOfLine
        /\ (\A i \in p..(q - 1 - 1) : c[i] = line[i]) /\ \A i \in (q + 1)..(e - 1 - 1) : c[i] = line[i]
    <3>1. q - 1 \in 1..N /\ e - 1 \in 1..N
      BY <1>1
    <3>2. \A i : i \in p..(q - 1 - 1) \/ i \in (q + 1)..(e - 1 - 1) =>
                   i \in p..(e - 1) /\ i \in 1..N /\ i \notin {e, q - 1, e - 1}
      BY <1>1
    <3> QED
      BY <1>1, <2>5, <3>1, <3>2
  <2>7. IsPart(StringAt(c, p), p, q - 1 - p)
    <3>1. p \in 1..N /\ q - 1 \in p..N
      BY <1>1
    <3> QED
      BY <1>1, <2>6, <3>1, StringOf
  <2>8. IsPart(StringAt(c, q + 1), q + 1, e - 1 - (q + 1))
    <3>1. q + 1 \in 1..N /\ e - 1 \in (q + 1)..N
      BY <1>1
    <3> QED
      BY <1>1, <2>6, <3>1, StringOf
  <2>9. NextArg(b, p).val = StringAt(c, q + 1)
    BY <2>1, <2>3, NextArgIs DEF c
  <2> DEFINE u == StringAt(c, p)
             v == StringAt(c, q + 1)
             k == q - p
  <2> HIDE DEF u, v
  <2>10. k \in 2..Len(s) /\ k \in Nat /\ k - 1 = q - 1 - p /\ Len(s) - k = e - 1 - (q + 1)
         /\ e - 1 - (q + 1) = e - 2 - q
    BY <1>1, <1>4, <1>7
  <2>11. s[k] = "=" /\ \A i \in 2..(k - 1) : s[i] # "="
    <3>1. PICK j \in 1..(q - p) : j = k /\ p + j - 1 = q - 1 /\ q - 1 \in p..q
      BY <1>1, <2>10
    <3>0. s[j] = line[p + j - 1] /\ line[q - 1] = "="
      BY <1>1, <1>4, <3>1
    <3>2. \A i \in 2..(k - 1) : i \in 1..(q - p) /\ p + i - 1 \in p..q /\ p + i - 1 # q - 1
      BY <1>1, <2>10
    <3>3. \A i \in 2..(k - 1) : s[i] = line[p + i - 1] /\ line[p + i - 1] # "="
      BY <1>1, <1>4, <3>2
    <3> QED
      BY <3>0, <3>1, <3>3
  <2>12. Agrees(u, s, 0, k - 1)
    <3>1. \A i \in 1..(k - 1) : u[i] = s[0 + i]
      <4>1. TAKE i \in 1..(k - 1)
      <4>2. i \in 1..(q - p) /\ i \in 1..(q - 1 - p) /\ 0 + i = i
        BY <1>1
      <4>3. u[i] = line[p + i - 1]
        BY <2>7, <4>2 DEF IsPart, u
      <4> QED
        BY <1>4, <4>2, <4>3
    <3>2. u \in Seq(STRING \ {EndOfLine}) /\ Len(u) = k - 1
      BY <2>7, <2>10 DEF IsPart, u
    <3> QED
      BY <3>1, <3>2 DEF Agrees
  <2>13. Agrees(v, s, k, Len(s) - k)
    <3>1. \A i \in 1..(e - 2 - q) : v[i] = s[k + i]
      <4>1. TAKE i \in 1..(e - 2 - q)
      <4>2. i \in 1..(e - 1 - (q + 1)) /\ q + 1 + i - 1 = q + i
        BY <1>1
      <4>3. v[i] = line[q + i]
        BY <2>8, <4>2 DEF IsPart, v
      <4> QED
        BY <1>4, <4>3
    <3>2. v \in Seq(STRING \ {EndOfLine}) /\ Len(v) = Len(s) - k
      BY <2>8, <2>10 DEF IsPart, v
    <3> QED
      BY <2>10, <3>1, <3>2 DEF Agrees
  <2> HIDE DEF k
  <2>14. IsRead(u, v, s)
    BY <1>4, <2>10, <2>11, <2>12, <2>13 DEF IsRead, Agrees
  <2> QED
    BY <1>5, <2>9, <2>14 DEF u, v, s, e
<1> QED
  BY <1>6, <1>7

(* However an argument is quoted, its name and its value are read.         *)
LEMMA ArgumentRead ==
  ASSUME IsLine, NEW p, AtArgument(p), NEW b, IsCopy(b, p), WellQuoted(<<p, ArgStop(b, p) - 1>>)
  PROVE  IsRead(NextArg(b, p).param, NextArg(b, p).val, Bare(<<p, ArgStop(b, p) - 1>>))
<1> DEFINE e == ArgStop(b, p)
           D == <<p, e - 1>>
           q == Min(QuotesIn(D))
<1>1. CASE QuotesIn(D) = {}
  BY <1>1, ReadBare
<1>2. CASE QuotesIn(D) # {}
  <2>1. p \in Nat /\ e \in Nat /\ e > p /\ QuotesIn(D) = {i \in p..(e - 1) : line[i] = Quote}
    BY ArgumentIs
  <2>2. D[1] = p /\ D[2] = e - 1
    OBVIOUS
  <2>3. /\ QuotesIn(D) = {q, e - 1} /\ q # e - 1
        /\ q = p \/ {i \in p..q : line[i] = "="} = {q - 1}
    <3> HIDE DEF D
    <3> QED
      BY <1>2, <2>2 DEF WellQuoted, D
  <2>4. q \in p..(e - 1) /\ line[q] = Quote
    <3> HIDE DEF q
    <3> QED
      BY <2>1, <2>3
  <2>5. CASE q = p
    <3> HIDE DEF q
    <3>1. QuotesIn(<<p, ArgStop(b, p) - 1>>) = {p, ArgStop(b, p) - 1} /\ p # ArgStop(b, p) - 1
      BY <2>3, <2>5
    <3> QED
      BY <3>1, ReadQuoted
  <2>6. CASE q # p
    <3>1. PICK r \in (p + 1)..(e - 2) : r = q
      <4> HIDE DEF q, e
      <4> QED
        BY <2>1, <2>3, <2>4, <2>6
    <3>2. QuotesIn(<<p, ArgStop(b, p) - 1>>) = {r, ArgStop(b, p) - 1} /\ {i \in p..r : line[i] = "="} = {r - 1}
      <4> HIDE DEF q
      <4> QED
        BY <2>3, <2>6, <3>1
    <3> QED
      BY <3>1, <3>2, ReadValue
  <2> QED
    BY <2>5, <2>6
<1> QED
  BY <1>1, <1>2

(* What it gives a name, by IsPrefix.                                      *)
LEMMA GivesIs ==
  ASSUME NEW arg, NEW name, Bare(arg) \in Seq(STRING)
  PROVE  Gives(arg, name) <=> Len(Bare(arg)) >= 2 /\ Bare(arg)[1] = name /\ Bare(arg)[2] = "="
<1> DEFINE s == Bare(arg)
           t == <<name, "=">>
<1>1. Len(t) = 2 /\ t[1] = name /\ t[2] = "="
  OBVIOUS
<1>2. Gives(arg, name) <=> Len(t) <= Len(s) /\ \A i \in 1..Len(t) : t[i] = s[i]
  BY DEF Gives, IsPrefix
<1> HIDE DEF s, t
<1>3. \A i \in 1..2 : i = 1 \/ i = 2
  OBVIOUS
<1>4. s \in Seq(STRING) /\ Len(s) \in Nat
  BY DEF s
<1>5. 1 \in 1..2 /\ 2 \in 1..2
  OBVIOUS
<1> QED
  BY <1>1, <1>2, <1>3, <1>4, <1>5 DEF s

(* The names that ParseArgument looks for.                                 *)
LEMMA ReadNames ==
  ASSUME NEW arg, NEW param, NEW val, IsRead(param, val, Bare(arg))
  PROVE  /\ (val = NoValue /\ param = <<"--">>) <=> Bare(arg) = <<"--">>
         /\ param = <<"noinitrd">> <=> (Bare(arg) = <<"noinitrd">> \/ Gives(arg, "noinitrd"))
         /\ (param = <<"efi">> /\ val # NoValue) <=> Gives(arg, "efi")
         /\ Gives(arg, "efi") =>
              Agrees(val, Bare(arg), 2, Len(Bare(arg)) - 2) /\ Len(Bare(arg)) \in Nat /\ Len(Bare(arg)) >= 2
<1> DEFINE s == Bare(arg)
<1>1. /\ s \in Seq(STRING \ {EndOfLine}) /\ Len(s) \in Nat /\ s \in Seq(STRING)
      /\ param \in Seq(STRING \ {EndOfLine}) /\ Len(param) \in Nat
  BY DEF IsRead
<1>3. NoValue \notin Seq(STRING \ {EndOfLine})
  <2>1. SUFFICES ASSUME NoValue \in Seq(STRING \ {EndOfLine}) PROVE FALSE
    OBVIOUS
  <2>2. Len(NoValue) = 1 /\ NoValue[1] = EndOfLine
    BY DEF NoValue
  <2> HIDE DEF NoValue
  <2> QED
    BY <2>1, <2>2
<1>4. \A u \in Seq(STRING \ {EndOfLine}) : \A name : u = <<name>> <=> Len(u) = 1 /\ u[1] = name
  OBVIOUS
<1>5. /\ Gives(arg, "noinitrd") <=> (Len(s) >= 2 /\ s[1] = "noinitrd" /\ s[2] = "=")
      /\ Gives(arg, "efi") <=> (Len(s) >= 2 /\ s[1] = "efi" /\ s[2] = "=")
  BY <1>1, GivesIs
<1> HIDE DEF s
<1>6. CASE \E k \in 2..Len(s) : /\ s[k] = "=" /\ \A i \in 2..(k - 1) : s[i] # "="
                                /\ Agrees(param, s, 0, k - 1) /\ Agrees(val, s, k, Len(s) - k)
  <2>1. PICK k \in 2..Len(s) : /\ s[k] = "=" /\ \A i \in 2..(k - 1) : s[i] # "="
                               /\ Agrees(param, s, 0, k - 1) /\ Agrees(val, s, k, Len(s) - k)
    BY <1>6
  <2>2. /\ k \in Nat /\ k >= 2 /\ k <= Len(s)
        /\ Len(param) = k - 1 /\ \A i \in 1..(k - 1) : param[i] = s[0 + i]
    BY <1>1, <2>1 DEF Agrees
  <2>3. param[1] = s[1]
    BY <2>2
  <2>4. val # NoValue
    BY <1>3, <2>1 DEF Agrees
  <2>5. Len(s) # 1
    BY <1>1, <2>2
  <2>6. Len(param) = 1 <=> s[2] = "="
    <3>1. k = 2 => s[2] = "=" /\ Len(param) = 1
      BY <2>1, <2>2
    <3>2. k # 2 => s[2] # "=" /\ Len(param) # 1
      BY <2>1, <2>2
    <3> QED
      BY <3>1, <3>2
  <2>7. s[2] = "=" => k = 2
    BY <2>2, <2>6
  <2> QED
    BY <1>1, <1>4, <1>5, <2>1, <2>2, <2>3, <2>4, <2>5, <2>6, <2>7, ZenonT(40) DEF s
<1>7. CASE val = NoValue /\ param = s /\ \A i \in 2..Len(s) : s[i] # "="
  <2>1. ~(Len(s) >= 2 /\ s[2] = "=")
    BY <1>1, <1>7
  <2> QED
    BY <1>5, <1>7, <2>1 DEF s
<1>8. CASE Len(s) >= 1 /\ s[1] = "=" /\ Len(param) >= 1 /\ param[1] = "="
  BY <1>1, <1>4, <1>5, <1>8 DEF s
<1> QED
  BY <1>6, <1>7, <1>8 DEF IsRead, s

(* An option is found in the value when the argument asks for it.          *)
LEMMA AsksIs ==
  ASSUME NEW arg, NEW val, NEW option, Bare(arg) \in Seq(STRING \ {EndOfLine}), Gives(arg, "efi"),
         Len(Bare(arg)) \in Nat, Len(Bare(arg)) >= 2, Agrees(val, Bare(arg), 2, Len(Bare(arg)) - 2)
  PROVE  ParseOptionStr(val, option) <=> Asks(arg, option)
<1> DEFINE s == Bare(arg)
           L == Len(s)
           In(i) == /\ val[i] = option
                    /\ i = 1 \/ val[i - 1] = ","
                    /\ i = Len(val) \/ val[i + 1] = ","
           At(i) == /\ s[i] = option
                    /\ s[i - 1] = "," \/ i = 3
                    /\ s[Min({i + 1, L})] = "," \/ i = L
<1>1. L \in Nat /\ L >= 2 /\ Len(val) = L - 2 /\ \A i \in 1..(L - 2) : val[i] = s[2 + i]
  BY DEF Agrees
<1>2. ParseOptionStr(val, option) <=> \E i \in 1..Len(val) : In(i)
  BY DEF ParseOptionStr
<1>3. Asks(arg, option) <=> \E i \in 3..L : At(i)
  <2> DEFINE E == \E i \in 3..L : At(i)
             G == Gives(arg, "efi")
  <2>1. Asks(arg, option) <=> G /\ E
    BY Zenon DEF Asks
  <2>2. G
    OBVIOUS
  <2> HIDE DEF E, G
  <2>3. Asks(arg, option) <=> E
    BY <2>1, <2>2
  <2> QED
    BY <2>3, Zenon DEF E
<1> HIDE DEF s, L
<1>4. ASSUME NEW i \in 1..(L - 2), NEW j \in 3..L, j = i + 2
      PROVE  In(i) <=> At(j)
  <2>1. val[i] = s[j]
    <3>1. val[i] = s[2 + i] /\ 2 + i = j
      BY <1>1, <1>4
    <3> QED
      BY <3>1
  <2>2. i # 1 => val[i - 1] = s[j - 1]
    <3>1. i # 1 => i - 1 \in 1..(L - 2) /\ 2 + (i - 1) = j - 1
      BY <1>1, <1>4
    <3> QED
      BY <1>1, <3>1
  <2>3. i # L - 2 => val[i + 1] = s[Min({j + 1, L})]
    <3>1. i # L - 2 => i + 1 \in 1..(L - 2) /\ 2 + (i + 1) = j + 1 /\ j + 1 <= L /\ j + 1 \in Nat
      BY <1>1, <1>4
    <3>2. ASSUME j + 1 \in Nat, j + 1 <= L
          PROVE  Min({j + 1, L}) = j + 1
      <4>1. {j + 1, L} \subseteq Nat /\ {j + 1, L} # {}
        BY <1>1, <3>2
      <4>2. Min({j + 1, L}) \in {j + 1, L} /\ Min({j + 1, L}) \in Nat /\ \A y \in {j + 1, L} : Min({j + 1, L}) <= y
        BY <4>1, LeastIs
      <4> QED
        BY <1>1, <3>2, <4>2
    <3> QED
      BY <1>1, <3>1, <3>2
  <2>4. (i = 1 <=> j = 3) /\ (i = Len(val) <=> j = L) /\ (i = L - 2 <=> j = L)
    BY <1>1, <1>4
  <2> DEFINE w == Min({j + 1, L})
  <2> HIDE DEF w
  <2>5. i = L - 2 <=> i = Len(val)
    BY <1>1
  <2>6. /\ val[i] = s[j] /\ (i # 1 => val[i - 1] = s[j - 1])
        /\ (i # Len(val) => val[i + 1] = s[w]) /\ (i = 1 <=> j = 3) /\ (i = Len(val) <=> j = L)
    BY <2>1, <2>2, <2>3, <2>4, <2>5 DEF w
  <2> DEFINE vb == val[i - 1]
             va == val[i + 1]
             sb == s[j - 1]
             sa == s[w]
  <2> HIDE DEF va, vb, sa, sb
  <2>7. /\ val[i] = s[j] /\ (i # 1 => vb = sb) /\ (i # Len(val) => va = sa)
        /\ (i = 1 <=> j = 3) /\ (i = Len(val) <=> j = L)
    BY <2>6 DEF va, vb, sa, sb
  <2>8. (val[i] = option /\ (i = 1 \/ vb = ",") /\ (i = Len(val) \/ va = ","))
        <=> (s[j] = option /\ (sb = "," \/ j = 3) /\ (sa = "," \/ j = L))
    <3> DEFINE comma == ","
    <3> HIDE DEF comma
    <3>1. (val[i] = option /\ (i = 1 \/ vb = comma) /\ (i = Len(val) \/ va = comma))
          <=> (s[j] = option /\ (sb = comma \/ j = 3) /\ (sa = comma \/ j = L))
      BY <2>7
    <3> QED
      BY <3>1, Zenon DEF comma
  <2> QED
    BY <2>8, Zenon DEF va, vb, sa, sb, w
<1> HIDE DEF In, At
<1>5. (\E i \in 1..Len(val) : In(i)) => \E j \in 3..L : At(j)
  <2>1. SUFFICES ASSUME NEW i \in 1..Len(val), In(i) PROVE \E j \in 3..L : At(j)
    OBVIOUS
  <2>2. i \in 1..(L - 2) /\ i + 2 \in 3..L
    BY <1>1
  <2> QED
    BY <1>4, <2>1, <2>2
<1>6. (\E j \in 3..L : At(j)) => \E i \in 1..Len(val) : In(i)
  <2>1. SUFFICES ASSUME NEW j \in 3..L, At(j) PROVE \E i \in 1..Len(val) : In(i)
    OBVIOUS
  <2>2. PICK i \in 1..(L - 2) : j = i + 2
    <3>1. j - 2 \in 1..(L - 2) /\ j = j - 2 + 2
      BY <1>1
    <3> QED
      BY <3>1
  <2>3. In(i) /\ i \in 1..Len(val)
    BY <1>1, <1>4, <2>1, <2>2
  <2> QED
    BY <2>3
<1> QED
  BY <1>2, <1>3, <1>5, <1>6

(* The options of a set of arguments and one more behind them.             *)
LEMMA OptionsGrow ==
  ASSUME NEW args, NEW d, d[1] \in Nat, \A a \in args : a[1] \in Nat /\ a[1] < d[1]
  PROVE  LET o == OptionsOf(args)
             n == OptionsOf(args \cup {d})
         IN  /\ n.novamap <=> o.novamap \/ Asks(d, "novamap")
             /\ n.nochunk <=> IF Gives(d, "efi") THEN Asks(d, "nochunk") ELSE o.nochunk
             /\ n.noinitrd <=> o.noinitrd \/ Bare(d) = <<"noinitrd">> \/ Gives(d, "noinitrd")
             /\ n.disable_pci_dma <=>
                  IF Asks(d, "no_disable_early_pci_dma") THEN FALSE
                  ELSE o.disable_pci_dma \/ Asks(d, "disable_early_pci_dma")
<1>1. \A a \in args : a[1] <= d[1] /\ a[1] < d[1] /\ ~(d[1] <= a[1]) /\ ~(d[1] < a[1])
  OBVIOUS
<1>2. d[1] <= d[1] /\ ~(d[1] < d[1])
  OBVIOUS
<1>3. \A a, option : Asks(a, option) => Gives(a, "efi")
  BY Zenon DEF Asks
<1>4. OptionsOf(args \cup {d}).novamap <=> OptionsOf(args).novamap \/ Asks(d, "novamap")
  BY DEF OptionsOf
<1>5. OptionsOf(args \cup {d}).nochunk
        <=> IF Gives(d, "efi") THEN Asks(d, "nochunk") ELSE OptionsOf(args).nochunk
  <2>1. CASE Gives(d, "efi")
    BY <1>1, <1>2, <1>3, <2>1 DEF OptionsOf
  <2>2. CASE ~Gives(d, "efi")
    BY <1>1, <1>2, <1>3, <2>2 DEF OptionsOf
  <2> QED
    BY <2>1, <2>2
<1>6. OptionsOf(args \cup {d}).noinitrd
        <=> OptionsOf(args).noinitrd \/ Bare(d) = <<"noinitrd">> \/ Gives(d, "noinitrd")
  BY DEF OptionsOf
<1>7. OptionsOf(args \cup {d}).disable_pci_dma
        <=> IF Asks(d, "no_disable_early_pci_dma") THEN FALSE
            ELSE OptionsOf(args).disable_pci_dma \/ Asks(d, "disable_early_pci_dma")
  <2>1. CASE Asks(d, "no_disable_early_pci_dma")
    BY <1>1, <1>2, <2>1 DEF OptionsOf
  <2>2. CASE ~Asks(d, "no_disable_early_pci_dma")
    BY <1>1, <1>2, <2>2 DEF OptionsOf
  <2> QED
    BY <2>1, <2>2
<1> QED
  BY <1>4, <1>5, <1>6, <1>7

OptionSet == [nochunk : BOOLEAN, novamap : BOOLEAN, noinitrd : BOOLEAN, disable_pci_dma : BOOLEAN]

(* The options are truth values.                                           *)
LEMMA OptionsAre ==
  ASSUME NEW args
  PROVE  OptionsOf(args) \in OptionSet
<1> DEFINE o == OptionsOf(args)
<1>1. /\ o.nochunk \in BOOLEAN /\ o.novamap \in BOOLEAN
      /\ o.noinitrd \in BOOLEAN /\ o.disable_pci_dma \in BOOLEAN
  BY Zenon DEF OptionsOf
<1>2. o = [novamap |-> o.novamap, nochunk |-> o.nochunk, noinitrd |-> o.noinitrd,
           disable_pci_dma |-> o.disable_pci_dma]
  BY DEF OptionsOf
<1> DEFINE nc == o.nochunk
           nv == o.novamap
           ni == o.noinitrd
           dd == o.disable_pci_dma
<1> HIDE DEF o, nc, nv, ni, dd
<1>3. o = [novamap |-> nv, nochunk |-> nc, noinitrd |-> ni, disable_pci_dma |-> dd]
      /\ nc \in BOOLEAN /\ nv \in BOOLEAN /\ ni \in BOOLEAN /\ dd \in BOOLEAN
  BY <1>1, <1>2 DEF nc, nv, ni, dd
<1>4. o \in OptionSet
  BY <1>3 DEF OptionSet
<1> QED
  BY <1>4 DEF o

(* Two records of options with the same truth values are the same.         *)
LEMMA SameOptions ==
  ASSUME NEW x \in OptionSet, NEW y \in OptionSet,
         x.nochunk <=> y.nochunk, x.novamap <=> y.novamap, x.noinitrd <=> y.noinitrd,
         x.disable_pci_dma <=> y.disable_pci_dma
  PROVE  x = y
<1>1. x.nochunk = y.nochunk /\ x.novamap = y.novamap /\ x.noinitrd = y.noinitrd
      /\ x.disable_pci_dma = y.disable_pci_dma
  BY DEF OptionSet
<1> QED
  BY <1>1 DEF OptionSet

(* What ParseArgument does with the argument it reads.                     *)
Read(o, param, val) ==
  IF param = <<"noinitrd">> THEN [o EXCEPT !.noinitrd = TRUE]
  ELSE IF param = <<"efi">> /\ val # NoValue THEN EfiArgument(o, val)
  ELSE o

(* The options stay truth values,                                          *)
LEMMA ReadType ==
  ASSUME NEW o \in OptionSet, NEW param, NEW val
  PROVE  Read(o, param, val) \in OptionSet
<1>1. [o EXCEPT !.noinitrd = TRUE] \in OptionSet
  BY DEF OptionSet
<1>2. EfiArgument(o, val) \in OptionSet
  <2> DEFINE c == ParseOptionStr(val, "nochunk")
             v == ParseOptionStr(val, "novamap")
             n == ParseOptionStr(val, "no_disable_early_pci_dma")
             d == ParseOptionStr(val, "disable_early_pci_dma")
  <2>1. c \in BOOLEAN /\ v \in BOOLEAN /\ n \in BOOLEAN /\ d \in BOOLEAN
    BY Zenon DEF ParseOptionStr
  <2>2. EfiArgument(o, val) =
          [o EXCEPT !.nochunk = c, !.novamap = @ \/ v,
                    !.disable_pci_dma = IF n THEN FALSE ELSE @ \/ d]
    BY DEF EfiArgument
  <2> HIDE DEF c, v, n, d
  <2> QED
    BY <2>1, <2>2 DEF OptionSet
<1> QED
  BY <1>1, <1>2 DEF Read

(* and are those of the arguments read so far and this one.                *)
LEMMA ReadGrows ==
  ASSUME NEW args, NEW arg, arg[1] \in Nat, \A a \in args : a[1] \in Nat /\ a[1] < arg[1],
         NEW param, NEW val, IsRead(param, val, Bare(arg))
  PROVE  Read(OptionsOf(args), param, val) = OptionsOf(args \cup {arg})
<1> DEFINE o == OptionsOf(args)
           n == OptionsOf(args \cup {arg})
           r == Read(o, param, val)
           G == Gives(arg, "efi")
           I == Bare(arg) = <<"noinitrd">> \/ Gives(arg, "noinitrd")
           A(option) == Asks(arg, option)
<1>1. o \in OptionSet /\ n \in OptionSet /\ r \in OptionSet
  BY OptionsAre, ReadType
<1>2. /\ n.novamap <=> o.novamap \/ A("novamap")
      /\ n.nochunk <=> IF G THEN A("nochunk") ELSE o.nochunk
      /\ n.noinitrd <=> o.noinitrd \/ I
      /\ n.disable_pci_dma <=>
           IF A("no_disable_early_pci_dma") THEN FALSE
           ELSE o.disable_pci_dma \/ A("disable_early_pci_dma")
  <2>1. LET oo == OptionsOf(args)
            nn == OptionsOf(args \cup {arg})
        IN  /\ nn.novamap <=> oo.novamap \/ Asks(arg, "novamap")
            /\ nn.nochunk <=> IF Gives(arg, "efi") THEN Asks(arg, "nochunk") ELSE oo.nochunk
            /\ nn.noinitrd <=> oo.noinitrd \/ Bare(arg) = <<"noinitrd">> \/ Gives(arg, "noinitrd")
            /\ nn.disable_pci_dma <=>
                 IF Asks(arg, "no_disable_early_pci_dma") THEN FALSE
                 ELSE oo.disable_pci_dma \/ Asks(arg, "disable_early_pci_dma")
    BY OptionsGrow
  <2> QED
    BY <2>1, Zenon
<1>3. (param = <<"noinitrd">> <=> I) /\ ((param = <<"efi">> /\ val # NoValue) <=> G)
  BY ReadNames
<1>4. \A option : A(option) => G
  BY Zenon DEF Asks
<1>5. G => \A option : ParseOptionStr(val, option) <=> A(option)
  <2>1. SUFFICES ASSUME G PROVE \A option : ParseOptionStr(val, option) <=> A(option)
    OBVIOUS
  <2>2. Bare(arg) \in Seq(STRING \ {EndOfLine}) /\ Len(Bare(arg)) \in Nat /\ Len(Bare(arg)) >= 2
        /\ Agrees(val, Bare(arg), 2, Len(Bare(arg)) - 2)
    BY <2>1, ReadNames DEF IsRead
  <2> QED
    BY <2>1, <2>2, AsksIs
<1>6. I => ~G
  <2>1. I /\ G => FALSE
    <3>1. I => param = <<"noinitrd">>
      BY <1>3
    <3>2. G => param = <<"efi">>
      BY <1>3
    <3>3. <<"noinitrd">> # <<"efi">>
      OBVIOUS
    <3> QED
      BY <3>1, <3>2, <3>3
  <2> QED
    BY <2>1
<1> HIDE DEF o, n, G, I, A
<1>7. CASE I
  <2>1. r = [o EXCEPT !.noinitrd = TRUE]
    BY <1>3, <1>7 DEF Read
  <2>2. /\ r.novamap = o.novamap /\ r.nochunk = o.nochunk /\ r.noinitrd
        /\ r.disable_pci_dma = o.disable_pci_dma
    <3> HIDE DEF r
    <3> QED
      BY <1>1, <2>1 DEF OptionSet
  <2>3. ~A("novamap") /\ ~A("no_disable_early_pci_dma") /\ ~A("disable_early_pci_dma") /\ ~G
    BY <1>4, <1>6, <1>7
  <2> HIDE DEF r
  <2>4. /\ r.nochunk <=> n.nochunk
        /\ r.novamap <=> n.novamap
        /\ r.noinitrd <=> n.noinitrd
        /\ r.disable_pci_dma <=> n.disable_pci_dma
    BY <1>2, <1>7, <2>2, <2>3
  <2> QED
    BY <1>1, <2>4, SameOptions DEF r, o, n
<1>8. CASE G
  <2>1. r = EfiArgument(o, val)
    <3>1. param = <<"efi">> /\ val # NoValue /\ param # <<"noinitrd">>
      BY <1>3, <1>6, <1>8
    <3> QED
      BY <3>1 DEF Read
  <2> HIDE DEF r
  <2> DEFINE has(option) == ParseOptionStr(val, option)
  <2>2. /\ r.nochunk = has("nochunk")
        /\ r.novamap = (o.novamap \/ has("novamap"))
        /\ r.noinitrd = o.noinitrd
        /\ r.disable_pci_dma = IF has("no_disable_early_pci_dma") THEN FALSE
                               ELSE o.disable_pci_dma \/ has("disable_early_pci_dma")
    BY <1>1, <2>1 DEF OptionSet, EfiArgument
  <2>3. \A option : has(option) <=> A(option)
    BY <1>5, <1>8
  <2> HIDE DEF has
  <2>4. ~I
    BY <1>6, <1>8
  <2>5. /\ r.nochunk <=> n.nochunk
        /\ r.novamap <=> n.novamap
        /\ r.noinitrd <=> n.noinitrd
        /\ r.disable_pci_dma <=> n.disable_pci_dma
    BY <1>2, <1>8, <2>2, <2>3, <2>4
  <2> QED
    BY <1>1, <2>5, SameOptions DEF r, o, n
<1>9. CASE ~I /\ ~G
  <2>1. r = o
    BY <1>3, <1>9 DEF Read
  <2>2. ~A("novamap") /\ ~A("no_disable_early_pci_dma") /\ ~A("disable_early_pci_dma")
    BY <1>4, <1>9
  <2> HIDE DEF r
  <2>3. /\ o.nochunk <=> n.nochunk
        /\ o.novamap <=> n.novamap
        /\ o.noinitrd <=> n.noinitrd
        /\ o.disable_pci_dma <=> n.disable_pci_dma
    BY <1>2, <1>9, <2>2
  <2> QED
    BY <1>1, <2>1, <2>3, SameOptions DEF r, o, n
<1> QED
  BY <1>7, <1>8, <1>9

(* The invariant: up to str the line has been cut into the arguments in    *)
(* front of it, which gave the options.                                    *)
AsPassed ==
  (\A arg \in Arguments : WellQuoted(arg)) =>
    /\ \A d \in Passed(str) : Bare(d) # <<"--">>
    /\ stubOptions = OptionsOf(Passed(str))
OptionsInv ==
  /\ line \in Lines /\ str \in 1..(Len(line) + 1) /\ IsCopy(buf, str)
  /\ parsing \in {"parse", "done"} /\ stubOptions \in OptionSet
  /\ RestUntouched
  /\ parsing = "parse" => (str = Len(line) + 1 \/ AtArgument(str)) /\ AsPassed
  /\ OptionsAsGiven

(* A line of Lines has no NUL in it.                                       *)
LEMMA OptionsLine ==
  ASSUME line \in Lines
  PROVE  IsLine
BY LinesAssumption DEF IsLine

(* The places where arguments begin.                                       *)
LEMMA ArgumentFields ==
  ASSUME IsLine, NEW arg \in Arguments
  PROVE  arg[1] \in Nat /\ arg[1] <= Len(line) /\ ~Breaks(arg[1]) /\ arg[1] \in 1..Len(line)
<1>1. /\ arg[1] \in 1..Len(line) /\ arg[2] \in 1..Len(line) /\ arg[1] <= arg[2]
      /\ \A i \in arg[1]..arg[2] : ~Breaks(i)
  BY DEF Arguments
<1>2. arg[1] \in arg[1]..arg[2] /\ arg[1] \in Nat /\ arg[1] <= Len(line)
  BY <1>1, LineFields
<1> QED
  BY <1>1, <1>2

(* Nothing is asked for in the beginning.                                  *)
LEMMA NothingAsked ==
  OptionsOf({}) = [nochunk |-> FALSE, novamap |-> FALSE, noinitrd |-> FALSE, disable_pci_dma |-> FALSE]
<1> DEFINE z == [nochunk |-> FALSE, novamap |-> FALSE, noinitrd |-> FALSE, disable_pci_dma |-> FALSE]
           o == OptionsOf({})
<1>1. ~o.nochunk /\ ~o.novamap /\ ~o.noinitrd /\ ~o.disable_pci_dma
  BY DEF OptionsOf
<1>2. z \in OptionSet /\ ~z.nochunk /\ ~z.novamap /\ ~z.noinitrd /\ ~z.disable_pci_dma
  BY DEF OptionSet
<1>3. o \in OptionSet
  BY OptionsAre
<1> HIDE DEF o, z
<1>4. o = z
  BY <1>1, <1>2, <1>3, SameOptions
<1> QED
  BY <1>4 DEF o, z

(* In the beginning the position is behind the leading spaces.             *)
LEMMA FirstArgument ==
  ASSUME IsLine, NEW b, IsCopy(b, 1), NEW n, n = SkipSpaces(b, 1)
  PROVE  /\ n \in 1..(Len(line) + 1) /\ IsCopy(b, n)
         /\ n = Len(line) + 1 \/ AtArgument(n)
         /\ Passed(n) = {}
<1>1. Len(line) \in Nat
  BY LineFields
<1>2. /\ n \in 1..(Len(line) + 1) /\ (n = Len(line) + 1 \/ line[n] # Space)
      /\ \A i \in 1..(n - 1) : i \in 1..Len(line) /\ line[i] = Space
  <2>1. 1 \in 1..(Len(line) + 1) /\ 1 \in Nat /\ 1 <= 1
    BY <1>1
  <2> QED
    BY <2>1, SkipIs
<1>3. n \in Nat /\ n >= 1
  BY <1>1, <1>2
<1>4. IsCopy(b, n)
  <2>1. \A q \in n..Len(line) : q \in 1..Len(line)
    BY <1>1, <1>3
  <2> QED
    BY <2>1 DEF IsCopy
<1>5. QuoteCount(line, 1, 0) % 2 = 0
  <2>1. QuoteCount(line, 1, 0) = 0
    BY NoQuotes
  <2> QED
    BY <2>1
<1>6. (\A i \in 1..(n - 1) : Breaks(i)) /\ QuoteCount(line, 1, n - 1) % 2 = 0
  <2>1. CASE n = 1
    BY <1>5, <2>1
  <2>2. CASE n # 1
    <3>1. 1 \in 1..(n - 1) /\ 1 \in 1..Len(line) /\ n \in (1 + 1)..(Len(line) + 1)
      BY <1>1, <1>2, <1>3, <2>2
    <3>2. Breaks(1)
      BY <1>2, <1>5, <3>1 DEF Breaks
    <3>3. \A i \in 1..(n - 1) : line[i] = Space
      BY <1>2
    <3> QED
      BY <3>1, <3>2, <3>3, SpacesBreak
  <2> QED
    BY <2>1, <2>2
<1>7. n = Len(line) + 1 \/ AtArgument(n)
  <2>1. SUFFICES ASSUME n # Len(line) + 1 PROVE AtArgument(n)
    OBVIOUS
  <2>2. n \in 1..Len(line) /\ line[n] # Space
    BY <1>1, <1>2, <2>1
  <2>3. Breaks(n - 1)
    <3>1. n - 1 = 0 \/ n - 1 \in 1..(n - 1)
      BY <1>3
    <3> QED
      BY <1>6, <3>1 DEF Breaks
  <2> QED
    BY <1>6, <2>2, <2>3 DEF AtArgument
<1>8. Passed(n) = {}
  <2>1. SUFFICES ASSUME NEW arg \in Passed(n) PROVE FALSE
    OBVIOUS
  <2>2. arg \in Arguments /\ arg[1] < n
    BY <2>1 DEF Passed
  <2>3. arg[1] \in Nat /\ arg[1] \in 1..Len(line) /\ ~Breaks(arg[1])
    BY <2>2, ArgumentFields
  <2>4. arg[1] \in 1..(n - 1)
    BY <1>3, <2>2, <2>3
  <2> QED
    BY <1>6, <2>3, <2>4
<1> QED
  BY <1>2, <1>4, <1>7, <1>8

(* It holds in the beginning.                                              *)
LEMMA OptionsStart == OptionsInit => OptionsInv
<1> SUFFICES ASSUME OptionsInit PROVE OptionsInv
  OBVIOUS
<1>1. line \in Lines /\ buf = Append(line, EndOfLine) /\ str = SkipSpaces(buf, 1) /\ parsing = "parse"
      /\ stubOptions = [nochunk |-> FALSE, novamap |-> FALSE, noinitrd |-> FALSE, disable_pci_dma |-> FALSE]
  BY DEF OptionsInit
<1>2. IsLine
  BY <1>1, OptionsLine
<1>3. IsCopy(buf, 1) /\ \A q \in 1..Len(line) : buf[q] = line[q]
  <2>1. line \in Seq(Characters) /\ EndOfLine \in Characters
    BY <1>2 DEF IsLine, Characters
  <2>2. /\ Append(line, EndOfLine) \in Seq(Characters)
        /\ Len(Append(line, EndOfLine)) = Len(line) + 1
        /\ \A i \in 1..Len(line) : Append(line, EndOfLine)[i] = line[i]
        /\ Append(line, EndOfLine)[Len(line) + 1] = EndOfLine
    BY <2>1, AppendProperties
  <2> QED
    BY <1>1, <2>2 DEF IsCopy
<1>4. str \in 1..(Len(line) + 1) /\ IsCopy(buf, str) /\ (str = Len(line) + 1 \/ AtArgument(str))
      /\ Passed(str) = {}
  BY <1>1, <1>2, <1>3, FirstArgument
<1>5. stubOptions = OptionsOf({}) /\ stubOptions \in OptionSet
  BY <1>1, NothingAsked, OptionsAre
<1>6. AsPassed
  BY <1>4, <1>5 DEF AsPassed
<1>7. RestUntouched
  BY <1>3 DEF RestUntouched
<1>8. OptionsAsGiven
  BY <1>1 DEF OptionsAsGiven
<1> QED
  BY <1>1, <1>4, <1>5, <1>6, <1>7, <1>8 DEF OptionsInv

(* The arguments are those of the line, which no step changes.             *)
LEMMA SameLine ==
  ASSUME line' = line
  PROVE  /\ Arguments' = Arguments
         /\ \A arg : WellQuoted(arg)' <=> WellQuoted(arg)
         /\ \A arg : Bare(arg)' = Bare(arg)
         /\ \A args : OptionsOf(args)' = OptionsOf(args)
<1>1. \A i : Breaks(i)' <=> Breaks(i)
  BY DEF Breaks, QuoteCount
<1>2. Arguments' = Arguments
  BY <1>1 DEF Arguments
<1>3. \A arg : QuotesIn(arg)' = QuotesIn(arg)
  BY DEF QuotesIn
<1>4. \A arg : WellQuoted(arg)' <=> WellQuoted(arg)
  BY <1>3 DEF WellQuoted
<1>5. \A arg : Bare(arg)' = Bare(arg)
  BY <1>3 DEF Bare
<1>6. \A arg, name : Gives(arg, name)' <=> Gives(arg, name)
  BY <1>5 DEF Gives
<1>7. \A arg, option : Asks(arg, option)' <=> Asks(arg, option)
  <2> DEFINE comma == ","
             E(opts, option) ==
               \E i \in 3..Len(opts) :
                 /\ opts[i] = option
                 /\ opts[i - 1] = comma \/ i = 3
                 /\ opts[Min({i + 1, Len(opts)})] = comma \/ i = Len(opts)
  <2>1. \A arg, option : Asks(arg, option) <=> Gives(arg, "efi") /\ E(Bare(arg), option)
    BY Zenon DEF Asks
  <2>2. \A arg, option : Asks(arg, option)' <=> Gives(arg, "efi")' /\ E(Bare(arg)', option)
    BY Zenon DEF Asks
  <2> HIDE DEF E
  <2> QED
    BY <1>5, <1>6, <2>1, <2>2
<1>8. \A args : OptionsOf(args)' = OptionsOf(args)
  BY <1>5, <1>6, <1>7 DEF OptionsOf
<1> QED
  BY <1>2, <1>4, <1>5, <1>8

(* The arguments in front of the first "--".                               *)
Before == {arg \in Arguments : \A d \in Arguments : Bare(d) = <<"--">> => arg[1] < d[1]}

(* When none has been passed, those are the ones passed: up to the end,    *)
LEMMA AllPassed ==
  ASSUME IsLine, \A d \in Passed(Len(line) + 1) : Bare(d) # <<"--">>
  PROVE  Passed(Len(line) + 1) = Before
<1>1. \A arg \in Arguments : arg[1] < Len(line) + 1
  <2>1. TAKE arg \in Arguments
  <2>2. arg[1] \in Nat /\ arg[1] <= Len(line) /\ Len(line) \in Nat
    BY ArgumentFields, LineFields
  <2> QED
    BY <2>2
<1>2. Passed(Len(line) + 1) = Arguments
  BY <1>1 DEF Passed
<1> QED
  BY <1>2 DEF Before

(* or up to it.                                                            *)
LEMMA PassedBefore ==
  ASSUME IsLine, NEW p \in Nat, \A d \in Passed(p) : Bare(d) # <<"--">>,
         NEW e \in Arguments, e[1] = p, Bare(e) = <<"--">>
  PROVE  Passed(p) = Before
<1>1. ASSUME NEW arg \in Arguments, arg[1] < p, NEW d \in Arguments, Bare(d) = <<"--">>
      PROVE  arg[1] < d[1]
  <2>1. arg[1] \in Nat /\ d[1] \in Nat
    BY ArgumentFields
  <2>2. ~(d[1] < p)
    BY <1>1 DEF Passed
  <2> QED
    BY <1>1, <2>1, <2>2
<1>2. \A arg \in Before : arg \in Arguments /\ arg[1] < p
  BY DEF Before
<1> QED
  BY <1>1, <1>2 DEF Before, Passed

(* The options are truth values by name.                                   *)
LEMMA OptionSetIs ==
  ASSUME NEW o \in OptionSet
  PROVE  o \in [{"nochunk", "novamap", "noinitrd", "disable_pci_dma"} -> BOOLEAN]
BY DEF OptionSet

(* The invariant holds after an argument has been read,                    *)
LEMMA ArgumentKeeps ==
  ASSUME OptionsInv, ParseArgument
  PROVE  OptionsInv'
<1> DEFINE N == Len(line) + 1
           arg == NextArg(buf, str)
           D == <<str, ArgStop(buf, str) - 1>>
<1>1. /\ line \in Lines /\ IsLine /\ str \in 1..N /\ IsCopy(buf, str) /\ stubOptions \in OptionSet
      /\ RestUntouched /\ (str = N \/ AtArgument(str)) /\ AsPassed
  BY OptionsLine DEF OptionsInv, ParseArgument
<1>2. /\ parsing = "parse" /\ buf[str] # EndOfLine /\ buf' = arg.buf /\ str' = arg.next /\ line' = line
  BY DEF ParseArgument
<1>3. AtArgument(str) /\ str \in Nat /\ Len(line) \in Nat
  BY <1>1, <1>2, LineFields DEF IsCopy
<1>4. \/ arg.val = NoValue /\ arg.param = <<"--">> /\ parsing' = "done" /\ stubOptions' = stubOptions
      \/ /\ ~(arg.val = NoValue /\ arg.param = <<"--">>)
         /\ parsing' = parsing /\ stubOptions' = Read(stubOptions, arg.param, arg.val)
  BY DEF ParseArgument, Read
<1>5. /\ str' = ArgNext(buf, str) /\ IsCopy(buf', str')
      /\ \A q \in 1..Len(line) : buf'[q] # buf[q] =>
           q < str' /\ buf'[q] = EndOfLine /\ line[q] \in {Space, Quote, "="}
  BY <1>1, <1>2, <1>3, CutsIn, NextArgIs
<1>6. str' \in 1..N /\ str' > str /\ str' \in Nat /\ (str' = N \/ AtArgument(str'))
  <2>1. ArgStop(buf, str) \in (str + 1)..N /\ ArgNext(buf, str) \in ArgStop(buf, str)..N
        /\ (ArgNext(buf, str) = N \/ AtArgument(ArgNext(buf, str)))
    BY <1>1, <1>3, StopIs, NextIs
  <2> DEFINE s == ArgStop(buf, str)
             n == ArgNext(buf, str)
  <2> HIDE DEF s, n
  <2>2. n \in 1..N /\ n > str /\ n \in Nat
    BY <1>3, <2>1 DEF s, n
  <2> QED
    BY <1>5, <2>1, <2>2 DEF n
<1>7. D \in Arguments /\ Passed(str') = Passed(str) \cup {D} /\ D[1] = str
  BY <1>1, <1>3, <1>5, PassedIs
<1>8. /\ Arguments' = Arguments
      /\ \A a : WellQuoted(a)' <=> WellQuoted(a)
      /\ \A a : Bare(a)' = Bare(a)
      /\ \A args : OptionsOf(args)' = OptionsOf(args)
      /\ Passed(str)' = Passed(str') /\ Before' = Before
  <2>1. /\ Arguments' = Arguments
        /\ \A a : WellQuoted(a)' <=> WellQuoted(a)
        /\ \A a : Bare(a)' = Bare(a)
        /\ \A args : OptionsOf(args)' = OptionsOf(args)
    BY <1>2, SameLine
  <2> QED
    BY <2>1 DEF Passed, Before
<1> DEFINE Given == \A a \in Arguments : WellQuoted(a)
<1>9. Given => /\ IsRead(arg.param, arg.val, Bare(D))
               /\ (arg.val = NoValue /\ arg.param = <<"--">>) <=> Bare(D) = <<"--">>
               /\ (\A d \in Passed(str) : Bare(d) # <<"--">>) /\ stubOptions = OptionsOf(Passed(str))
               /\ \A a \in Passed(str) : a[1] \in Nat /\ a[1] < str
  <2>1. SUFFICES ASSUME Given
                 PROVE  /\ IsRead(arg.param, arg.val, Bare(D))
                        /\ (arg.val = NoValue /\ arg.param = <<"--">>) <=> Bare(D) = <<"--">>
                        /\ (\A d \in Passed(str) : Bare(d) # <<"--">>)
                        /\ stubOptions = OptionsOf(Passed(str))
                        /\ \A a \in Passed(str) : a[1] \in Nat /\ a[1] < str
    OBVIOUS
  <2>2. IsRead(arg.param, arg.val, Bare(D))
    BY <1>1, <1>3, <1>7, <2>1, ArgumentRead
  <2>3. (arg.val = NoValue /\ arg.param = <<"--">>) <=> Bare(D) = <<"--">>
    BY <2>2, ReadNames
  <2>4. (\A d \in Passed(str) : Bare(d) # <<"--">>) /\ stubOptions = OptionsOf(Passed(str))
    BY <1>1, <2>1 DEF AsPassed
  <2>5. \A a \in Passed(str) : a[1] \in Nat /\ a[1] < str
    BY <1>1, ArgumentFields DEF Passed
  <2> QED
    BY <2>2, <2>3, <2>4, <2>5
<1>10. RestUntouched'
  <2>1. \A q \in 1..Len(line) : buf[q] # line[q] =>
          q < str /\ buf[q] = EndOfLine /\ line[q] \in {Space, Quote, "="}
    BY <1>1 DEF RestUntouched
  <2>2. ASSUME NEW q \in 1..Len(line), buf'[q] # line[q]
        PROVE  q < str' /\ buf'[q] = EndOfLine /\ line[q] \in {Space, Quote, "="}
    <3>1. CASE buf'[q] # buf[q]
      BY <1>5, <3>1
    <3>2. CASE buf'[q] = buf[q]
      <4>1. q < str /\ buf[q] = EndOfLine /\ line[q] \in {Space, Quote, "="}
        BY <2>1, <2>2, <3>2
      <4>2. q < str'
        BY <1>3, <1>6, <4>1
      <4> QED
        BY <3>2, <4>1, <4>2
    <3> QED
      BY <3>1, <3>2
  <2> QED
    BY <1>2, <2>2 DEF RestUntouched
<1> HIDE DEF arg, D
<1>11. CASE arg.val = NoValue /\ arg.param = <<"--">>
  <2>1. parsing' = "done" /\ stubOptions' = stubOptions
    BY <1>4, <1>11
  <2>2. Given => stubOptions = OptionsOf(Before)
    <3>1. SUFFICES ASSUME Given PROVE stubOptions = OptionsOf(Before)
      OBVIOUS
    <3>2. Bare(D) = <<"--">> /\ (\A d \in Passed(str) : Bare(d) # <<"--">>)
          /\ stubOptions = OptionsOf(Passed(str))
      BY <1>9, <1>11, <3>1
    <3>3. Passed(str) = Before
      BY <1>1, <1>3, <1>7, <3>2, PassedBefore
    <3> QED
      BY <3>2, <3>3
  <2>3. OptionsAsGiven'
    BY <1>8, <2>1, <2>2 DEF OptionsAsGiven, Before
  <2> QED
    BY <1>1, <1>2, <1>5, <1>6, <1>10, <2>1, <2>3 DEF OptionsInv, IsCopy
<1>12. CASE ~(arg.val = NoValue /\ arg.param = <<"--">>)
  <2>1. parsing' = "parse" /\ stubOptions' = Read(stubOptions, arg.param, arg.val)
    BY <1>2, <1>4, <1>12
  <2>2. stubOptions' \in OptionSet
    BY <1>1, <2>1, ReadType
  <2>3. OptionsAsGiven'
    BY <2>1 DEF OptionsAsGiven
  <2>4. Given => /\ \A d \in Passed(str') : Bare(d) # <<"--">>
                 /\ stubOptions' = OptionsOf(Passed(str'))
    <3>1. SUFFICES ASSUME Given
                   PROVE  /\ \A d \in Passed(str') : Bare(d) # <<"--">>
                          /\ stubOptions' = OptionsOf(Passed(str'))
      OBVIOUS
    <3>2. Bare(D) # <<"--">> /\ \A d \in Passed(str) : Bare(d) # <<"--">>
      BY <1>9, <1>12, <3>1
    <3>3. D[1] \in Nat /\ (\A a \in Passed(str) : a[1] \in Nat /\ a[1] < D[1])
          /\ IsRead(arg.param, arg.val, Bare(D)) /\ stubOptions = OptionsOf(Passed(str))
      BY <1>3, <1>7, <1>9, <3>1
    <3>4. Read(OptionsOf(Passed(str)), arg.param, arg.val) = OptionsOf(Passed(str) \cup {D})
      BY <3>3, ReadGrows
    <3> QED
      BY <1>7, <2>1, <3>2, <3>3, <3>4
  <2>5. AsPassed'
    BY <1>8, <2>4 DEF AsPassed
  <2>6. (str = Len(line) + 1 \/ AtArgument(str))'
    BY <1>2, <1>6 DEF AtArgument, Breaks, QuoteCount
  <2> QED
    BY <1>1, <1>2, <1>5, <1>6, <1>10, <2>1, <2>2, <2>3, <2>5, <2>6 DEF OptionsInv, IsCopy
<1> QED
  BY <1>11, <1>12

(* and at the end of the line.                                             *)
LEMMA FinishKeeps ==
  ASSUME OptionsInv, Finish
  PROVE  OptionsInv'
<1>1. /\ line \in Lines /\ IsLine /\ str \in 1..(Len(line) + 1) /\ IsCopy(buf, str)
      /\ (str = Len(line) + 1 \/ AtArgument(str)) /\ AsPassed
  BY OptionsLine DEF OptionsInv, Finish
<1>2. buf[str] = EndOfLine /\ parsing' = "done"
      /\ line' = line /\ buf' = buf /\ str' = str /\ stubOptions' = stubOptions
  BY DEF Finish
<1>3. str = Len(line) + 1
  <2>1. Len(line) \in Nat /\ \A q \in 1..Len(line) : line[q] # EndOfLine
    BY <1>1, LineFields
  <2>2. ~AtArgument(str)
    <3>1. AtArgument(str) => str \in 1..Len(line) /\ str \in str..Len(line)
      BY <2>1 DEF AtArgument
    <3> QED
      BY <1>1, <1>2, <2>1, <3>1 DEF IsCopy
  <2> QED
    BY <1>1, <2>2
<1>4. (\A arg \in Arguments : WellQuoted(arg)) => stubOptions = OptionsOf(Before)
  <2>1. SUFFICES ASSUME \A arg \in Arguments : WellQuoted(arg) PROVE stubOptions = OptionsOf(Before)
    OBVIOUS
  <2>2. (\A d \in Passed(Len(line) + 1) : Bare(d) # <<"--">>) /\ stubOptions = OptionsOf(Passed(Len(line) + 1))
    BY <1>1, <1>3, <2>1 DEF AsPassed
  <2> QED
    BY <1>1, <2>2, AllPassed
<1>5. OptionsAsGiven'
  <2>1. /\ Arguments' = Arguments
        /\ \A a : WellQuoted(a)' <=> WellQuoted(a)
        /\ \A a : Bare(a)' = Bare(a)
        /\ \A args : OptionsOf(args)' = OptionsOf(args)
    BY <1>2, SameLine
  <2> QED
    BY <1>2, <1>4, <2>1 DEF OptionsAsGiven, Before
<1> QED
  BY <1>2, <1>5 DEF OptionsInv, IsCopy, RestUntouched

(* The invariant is inductive,                                             *)
LEMMA OptionsStep ==
  ASSUME OptionsInv, [OptionsNext]_optionVars
  PROVE  OptionsInv'
<1>1. CASE ParseArgument
  BY <1>1, ArgumentKeeps
<1>2. CASE Finish
  BY <1>2, FinishKeeps
<1>3. CASE UNCHANGED optionVars
  <2>1. line' = line /\ buf' = buf /\ str' = str /\ stubOptions' = stubOptions /\ parsing' = parsing
    BY <1>3 DEF optionVars
  <2>2. /\ Arguments' = Arguments
        /\ \A a : WellQuoted(a)' <=> WellQuoted(a)
        /\ \A a : Bare(a)' = Bare(a)
        /\ \A args : OptionsOf(args)' = OptionsOf(args)
    BY <2>1, SameLine
  <2>3. AsPassed' <=> AsPassed
    BY <2>1, <2>2 DEF AsPassed, Passed
  <2>4. OptionsAsGiven' <=> OptionsAsGiven
    BY <2>1, <2>2 DEF OptionsAsGiven
  <2>5. AtArgument(str)' <=> AtArgument(str)
    BY <2>1 DEF AtArgument, Breaks, QuoteCount
  <2>6. RestUntouched' <=> RestUntouched
    BY <2>1 DEF RestUntouched
  <2> QED
    BY <2>1, <2>3, <2>4, <2>5, <2>6 DEF OptionsInv, IsCopy
<1> QED
  BY <1>1, <1>2, <1>3 DEF OptionsNext

(* and says what the property does.                                        *)
LEMMA OptionsSound == OptionsInv => OptionsParsed
<1> SUFFICES ASSUME OptionsInv PROVE OptionsParsed
  OBVIOUS
<1>1. IsLine /\ str \in 1..(Len(line) + 1) /\ IsCopy(buf, str) /\ parsing \in {"parse", "done"}
      /\ stubOptions \in OptionSet /\ RestUntouched /\ OptionsAsGiven
  BY OptionsLine DEF OptionsInv
<1>2. line \in Seq(STRING)
  BY <1>1 DEF IsLine
<1>3. stubOptions \in [{"nochunk", "novamap", "noinitrd", "disable_pci_dma"} -> BOOLEAN]
  BY <1>1, OptionSetIs
<1>4. OptionsTypeOK
  BY <1>1, <1>2, <1>3 DEF OptionsTypeOK, IsCopy
<1> QED
  BY <1>1, <1>4 DEF OptionsParsed

(* efi_parse_options: however a line is quoted, the copy of it is cut only *)
(* at separators and quotes of the argument that is read, and when all     *)
(* arguments have been read the options of the stub are those asked for in *)
(* front of "--", for every set of lines.                                  *)
THEOREM OptionsParsedHolds == OptionsSpec => []OptionsParsed
<1>1. OptionsInit => OptionsInv
  BY OptionsStart
<1>2. OptionsInv /\ [OptionsNext]_optionVars => OptionsInv'
  BY OptionsStep
<1>3. OptionsInv => OptionsParsed
  BY OptionsSound
<1> QED
  BY <1>1, <1>2, <1>3, PTL DEF OptionsSpec
=============================================================================
