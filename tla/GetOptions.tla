----------------------------- MODULE GetOptions -----------------------------
(***************************************************************************)
(* get_options (apps/lib/cmdline.c): a list of integers and of ranges of   *)
(* them, separated by commas, is parsed into an array.  A list is a        *)
(* sequence of characters, a number with its digits taken as a whole.      *)
(***************************************************************************)
EXTENDS Integers, SequencesExt, FiniteSetsExt

CONSTANTS
  IntLists,     (* what is parsed                                          *)
  ArraySizes,   (* nints                                                   *)
  NumberOfText  (* the numbers by their text                               *)

EndOfList == "end"

(* No sign is a number, and there is a largest array.                      *)
ASSUME IntsAssumption ==
  /\ \A l \in IntLists : l \in Seq(Range(l))
  /\ \A text \in DOMAIN NumberOfText : NumberOfText[text] \in Nat
  /\ DOMAIN NumberOfText \cap {",", "-", EndOfList} = {}
  /\ ArraySizes \subseteq Nat /\ \E m \in ArraySizes : \A n \in ArraySizes : n <= m

VARIABLES
  list, nints,
  ints,         (* the array, from 1 on; the first element is the count    *)
  where,        (* str                                                     *)
  count,        (* i                                                       *)
  listing

listVars == <<list, nints, ints, where, count, listing>>

Unwritten == -99

IntsInit ==
  /\ list \in {Append(l, EndOfList) : l \in IntLists} /\ nints \in ArraySizes
  /\ ints = [j \in 1..(Max(ArraySizes) + 8) |-> Unwritten]
  /\ where = 1 /\ count = 1 /\ listing = TRUE

(* simple_strtoull, and simple_strtol that takes a sign.                   *)
IsNumber(p) == list[p] \in DOMAIN NumberOfText
Strtoull(p) == IF IsNumber(p) THEN NumberOfText[list[p]] ELSE 0
Strtol(p) == IF list[p] = "-" THEN -Strtoull(p + 1) ELSE Strtoull(p)

(* get_option, unless the list has ended: the number, where the parser     *)
(* goes on and what is behind it.  A hyphen without a number is consumed.  *)
GetOption(p) ==
  LET cur == IF list[p] = "-" THEN p + 1 ELSE p
      value == Strtol(p)
      behind == cur + 1
  IN  CASE ~IsNumber(cur) -> [res |-> 0, value |-> 0, next |-> cur]
        [] IsNumber(cur) /\ list[behind] = "," ->
             [res |-> 2, value |-> value, next |-> behind + 1]
        [] IsNumber(cur) /\ list[behind] = "-" ->
             [res |-> 3, value |-> value, next |-> behind]
        [] OTHER -> [res |-> 1, value |-> value, next |-> behind]

GetRange_Whole(a, at, first, n, upper) ==   \* mutation: the room is not counted
  [j \in DOMAIN a |-> IF j >= at /\ j < at + upper - first THEN first + j - at
                      ELSE a[j]]

(* get_range: all of a range but its end, as far as there is room.         *)
GetRange(a, at, first, n, upper) ==
  [j \in DOMAIN a |-> IF j >= at /\ j < at + Min({n, upper - first})
                        THEN first + j - at ELSE a[j]]

(* The array is left with the count in its first element.                  *)
Break(a, next, i) ==
  /\ ints' = [a EXCEPT ![1] = i - 1]
  /\ where' = next /\ count' = i /\ listing' = FALSE
  /\ UNCHANGED <<list, nints>>

Parse(a, next, i) ==
  /\ ints' = a /\ where' = next /\ count' = i
  /\ UNCHANGED <<list, nints, listing>>

(* The end of the range is read, and counted, as the next number.          *)
AfterRange(i, nums) == i + (nums - 1) + 1

HasRoom == count < nints \/ nints = 0

ParseOption ==
  /\ listing /\ HasRoom /\ list[where] # EndOfList
  /\ LET validate == nints = 0
         at == IF validate THEN 1 ELSE count + 1
         o == GetOption(where)
         a == [ints EXCEPT ![at] = o.value]
         upper == Strtol(o.next + 1)
         nums == upper - o.value
         n == IF validate THEN 0 ELSE nints - count
     IN  CASE o.res = 0 -> Break(a, o.next, count)
           [] o.res = 1 -> Break(a, o.next, count + 1)
           [] o.res = 2 -> Parse(a, o.next, count + 1)
           [] o.res = 3 /\ nums < 0 -> Break(a, o.next + 1, count)
           [] OTHER -> Parse(GetRange(a, at, o.value, n, upper), o.next + 1,
                             AfterRange(count, nums))

StopParsing ==
  /\ listing /\ (HasRoom => list[where] = EndOfList)
  /\ Break(ints, where, count)

IntsNext == ParseOption \/ StopParsing
IntsSpec == IntsInit /\ [][IntsNext]_listVars

-----------------------------------------------------------------------------
(* Nothing is written behind the array, whose size is nints, or one when   *)
(* the list is only validated, and nothing is read behind the list.        *)
ArrayKept ==
  /\ where \in 1..Len(list)
  /\ \A j \in DOMAIN ints : j > Max({1, nints}) => ints[j] = Unwritten

(* The numbers of a list of numbers and of ranges that do not descend.     *)
IsHyphen(p) == list[p] = "-"
IsList ==
  /\ \A p \in 1..(Len(list) - 1) :
       IF p % 2 = 1 THEN IsNumber(p) ELSE list[p] \in {",", "-"}
  /\ Len(list) % 2 = 0
  /\ \A p \in 2..(Len(list) - 2) :
       IsHyphen(p) => Strtoull(p - 1) <= Strtoull(p + 1)
Numbers ==
  LET upTo[p \in 0..Len(list)] ==
        IF p = 0 THEN <<>>
        ELSE IF ~IsNumber(p) THEN upTo[p - 1]
        ELSE IF p > 1 /\ IsHyphen(p - 1)
          THEN upTo[p - 1] \o [j \in 1..(Strtoull(p) - Strtoull(p - 2)) |-> Strtoull(p - 2) + j]
        ELSE Append(upTo[p - 1], Strtoull(p))
  IN  upTo[Len(list)]

(* A list becomes its numbers, in order and each once, where ranges follow *)
(* each other, begin and end at the same number or with one another; what  *)
(* does not fit is left out; and with room for all of them the count is    *)
(* theirs, which is what validating counts too.                            *)
ListExpanded ==
  ~listing /\ IsList =>
    LET fits == nints = 0 \/ Len(Numbers) < nints
        stored == Min({Len(Numbers), nints - 1})
    IN  /\ fits => ints[1] = Len(Numbers) /\ where = Len(list)
        /\ \A j \in 1..stored : ints[j + 1] = Numbers[j]

(* get_options writes the numbers the list names, ranges expanded, and     *)
(* nothing behind the array.                                               *)
ListParsed ==
  /\ ArrayKept
  /\ ListExpanded
=============================================================================
