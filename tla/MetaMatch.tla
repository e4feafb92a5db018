----------------------------- MODULE MetaMatch ------------------------------
(***************************************************************************)
(* MetaMatch (lib/str.c): does a string match a pattern of characters,     *)
(* "?", "*" and sets "[a-cx]"?  Characters are their codes.                *)
(***************************************************************************)
EXTENDS Integers, SequencesExt, FiniteSetsExt

CONSTANTS
  Subjects,      (* the strings                                            *)
  PatternItems,  (* the sequences of items that patterns are written from  *)
  BehindPattern  (* what can be in memory behind the pattern               *)

VARIABLES items, String, Pattern, matched

matchVars == <<items, String, Pattern, matched>>

EndChar == 0
Star == 42
Hyphen == 45
AnyOne == 63
Open == 91
Close == 93

(* How an item is written; a set has characters and pairs of them.         *)
Spelled(item) ==
  CASE item.kind = "char" -> <<item.char>>
    [] item.kind = "star" -> <<Star>>
    [] item.kind = "any" -> <<AnyOne>>
    [] item.kind = "set" ->
         <<Open>> \o FlattenSeq([i \in DOMAIN item.of |->
                      LET r == item.of[i]
                      IN  IF Len(r) = 1 THEN r ELSE <<r[1], Hyphen, r[2]>>]) \o <<Close>>
    [] item.kind = "unclosed" -> <<Open>> \o item.of

MatchInit ==
  /\ items \in PatternItems /\ String \in Subjects
  /\ \E behind \in BehindPattern :
       Pattern = FlattenSeq([i \in DOMAIN items |-> Spelled(items[i])])
                   \o <<EndChar>> \o behind
  /\ matched = "unasked"

-----------------------------------------------------------------------------
CharAt(s, i) == IF i <= Len(s) THEN s[i] ELSE EndChar

NoMatch == 0

(* "Skip to end of match char set", from the character that has matched.   *)
BehindSet(q) == Min({r \in q..(Len(Pattern) + 1) : CharAt(Pattern, r) \in {EndChar, Close}}) + 1

(* Where the pattern goes on behind the set whose characters begin at q, if*)
(* c is in it.  A range that has not matched leaves its end as a character.*)
MatchSet(c, first) ==
  LET scan[q \in 1..(Len(Pattern) + 2), last \in Range(Pattern) \cup {EndChar}] ==
        LET p == CharAt(Pattern, q)
            high == CharAt(Pattern, q + 1)
        IN  CASE p = EndChar -> q + 1
              [] p = Close -> NoMatch
              [] p = Hyphen /\ high \in {EndChar, Close} -> NoMatch
              [] p = Hyphen /\ high \notin {EndChar, Close} ->
                   IF c \in last..high \/ c = high THEN BehindSet(q + 1)
                   ELSE scan[q + 1, high]
              [] OTHER -> IF c = p THEN BehindSet(q + 1) ELSE scan[q + 1, p]
  IN  scan[first, EndChar]

StarTakes(s) == s..(Len(String) + 1)

Matches ==
  LET match[s \in 1..(Len(String) + 1), p \in 1..(Len(Pattern) + 4)] ==
        LET c == CharAt(String, s)
            meta == CharAt(Pattern, p)
        IN  CASE meta = EndChar -> c = EndChar
              [] meta = Star -> \E t \in StarTakes(s) : match[t, p + 1]
              [] meta = AnyOne -> c # EndChar /\ match[s + 1, p + 1]
              [] meta = Open ->
                   /\ c # EndChar
                   /\ MatchSet(c, p + 1) # NoMatch
                   /\ match[s + 1, MatchSet(c, p + 1)]
              [] OTHER -> c = meta /\ match[s + 1, p + 1]
  IN  match[1, 1]

AskMatch ==
  /\ matched = "unasked"
  /\ matched' = IF Matches THEN "yes" ELSE "no"
  /\ UNCHANGED <<items, String, Pattern>>

MatchNext == AskMatch

-----------------------------------------------------------------------------
(* Is this character one of those an item stands for?                      *)
Takes1(item, c) ==
  CASE item.kind = "char" -> c = item.char
    [] item.kind = "any" -> TRUE
    [] item.kind = "set" ->
         \E i \in DOMAIN item.of :
           LET r == item.of[i]
           IN  c \in Range(r) \/ (Len(r) = 2 /\ c \in r[1]..r[2])
    [] OTHER -> FALSE

(* The answer of the recursion is yes when the string can be cut into      *)
(* stretches, one for each item of the pattern in their order: any stretch *)
(* for a star, and one character that is in it for every other item.  For  *)
(* a pattern with a set that is not closed, where the code goes on behind  *)
(* the end of the pattern, nothing is promised.                            *)
MatchesAsMeant ==
  LET n == Len(items)
      wellFormed == \A i \in 1..n : items[i].kind # "unclosed"
      Cuts == {f \in [0..n -> 0..Len(String)] :
                 f[0] = 0 /\ f[n] = Len(String) /\ \A i \in 1..n : f[i - 1] <= f[i]}
  IN  matched # "unasked" /\ wellFormed =>
        (matched = "yes" <=>
          \E f \in Cuts : \A i \in 1..n :
            \/ items[i].kind = "star"
            \/ f[i] = f[i - 1] + 1 /\ Takes1(items[i], String[f[i]]))
=============================================================================
