----------------------------- MODULE FdtProofs ------------------------------
(***************************************************************************)
(* Theorems about update_fdt, for every tree a firmware may pass and every *)
(* size of the buffer, and about libfdt's sequential writing, for every    *)
(* order of its calls.  At the end: update_fdt implements DeviceTree.      *)
(***************************************************************************)
EXTENDS UpdateFdt, FdtSw, NumberTheorems, SequenceTheorems, FiniteSetTheorems

(* The sums of all first parts of a sequence of numbers, which SumOf's     *)
(* recursive function is.                                                  *)
IsSums(u, sizes) ==
  u = [n \in 0..Len(sizes) |-> IF n = 0 THEN 0 ELSE u[n - 1] + sizes[n]]

(* The recursion that sums a sequence has a solution, so that SumOf is     *)
(* one.                                                                    *)
LEMMA SumsExist ==
  ASSUME NEW s \in Seq(Nat)
  PROVE  \E u : IsSums(u, s)
<1> DEFINE Is(u, k) == u = [n \in 0..k |-> IF n = 0 THEN 0 ELSE u[n - 1] + s[n]]
           T == {k \in Nat : \E u : Is(u, k)}
<1>1. 0 \in T
  <2>1. Is([n \in 0..0 |-> 0], 0)
    OBVIOUS
  <2> QED
    BY <2>1
<1>2. ASSUME NEW k \in Nat, k \in T PROVE k + 1 \in T
  <2>1. PICK u : Is(u, k)
    BY <1>2
  <2> DEFINE v == [n \in 0..(k + 1) |-> IF n = k + 1 THEN u[k] + s[k + 1] ELSE u[n]]
  <2>2. ASSUME NEW n \in 0..(k + 1)
        PROVE  v[n] = IF n = 0 THEN 0 ELSE v[n - 1] + s[n]
    <3>1. CASE n = k + 1
      BY <3>1
    <3>2. CASE n # k + 1
      <4>1. v[n] = u[n] /\ n \in 0..k
        BY <3>2
      <4>2. n # 0 => v[n - 1] = u[n - 1]
        BY <3>2
      <4> HIDE DEF v
      <4>3. u[n] = IF n = 0 THEN 0 ELSE u[n - 1] + s[n]
        BY <2>1, <4>1
      <4> QED
        BY <4>1, <4>2, <4>3
    <3> QED
      BY <3>1, <3>2
  <2>3. v = [n \in 0..(k + 1) |-> v[n]]
    OBVIOUS
  <2> HIDE DEF v
  <2>4. Is(v, k + 1)
    BY <2>2, <2>3
  <2> HIDE DEF Is
  <2>5. \E x : Is(x, k + 1)
    BY <2>4
  <2> QED
    BY <2>5
<1> HIDE DEF T
<1>3. Len(s) \in T
  BY <1>1, <1>2, AllNat, Len(s) \in Nat
<1> QED
  BY <1>3 DEF IsSums, T

(* Any solution gives the sum.                                             *)
LEMMA SumOfIs ==
  ASSUME NEW s \in Seq(Nat), NEW u, IsSums(u, s)
  PROVE  /\ SumOf(s) = u[Len(s)] /\ u \in [0..Len(s) -> Nat]
         /\ u[0] = 0 /\ \A n \in 1..Len(s) : u[n] = u[n - 1] + s[n]
<1> DEFINE w == CHOOSE w : IsSums(w, s)
<1>1. SumOf(s) = w[Len(s)]
  BY DEF SumOf, IsSums
<1>2. IsSums(w, s)
  BY SumsExist
<1> HIDE DEF w
<1>3. Len(s) \in Nat /\ \A n \in 1..Len(s) : s[n] \in Nat
  OBVIOUS
<1> DEFINE T == {n \in Nat : n <= Len(s) => w[n] = u[n] /\ u[n] \in Nat}
<1>4. 0 \in T
  BY <1>2, <1>3 DEF IsSums
<1>5. ASSUME NEW n \in Nat, n \in T PROVE n + 1 \in T
  <2> SUFFICES ASSUME n + 1 <= Len(s) PROVE w[n + 1] = u[n + 1] /\ u[n + 1] \in Nat
    OBVIOUS
  <2>1. w[n] = u[n] /\ u[n] \in Nat /\ s[n + 1] \in Nat
    BY <1>5, <1>3
  <2>2. n + 1 \in 0..Len(s) /\ n + 1 # 0 /\ (n + 1) - 1 = n
    BY <1>3
  <2>3. w[n + 1] = w[n] + s[n + 1]
    BY <1>2, <2>2 DEF IsSums
  <2>4. u[n + 1] = u[n] + s[n + 1]
    BY <2>2 DEF IsSums
  <2> QED
    BY <2>1, <2>3, <2>4
<1> HIDE DEF T
<1>6. \A n \in Nat : n \in T
  BY <1>4, <1>5, AllNat
<1>7. u = [n \in 0..Len(s) |-> u[n]]
  <2>1. DOMAIN u = 0..Len(s)
    BY DEF IsSums
  <2> QED
    BY <2>1 DEF IsSums
<1>8. \A n \in 0..Len(s) : w[n] = u[n] /\ u[n] \in Nat
  BY <1>3, <1>6 DEF T
<1>9. u[0] = 0
  BY <1>3 DEF IsSums
<1>10. ASSUME NEW n \in 1..Len(s) PROVE u[n] = u[n - 1] + s[n]
  <2>1. n \in 0..Len(s) /\ n # 0
    BY <1>3
  <2> QED
    BY <2>1 DEF IsSums
<1>11. SumOf(s) = u[Len(s)]
  BY <1>1, <1>3, <1>8
<1>12. u \in [0..Len(s) -> Nat]
  BY <1>7, <1>8
<1> QED
  BY <1>9, <1>10, <1>11, <1>12

(* The sum of two sequences behind each other.                             *)
LEMMA SumOfConcat ==
  ASSUME NEW s \in Seq(Nat), NEW t \in Seq(Nat)
  PROVE  /\ s \o t \in Seq(Nat) /\ SumOf(s) \in Nat
         /\ SumOf(s \o t) = SumOf(s) + SumOf(t)
<1> DEFINE c == s \o t
           m == Len(s)
           k == Len(t)
<1>1. PICK u : IsSums(u, s)
  BY SumsExist
<1>2. PICK v : IsSums(v, t)
  BY SumsExist
<1>3. /\ SumOf(s) = u[m] /\ u \in [0..m -> Nat] /\ u[0] = 0
      /\ \A n \in 1..m : u[n] = u[n - 1] + s[n]
  BY <1>1, SumOfIs
<1>9. /\ SumOf(t) = v[k] /\ v \in [0..k -> Nat] /\ v[0] = 0
      /\ \A n \in 1..k : v[n] = v[n - 1] + t[n]
  BY <1>2, SumOfIs
<1>4. /\ c \in Seq(Nat) /\ Len(c) = m + k /\ m \in Nat /\ k \in Nat
      /\ \A i \in 1..(m + k) : c[i] = IF i <= m THEN s[i] ELSE t[i - m]
  BY ConcatProperties
<1> DEFINE w == [n \in 0..(m + k) |-> IF n <= m THEN u[n] ELSE u[m] + v[n - m]]
<1>5. ASSUME NEW n \in 0..(m + k)
      PROVE  w[n] = IF n = 0 THEN 0 ELSE w[n - 1] + c[n]
  <2>1. CASE n = 0
    BY <2>1, <1>3, <1>4
  <2>2. CASE n \in 1..m
    <3>1. w[n] = u[n] /\ w[n - 1] = u[n - 1] /\ c[n] = s[n]
      BY <2>2, <1>4
    <3>2. u[n] = u[n - 1] + s[n]
      BY <2>2, <1>3
    <3> QED
      BY <2>2, <3>1, <3>2
  <2>3. CASE n \in (m + 1)..(m + k)
    <3>1. w[n] = u[m] + v[n - m] /\ c[n] = t[n - m]
      BY <2>3, <1>4
    <3>2. n - m \in 1..k
      BY <2>3, <1>4
    <3>3. v[n - m] = v[n - m - 1] + t[n - m] /\ v[0] = 0
      BY <3>2, <1>9
    <3>4. w[n - 1] = u[m] + v[n - m - 1]
      <4>1. CASE n = m + 1
        <5>1. w[n - 1] = u[m] /\ v[n - m - 1] = 0 /\ u[m] \in Nat
          BY <4>1, <1>3, <1>4, <1>9
        <5> QED
          BY <5>1
      <4>2. CASE n # m + 1
        BY <4>2, <2>3, <1>4
      <4> QED
        BY <4>1, <4>2
    <3>5. u[m] \in Nat /\ v[n - m - 1] \in Nat /\ t[n - m] \in Nat
      <4>1. m \in 0..m /\ n - m - 1 \in 0..k
        BY <1>4, <3>2
      <4>2. u[m] \in Nat
        BY <4>1, <1>3
      <4>3. v[n - m - 1] \in Nat
        BY <4>1, <1>9
      <4>4. t[n - m] \in Nat
        BY <3>2
      <4> QED
        BY <4>2, <4>3, <4>4
    <3>6. w[n] = w[n - 1] + c[n]
      BY <3>1, <3>3, <3>4, <3>5, SMTT(30)
    <3> QED
      BY <2>3, <3>6, <1>4
  <2> QED
    BY <2>1, <2>2, <2>3, <1>4
<1>6. w = [n \in 0..(m + k) |-> w[n]] /\ w[m + k] = u[m] + v[k]
  <2>1. w[m + k] = u[m] + v[k]
    <3>1. CASE k = 0
      BY <3>1, <1>3, <1>4, <1>9
    <3>2. CASE k # 0
      BY <3>2, <1>4
    <3> QED
      BY <3>1, <3>2
  <2> QED
    BY <2>1
<1> HIDE DEF w
<1>7. IsSums(w, c)
  BY <1>4, <1>5, <1>6 DEF IsSums
<1>8. SumOf(c) = w[m + k]
  BY <1>4, <1>7, SumOfIs
<1>10. SumOf(s) \in Nat
  <2>1. m \in 0..m
    BY <1>4
  <2> QED
    BY <2>1, <1>3
<1>11. SumOf(c) = SumOf(s) + SumOf(t)
  BY <1>3, <1>6, <1>8, <1>9
<1> QED
  BY <1>4, <1>10, <1>11

(* The sum of one number.                                                  *)
LEMMA SumOfOne ==
  ASSUME NEW n \in Nat
  PROVE  SumOf(<<n>>) = n /\ SumOf(<<>>) = 0
<1>1. IsSums([i \in 0..1 |-> IF i = 0 THEN 0 ELSE n], <<n>>)
  BY DEF IsSums
<1>2. IsSums([i \in 0..0 |-> 0], <<>>)
  BY DEF IsSums
<1>3. <<n>> \in Seq(Nat) /\ <<>> \in Seq(Nat) /\ Len(<<n>>) = 1 /\ Len(<<>>) = 0
  OBVIOUS
<1>4. SumOf(<<n>>) = [i \in 0..1 |-> IF i = 0 THEN 0 ELSE n][1]
  BY <1>1, <1>3, SumOfIs
<1>5. SumOf(<<>>) = [i \in 0..0 |-> 0][0]
  BY <1>2, <1>3, SumOfIs
<1> QED
  BY <1>4, <1>5

(* The sum of five, as many as efi_get_fdt_size adds up for /chosen.       *)
LEMMA SumOfFive ==
  ASSUME NEW a \in Nat, NEW b \in Nat, NEW c \in Nat, NEW d \in Nat, NEW e \in Nat
  PROVE  SumOf(<<a, b, c, d, e>>) = a + b + c + d + e
<1> DEFINE s == <<a, b, c, d, e>>
<1>1. s \in Seq(Nat) /\ Len(s) = 5
  OBVIOUS
<1>2. PICK u : IsSums(u, s)
  BY <1>1, SumsExist
<1>3. SumOf(s) = u[5] /\ u[0] = 0 /\ \A n \in 1..5 : u[n] = u[n - 1] + s[n]
  BY <1>1, <1>2, SumOfIs
<1>4. u[1] = u[0] + a /\ u[2] = u[1] + b /\ u[3] = u[2] + c /\ u[4] = u[3] + d
      /\ u[5] = u[4] + e
  BY <1>3
<1> QED
  BY <1>3, <1>4

-----------------------------------------------------------------------------
(* The values that get into the tree.                                      *)
Lengths(V) == \A v \in V : v.len \in Nat

Values ==
  (UNION {ValuesOf(t) : t \in Trees}) \cup CmdLines \cup {Cells}
    \cup [len : {4, 8}, data : 0..Rounds]

(* The values update_fdt writes have lengths.                              *)
LEMMA ValuesHaveLengths == Lengths(Values)
<1> SUFFICES ASSUME NEW v \in Values PROVE v.len \in Nat
  BY DEF Lengths
<1>1. CASE v \in UNION {ValuesOf(t) : t \in Trees}
  <2>1. PICK t \in Trees : v \in ValuesOf(t)
    BY <1>1
  <2>2. \A w \in ValuesOf(t) : w.len \in Nat
    BY TreesAssumption, Zenon
  <2> QED
    BY <2>1, <2>2
<1>2. CASE v \in CmdLines
  BY <1>2, TreesAssumption
<1>3. CASE v = Cells
  BY <1>3 DEF Cells
<1>4. CASE v \in [len : {4, 8}, data : 0..Rounds]
  BY <1>4
<1> QED
  BY <1>1, <1>2, <1>3, <1>4 DEF Values

(* A tree of some values is one of more values.                            *)
LEMMA TreesGrow ==
  ASSUME NEW V, NEW W, V \subseteq W, NEW f \in TreesOf(V)
  PROVE  f \in TreesOf(W)
<1>1. TagsOf(V) \subseteq TagsOf(W)
  BY DEF TagsOf
<1>2. f.struct \in Seq(TagsOf(W))
  BY <1>1 DEF TreesOf
<1> QED
  BY <1>2 DEF TreesOf

-----------------------------------------------------------------------------
(* How long tags and strings are.                                          *)
LEMMA TagalignIs ==
  ASSUME NEW x \in Nat
  PROVE  Tagalign(x) \in Nat /\ x <= Tagalign(x)
<1>1. TagSize \in Nat \ {0}
  BY DEF TagSize
<1>2. /\ Tagalign(x) \in Int
      /\ x % TagSize = 0 => Tagalign(x) = x
      /\ x % TagSize # 0 => Tagalign(x) = x + (TagSize - (x % TagSize))
  BY <1>1, RoundUpIs, x \in Int, Zenon DEF Tagalign
<1>3. x % TagSize \in 0..(TagSize - 1)
  BY <1>1, DivMod
<1>4. TagSize = 4
  BY DEF TagSize
<1> QED
  BY <1>2, <1>3, <1>4

(* The bytes of a property: its head and its value, padded.                *)
LEMMA PropBytesIs ==
  ASSUME NEW no, NEW v, v.len \in Nat
  PROVE  Bytes(Prop(no, v)) = 12 + Tagalign(v.len) /\ Bytes(Prop(no, v)) \in Nat
<1>1. Prop(no, v).tag = "PROP" /\ Prop(no, v).value = v
  BY DEF Prop
<1>2. Bytes(Prop(no, v)) = 3 * TagSize + Tagalign(v.len)
  BY <1>1 DEF Bytes
<1> QED
  BY <1>2, TagalignIs DEF TagSize

(* Every tag has a number of bytes.                                        *)
LEMMA BytesNat ==
  ASSUME NEW V, Lengths(V), NEW t \in TagsOf(V)
  PROVE  Bytes(t) \in Nat
<1>1. CASE t \in [tag : {"BEGIN_NODE"}, name : Names]
  <2>1. t.tag = "BEGIN_NODE" /\ Length[t.name] + 1 \in Nat
    BY <1>1, NamesAssumption
  <2>2. Bytes(t) = TagSize + Tagalign(Length[t.name] + 1)
    BY <2>1 DEF Bytes
  <2> QED
    BY <2>1, <2>2, TagalignIs DEF TagSize
<1>2. CASE t \in [tag : {"PROP"}, nameoff : Nat \X Names, value : V]
  <2>1. t.tag = "PROP" /\ t.value.len \in Nat
    BY <1>2 DEF Lengths
  <2>2. Bytes(t) = 3 * TagSize + Tagalign(t.value.len)
    BY <2>1 DEF Bytes
  <2> QED
    BY <2>1, <2>2, TagalignIs DEF TagSize
<1>3. CASE t \in [tag : {"END_NODE", "NOP", "END"}]
  <2>1. t.tag # "BEGIN_NODE" /\ t.tag # "PROP"
    BY <1>3
  <2>2. Bytes(t) = TagSize
    BY <2>1 DEF Bytes
  <2> QED
    BY <2>2 DEF TagSize
<1> QED
  BY <1>1, <1>2, <1>3 DEF TagsOf

(* The bytes of two stretches of tags behind each other.                   *)
LEMMA BytesConcat ==
  ASSUME NEW T, \A t \in T : Bytes(t) \in Nat, NEW s \in Seq(T), NEW t \in Seq(T)
  PROVE  /\ StructBytes(s) \in Nat
         /\ StructBytes(s \o t) = StructBytes(s) + StructBytes(t)
<1> DEFINE sb == [i \in 1..Len(s) |-> Bytes(s[i])]
           tb == [i \in 1..Len(t) |-> Bytes(t[i])]
           cb == [i \in 1..Len(s \o t) |-> Bytes((s \o t)[i])]
<1>1. sb \in Seq(Nat) /\ Len(sb) = Len(s)
  OBVIOUS
<1>2. tb \in Seq(Nat) /\ Len(tb) = Len(t)
  OBVIOUS
<1>3. Len(s \o t) = Len(s) + Len(t)
      /\ \A i \in 1..(Len(s) + Len(t)) :
           (s \o t)[i] = IF i <= Len(s) THEN s[i] ELSE t[i - Len(s)]
  BY ConcatProperties
<1>4. sb \o tb \in Seq(Nat) /\ Len(sb \o tb) = Len(s) + Len(t)
      /\ \A i \in 1..(Len(s) + Len(t)) :
           (sb \o tb)[i] = IF i <= Len(s) THEN sb[i] ELSE tb[i - Len(s)]
  BY <1>1, <1>2, ConcatProperties
<1>5. ASSUME NEW i \in 1..(Len(s) + Len(t)) PROVE cb[i] = (sb \o tb)[i]
  <2>1. CASE i <= Len(s)
    BY <2>1, <1>3, <1>4
  <2>2. CASE i > Len(s)
    <3>1. i - Len(s) \in 1..Len(t)
      BY <2>2
    <3> QED
      BY <3>1, <2>2, <1>3, <1>4
  <2> QED
    BY <2>1, <2>2
<1>6. sb \o tb = [i \in 1..(Len(s) + Len(t)) |-> (sb \o tb)[i]]
  BY <1>4
<1>7. cb = sb \o tb
  BY <1>3, <1>5, <1>6
<1>8. SumOf(sb \o tb) = SumOf(sb) + SumOf(tb) /\ SumOf(sb) \in Nat
  BY <1>1, <1>2, SumOfConcat
<1> QED
  BY <1>7, <1>8 DEF StructBytes

(* The same for the structure blocks of trees.                             *)
LEMMA StructConcat ==
  ASSUME NEW V, Lengths(V), NEW s \in Seq(TagsOf(V)), NEW t \in Seq(TagsOf(V))
  PROVE  /\ StructBytes(s) \in Nat
         /\ StructBytes(s \o t) = StructBytes(s) + StructBytes(t)
<1>1. \A u \in TagsOf(V) : Bytes(u) \in Nat
  BY BytesNat
<1> QED
  BY <1>1, BytesConcat

(* The bytes of a structure block of one tag.                              *)
LEMMA StructOne ==
  ASSUME NEW t, Bytes(t) \in Nat
  PROVE  StructBytes(<<t>>) = Bytes(t) /\ StructBytes(<<>>) = 0
<1>1. [i \in 1..Len(<<t>>) |-> Bytes(<<t>>[i])] = <<Bytes(t)>>
  OBVIOUS
<1>2. [i \in 1..Len(<<>>) |-> Bytes(<<>>[i])] = <<>>
  OBVIOUS
<1> QED
  BY <1>1, <1>2, SumOfOne DEF StructBytes

(* A string that is appended takes its length and a NUL.                   *)
LEMMA StringAppend ==
  ASSUME NEW s \in Seq(Names), NEW name \in Names
  PROVE  /\ StringBytes(s) \in Nat
         /\ StringBytes(Append(s, name)) = StringBytes(s) + Length[name] + 1
<1> DEFINE sb == [i \in 1..Len(s) |-> Length[s[i]] + 1]
           one == <<Length[name] + 1>>
           ab == [i \in 1..Len(Append(s, name)) |-> Length[Append(s, name)[i]] + 1]
<1>1. sb \in Seq(Nat) /\ Len(sb) = Len(s)
  BY NamesAssumption
<1>2. one \in Seq(Nat) /\ Len(one) = 1 /\ one[1] = Length[name] + 1
  BY NamesAssumption
<1>3. /\ sb \o one \in Seq(Nat) /\ Len(sb \o one) = Len(s) + 1
      /\ \A i \in 1..(Len(s) + 1) :
           (sb \o one)[i] = IF i <= Len(s) THEN sb[i] ELSE one[i - Len(s)]
  BY <1>1, <1>2, ConcatProperties
<1>4. Len(Append(s, name)) = Len(s) + 1
      /\ \A i \in 1..(Len(s) + 1) :
           Append(s, name)[i] = IF i <= Len(s) THEN s[i] ELSE name
  OBVIOUS
<1>5. ASSUME NEW i \in 1..(Len(s) + 1) PROVE ab[i] = (sb \o one)[i]
  <2>1. CASE i <= Len(s)
    BY <2>1, <1>3, <1>4
  <2>2. CASE i = Len(s) + 1
    BY <2>2, <1>2, <1>3, <1>4
  <2> QED
    BY <2>1, <2>2
<1>6. sb \o one = [i \in 1..(Len(s) + 1) |-> (sb \o one)[i]]
  BY <1>3
<1>7. ab = sb \o one
  BY <1>4, <1>5, <1>6
<1>8. SumOf(sb \o one) = SumOf(sb) + SumOf(one) /\ SumOf(sb) \in Nat
  BY <1>1, <1>2, SumOfConcat
<1>9. SumOf(one) = Length[name] + 1 /\ Length[name] \in Nat
  BY NamesAssumption, SumOfOne
<1>10. StringBytes(Append(s, name)) = SumOf(ab) /\ StringBytes(s) = SumOf(sb)
  BY DEF StringBytes
<1> HIDE DEF ab, sb, one
<1> QED
  BY <1>7, <1>8, <1>9, <1>10

-----------------------------------------------------------------------------
(* fdt_splice_struct_: n tags at from, none or one, give way to others.    *)
Spliced(f, g, from, n, tags) ==
  /\ Len(g.struct) = Len(f.struct) - n + Len(tags)
  /\ \A i \in 1..(from - 1) : g.struct[i] = f.struct[i]
  /\ \A i \in 1..Len(tags) : g.struct[from - 1 + i] = tags[i]
  /\ \A i \in (from + n)..Len(f.struct) : g.struct[i - n + Len(tags)] = f.struct[i]

(* What no call of libfdt in update_fdt changes but opening and packing.   *)
SameHeader(f, g) ==
  g.version = f.version /\ g.reserved = f.reserved /\ g.total = f.total

(* What it leaves is in front of the tags, the tags, and what is behind.   *)
SplicedInto(T, s, from, n, tags) ==
  LET a == SubSeq(s, 1, from - 1)
      b == SubSeq(s, from, from + n - 1)
      c == SubSeq(s, from + n, Len(s))
      u == (a \o tags) \o c
  IN  /\ a \in Seq(T) /\ b \in Seq(T) /\ c \in Seq(T) /\ u \in Seq(T)
      /\ s = (a \o b) \o c
      /\ n = 0 => b = <<>>
      /\ n = 1 => b = <<s[from]>>
      /\ Len(u) = Len(s) - n + Len(tags)
      /\ \A i \in 1..(from - 1) : u[i] = s[i]
      /\ \A i \in 1..Len(tags) : u[from - 1 + i] = tags[i]
      /\ \A i \in (from + n)..Len(s) : u[i - n + Len(tags)] = s[i]

(* What fdt_splice_ leaves: the tags in front of the place, the new ones,  *)
(* and the tags behind those that were replaced.                           *)
LEMMA SplicedTags ==
  ASSUME NEW T, NEW s \in Seq(T), NEW tags \in Seq(T), NEW from \in Nat, NEW n \in {0, 1},
         1 <= from, from + n <= Len(s) + 1
  PROVE  SplicedInto(T, s, from, n, tags)
<1> DEFINE a == SubSeq(s, 1, from - 1)
           b == SubSeq(s, from, from + n - 1)
           c == SubSeq(s, from + n, Len(s))
           h == a \o tags
           u == h \o c
<1>1. Len(s) \in Nat /\ Len(tags) \in Nat /\ from - 1 \in Nat /\ from - 1 <= Len(s)
  OBVIOUS
<1>2. a \in Seq(T) /\ Len(a) = from - 1 /\ \A i \in 1..(from - 1) : a[i] = s[i]
  <2>1. \A i \in 1..(from - 1) : s[i] \in T
    BY <1>1
  <2>2. /\ a \in Seq(T) /\ Len(a) = IF 1 <= from - 1 THEN (from - 1) - 1 + 1 ELSE 0
        /\ \A i \in 1..((from - 1) - 1 + 1) : a[i] = s[1 + i - 1]
    BY <1>1, <2>1, SubSeqProperties
  <2>3. \A i \in 1..(from - 1) : a[i] = s[i]
    <3>1. ASSUME NEW i \in 1..(from - 1) PROVE a[i] = s[i]
      <4>1. i \in 1..((from - 1) - 1 + 1) /\ 1 + i - 1 = i
        BY <1>1
      <4> HIDE DEF a
      <4> QED
        BY <2>2, <4>1
    <3> QED
      BY <3>1
  <2> HIDE DEF a
  <2> QED
    BY <1>1, <2>2, <2>3
<1>3. c \in Seq(T) /\ Len(c) = Len(s) - (from + n) + 1
      /\ \A i \in (from + n)..Len(s) : c[i - (from + n) + 1] = s[i]
  <2>1. \A i \in (from + n)..Len(s) : s[i] \in T
    OBVIOUS
  <2>2. /\ c \in Seq(T) /\ Len(c) = IF from + n <= Len(s) THEN Len(s) - (from + n) + 1 ELSE 0
        /\ \A i \in 1..(Len(s) - (from + n) + 1) : c[i] = s[from + n + i - 1]
    BY <1>1, <2>1, SubSeqProperties
  <2> HIDE DEF c
  <2>3. Len(c) = Len(s) - (from + n) + 1
    BY <1>1, <2>2
  <2>4. ASSUME NEW i \in (from + n)..Len(s) PROVE c[i - (from + n) + 1] = s[i]
    <3>1. i - (from + n) + 1 \in 1..(Len(s) - (from + n) + 1)
          /\ from + n + (i - (from + n) + 1) - 1 = i
      BY <1>1
    <3> QED
      BY <2>2, <3>1
  <2> QED
    BY <2>2, <2>3, <2>4
<1>4. b \in Seq(T) /\ (n = 0 => b = <<>>) /\ (n = 1 => b = <<s[from]>>)
  <2>1. CASE n = 0
    <3>1. from + n - 1 < from
      BY <2>1
    <3>2. b = <<>>
      BY <1>1, <3>1, SubSeqEmpty
    <3> QED
      BY <2>1, <3>2
  <2>2. CASE n = 1
    <3>1. from + n - 1 = from /\ from \in 1..Len(s) /\ s[from] \in T
      BY <2>2
    <3>2. SubSeq(s, from, from) \in Seq(T) /\ Len(SubSeq(s, from, from)) = 1
          /\ SubSeq(s, from, from)[1] = s[from]
      <4>1. \A i \in from..from : s[i] \in T
        BY <3>1
      <4>2. /\ SubSeq(s, from, from) \in Seq(T)
            /\ Len(SubSeq(s, from, from)) = IF from <= from THEN from - from + 1 ELSE 0
            /\ \A i \in 1..(from - from + 1) : SubSeq(s, from, from)[i] = s[from + i - 1]
        BY <4>1, SubSeqProperties
      <4> QED
        BY <4>2
    <3>3. SubSeq(s, from, from) = <<s[from]>>
      <4> DEFINE e == SubSeq(s, from, from)
      <4>1. e \in Seq(T) /\ Len(e) = 1 /\ e[1] = s[from]
        BY <3>2
      <4> HIDE DEF e
      <4>2. e = <<e[1]>>
        BY <4>1
      <4> QED
        BY <4>1, <4>2 DEF e
    <3> QED
      BY <2>2, <3>1, <3>2, <3>3
  <2> QED
    BY <2>1, <2>2
<1>5. a \o b = SubSeq(s, 1, from + n - 1)
  <2>1. 1 \in 1..(Len(s) + 1) /\ from - 1 \in (1 - 1)..Len(s) /\ from + n - 1 \in (from - 1)..Len(s)
        /\ (from - 1) + 1 = from
    BY <1>1
  <2>2. SubSeq(s, 1, from - 1) \o SubSeq(s, (from - 1) + 1, from + n - 1)
          = SubSeq(s, 1, from + n - 1)
    BY <2>1, ConcatAdjacentSubSeq
  <2> QED
    BY <2>1, <2>2
<1>6. s = (a \o b) \o c
  <2>1. 1 \in 1..(Len(s) + 1) /\ from + n - 1 \in (1 - 1)..Len(s) /\ Len(s) \in (from + n - 1)..Len(s)
        /\ (from + n - 1) + 1 = from + n
    BY <1>1
  <2>2. SubSeq(s, 1, from + n - 1) \o SubSeq(s, (from + n - 1) + 1, Len(s)) = SubSeq(s, 1, Len(s))
    BY <2>1, ConcatAdjacentSubSeq
  <2> QED
    BY <1>5, <2>1, <2>2, SubSeqFull
<1> HIDE DEF a, b, c
<1>7. h \in Seq(T) /\ Len(h) = from - 1 + Len(tags)
      /\ \A i \in 1..(from - 1 + Len(tags)) :
           h[i] = IF i <= from - 1 THEN a[i] ELSE tags[i - (from - 1)]
  <2>1. h \in Seq(T) /\ Len(h) = Len(a) + Len(tags)
        /\ \A i \in 1..(Len(a) + Len(tags)) :
             h[i] = IF i <= Len(a) THEN a[i] ELSE tags[i - Len(a)]
    BY <1>2, ConcatProperties
  <2> HIDE DEF h
  <2> QED
    BY <1>2, <2>1
<1> HIDE DEF h
<1>8. u \in Seq(T) /\ Len(u) = Len(h) + Len(c)
      /\ \A i \in 1..(Len(h) + Len(c)) :
           u[i] = IF i <= Len(h) THEN h[i] ELSE c[i - Len(h)]
  BY <1>3, <1>7, ConcatProperties
<1> HIDE DEF u
<1>9. Len(u) = Len(s) - n + Len(tags)
  <2>1. /\ Len(u) = Len(h) + Len(c) /\ Len(h) = from - 1 + Len(tags)
        /\ Len(c) = Len(s) - (from + n) + 1
    BY <1>3, <1>7, <1>8
  <2>2. n \in Nat
    OBVIOUS
  <2> QED
    BY <1>1, <2>1, <2>2
<1>len. /\ Len(h) = from - 1 + Len(tags) /\ Len(c) = Len(s) - (from + n) + 1
        /\ Len(s) \in Nat /\ Len(tags) \in Nat /\ n \in Nat /\ from \in Nat
        /\ 1 <= from /\ from + n - 1 <= Len(s)
  <2>1. Len(h) = from - 1 + Len(tags) /\ Len(c) = Len(s) - (from + n) + 1
    BY <1>3, <1>7
  <2> QED
    BY <1>1, <2>1
<1>10. ASSUME NEW i \in 1..(from - 1) PROVE u[i] = s[i]
  <2>1. i <= Len(h) /\ i \in 1..(Len(h) + Len(c)) /\ i \in 1..(from - 1 + Len(tags))
    BY <1>len
  <2>2. u[i] = h[i] /\ h[i] = a[i] /\ a[i] = s[i]
    BY <1>2, <1>7, <1>8, <2>1
  <2> QED
    BY <2>2
<1>11. ASSUME NEW i \in 1..Len(tags) PROVE u[from - 1 + i] = tags[i]
  <2>1. /\ from - 1 + i <= Len(h) /\ from - 1 + i \in 1..(Len(h) + Len(c))
        /\ from - 1 + i \in 1..(from - 1 + Len(tags)) /\ ~(from - 1 + i <= from - 1)
        /\ from - 1 + i - (from - 1) = i
    BY <1>len
  <2>2. u[from - 1 + i] = h[from - 1 + i]
    BY <1>8, <2>1
  <2>3. h[from - 1 + i] = tags[from - 1 + i - (from - 1)]
    BY <1>7, <2>1
  <2> QED
    BY <2>1, <2>2, <2>3
<1>12. ASSUME NEW i \in (from + n)..Len(s) PROVE u[i - n + Len(tags)] = s[i]
  <2> DEFINE j == i - n + Len(tags)
  <2>1. ~(j <= Len(h)) /\ j \in 1..(Len(h) + Len(c)) /\ j - Len(h) = i - (from + n) + 1
    BY <1>len
  <2>2. u[j] = c[j - Len(h)]
    BY <1>8, <2>1
  <2> QED
    BY <1>3, <2>1, <2>2
<1>13. u \in Seq(T)
  BY <1>8
<1>14. /\ a \in Seq(T) /\ b \in Seq(T) /\ c \in Seq(T)
       /\ (n = 0 => b = <<>>) /\ (n = 1 => b = <<s[from]>>)
  BY <1>2, <1>3, <1>4
<1> QED
  BY <1>6, <1>9, <1>10, <1>11, <1>12, <1>13, <1>14 DEF a, b, c, h, u, SplicedInto

(* The fields of a tree.                                                   *)
LEMMA TreeFields ==
  ASSUME NEW V, NEW f \in TreesOf(V)
  PROVE  /\ f.version \in Nat /\ f.reserved \in Nat /\ f.offRsv \in Nat /\ f.offStruct \in Nat
         /\ f.offStrings \in Nat /\ f.sizeStruct \in Nat /\ f.sizeStrings \in Nat
         /\ f.total \in Nat /\ f.struct \in Seq(TagsOf(V)) /\ f.strings \in Seq(Names)
         /\ Len(f.struct) \in Nat /\ Len(f.strings) \in Nat
BY DEF TreesOf

(* Its sizes are numbers.                                                  *)
LEMMA TreeNumbers ==
  ASSUME NEW V, Lengths(V), NEW f \in TreesOf(V)
  PROVE  /\ StructBytes(f.struct) \in Nat /\ StringBytes(f.strings) \in Nat
         /\ ReserveBytes(f) = 16 * f.reserved + 16 /\ ReserveBytes(f) \in Nat
         /\ DataSize(f) = f.offStrings + f.sizeStrings /\ DataSize(f) \in Nat
<1>1. StructBytes(f.struct) \in Nat
  BY TreeFields, StructConcat
<1>2. StringBytes(f.strings) \in Nat
  <2>1. \A i \in 1..Len(f.strings) : Length[f.strings[i]] + 1 \in Nat
    BY TreeFields, NamesAssumption
  <2>2. [i \in 1..Len(f.strings) |-> Length[f.strings[i]] + 1] \in Seq(Nat)
    BY <2>1, TreeFields
  <2>3. SumOf([i \in 1..Len(f.strings) |-> Length[f.strings[i]] + 1]) \in Nat
    BY <2>2, SumOfConcat
  <2> QED
    BY <2>3 DEF StringBytes
<1>3. ReserveBytes(f) = 16 * f.reserved + 16
  BY TreeFields DEF ReserveBytes, ReserveEntrySize
<1>4. DataSize(f) = f.offStrings + f.sizeStrings
  BY DEF DataSize
<1> QED
  BY <1>1, <1>2, <1>3, <1>4, TreeFields

(* A sound tree, with the sizes of its blocks spelled out.                 *)
LEMMA SoundIs ==
  ASSUME NEW V, Lengths(V), NEW f \in TreesOf(V)
  PROVE  Sound(f) <=>
           /\ f.sizeStruct = StructBytes(f.struct) /\ f.sizeStrings = StringBytes(f.strings)
           /\ 40 <= f.offRsv /\ f.offRsv + ReserveBytes(f) <= f.offStruct
           /\ f.offStruct + StructBytes(f.struct) <= f.offStrings
           /\ DataSize(f) <= f.total
<1>1. Misordered(f) <=>
        \/ f.offRsv < 40 \/ f.offStruct < f.offRsv + ReserveBytes(f)
        \/ f.offStrings < f.offStruct + StructBytes(f.struct)
        \/ f.total < DataSize(f)
  BY DEF Misordered, HeaderSize
<1>2. /\ f.offRsv \in Nat /\ f.offStruct \in Nat /\ f.offStrings \in Nat /\ f.total \in Nat
      /\ StructBytes(f.struct) \in Nat /\ ReserveBytes(f) \in Nat /\ DataSize(f) \in Nat
  BY TreeFields, TreeNumbers
<1>3. ~Misordered(f) <=>
        /\ 40 <= f.offRsv /\ f.offRsv + ReserveBytes(f) <= f.offStruct
        /\ f.offStruct + StructBytes(f.struct) <= f.offStrings
        /\ DataSize(f) <= f.total
  BY <1>1, <1>2
<1> QED
  BY <1>3 DEF Sound

(* fdt_splice_struct_ leaves a tree whose header tells the truth, or finds *)
(* no room and changes nothing.                                            *)
OldBytes(f, from, n) == IF n = 0 THEN 0 ELSE Bytes(f.struct[from])

SpliceLeaves(V, f, from, n, tags, old, r) ==
  /\ old \in Nat /\ StructBytes(tags) \in Nat
  /\ \/ /\ r.err = "NOSPACE" /\ r.fdt = f
        /\ DataSize(f) - old + StructBytes(tags) > f.total
     \/ /\ r.err = "none" /\ r.fdt \in TreesOf(V) /\ Sound(r.fdt)
        /\ SameHeader(f, r.fdt) /\ r.fdt.strings = f.strings
        /\ DataSize(r.fdt) = DataSize(f) - old + StructBytes(tags)
        /\ Spliced(f, r.fdt, from, n, tags)

(* fdt_splice_struct_ replaces the tags in place when they fit and fails   *)
(* without a change when they do not.                                      *)
LEMMA SpliceIs ==
  ASSUME NEW V, Lengths(V), NEW f \in TreesOf(V), Sound(f),
         NEW from \in Nat, NEW n \in {0, 1}, 1 <= from, from + n <= Len(f.struct) + 1,
         NEW tags \in Seq(TagsOf(V)), NEW r, r = SpliceStruct(f, from, n, tags)
  PROVE  SpliceLeaves(V, f, from, n, tags, OldBytes(f, from, n), r)
<1> DEFINE old == OldBytes(f, from, n)
           s == f.struct
           T == TagsOf(V)
           a == SubSeq(s, 1, from - 1)
           b == SubSeq(s, from, from + n - 1)
           c == SubSeq(s, from + n, Len(s))
           u == (a \o tags) \o c
           new == StructBytes(tags)
<1>1. s \in Seq(T) /\ Len(s) \in Nat
  BY TreeFields
<1>2. /\ a \in Seq(T) /\ b \in Seq(T) /\ c \in Seq(T) /\ u \in Seq(T)
      /\ s = (a \o b) \o c
      /\ n = 0 => b = <<>>
      /\ n = 1 => b = <<s[from]>>
      /\ Len(u) = Len(s) - n + Len(tags)
      /\ \A i \in 1..(from - 1) : u[i] = s[i]
      /\ \A i \in 1..Len(tags) : u[from - 1 + i] = tags[i]
      /\ \A i \in (from + n)..Len(s) : u[i - n + Len(tags)] = s[i]
  <2>1. SplicedInto(T, s, from, n, tags)
    BY <1>1, SplicedTags
  <2> QED
    BY <2>1 DEF SplicedInto
<1>3. StructBytes(b) = old
  <2>1. CASE n = 0
    BY <2>1, <1>2, StructOne, Bytes(Nop) \in Nat DEF Bytes, Nop, TagSize, OldBytes
  <2>2. CASE n = 1
    <3>1. s[from] \in T
      BY <1>1, <2>2
    <3>2. Bytes(s[from]) \in Nat
      BY <3>1, BytesNat
    <3> QED
      BY <2>2, <3>2, <1>2, StructOne DEF OldBytes
  <2> QED
    BY <2>1, <2>2
<1> HIDE DEF T, a, b, c, old
<1>4. /\ a \o b \in Seq(T) /\ a \o tags \in Seq(T)
  BY <1>2 DEF T
<1>5. /\ StructBytes(a) \in Nat /\ StructBytes(b) \in Nat /\ StructBytes(c) \in Nat
      /\ new \in Nat
  BY <1>2, StructConcat DEF T
<1>6. StructBytes(s) = StructBytes(a) + StructBytes(b) + StructBytes(c)
  <2>1. StructBytes(s) = StructBytes(a \o b) + StructBytes(c)
    BY <1>2, <1>4, StructConcat DEF T
  <2>2. StructBytes(a \o b) = StructBytes(a) + StructBytes(b)
    BY <1>2, StructConcat DEF T
  <2> QED
    BY <2>1, <2>2
<1>7. StructBytes(u) = StructBytes(a) + new + StructBytes(c)
  <2>1. StructBytes(u) = StructBytes(a \o tags) + StructBytes(c)
    BY <1>2, <1>4, StructConcat DEF T
  <2>2. StructBytes(a \o tags) = StructBytes(a) + new
    BY <1>2, StructConcat DEF T
  <2> QED
    BY <2>1, <2>2
<1>8. StructBytes(u) = StructBytes(s) - old + new /\ StructBytes(u) \in Nat /\ old \in Nat
  BY <1>3, <1>5, <1>6, <1>7
<1> DEFINE g == [f EXCEPT !.struct = u, !.sizeStruct = @ - old + new,
                          !.offStrings = @ - old + new]
<1>9. r = IF ~Splices(f, old, new) THEN Fails("NOSPACE", f) ELSE Done(g)
  BY <1>3 DEF SpliceStruct, a, b, c
<1>10. /\ f.sizeStruct = StructBytes(s) /\ f.sizeStrings = StringBytes(f.strings)
       /\ 40 <= f.offRsv /\ f.offRsv + ReserveBytes(f) <= f.offStruct
       /\ f.offStruct + StructBytes(s) <= f.offStrings /\ DataSize(f) <= f.total
  BY SoundIs
<1>18. /\ f.offRsv \in Nat /\ f.offStruct \in Nat /\ f.offStrings \in Nat /\ f.total \in Nat
       /\ f.sizeStrings \in Nat /\ ReserveBytes(f) \in Nat /\ DataSize(f) \in Nat
       /\ DataSize(f) = f.offStrings + f.sizeStrings /\ f.sizeStruct \in Nat
  BY TreeFields, TreeNumbers
<1>19. StructBytes(s) \in Nat /\ old \in Nat /\ new \in Nat
  BY <1>5, <1>8, TreeNumbers
<1>11. /\ g.version = f.version /\ g.reserved = f.reserved /\ g.offRsv = f.offRsv
       /\ g.offStruct = f.offStruct /\ g.sizeStrings = f.sizeStrings /\ g.total = f.total
       /\ g.strings = f.strings /\ g.struct = u
       /\ g.sizeStruct = f.sizeStruct - old + new /\ g.offStrings = f.offStrings - old + new
  BY DEF TreesOf
<1> HIDE DEF u, new
<1>12. f.sizeStruct - old + new \in Nat /\ f.offStrings - old + new \in Nat
  <2>1. StructBytes(u) = f.sizeStruct - old + new
    BY <1>8, <1>10
  <2>2. old <= StructBytes(s)
    BY <1>3, <1>5, <1>6
  <2>3. StructBytes(s) <= f.offStrings
    <3>1. \A p \in Nat, x \in Nat, q \in Nat : p + x <= q => x <= q
      OBVIOUS
    <3>2. f.offStruct + StructBytes(s) <= f.offStrings
      BY <1>10, SMTT(30)
    <3> QED
      BY <3>1, <3>2, <1>18, <1>19
  <2>4. \A p \in Nat, q \in Nat, x \in Nat, y \in Nat : x <= q /\ q <= p => p - x + y \in Nat
    OBVIOUS
  <2>5. f.offStrings - old + new \in Nat
    BY <2>2, <2>3, <2>4, <1>18, <1>19, Zenon
  <2> QED
    BY <2>1, <2>5, <1>8
<1>13. g \in TreesOf(V)
  BY <1>2, <1>12 DEF TreesOf, T
<1> HIDE DEF g
<1>14. ReserveBytes(g) = ReserveBytes(f)
  BY <1>11 DEF ReserveBytes
<1>15. DataSize(g) = DataSize(f) - old + new
  <2>1. DataSize(g) = (f.offStrings - old + new) + f.sizeStrings
    BY <1>11 DEF DataSize
  <2>2. f.offStrings \in Nat /\ f.sizeStrings \in Nat /\ old \in Nat /\ new \in Nat
    BY <1>18, <1>19
  <2>3. DataSize(f) = f.offStrings + f.sizeStrings
    BY <1>18
  <2> QED
    BY <2>1, <2>2, <2>3
<1>16. CASE ~Splices(f, old, new)
  <2>1. r.err = "NOSPACE" /\ r.fdt = f
    BY <1>9, <1>16 DEF Fails
  <2>2. ~(DataSize(f) - old + new <= f.total)
    BY <1>16 DEF Splices
  <2>3. \A p \in Nat, q \in Nat, x \in Nat, y \in Nat : ~(p - x + y <= q) => p - x + y > q
    OBVIOUS
  <2>4. DataSize(f) - old + new > f.total
    BY <2>2, <2>3, <1>18, <1>19, Zenon
  <2> QED
    BY <2>1, <2>4, <1>19 DEF new, SpliceLeaves, old
<1>17. CASE Splices(f, old, new)
  <2>1. r.err = "none" /\ r.fdt = g
    BY <1>9, <1>17 DEF Done
  <2>2. 40 <= g.offRsv /\ g.offRsv + ReserveBytes(g) <= g.offStruct
    BY <1>10, <1>11, <1>14
  <2>3. g.offStruct + StructBytes(g.struct) <= g.offStrings
    <3>1. StructBytes(g.struct) = StructBytes(s) - old + new /\ StructBytes(s) \in Nat
      BY <1>5, <1>6, <1>8, <1>11
    <3>2. g.offStrings = f.offStrings - old + new /\ g.offStruct = f.offStruct
      BY <1>11
    <3>3. f.offStruct + StructBytes(s) <= f.offStrings
      BY <1>10, SMTT(30)
    <3>4. /\ f.offStruct \in Nat /\ f.offStrings \in Nat /\ StructBytes(s) \in Nat
          /\ old \in Nat /\ new \in Nat
      BY <1>18, <1>19
    <3>5. \A p \in Nat, q \in Nat, o \in Nat, x \in Nat, y \in Nat :
            p + q <= o => p + (q - x + y) <= o - x + y
      OBVIOUS
    <3>6. f.offStruct + (StructBytes(s) - old + new) <= f.offStrings - old + new
      BY <3>3, <3>4, <3>5
    <3> QED
      BY <3>1, <3>2, <3>6
  <2>4. DataSize(g) <= g.total
    BY <1>11, <1>15, <1>17 DEF Splices
  <2>5. g.sizeStruct = StructBytes(g.struct) /\ g.sizeStrings = StringBytes(g.strings)
    BY <1>8, <1>10, <1>11
  <2>6. Sound(g)
    BY <2>2, <2>3, <2>4, <2>5, <1>13, SoundIs
  <2>7. Spliced(f, g, from, n, tags)
    BY <1>2, <1>11 DEF Spliced
  <2>8. SameHeader(f, g)
    BY <1>11 DEF SameHeader
  <2> QED
    BY <2>1, <2>6, <2>7, <2>8, <1>19, <1>11, <1>13, <1>15 DEF new, SpliceLeaves, old
<1> QED
  BY <1>16, <1>17

-----------------------------------------------------------------------------
(* The least element of a set, and the first one of a set of offsets.      *)
LEMMA MinIs ==
  ASSUME NEW S, S \subseteq Nat, S # {}
  PROVE  Min(S) \in S /\ \A y \in S : Min(S) <= y
<1>1. \E x \in S : \A y \in S : x <= y
  BY LeastNat
<1> QED
  BY <1>1 DEF Min

(* The first of a set of positions, 0 when there is none.                  *)
LEMMA FirstOfIs ==
  ASSUME NEW S, S \subseteq Nat \ {0}
  PROVE  /\ FirstOf(S) \in Nat
         /\ FirstOf(S) = 0 <=> S = {}
         /\ S # {} => FirstOf(S) \in S /\ \A y \in S : FirstOf(S) <= y
<1>1. CASE S = {}
  BY <1>1 DEF FirstOf, NotFound
<1>2. CASE S # {}
  <2>1. Min(S) \in S /\ \A y \in S : Min(S) <= y
    BY <1>2, MinIs
  <2>2. FirstOf(S) = Min(S)
    BY <1>2 DEF FirstOf
  <2> QED
    BY <1>2, <2>1, <2>2
<1> QED
  BY <1>1, <1>2

(* A least position is the first.                                          *)
LEMMA FirstOfUnique ==
  ASSUME NEW S, S \subseteq Nat \ {0}, NEW x \in S, \A y \in S : x <= y
  PROVE  FirstOf(S) = x
<1>1. FirstOf(S) \in S /\ \A y \in S : FirstOf(S) <= y
  BY FirstOfIs
<1>2. FirstOf(S) <= x /\ x <= FirstOf(S) /\ FirstOf(S) \in Nat /\ x \in Nat
  BY <1>1
<1> QED
  BY <1>2

-----------------------------------------------------------------------------
(* Looking up properties and names.                                        *)
IsProperty(f, i) == f.struct[i].tag \in {"PROP", "NOP"}
IsNamed(f, i, name) == IsTag(f, i, "PROP") /\ SpelledAt(f, f.struct[i].nameoff) = name

(* A node that a property can be put into.                                 *)
IsNode(f, n) == n \in 1..Len(f.struct) /\ IsTag(f, n, "BEGIN_NODE")

(* Behind the begin of a node there is another tag.                        *)
LEMMA NodeIsNotLast ==
  ASSUME NEW V, NEW f \in TreesOf(V), Readable(f), NEW n, IsNode(f, n)
  PROVE  n \in Nat /\ 1 <= n /\ n < Len(f.struct) /\ Len(f.struct) \in Nat
<1>1. n \in Nat /\ 1 <= n /\ n <= Len(f.struct) /\ Len(f.struct) \in Nat
  BY TreeFields DEF IsNode
<1>2. n # Len(f.struct)
  BY DEF IsNode, Readable, IsTag
<1> QED
  BY <1>1, <1>2

(* The properties of a node are the tags behind it that are properties, up *)
(* to the first that is neither one nor a NOP.                             *)
LEMMA PropertiesAre ==
  ASSUME NEW V, NEW f \in TreesOf(V), Readable(f), NEW n, IsNode(f, n), NEW j
  PROVE  j \in PropertiesOf(f, n) <=>
           /\ j \in (n + 1)..Len(f.struct) /\ IsTag(f, j, "PROP")
           /\ \A i \in (n + 1)..j : IsProperty(f, i)
<1> DEFINE E == {i \in (n + 1)..Len(f.struct) : f.struct[i].tag \notin {"PROP", "NOP"}}
           end == Min(E)
<1>1. n \in Nat /\ 1 <= n /\ n < Len(f.struct) /\ Len(f.struct) \in Nat
  BY NodeIsNotLast
<1>2. Len(f.struct) \in E
  BY <1>1 DEF Readable, IsTag
<1>3. E \subseteq Nat
  BY <1>1
<1>4. end \in E /\ \A i \in E : end <= i
  <2> HIDE DEF E
  <2> QED
    BY <1>2, <1>3, MinIs
<1>5. PropertiesOf(f, n) = {i \in (n + 1)..(end - 1) : IsTag(f, i, "PROP")}
  BY DEF PropertiesOf
<1>6. end \in (n + 1)..Len(f.struct) /\ ~IsProperty(f, end)
  BY <1>4 DEF IsProperty
<1>7. \A i \in (n + 1)..(end - 1) : IsProperty(f, i)
  <2>1. ASSUME NEW i \in (n + 1)..(end - 1) PROVE IsProperty(f, i)
    <3>1. i \in (n + 1)..Len(f.struct) /\ ~(end <= i)
      BY <1>1, <1>6
    <3>2. i \notin E
      BY <1>4, <3>1
    <3> QED
      BY <3>1, <3>2 DEF IsProperty
  <2> QED
    BY <2>1
<1> HIDE DEF end
<1>8. ASSUME j \in PropertiesOf(f, n)
      PROVE  /\ j \in (n + 1)..Len(f.struct) /\ IsTag(f, j, "PROP")
             /\ \A i \in (n + 1)..j : IsProperty(f, i)
  <2>1. j \in (n + 1)..(end - 1) /\ IsTag(f, j, "PROP")
    BY <1>5, <1>8
  <2>2. j \in (n + 1)..Len(f.struct)
    BY <2>1, <1>1, <1>6
  <2>3. \A i \in (n + 1)..j : i \in (n + 1)..(end - 1)
    BY <2>1, <1>1, <1>6
  <2> QED
    BY <2>1, <2>2, <2>3, <1>7
<1>9. ASSUME j \in (n + 1)..Len(f.struct), IsTag(f, j, "PROP"),
             \A i \in (n + 1)..j : IsProperty(f, i)
      PROVE  j \in PropertiesOf(f, n)
  <2>1. ~(end <= j)
    <3>1. SUFFICES ASSUME end <= j PROVE FALSE
      OBVIOUS
    <3>2. end \in (n + 1)..j
      BY <3>1, <1>1, <1>6, <1>9
    <3> QED
      BY <3>2, <1>6, <1>9
  <2>2. j \in (n + 1)..(end - 1)
    BY <2>1, <1>1, <1>6, <1>9
  <2> QED
    BY <2>2, <1>5, <1>9
<1> QED
  BY <1>8, <1>9

(* The first property of a node with a name.                               *)
FirstNamed(f, n, name, j) ==
  /\ j \in (n + 1)..Len(f.struct) /\ IsNamed(f, j, name)
  /\ \A i \in (n + 1)..(j - 1) : IsProperty(f, i) /\ ~IsNamed(f, i, name)

(* fdt_get_property_ finds the first property of the name, or none.        *)
LEMMA GetPropertyIs ==
  ASSUME NEW V, NEW f \in TreesOf(V), Readable(f), NEW n, IsNode(f, n), NEW name
  PROVE  /\ GetProperty(f, n, name) \in Nat
         /\ GetProperty(f, n, name) # 0 => FirstNamed(f, n, name, GetProperty(f, n, name))
         /\ \A j : FirstNamed(f, n, name, j) => GetProperty(f, n, name) = j /\ j # 0
<1> DEFINE S == {j \in PropertiesOf(f, n) : SpelledAt(f, f.struct[j].nameoff) = name}
<1>1. n \in Nat /\ 1 <= n /\ n < Len(f.struct) /\ Len(f.struct) \in Nat
  BY NodeIsNotLast
<1>2. S \subseteq Nat \ {0}
  <2>1. \A j \in S : j \in (n + 1)..Len(f.struct)
    BY PropertiesAre
  <2>2. (n + 1)..Len(f.struct) \subseteq Nat \ {0}
    BY <1>1
  <2> HIDE DEF S
  <2> QED
    BY <2>1, <2>2
<1>3. GetProperty(f, n, name) = FirstOf(S)
  BY DEF GetProperty
<1>4. \A j : j \in S <=>
        /\ j \in (n + 1)..Len(f.struct) /\ IsNamed(f, j, name)
        /\ \A i \in (n + 1)..j : IsProperty(f, i)
  BY PropertiesAre DEF IsNamed
<1> HIDE DEF S
<1>5. ASSUME FirstOf(S) # 0 PROVE FirstNamed(f, n, name, FirstOf(S))
  <2> DEFINE j == FirstOf(S)
  <2>1. j \in S /\ \A y \in S : j <= y
    BY <1>2, <1>5, FirstOfIs
  <2> HIDE DEF j
  <2>2. /\ j \in (n + 1)..Len(f.struct) /\ IsNamed(f, j, name)
        /\ \A i \in (n + 1)..j : IsProperty(f, i)
    BY <1>4, <2>1
  <2>3. ASSUME NEW i \in (n + 1)..(j - 1) PROVE IsProperty(f, i) /\ ~IsNamed(f, i, name)
    <3>1. i \in (n + 1)..j /\ i \in (n + 1)..Len(f.struct) /\ ~(j <= i)
      BY <1>1, <2>2
    <3>2. \A k \in (n + 1)..i : k \in (n + 1)..j
      BY <1>1, <2>2
    <3>3. i \notin S
      BY <2>1, <3>1
    <3> QED
      BY <1>4, <2>2, <3>1, <3>2, <3>3
  <2>4. FirstNamed(f, n, name, j)
    BY <2>2, <2>3 DEF FirstNamed
  <2> QED
    BY <2>4 DEF j
<1>6. ASSUME NEW j, FirstNamed(f, n, name, j) PROVE FirstOf(S) = j /\ j # 0
  <2>1. /\ j \in (n + 1)..Len(f.struct) /\ IsNamed(f, j, name)
        /\ \A i \in (n + 1)..(j - 1) : IsProperty(f, i) /\ ~IsNamed(f, i, name)
    BY <1>6 DEF FirstNamed
  <2>2. ASSUME NEW i \in (n + 1)..j PROVE IsProperty(f, i)
    <3>1. CASE i = j
      BY <2>1, <3>1 DEF IsNamed, IsProperty, IsTag
    <3>2. CASE i # j
      <4>1. i \in (n + 1)..(j - 1)
        BY <3>2, <2>1, <1>1
      <4> QED
        BY <4>1, <2>1
    <3> QED
      BY <3>1, <3>2
  <2>3. j \in S
    BY <1>4, <2>1, <2>2
  <2>4. ASSUME NEW y \in S PROVE j <= y
    <3>1. SUFFICES ASSUME ~(j <= y) PROVE FALSE
      OBVIOUS
    <3>2. y \in (n + 1)..Len(f.struct) /\ IsNamed(f, y, name)
      BY <1>4
    <3>3. y \in (n + 1)..(j - 1)
      BY <3>1, <3>2, <2>1, <1>1
    <3> QED
      BY <2>1, <3>2, <3>3
  <2>5. FirstOf(S) = j
    BY <1>2, <2>3, <2>4, FirstOfUnique
  <2> QED
    BY <2>5, <2>1, <1>1
<1>7. FirstOf(S) \in Nat
  BY <1>2, FirstOfIs
<1> QED
  BY <1>3, <1>5, <1>6, <1>7

(* The node has a property with a name and a value: the one that is found. *)
Has(f, n, name, v) ==
  GetProperty(f, n, name) # NotFound /\ f.struct[GetProperty(f, n, name)].value = v

(* What a name in the table is, and that names behind it do not change it. *)
EndsAt(f, i, name) ==
  /\ i \in 1..Len(f.strings)
  /\ f.strings[i] = name \/ <<f.strings[i], name>> \in EndsWith

(* A name is spelled at its own place in the strings.                      *)
LEMMA SpelledIs ==
  ASSUME NEW f, NEW i, NEW name \in Names
  PROVE  SpelledAt(f, <<i, name>>) = name <=> EndsAt(f, i, name)
BY NamesAssumption DEF SpelledAt, EndsAt

(* A place whose string is kept spells what it did.                        *)
LEMMA SpelledKept ==
  ASSUME NEW f, NEW g, NEW no, no[1] \in 1..Len(f.strings), no[1] \in 1..Len(g.strings),
         g.strings[no[1]] = f.strings[no[1]]
  PROVE  SpelledAt(g, no) = SpelledAt(f, no)
BY DEF SpelledAt

(* fdt_find_string_ finds a place where the name is, or there is none.     *)
LEMMA FoundIs ==
  ASSUME NEW f, Len(f.strings) \in Nat, NEW name \in Names
  PROVE  /\ FindString(f, name) \in 0..Len(f.strings)
         /\ FindString(f, name) # 0 => EndsAt(f, FindString(f, name), name)
         /\ FindString(f, name) = 0 => \A i : ~EndsAt(f, i, name)
<1> DEFINE S == {i \in 1..Len(f.strings) : SpelledAt(f, <<i, name>>) = name}
<1>1. Len(f.strings) \in Nat
  OBVIOUS
<1>2. S \subseteq Nat \ {0}
  BY <1>1
<1>3. \A i : i \in S <=> EndsAt(f, i, name)
  BY SpelledIs DEF EndsAt
<1>4. FindString(f, name) = FirstOf(S)
  BY DEF FindString
<1>5. \A i \in S : i \in 1..Len(f.strings)
  OBVIOUS
<1> HIDE DEF S
<1>6. CASE S = {}
  BY <1>6, <1>1, <1>2, <1>3, <1>4, FirstOfIs
<1>7. CASE S # {}
  <2>1. FirstOf(S) \in S /\ FirstOf(S) # 0
    BY <1>7, <1>2, FirstOfIs
  <2> QED
    BY <2>1, <1>1, <1>3, <1>4, <1>5
<1> QED
  BY <1>6, <1>7

(* The same, of a tree.                                                    *)
LEMMA FindStringIs ==
  ASSUME NEW V, NEW f \in TreesOf(V), NEW name \in Names
  PROVE  /\ FindString(f, name) \in 0..Len(f.strings)
         /\ FindString(f, name) # 0 => EndsAt(f, FindString(f, name), name)
         /\ FindString(f, name) = 0 => \A i : ~EndsAt(f, i, name)
BY TreeFields, FoundIs

-----------------------------------------------------------------------------
(* What setting a property leaves as it was.                               *)
StringsKept(f, g) ==
  /\ Len(f.strings) <= Len(g.strings)
  /\ \A i \in 1..Len(f.strings) : g.strings[i] = f.strings[i]

(* Every string behind the first k is the name of a property.              *)
Named(f, k) ==
  \A i \in (k + 1)..Len(f.strings) :
    \E j \in 1..Len(f.struct) : IsTag(f, j, "PROP") /\ f.struct[j].nameoff[1] = i

TagsKept(f, g, n) ==
  n <= Len(g.struct) /\ \A i \in 1..n : g.struct[i] = f.struct[i]

(* A property is a tag.                                                    *)
LEMMA PropIsTag ==
  ASSUME NEW V, NEW k \in Nat, NEW name \in Names, NEW v \in V
  PROVE  /\ Prop(<<k, name>>, v) \in TagsOf(V) /\ Prop(<<k, name>>, v).tag = "PROP"
         /\ Prop(<<k, name>>, v).nameoff = <<k, name>> /\ Prop(<<k, name>>, v).value = v
BY DEF Prop, TagsOf

(* The fields of a tag that is a property.                                 *)
LEMMA TagOfProp ==
  ASSUME NEW V, NEW t \in TagsOf(V), t.tag = "PROP"
  PROVE  /\ t.nameoff[1] \in Nat /\ t.nameoff[2] \in Names /\ t.value \in V
         /\ t.nameoff = <<t.nameoff[1], t.nameoff[2]>>
<1>1. t \in [tag : {"PROP"}, nameoff : Nat \X Names, value : V]
  BY DEF TagsOf
<1>2. t.nameoff \in Nat \X Names /\ t.value \in V
  BY <1>1
<1> QED
  BY <1>2

(* fdt_find_add_string_                                                    *)
LEMMA AddStringIs ==
  ASSUME NEW V, Lengths(V), NEW f \in TreesOf(V), Readable(f), Sound(f),
         NEW name \in Names, NEW r, r = AddString(f, name)
  PROVE  /\ Length[name] \in Nat
         /\ \/ /\ r.err = "NOSPACE" /\ DataSize(f) + Length[name] + 1 > f.total
            \/ /\ r.err = "none" /\ r.fdt \in TreesOf(V) /\ Readable(r.fdt) /\ Sound(r.fdt)
               /\ SameHeader(f, r.fdt) /\ r.fdt.struct = f.struct
               /\ DataSize(r.fdt) <= DataSize(f) + Length[name] + 1
               /\ StringsKept(f, r.fdt) /\ EndsAt(r.fdt, FindString(r.fdt, name), name)
               /\ \/ Len(r.fdt.strings) = Len(f.strings)
                  \/ /\ Len(r.fdt.strings) = Len(f.strings) + 1
                     /\ FindString(r.fdt, name) = Len(f.strings) + 1
<1>1. Length[name] \in Nat
  BY NamesAssumption
<1>2. /\ FindString(f, name) \in 0..Len(f.strings) /\ Len(f.strings) \in Nat
      /\ FindString(f, name) # 0 => EndsAt(f, FindString(f, name), name)
      /\ FindString(f, name) = 0 => \A i : ~EndsAt(f, i, name)
  BY FindStringIs, TreeFields
<1>3. CASE FindString(f, name) # NotFound
  <2>1. r.err = "none" /\ r.fdt = f
    BY <1>3 DEF AddString, Done
  <2>2. StringsKept(f, f) /\ SameHeader(f, f)
    BY <1>2 DEF StringsKept, SameHeader
  <2>3. DataSize(f) <= DataSize(f) + Length[name] + 1
    BY <1>1, TreeNumbers
  <2>4. EndsAt(f, FindString(f, name), name)
    BY <1>2, <1>3 DEF NotFound
  <2> QED
    BY <1>1, <2>1, <2>2, <2>3, <2>4
<1>4. CASE FindString(f, name) = NotFound /\ ~Splices(f, 0, Length[name] + 1)
  <2>1. r.err = "NOSPACE"
    BY <1>4 DEF AddString, Fails
  <2>2. f.total \in Nat /\ DataSize(f) \in Nat
    BY TreeFields, TreeNumbers
  <2>3. DataSize(f) + Length[name] + 1 > f.total
    BY <1>1, <1>4, <2>2 DEF Splices
  <2> QED
    BY <1>1, <2>1, <2>3
<1>5. CASE FindString(f, name) = NotFound /\ Splices(f, 0, Length[name] + 1)
  <2> DEFINE g == [f EXCEPT !.strings = Append(@, name), !.sizeStrings = @ + Length[name] + 1]
             len == Len(f.strings)
  <2>1. r.err = "none" /\ r.fdt = g
    BY <1>5 DEF AddString, Done
  <2>2. /\ g.version = f.version /\ g.reserved = f.reserved /\ g.offRsv = f.offRsv
        /\ g.offStruct = f.offStruct /\ g.offStrings = f.offStrings /\ g.total = f.total
        /\ g.strings = Append(f.strings, name) /\ g.struct = f.struct
        /\ g.sizeStruct = f.sizeStruct /\ g.sizeStrings = f.sizeStrings + Length[name] + 1
    BY DEF TreesOf
  <2>3. /\ Append(f.strings, name) \in Seq(Names) /\ Len(Append(f.strings, name)) = len + 1
        /\ \A i \in 1..len : Append(f.strings, name)[i] = f.strings[i]
        /\ Append(f.strings, name)[len + 1] = name
    BY TreeFields
  <2>4. g \in TreesOf(V)
    <3>1. f.sizeStrings + Length[name] + 1 \in Nat
      BY <1>1, TreeFields
    <3> QED
      BY <3>1, <2>3 DEF TreesOf
  <2> HIDE DEF g
  <2>5. /\ f.offStrings \in Nat /\ f.sizeStrings \in Nat /\ f.total \in Nat
        /\ DataSize(f) = f.offStrings + f.sizeStrings
    BY TreeFields, TreeNumbers
  <2>6. DataSize(g) = DataSize(f) + Length[name] + 1
    <3>1. DataSize(g) = f.offStrings + (f.sizeStrings + Length[name] + 1)
      BY <2>2 DEF DataSize
    <3> QED
      BY <3>1, <2>5, <1>1
  <2>7. DataSize(g) <= g.total
    <3>1. DataSize(f) - 0 + (Length[name] + 1) <= f.total
      BY <1>5 DEF Splices
    <3> QED
      BY <3>1, <2>2, <2>5, <2>6, <1>1
  <2>8. Sound(g)
    <3>1. /\ f.sizeStruct = StructBytes(f.struct) /\ f.sizeStrings = StringBytes(f.strings)
          /\ 40 <= f.offRsv /\ f.offRsv + ReserveBytes(f) <= f.offStruct
          /\ f.offStruct + StructBytes(f.struct) <= f.offStrings
      BY SoundIs
    <3>2. ReserveBytes(g) = ReserveBytes(f)
      BY <2>2 DEF ReserveBytes
    <3>3. g.sizeStrings = StringBytes(g.strings)
      BY <3>1, <2>2, TreeFields, StringAppend
    <3> QED
      BY <3>1, <3>2, <3>3, <2>2, <2>4, <2>7, SoundIs
  <2>9. Len(g.strings) = len + 1 /\ StringsKept(f, g)
    BY <1>2, <2>2, <2>3 DEF StringsKept
  <2>10. FindString(g, name) = len + 1 /\ EndsAt(g, len + 1, name)
    <3>1. EndsAt(g, len + 1, name)
      BY <1>2, <2>2, <2>3 DEF EndsAt
    <3>2. FindString(g, name) # 0 /\ EndsAt(g, FindString(g, name), name)
      BY <2>4, <3>1, FindStringIs
    <3>3. ASSUME NEW i \in 1..len PROVE ~EndsAt(g, i, name)
      <4>1. ~EndsAt(f, i, name)
        BY <1>2, <1>5 DEF NotFound
      <4> QED
        BY <4>1, <1>2, <2>2, <2>3 DEF EndsAt
    <3>4. FindString(g, name) \in 1..(len + 1)
      BY <3>2, <2>9 DEF EndsAt
    <3> QED
      BY <3>1, <3>2, <3>3, <3>4, <1>2
  <2>11. Readable(g)
    <3>1. ASSUME NEW j \in 1..Len(g.struct), IsTag(g, j, "PROP")
          PROVE  g.struct[j].nameoff[1] \in 1..Len(g.strings)
      <4>1. f.struct[j].nameoff[1] \in 1..len
        BY <2>2, <3>1 DEF Readable, IsTag
      <4> QED
        BY <4>1, <2>2, <2>9, <1>2
    <3> QED
      BY <3>1, <2>2 DEF Readable, IsTag
  <2>12. SameHeader(f, g)
    BY <2>2 DEF SameHeader
  <2>13. DataSize(g) <= DataSize(f) + Length[name] + 1
    BY <2>6, <2>4, TreeNumbers
  <2>14. g.struct = f.struct
    BY <2>2
  <2> QED
    BY <1>1, <2>1, <2>4, <2>8, <2>9, <2>10, <2>11, <2>12, <2>13, <2>14
<1> QED
  BY <1>3, <1>4, <1>5

(* A property put in front of the others of a node is the one that is      *)
(* found, and the others are found as before.                              *)
LEMMA Inserted ==
  ASSUME NEW V, NEW f \in TreesOf(V), NEW g \in TreesOf(V), Readable(f),
         NEW n, IsNode(f, n), NEW name \in Names, NEW k, NEW v \in V,
         StringsKept(f, g), EndsAt(g, k, name),
         Spliced(f, g, n + 1, 0, <<Prop(<<k, name>>, v)>>)
  PROVE  /\ Readable(g) /\ TagsKept(f, g, n) /\ Has(g, n, name, v)
         /\ \A other, w : other # name /\ Has(f, n, other, w) => Has(g, n, other, w)
         /\ \A m \in Nat :
              Named(f, m) /\ (\/ Len(g.strings) = Len(f.strings)
                              \/ Len(g.strings) = Len(f.strings) + 1 /\ k = Len(g.strings))
                => Named(g, m)
<1> DEFINE t == Prop(<<k, name>>, v)
           len == Len(f.struct)
<1>1. n \in Nat /\ 1 <= n /\ n < len /\ len \in Nat /\ Len(g.struct) \in Nat
  BY NodeIsNotLast, TreeFields
<1>2. /\ Len(f.strings) \in Nat /\ Len(g.strings) \in Nat /\ Len(f.strings) <= Len(g.strings)
      /\ \A i \in 1..Len(f.strings) : g.strings[i] = f.strings[i]
      /\ k \in 1..Len(g.strings) /\ k \in Nat
  BY TreeFields DEF StringsKept, EndsAt
<1>3. /\ t.tag = "PROP" /\ t.nameoff = <<k, name>> /\ t.value = v
  BY DEF Prop
<1> HIDE DEF t
<1>4. /\ Len(g.struct) = len + 1 /\ g.struct[n + 1] = t
      /\ \A i \in 1..n : g.struct[i] = f.struct[i]
      /\ \A i \in (n + 1)..len : g.struct[i + 1] = f.struct[i]
  <2>1. Len(<<t>>) = 1 /\ <<t>>[1] = t
    OBVIOUS
  <2>2. /\ Len(g.struct) = len - 0 + Len(<<t>>)
        /\ \A i \in 1..((n + 1) - 1) : g.struct[i] = f.struct[i]
        /\ \A i \in 1..Len(<<t>>) : g.struct[(n + 1) - 1 + i] = <<t>>[i]
        /\ \A i \in ((n + 1) + 0)..len : g.struct[i - 0 + Len(<<t>>)] = f.struct[i]
    BY DEF Spliced, t
  <2>3. Len(g.struct) = len + 1
    BY <1>1, <2>1, <2>2
  <2>4. \A i \in 1..n : g.struct[i] = f.struct[i]
    BY <1>1, <2>2
  <2>5. g.struct[n + 1] = t
    <3>1. (n + 1) - 1 + 1 = n + 1 /\ 1 \in 1..Len(<<t>>)
      BY <1>1, <2>1
    <3> QED
      BY <2>1, <2>2, <3>1
  <2>6. ASSUME NEW i \in (n + 1)..len PROVE g.struct[i + 1] = f.struct[i]
    <3>1. i \in ((n + 1) + 0)..len /\ i - 0 + 1 = i + 1
      BY <1>1
    <3> QED
      BY <2>1, <2>2, <3>1
  <2> QED
    BY <2>3, <2>4, <2>5, <2>6
<1>5. ASSUME NEW j \in 1..Len(g.struct), j # n + 1
      PROVE  \E i \in 1..len : g.struct[j] = f.struct[i] /\ (j <= n => i = j)
  <2>1. CASE j <= n
    BY <1>1, <1>4, <2>1
  <2>2. CASE j > n + 1
    <3>1. j - 1 \in (n + 1)..len /\ (j - 1) + 1 = j /\ j - 1 \in 1..len /\ ~(j <= n)
      BY <1>1, <1>4, <2>2
    <3> QED
      BY <1>4, <3>1
  <2> QED
    BY <1>1, <1>5, <2>1, <2>2
<1>6. Readable(g)
  <2>1. ASSUME NEW j \in 1..Len(g.struct), IsTag(g, j, "PROP")
        PROVE  g.struct[j].nameoff[1] \in 1..Len(g.strings)
    <3>1. CASE j = n + 1
      BY <1>2, <1>3, <1>4, <3>1
    <3>2. CASE j # n + 1
      <4>1. PICK i \in 1..len : g.struct[j] = f.struct[i]
        BY <1>5, <3>2
      <4>2. f.struct[i].nameoff[1] \in 1..Len(f.strings)
        BY <2>1, <4>1 DEF Readable, IsTag
      <4> QED
        BY <1>2, <4>1, <4>2
    <3> QED
      BY <3>1, <3>2
  <2>2. IsTag(g, 1, "BEGIN_NODE")
    BY <1>1, <1>4 DEF Readable, IsTag
  <2>3. IsTag(g, Len(g.struct), "END")
    <3>1. len \in (n + 1)..len
      BY <1>1
    <3> QED
      BY <1>4, <3>1 DEF Readable, IsTag
  <2> QED
    BY <1>1, <1>4, <2>1, <2>2, <2>3 DEF Readable
<1>7. IsNode(g, n) /\ TagsKept(f, g, n)
  BY <1>1, <1>4 DEF IsNode, IsTag, TagsKept
<1>8. Has(g, n, name, v)
  <2>1. SpelledAt(g, <<k, name>>) = name
    BY SpelledIs
  <2>2. IsNamed(g, n + 1, name)
    BY <1>3, <1>4, <2>1 DEF IsNamed, IsTag
  <2>3. n + 1 \in (n + 1)..Len(g.struct) /\ (n + 1)..((n + 1) - 1) = {}
    BY <1>1, <1>4
  <2>4. FirstNamed(g, n, name, n + 1)
    BY <2>2, <2>3 DEF FirstNamed
  <2>5. GetProperty(g, n, name) = n + 1 /\ n + 1 # 0
    BY <1>6, <1>7, <2>4, GetPropertyIs
  <2> QED
    BY <1>3, <1>4, <2>5 DEF Has, NotFound
<1>9. ASSUME NEW other, NEW w, other # name, Has(f, n, other, w)
      PROVE  Has(g, n, other, w)
  <2> DEFINE j == GetProperty(f, n, other)
  <2>1. FirstNamed(f, n, other, j) /\ f.struct[j].value = w
    BY <1>9, GetPropertyIs DEF Has, NotFound
  <2> HIDE DEF j
  <2>2. /\ j \in (n + 1)..len /\ IsNamed(f, j, other)
        /\ \A i \in (n + 1)..(j - 1) : IsProperty(f, i) /\ ~IsNamed(f, i, other)
    BY <2>1 DEF FirstNamed
  <2>3. ASSUME NEW i \in (n + 1)..len, NEW x
        PROVE  /\ IsNamed(g, i + 1, x) <=> IsNamed(f, i, x)
               /\ IsProperty(g, i + 1) <=> IsProperty(f, i)
    <3>1. g.struct[i + 1] = f.struct[i]
      BY <1>4
    <3>2. ASSUME f.struct[i].tag = "PROP"
          PROVE  SpelledAt(g, f.struct[i].nameoff) = SpelledAt(f, f.struct[i].nameoff)
      <4>1. i \in 1..len
        BY <1>1
      <4>2. f.struct[i].nameoff[1] \in 1..Len(f.strings)
        BY <4>1, <3>2 DEF Readable, IsTag
      <4>3. f.struct[i].nameoff[1] \in 1..Len(g.strings)
        BY <4>2, <1>2
      <4> QED
        BY <4>2, <4>3, <1>2, SpelledKept
    <3> QED
      BY <3>1, <3>2 DEF IsNamed, IsProperty, IsTag
  <2>4. IsNamed(g, j + 1, other) /\ j + 1 \in (n + 1)..Len(g.struct)
    BY <2>2, <2>3, <1>1, <1>4
  <2>5. ASSUME NEW i \in (n + 1)..((j + 1) - 1)
        PROVE  IsProperty(g, i) /\ ~IsNamed(g, i, other)
    <3>1. CASE i = n + 1
      <4>1. SpelledAt(g, <<k, name>>) = name
        BY SpelledIs
      <4> QED
        BY <3>1, <4>1, <1>3, <1>4, <1>9 DEF IsNamed, IsProperty, IsTag
    <3>2. CASE i # n + 1
      <4>1. i - 1 \in (n + 1)..(j - 1) /\ i - 1 \in (n + 1)..len /\ (i - 1) + 1 = i
        BY <3>2, <2>2, <1>1
      <4> QED
        BY <4>1, <2>2, <2>3
    <3> QED
      BY <3>1, <3>2
  <2>6. FirstNamed(g, n, other, j + 1)
    BY <2>4, <2>5 DEF FirstNamed
  <2>7. GetProperty(g, n, other) = j + 1 /\ j + 1 # 0
    BY <1>6, <1>7, <2>6, GetPropertyIs
  <2>8. g.struct[j + 1] = f.struct[j]
    BY <1>4, <2>2
  <2> QED
    BY <2>1, <2>7, <2>8 DEF Has, NotFound
<1>10. ASSUME NEW m \in Nat, Named(f, m),
              \/ Len(g.strings) = Len(f.strings)
              \/ Len(g.strings) = Len(f.strings) + 1 /\ k = Len(g.strings)
       PROVE  Named(g, m)
  <2> SUFFICES ASSUME NEW i \in (m + 1)..Len(g.strings)
               PROVE  \E j \in 1..Len(g.struct) :
                        IsTag(g, j, "PROP") /\ g.struct[j].nameoff[1] = i
    BY DEF Named
  <2>1. CASE i = k
    <3>1. n + 1 \in 1..Len(g.struct) /\ IsTag(g, n + 1, "PROP")
          /\ g.struct[n + 1].nameoff[1] = k
      BY <1>1, <1>3, <1>4 DEF IsTag
    <3> QED
      BY <2>1, <3>1
  <2>2. CASE i # k
    <3>1. i \in (m + 1)..Len(f.strings)
      BY <2>2, <1>2, <1>10
    <3>2. PICK j \in 1..len : IsTag(f, j, "PROP") /\ f.struct[j].nameoff[1] = i
      BY <3>1, <1>10 DEF Named
    <3>3. CASE j <= n
      <4>1. j \in 1..Len(g.struct) /\ g.struct[j] = f.struct[j]
        BY <3>3, <1>1, <1>4
      <4>2. IsTag(g, j, "PROP") /\ g.struct[j].nameoff[1] = i
        BY <3>2, <4>1 DEF IsTag
      <4> QED
        BY <4>1, <4>2
    <3>4. CASE j > n
      <4>1. j + 1 \in 1..Len(g.struct) /\ g.struct[j + 1] = f.struct[j]
        BY <3>4, <1>1, <1>4
      <4>2. IsTag(g, j + 1, "PROP") /\ g.struct[j + 1].nameoff[1] = i
        BY <3>2, <4>1 DEF IsTag
      <4> QED
        BY <4>1, <4>2
    <3> QED
      BY <3>3, <3>4, <1>1
  <2> QED
    BY <2>1, <2>2
<1> QED
  BY <1>6, <1>7, <1>8, <1>9, <1>10

(* A value that takes the place of another is the one that is found, and   *)
(* nothing else changes.                                                   *)
LEMMA Replaced ==
  ASSUME NEW V, NEW f \in TreesOf(V), NEW g \in TreesOf(V), Readable(f),
         NEW n, IsNode(f, n), NEW name, NEW j, j = GetProperty(f, n, name), j # NotFound,
         NEW v, g.strings = f.strings, Len(g.struct) = Len(f.struct),
         \A i \in 1..Len(f.struct) : i # j => g.struct[i] = f.struct[i],
         g.struct[j].tag = "PROP", g.struct[j].nameoff = f.struct[j].nameoff,
         g.struct[j].value = v
  PROVE  /\ Readable(g) /\ TagsKept(f, g, n) /\ Has(g, n, name, v)
         /\ \A other, w : other # name /\ Has(f, n, other, w) => Has(g, n, other, w)
         /\ \A m \in Nat : Named(f, m) => Named(g, m)
<1> DEFINE len == Len(f.struct)
<1>1. n \in Nat /\ 1 <= n /\ n < len /\ len \in Nat
  BY NodeIsNotLast
<1>2. FirstNamed(f, n, name, j)
  BY GetPropertyIs DEF NotFound
<1>3. j \in (n + 1)..len /\ IsNamed(f, j, name) /\ j \in 1..len
  BY <1>1, <1>2 DEF FirstNamed
<1>4. ASSUME NEW i \in 1..len
      PROVE  /\ g.struct[i].tag = f.struct[i].tag
             /\ f.struct[i].tag = "PROP" => g.struct[i].nameoff = f.struct[i].nameoff
  BY <1>3 DEF IsNamed, IsTag
<1>5. \A no : SpelledAt(g, no) = SpelledAt(f, no)
  BY DEF SpelledAt
<1>6. Readable(g)
  <2>1. ASSUME NEW i \in 1..Len(g.struct), IsTag(g, i, "PROP")
        PROVE  g.struct[i].nameoff[1] \in 1..Len(g.strings)
    BY <1>4, <2>1 DEF Readable, IsTag
  <2>2. IsTag(g, 1, "BEGIN_NODE") /\ IsTag(g, Len(g.struct), "END")
    BY <1>1, <1>4 DEF Readable, IsTag
  <2> QED
    BY <1>1, <2>1, <2>2 DEF Readable
<1>7. IsNode(g, n) /\ TagsKept(f, g, n)
  <2>1. \A i \in 1..n : i # j /\ i \in 1..len
    BY <1>1, <1>3
  <2>2. TagsKept(f, g, n)
    BY <2>1, <1>1 DEF TagsKept
  <2> QED
    BY <1>1, <1>4, <2>2 DEF IsNode, IsTag
<1>8. ASSUME NEW i \in 1..len, NEW x
      PROVE  /\ IsNamed(g, i, x) <=> IsNamed(f, i, x)
             /\ IsProperty(g, i) <=> IsProperty(f, i)
  BY <1>4, <1>5 DEF IsNamed, IsProperty, IsTag
<1>9. ASSUME NEW x, NEW i, FirstNamed(f, n, x, i) PROVE GetProperty(g, n, x) = i /\ i # 0
  <2>1. /\ i \in (n + 1)..len /\ IsNamed(f, i, x)
        /\ \A y \in (n + 1)..(i - 1) : IsProperty(f, y) /\ ~IsNamed(f, y, x)
    BY <1>9 DEF FirstNamed
  <2>2. i \in 1..len /\ \A y \in (n + 1)..(i - 1) : y \in 1..len
    BY <1>1, <2>1
  <2>3. FirstNamed(g, n, x, i)
    BY <1>8, <2>1, <2>2 DEF FirstNamed
  <2> QED
    BY <1>6, <1>7, <2>3, GetPropertyIs
<1>10. Has(g, n, name, v)
  BY <1>2, <1>9 DEF Has, NotFound
<1>11. ASSUME NEW other, NEW w, other # name, Has(f, n, other, w)
       PROVE  Has(g, n, other, w)
  <2> DEFINE i == GetProperty(f, n, other)
  <2>1. FirstNamed(f, n, other, i) /\ f.struct[i].value = w
    BY <1>11, GetPropertyIs DEF Has, NotFound
  <2> HIDE DEF i
  <2>2. i \in 1..len /\ IsNamed(f, i, other)
    BY <1>1, <2>1 DEF FirstNamed
  <2>3. i # j
    BY <1>3, <1>11, <2>2 DEF IsNamed
  <2>4. g.struct[i] = f.struct[i]
    BY <2>2, <2>3
  <2>5. GetProperty(g, n, other) = i /\ i # 0
    BY <1>9, <2>1
  <2> QED
    BY <2>1, <2>4, <2>5 DEF Has, NotFound
<1>12. ASSUME NEW m \in Nat, Named(f, m) PROVE Named(g, m)
  BY <1>4, <1>12 DEF Named, IsTag
<1> QED
  BY <1>6, <1>7, <1>10, <1>11, <1>12

-----------------------------------------------------------------------------
(* fdt_setprop: what it sets is found, what else was found is found still, *)
(* and without room nothing changes.                                       *)
Needs(name, len) == 12 + Tagalign(len) + Length[name] + 1

(* The property at a tag gets another value, in place;                     *)
Replaces(f, g, j) ==
  /\ g.strings = f.strings /\ Len(g.struct) = Len(f.struct)
  /\ \A i \in 1..Len(f.struct) : i # j => g.struct[i] = f.struct[i]
  /\ g.struct[j].tag = "PROP" /\ g.struct[j].nameoff = f.struct[j].nameoff

(* or a tag is put behind the begin of the node, with a name that ends the *)
(* string at k.                                                            *)
Inserts(f, g, n, name, v) ==
  /\ name \in Names /\ StringsKept(f, g)
  /\ \E k : EndsAt(g, k, name) /\ Spliced(f, g, n + 1, 0, <<Prop(<<k, name>>, v)>>)

(* Either way the property is there, and every other one as it was.        *)
IsSet(f, g, n, name, v, V) ==
  /\ \/ GetProperty(f, n, name) # NotFound /\ Replaces(f, g, GetProperty(f, n, name))
     \/ Inserts(f, g, n, name, v)
  /\ g \in TreesOf(V) /\ Readable(g) /\ Sound(g) /\ SameHeader(f, g)
  /\ TagsKept(f, g, n) /\ Has(g, n, name, v)
  /\ \A other, w : other # name /\ Has(f, n, other, w) => Has(g, n, other, w)
  /\ \A m \in Nat : Named(f, m) => Named(g, m)

(* fdt_setprop sets the property, keeps every other one and grows the tree *)
(* by at most what the property needs; or has no space and changes nothing *)
(* that is read.                                                           *)
LEMMA SetPropIs ==
  ASSUME NEW V, Lengths(V), NEW f \in TreesOf(V), Readable(f), Sound(f),
         NEW n, IsNode(f, n), NEW name \in Names, NEW v \in V,
         NEW r, r = SetProp(f, n, name, v)
  PROVE  /\ Needs(name, v.len) \in Nat
         /\ \/ /\ r.err = "NOSPACE" /\ r.fdt = f
               /\ DataSize(f) + Needs(name, v.len) > f.total
            \/ /\ r.err = "none" /\ IsSet(f, r.fdt, n, name, v, V)
               /\ DataSize(r.fdt) <= DataSize(f) + Needs(name, v.len)
<1> DEFINE j == GetProperty(f, n, name)
           need == Needs(name, v.len)
<1>1. n \in Nat /\ 1 <= n /\ n < Len(f.struct) /\ Len(f.struct) \in Nat
  BY NodeIsNotLast
<1>2. /\ v.len \in Nat /\ Length[name] \in Nat /\ Tagalign(v.len) \in Nat
      /\ need = 12 + Tagalign(v.len) + Length[name] + 1 /\ need \in Nat
  BY NamesAssumption, TagalignIs DEF Lengths, Needs
<1>3. DataSize(f) \in Nat /\ f.total \in Nat
  BY TreeFields, TreeNumbers
<1>4. CASE j # NotFound
  <2> DEFINE t == Prop(f.struct[j].nameoff, v)
             old == Bytes(f.struct[j])
  <2>1. FirstNamed(f, n, name, j) /\ j \in Nat
    BY <1>4, GetPropertyIs DEF NotFound
  <2>2. j \in 1..Len(f.struct) /\ f.struct[j].tag = "PROP"
    BY <1>1, <2>1 DEF FirstNamed, IsNamed, IsTag
  <2>3. f.struct[j] \in TagsOf(V)
    BY <2>2, TreeFields
  <2>4. t \in TagsOf(V) /\ t.tag = "PROP" /\ t.nameoff = f.struct[j].nameoff /\ t.value = v
    <3>1. PICK k \in Nat, x \in Names : f.struct[j].nameoff = <<k, x>>
      BY <2>2, <2>3, TagOfProp
    <3> QED
      BY <3>1, PropIsTag
  <2>5. Bytes(t) = 12 + Tagalign(v.len) /\ Bytes(t) \in Nat
    BY <1>2, PropBytesIs
  <2>6. r = SpliceStruct(f, j, 1, <<t>>)
    BY <1>4 DEF SetProp
  <2> HIDE DEF j, t
  <2>7. /\ <<t>> \in Seq(TagsOf(V)) /\ StructBytes(<<t>>) = 12 + Tagalign(v.len)
        /\ 1 <= j /\ j + 1 <= Len(f.struct) + 1 /\ Len(<<t>>) = 1 /\ <<t>>[1] = t
    BY <2>2, <2>4, <2>5, StructOne
  <2>8. /\ old \in Nat
        /\ \/ /\ r.err = "NOSPACE" /\ r.fdt = f
              /\ DataSize(f) - old + StructBytes(<<t>>) > f.total
           \/ /\ r.err = "none" /\ r.fdt \in TreesOf(V) /\ Sound(r.fdt)
              /\ SameHeader(f, r.fdt) /\ r.fdt.strings = f.strings
              /\ DataSize(r.fdt) = DataSize(f) - old + StructBytes(<<t>>)
              /\ Spliced(f, r.fdt, j, 1, <<t>>)
    <3>1. old = OldBytes(f, j, 1) /\ 1 \in {0, 1}
      BY DEF OldBytes
    <3>2. SpliceLeaves(V, f, j, 1, <<t>>, OldBytes(f, j, 1), r)
      BY <2>1, <2>6, <2>7, <3>1, SpliceIs
    <3> HIDE DEF old
    <3> QED
      BY <3>1, <3>2 DEF SpliceLeaves
  <2> HIDE DEF old, need
  <2>9. CASE r.err = "NOSPACE"
    <3>1. DataSize(f) + need > f.total
      BY <2>7, <2>8, <2>9, <1>2, <1>3, SMTT(30)
    <3> QED
      BY <2>8, <2>9, <3>1, <1>2 DEF need
  <2>10. CASE r.err = "none"
    <3> DEFINE g == r.fdt
    <3>1. /\ g \in TreesOf(V) /\ Sound(g) /\ SameHeader(f, g) /\ g.strings = f.strings
          /\ DataSize(g) = DataSize(f) - old + StructBytes(<<t>>)
          /\ Spliced(f, g, j, 1, <<t>>)
      BY <2>8, <2>10
    <3> HIDE DEF g
    <3>2. DataSize(g) <= DataSize(f) + need
      BY <3>1, <2>7, <2>8, <1>2, <1>3, SMTT(30)
    <3>3. /\ Len(g.struct) = Len(f.struct) /\ g.struct[j] = t
          /\ \A i \in 1..Len(f.struct) : i # j => g.struct[i] = f.struct[i]
      <4>1. /\ Len(g.struct) = Len(f.struct) - 1 + 1
            /\ \A i \in 1..(j - 1) : g.struct[i] = f.struct[i]
            /\ g.struct[j - 1 + 1] = t
            /\ \A i \in (j + 1)..Len(f.struct) : g.struct[i - 1 + 1] = f.struct[i]
        BY <3>1, <2>7 DEF Spliced
      <4>2. ASSUME NEW i \in 1..Len(f.struct), i # j PROVE g.struct[i] = f.struct[i]
        <5>1. CASE i < j
          BY <4>1, <5>1, <2>1
        <5>2. CASE i > j
          <6>1. i \in (j + 1)..Len(f.struct) /\ i - 1 + 1 = i
            BY <5>2, <2>1, <1>1
          <6> QED
            BY <4>1, <6>1
        <5> QED
          BY <4>2, <5>1, <5>2, <2>1
      <4>3. j - 1 + 1 = j /\ Len(f.struct) - 1 + 1 = Len(f.struct)
        BY <2>1, <1>1
      <4> QED
        BY <4>1, <4>2, <4>3
    <3>4. /\ Readable(g) /\ TagsKept(f, g, n) /\ Has(g, n, name, v)
          /\ \A other, w : other # name /\ Has(f, n, other, w) => Has(g, n, other, w)
          /\ \A m \in Nat : Named(f, m) => Named(g, m)
      <4>1. j = GetProperty(f, n, name)
        BY DEF j
      <4>2. g.struct[j].tag = "PROP" /\ g.struct[j].nameoff = f.struct[j].nameoff
            /\ g.struct[j].value = v
        BY <2>4, <3>3
      <4> QED
        BY <4>1, <4>2, <1>4, <3>1, <3>3, Replaced
    <3>5. IsSet(f, g, n, name, v, V)
      <4>1. j = GetProperty(f, n, name) /\ Replaces(f, g, j)
        BY <2>4, <3>1, <3>3 DEF Replaces, j
      <4> QED
        BY <1>4, <3>1, <3>4, <4>1 DEF IsSet
    <3> QED
      BY <2>10, <3>2, <3>5, <1>2 DEF g, need
  <2> QED
    BY <2>8, <2>9, <2>10
<1>5. CASE j = NotFound
  <2> DEFINE s == AddString(f, name)
             h == s.fdt
             k == FindString(h, name)
             t == Prop(<<k, name>>, v)
             p == SpliceStruct(h, n + 1, 0, <<t>>)
  <2>1. r = AddProperty(f, n, name, v)
    BY <1>5 DEF SetProp
  <2>2. r = IF s.err # "none" THEN Fails(s.err, f)
            ELSE IF p.err = "none" THEN p ELSE Fails(p.err, f)
    BY <2>1 DEF AddProperty, Then, PutProperty
  <2>3. \/ /\ s.err = "NOSPACE" /\ DataSize(f) + Length[name] + 1 > f.total
        \/ /\ s.err = "none" /\ h \in TreesOf(V) /\ Readable(h) /\ Sound(h)
           /\ SameHeader(f, h) /\ h.struct = f.struct
           /\ DataSize(h) <= DataSize(f) + Length[name] + 1
           /\ StringsKept(f, h) /\ EndsAt(h, k, name)
           /\ \/ Len(h.strings) = Len(f.strings)
              \/ Len(h.strings) = Len(f.strings) + 1 /\ k = Len(f.strings) + 1
    <3> HIDE DEF s
    <3>1. s = AddString(f, name)
      BY DEF s
    <3> QED
      BY <3>1, AddStringIs
  <2> HIDE DEF s, h, k, need, j
  <2>4. CASE s.err = "NOSPACE"
    <3>1. r.err = "NOSPACE" /\ r.fdt = f
      BY <2>2, <2>4 DEF Fails
    <3>2. DataSize(f) + need > f.total
      BY <2>3, <2>4, <1>2, <1>3
    <3> QED
      BY <3>1, <3>2, <1>2 DEF need
  <2>5. CASE s.err = "none"
    <3>1. /\ h \in TreesOf(V) /\ Readable(h) /\ Sound(h)
          /\ SameHeader(f, h) /\ h.struct = f.struct
          /\ DataSize(h) <= DataSize(f) + Length[name] + 1
          /\ StringsKept(f, h) /\ EndsAt(h, k, name)
          /\ \/ Len(h.strings) = Len(f.strings)
             \/ Len(h.strings) = Len(f.strings) + 1 /\ k = Len(f.strings) + 1
      BY <2>3, <2>5
    <3>2. k \in Nat
      BY <3>1, TreeFields DEF EndsAt
    <3>3. t \in TagsOf(V) /\ Bytes(t) = 12 + Tagalign(v.len) /\ Bytes(t) \in Nat
      BY <3>2, <1>2, PropIsTag, PropBytesIs
    <3> HIDE DEF t
    <3>4. /\ <<t>> \in Seq(TagsOf(V)) /\ StructBytes(<<t>>) = 12 + Tagalign(v.len)
          /\ n + 1 \in Nat /\ 1 <= n + 1 /\ (n + 1) + 0 <= Len(h.struct) + 1
      BY <3>1, <3>3, <1>1, StructOne
    <3>5. \/ /\ p.err = "NOSPACE" /\ p.fdt = h
             /\ DataSize(h) - 0 + StructBytes(<<t>>) > h.total
          \/ /\ p.err = "none" /\ p.fdt \in TreesOf(V) /\ Sound(p.fdt)
             /\ SameHeader(h, p.fdt) /\ p.fdt.strings = h.strings
             /\ DataSize(p.fdt) = DataSize(h) - 0 + StructBytes(<<t>>)
             /\ Spliced(h, p.fdt, n + 1, 0, <<t>>)
      <4>1. OldBytes(h, n + 1, 0) = 0 /\ 0 \in {0, 1}
        BY DEF OldBytes
      <4>2. p = SpliceStruct(h, n + 1, 0, <<t>>)
        OBVIOUS
      <4> HIDE DEF p
      <4>3. SpliceLeaves(V, h, n + 1, 0, <<t>>, OldBytes(h, n + 1, 0), p)
        BY <3>1, <3>4, <4>1, <4>2, SpliceIs
      <4> QED
        BY <4>1, <4>3 DEF SpliceLeaves
    <3> HIDE DEF p
    <3>6. DataSize(h) \in Nat /\ h.total = f.total
      BY <3>1, TreeNumbers DEF SameHeader
    <3>7. CASE p.err = "NOSPACE"
      <4>1. r.err = "NOSPACE" /\ r.fdt = f
        BY <2>2, <2>5, <3>7 DEF Fails
      <4>2. DataSize(f) + need > f.total
        <5>1. DataSize(h) - 0 + StructBytes(<<t>>) > h.total
          BY <3>5, <3>7
        <5>2. DataSize(h) <= DataSize(f) + Length[name] + 1
          BY <3>1
        <5>3. /\ DataSize(h) - 0 + (12 + Tagalign(v.len)) > f.total
              /\ need = 12 + Tagalign(v.len) + Length[name] + 1
          BY <5>1, <3>4, <3>6, <1>2
        <5>4. DataSize(h) \in Nat /\ Tagalign(v.len) \in Nat /\ Length[name] \in Nat
          BY <3>6, <1>2
        <5> QED
          BY <5>2, <5>3, <5>4, <1>3
      <4> QED
        BY <4>1, <4>2, <1>2 DEF need
    <3>8. CASE p.err = "none"
      <4> DEFINE g == p.fdt
      <4>1. r.err = "none" /\ r.fdt = g
        BY <2>2, <2>5, <3>8
      <4>2. /\ g \in TreesOf(V) /\ Sound(g) /\ SameHeader(h, g) /\ g.strings = h.strings
            /\ DataSize(g) = DataSize(h) - 0 + StructBytes(<<t>>)
            /\ Spliced(h, g, n + 1, 0, <<t>>)
        BY <3>5, <3>8
      <4> HIDE DEF g
      <4>3. DataSize(g) <= DataSize(f) + need
        BY <4>2, <3>1, <3>4, <3>6, <1>2, <1>3, SMTT(30)
      <4>4. StringsKept(f, g) /\ EndsAt(g, k, name) /\ Spliced(f, g, n + 1, 0, <<t>>)
        BY <3>1, <4>2 DEF StringsKept, EndsAt, Spliced
      <4>5. /\ Readable(g) /\ TagsKept(f, g, n) /\ Has(g, n, name, v)
            /\ \A other, w : other # name /\ Has(f, n, other, w) => Has(g, n, other, w)
            /\ \A m \in Nat :
                 Named(f, m) /\ (\/ Len(g.strings) = Len(f.strings)
                                 \/ Len(g.strings) = Len(f.strings) + 1 /\ k = Len(g.strings))
                   => Named(g, m)
        BY <4>2, <4>4, Inserted DEF t
      <4>6. \/ Len(g.strings) = Len(f.strings)
            \/ Len(g.strings) = Len(f.strings) + 1 /\ k = Len(g.strings)
        BY <3>1, <4>2
      <4>7. SameHeader(f, g)
        BY <3>1, <4>2 DEF SameHeader
      <4>8. IsSet(f, g, n, name, v, V)
        <5>1. Inserts(f, g, n, name, v)
          BY <4>4 DEF Inserts, t
        <5> QED
          BY <4>2, <4>5, <4>6, <4>7, <5>1 DEF IsSet
      <4> QED
        BY <4>1, <4>3, <4>8, <1>2 DEF need
    <3> QED
      BY <3>5, <3>7, <3>8
  <2> QED
    BY <2>3, <2>4, <2>5
<1> QED
  BY <1>4, <1>5

-----------------------------------------------------------------------------
(* /chosen is where it was as long as the tags up to it are what they were. *)
IsChosen(f, j) ==
  /\ j \in (Root + 1)..Len(f.struct)
  /\ IsTag(f, j, "BEGIN_NODE") /\ f.struct[j].name = "chosen" /\ Depth(f, Root, j) = 1

(* fdt_subnode_offset finds the first node of the name below the root.     *)
LEMMA ChosenIs ==
  ASSUME NEW f, Len(f.struct) \in Nat
  PROVE  /\ Chosen(f) # NotFound =>
              /\ IsChosen(f, Chosen(f)) /\ \A j : IsChosen(f, j) => Chosen(f) <= j
              /\ ~\E i \in Root..Chosen(f) : Depth(f, Root, i) < 0
         /\ \A j : /\ IsChosen(f, j)
                   /\ \A i : IsChosen(f, i) => j <= i
                   /\ ~\E i \in Root..j : Depth(f, Root, i) < 0
                   => Chosen(f) = j
         /\ Chosen(f) \in Nat
<1> DEFINE S == {i \in (Root + 1)..Len(f.struct) :
                   /\ IsTag(f, i, "BEGIN_NODE") /\ f.struct[i].name = "chosen"
                   /\ Depth(f, Root, i) = 1}
           j0 == FirstOf(S)
<1>1. Chosen(f) = IF \E i \in Root..j0 : Depth(f, Root, i) < 0 THEN NotFound ELSE j0
  BY DEF Chosen, SubnodeOffset
<1>2. \A j : j \in S <=> IsChosen(f, j)
  BY DEF IsChosen
<1>3. S \subseteq Nat \ {0}
  <2>1. (Root + 1)..Len(f.struct) \subseteq Nat \ {0}
    BY DEF Root
  <2> QED
    BY <2>1
<1> HIDE DEF S
<1>4. /\ j0 \in Nat /\ (j0 = 0 <=> S = {})
      /\ S # {} => j0 \in S /\ \A y \in S : j0 <= y
  BY <1>3, FirstOfIs
<1>5. \A j \in S : (\A y \in S : j <= y) => j0 = j
  BY <1>3, FirstOfUnique
<1> HIDE DEF j0
<1>6. ASSUME Chosen(f) # NotFound
      PROVE  /\ IsChosen(f, Chosen(f)) /\ \A j : IsChosen(f, j) => Chosen(f) <= j
             /\ ~\E i \in Root..Chosen(f) : Depth(f, Root, i) < 0
  <2>1. Chosen(f) = j0 /\ ~\E i \in Root..j0 : Depth(f, Root, i) < 0
    BY <1>1, <1>6
  <2>2. j0 \in S /\ \A y \in S : j0 <= y
    BY <1>4, <1>6, <2>1 DEF NotFound
  <2> QED
    BY <1>2, <2>1, <2>2
<1>7. ASSUME NEW j, IsChosen(f, j), \A i : IsChosen(f, i) => j <= i,
             ~\E i \in Root..j : Depth(f, Root, i) < 0
      PROVE  Chosen(f) = j
  <2>1. j0 = j
    BY <1>2, <1>5, <1>7
  <2> QED
    BY <1>1, <1>7, <2>1
<1>8. Chosen(f) \in Nat
  BY <1>1, <1>4 DEF NotFound
<1> QED
  BY <1>6, <1>7, <1>8

(* Depth is a matter of the tags up to a place,                            *)
LEMMA DepthKept ==
  ASSUME NEW f, NEW g, NEW n \in Nat, TagsKept(f, g, n), NEW j \in Nat, j <= n
  PROVE  Depth(g, Root, j) = Depth(f, Root, j)
<1>1. \A i \in (Root + 1)..j : g.struct[i] = f.struct[i]
  BY DEF TagsKept, Root
<1>2. {i \in (Root + 1)..j : IsTag(g, i, "BEGIN_NODE")}
        = {i \in (Root + 1)..j : IsTag(f, i, "BEGIN_NODE")}
  BY <1>1 DEF IsTag
<1>3. {i \in (Root + 1)..j : IsTag(g, i, "END_NODE")}
        = {i \in (Root + 1)..j : IsTag(f, i, "END_NODE")}
  BY <1>1 DEF IsTag
<1> QED
  BY <1>2, <1>3 DEF Depth

(* so a change behind the begin of /chosen leaves it where it was.         *)
LEMMA ChosenKept ==
  ASSUME NEW f, NEW g, Len(f.struct) \in Nat, Len(g.struct) \in Nat,
         Chosen(f) # NotFound, TagsKept(f, g, Chosen(f))
  PROVE  Chosen(g) = Chosen(f) /\ IsNode(f, Chosen(f))
<1> DEFINE c == Chosen(f)
<1>1. /\ IsChosen(f, c) /\ \A j : IsChosen(f, j) => c <= j
      /\ ~\E i \in Root..c : Depth(f, Root, i) < 0
  BY ChosenIs
<1>2. c \in Nat /\ 2 <= c /\ c <= Len(f.struct) /\ c <= Len(g.struct)
  BY <1>1 DEF IsChosen, Root, TagsKept
<1>3. TagsKept(f, g, c)
  OBVIOUS
<1>4. IsNode(f, c)
  BY <1>1, <1>2 DEF IsNode, IsChosen
<1> HIDE DEF c
<1>5. \A j \in Nat : j <= c => Depth(g, Root, j) = Depth(f, Root, j)
  BY <1>2, <1>3, DepthKept
<1>6. \A j \in (Root + 1)..c : IsChosen(g, j) <=> IsChosen(f, j)
  <2>1. ASSUME NEW j \in (Root + 1)..c PROVE IsChosen(g, j) <=> IsChosen(f, j)
    <3>1. j \in Nat /\ j <= c /\ j \in 1..c /\ j \in (Root + 1)..Len(f.struct)
          /\ j \in (Root + 1)..Len(g.struct)
      BY <1>2 DEF Root
    <3>2. g.struct[j] = f.struct[j] /\ Depth(g, Root, j) = Depth(f, Root, j)
      BY <1>3, <1>5, <3>1 DEF TagsKept
    <3> QED
      BY <3>1, <3>2 DEF IsChosen, IsTag
  <2> QED
    BY <2>1
<1>7. IsChosen(g, c)
  BY <1>1, <1>2, <1>6 DEF Root
<1>8. ASSUME NEW i, IsChosen(g, i) PROVE c <= i
  <2>1. i \in (Root + 1)..Len(g.struct)
    BY <1>8 DEF IsChosen
  <2>2. CASE i <= c
    <3>1. IsChosen(f, i)
      BY <1>2, <1>6, <1>8, <2>1, <2>2 DEF Root
    <3> QED
      BY <1>1, <3>1
  <2>3. CASE ~(i <= c)
    BY <1>2, <2>1, <2>3 DEF Root
  <2> QED
    BY <2>2, <2>3
<1>9. ~\E i \in Root..c : Depth(g, Root, i) < 0
  <2>1. \A i \in Root..c : i \in Nat /\ i <= c
    BY <1>2 DEF Root
  <2> QED
    BY <1>1, <1>5, <2>1
<1>10. Chosen(g) = c
  BY <1>7, <1>8, <1>9, ChosenIs
<1> QED
  BY <1>4, <1>10 DEF c

(* The node that is added comes behind the properties of the root.         *)
AddsChosen(f, g) ==
  /\ g.strings = f.strings
  /\ \E b \in (Root + 1)..Len(f.struct) :
       /\ ~IsProperty(f, b) /\ \A i \in (Root + 1)..(b - 1) : IsProperty(f, i)
       /\ Spliced(f, g, b, 0, <<BeginNode("chosen"), EndNode>>)

(* fdt_add_subnode for /chosen: behind the properties of the root, where   *)
(* it is found.                                                            *)
LEMMA AddChosenIs ==
  ASSUME NEW V, Lengths(V), NEW f \in TreesOf(V), Readable(f), Sound(f),
         NEW r, r = AddSubnode(f, Root, "chosen")
  PROVE  LET need == StructBytes(<<BeginNode("chosen"), EndNode>>)
         IN  /\ need \in Nat
             /\ \/ /\ r.err = "NOSPACE" /\ r.fdt = f /\ DataSize(f) + need > f.total
                \/ /\ r.err = "none" /\ r.fdt \in TreesOf(V) /\ Readable(r.fdt) /\ Sound(r.fdt)
                   /\ SameHeader(f, r.fdt) /\ DataSize(r.fdt) = DataSize(f) + need
                   /\ Chosen(r.fdt) # NotFound /\ AddsChosen(f, r.fdt)
                   /\ \A m \in Nat : Named(f, m) => Named(r.fdt, m)
<1> DEFINE tags == <<BeginNode("chosen"), EndNode>>
           need == StructBytes(tags)
           len == Len(f.struct)
           E == {j \in (Root + 1)..len : f.struct[j].tag \notin {"PROP", "NOP"}}
           b == Min(E)
<1>1. len \in Nat /\ len > 1
  BY TreeFields DEF Readable
<1>2. E \subseteq Nat /\ len \in E
  BY <1>1 DEF Readable, Root, IsTag
<1>3. b \in E /\ \A j \in E : b <= j
  <2> HIDE DEF E
  <2> QED
    BY <1>2, MinIs
<1>4. b \in Nat /\ 2 <= b /\ b <= len
  BY <1>3, <1>1 DEF Root
<1>5. ASSUME NEW i \in 2..(b - 1) PROVE f.struct[i].tag \in {"PROP", "NOP"}
  <2>1. i \in (Root + 1)..len /\ ~(b <= i)
    BY <1>1, <1>4 DEF Root
  <2>2. i \notin E
    BY <1>3, <2>1
  <2> QED
    BY <2>1, <2>2
<1>6. r = SpliceStruct(f, b, 0, tags)
  BY DEF AddSubnode
<1>7. /\ tags \in Seq(TagsOf(V)) /\ Len(tags) = 2
      /\ tags[1].tag = "BEGIN_NODE" /\ tags[1].name = "chosen" /\ tags[2].tag = "END_NODE"
  <2>1. "chosen" \in Names
    BY OwnNames
  <2>2. BeginNode("chosen") \in TagsOf(V) /\ EndNode \in TagsOf(V)
    BY <2>1 DEF BeginNode, EndNode, TagsOf
  <2> QED
    BY <2>2 DEF BeginNode, EndNode
<1> HIDE DEF tags, E, b
<1>8. SpliceLeaves(V, f, b, 0, tags, OldBytes(f, b, 0), r)
  <2>1. 1 <= b /\ b + 0 <= len + 1 /\ 0 \in {0, 1}
    BY <1>1, <1>4
  <2> QED
    BY <1>4, <1>6, <1>7, <2>1, SpliceIs
<1>9. OldBytes(f, b, 0) = 0
  BY DEF OldBytes
<1>10. /\ need \in Nat
       /\ \/ /\ r.err = "NOSPACE" /\ r.fdt = f /\ DataSize(f) - 0 + need > f.total
          \/ /\ r.err = "none" /\ r.fdt \in TreesOf(V) /\ Sound(r.fdt)
             /\ SameHeader(f, r.fdt) /\ r.fdt.strings = f.strings
             /\ DataSize(r.fdt) = DataSize(f) - 0 + need
             /\ Spliced(f, r.fdt, b, 0, tags)
  BY <1>8, <1>9 DEF SpliceLeaves
<1>11. DataSize(f) \in Nat
  BY TreeNumbers
<1>12. CASE r.err = "NOSPACE"
  BY <1>10, <1>11, <1>12 DEF tags
<1>13. CASE r.err = "none"
  <2> DEFINE g == r.fdt
  <2>1. /\ g \in TreesOf(V) /\ Sound(g) /\ SameHeader(f, g) /\ g.strings = f.strings
        /\ DataSize(g) = DataSize(f) + need /\ Spliced(f, g, b, 0, tags)
    BY <1>10, <1>11, <1>13
  <2> HIDE DEF g
  <2>2. /\ Len(g.struct) = len + 2
        /\ \A i \in 1..(b - 1) : g.struct[i] = f.struct[i]
        /\ g.struct[b].tag = "BEGIN_NODE" /\ g.struct[b].name = "chosen"
        /\ g.struct[b + 1].tag = "END_NODE"
        /\ \A i \in b..len : g.struct[i + 2] = f.struct[i]
    <3>1. /\ Len(g.struct) = len - 0 + 2
          /\ \A i \in 1..(b - 1) : g.struct[i] = f.struct[i]
          /\ g.struct[b - 1 + 1] = tags[1] /\ g.struct[b - 1 + 2] = tags[2]
          /\ \A i \in (b + 0)..len : g.struct[i - 0 + 2] = f.struct[i]
      BY <1>7, <2>1 DEF Spliced
    <3>2. b - 1 + 1 = b /\ b - 1 + 2 = b + 1 /\ b + 0 = b /\ \A i \in b..len : i - 0 + 2 = i + 2
      BY <1>1, <1>4
    <3> QED
      BY <1>1, <1>7, <3>1, <3>2
  <2>3. ASSUME NEW j \in 1..Len(g.struct), IsTag(g, j, "PROP")
        PROVE  \E i \in 1..len : g.struct[j] = f.struct[i]
    <3>1. CASE j < b
      BY <1>4, <2>2, <3>1
    <3>2. CASE j = b \/ j = b + 1
      BY <2>2, <2>3, <3>2 DEF IsTag
    <3>3. CASE j > b + 1
      <4>1. j - 2 \in b..len /\ (j - 2) + 2 = j /\ j - 2 \in 1..len
        BY <1>1, <1>4, <2>2, <3>3
      <4> QED
        BY <2>2, <4>1
    <3> QED
      BY <3>1, <3>2, <3>3, <1>4
  <2>4. Readable(g)
    <3>1. ASSUME NEW j \in 1..Len(g.struct), IsTag(g, j, "PROP")
          PROVE  g.struct[j].nameoff[1] \in 1..Len(g.strings)
      BY <2>1, <2>3, <3>1 DEF Readable, IsTag
    <3>2. IsTag(g, 1, "BEGIN_NODE") /\ IsTag(g, Len(g.struct), "END")
      <4>1. 1 \in 1..(b - 1) /\ len \in b..len
        BY <1>1, <1>4
      <4> QED
        BY <2>2, <4>1 DEF Readable, IsTag
    <3> QED
      BY <1>1, <2>2, <3>1, <3>2 DEF Readable
  <2>5. ASSUME NEW i \in 1..b
        PROVE  /\ Depth(g, Root, i) = IF i = b THEN 1 ELSE 0
               /\ i # b => ~IsChosen(g, i)
    <3>1. ASSUME NEW k \in 2..(b - 1) PROVE g.struct[k].tag \in {"PROP", "NOP"}
      <4>1. k \in 1..(b - 1)
        BY <1>4
      <4>2. f.struct[k].tag \in {"PROP", "NOP"}
        BY <1>5
      <4> QED
        BY <2>2, <4>1, <4>2
    <3>2. {k \in (Root + 1)..i : IsTag(g, k, "END_NODE")} = {}
      <4>1. ASSUME NEW k \in (Root + 1)..i PROVE ~IsTag(g, k, "END_NODE")
        <5>1. k = b \/ k \in 2..(b - 1)
          BY <1>4 DEF Root
        <5> QED
          BY <2>2, <3>1, <5>1 DEF IsTag
      <4> QED
        BY <4>1
    <3>3. {k \in (Root + 1)..i : IsTag(g, k, "BEGIN_NODE")} = IF i = b THEN {b} ELSE {}
      <4>1. ASSUME NEW k \in (Root + 1)..i PROVE IsTag(g, k, "BEGIN_NODE") <=> k = b
        <5>1. k = b \/ (k \in 2..(b - 1) /\ k # b)
          BY <1>4 DEF Root
        <5> QED
          BY <2>2, <3>1, <5>1 DEF IsTag
      <4>2. b \in (Root + 1)..i <=> i = b
        BY <1>4 DEF Root
      <4> QED
        BY <4>1, <4>2
    <3>4. Cardinality({}) = 0 /\ Cardinality({b}) = 1
      BY FS_EmptySet, FS_Singleton
    <3>5. Depth(g, Root, i) = IF i = b THEN 1 ELSE 0
      BY <3>2, <3>3, <3>4 DEF Depth
    <3> QED
      BY <3>5 DEF IsChosen
  <2>6. IsChosen(g, b)
    <3>1. b \in (Root + 1)..Len(g.struct) /\ b \in 1..b
      BY <1>1, <1>4, <2>2 DEF Root
    <3> QED
      BY <2>2, <2>5, <3>1 DEF IsChosen, IsTag
  <2>7. ASSUME NEW i, IsChosen(g, i) PROVE b <= i
    <3>1. i \in (Root + 1)..Len(g.struct)
      BY <2>7 DEF IsChosen
    <3>2. i < b => i \in 1..b /\ i # b
      BY <1>4, <3>1 DEF Root
    <3>3. ~(i < b)
      BY <2>5, <2>7, <3>2
    <3> QED
      BY <1>4, <3>1, <3>3, <2>2, <1>1 DEF Root
  <2>8. ~\E i \in Root..b : Depth(g, Root, i) < 0
    <3>1. \A i \in Root..b : Depth(g, Root, i) \in {0, 1}
      BY <2>5 DEF Root
    <3> QED
      BY <3>1
  <2>9. Chosen(g) = b
    <3>1. Len(g.struct) \in Nat
      BY <1>1, <2>2
    <3> QED
      BY <2>6, <2>7, <2>8, <3>1, ChosenIs
  <2>10. ASSUME NEW m \in Nat, Named(f, m) PROVE Named(g, m)
    <3> SUFFICES ASSUME NEW i \in (m + 1)..Len(g.strings)
                 PROVE  \E j \in 1..Len(g.struct) :
                          IsTag(g, j, "PROP") /\ g.struct[j].nameoff[1] = i
      BY DEF Named
    <3>1. PICK j \in 1..len : IsTag(f, j, "PROP") /\ f.struct[j].nameoff[1] = i
      BY <2>1, <2>10 DEF Named
    <3>2. CASE j < b
      <4>1. j \in 1..Len(g.struct) /\ g.struct[j] = f.struct[j]
        BY <1>1, <1>4, <2>2, <3>2
      <4>2. IsTag(g, j, "PROP") /\ g.struct[j].nameoff[1] = i
        BY <3>1, <4>1 DEF IsTag
      <4> QED
        BY <4>1, <4>2
    <3>3. CASE ~(j < b)
      <4>1. j + 2 \in 1..Len(g.struct) /\ g.struct[j + 2] = f.struct[j]
        BY <1>1, <1>4, <2>2, <3>3
      <4>2. IsTag(g, j + 2, "PROP") /\ g.struct[j + 2].nameoff[1] = i
        BY <3>1, <4>1 DEF IsTag
      <4> QED
        BY <4>1, <4>2
    <3> QED
      BY <3>2, <3>3
  <2>11. Chosen(g) # NotFound
    BY <1>4, <2>9 DEF NotFound
  <2>12. AddsChosen(f, g)
    <3>1. b \in (Root + 1)..len /\ ~IsProperty(f, b)
      BY <1>3 DEF E, IsProperty
    <3>2. \A i \in (Root + 1)..(b - 1) : IsProperty(f, i)
      BY <1>5 DEF Root, IsProperty
    <3> QED
      BY <2>1, <3>1, <3>2 DEF AddsChosen, tags
  <2> QED
    BY <1>10, <1>13, <2>1, <2>4, <2>10, <2>11, <2>12 DEF g, tags
<1> QED
  BY <1>10, <1>12, <1>13

-----------------------------------------------------------------------------
(* fdt_setprop_inplace, of a property that is there with a value of that   *)
(* length.                                                                 *)
LEMMA InplaceIs ==
  ASSUME NEW V, Lengths(V), NEW f \in TreesOf(V), Readable(f), Sound(f),
         NEW n, IsNode(f, n), NEW name, NEW w, Has(f, n, name, w),
         NEW v \in V, v.len = w.len,
         NEW r, r = SetPropInplace(f, n, name, v)
  PROVE  /\ r.err = "none" /\ IsSet(f, r.fdt, n, name, v, V)
         /\ DataSize(r.fdt) = DataSize(f)
<1> DEFINE j == GetProperty(f, n, name)
           g == [f EXCEPT !.struct[j].value = v]
           len == Len(f.struct)
<1>1. j # NotFound /\ f.struct[j].value = w
  BY DEF Has
<1>2. n \in Nat /\ 1 <= n /\ n < len /\ len \in Nat
  BY NodeIsNotLast
<1>3. FirstNamed(f, n, name, j)
  BY <1>1, GetPropertyIs DEF NotFound
<1>4. j \in 1..len /\ f.struct[j].tag = "PROP"
  BY <1>2, <1>3 DEF FirstNamed, IsNamed, IsTag
<1>5. r = Done(g)
  BY <1>1 DEF SetPropInplace
<1>6. r.err = "none" /\ r.fdt = g
  BY <1>5 DEF Done
<1> HIDE DEF j
<1> DEFINE t == [f.struct[j] EXCEPT !.value = v]
           u == [f.struct EXCEPT ![j] = t]
<1>7. f.struct \in Seq(TagsOf(V)) /\ f.struct[j] \in TagsOf(V)
  BY <1>4, TreeFields
<1>8. /\ t \in TagsOf(V) /\ t.tag = "PROP" /\ t.nameoff = f.struct[j].nameoff /\ t.value = v
  <2>1. f.struct[j] \in [tag : {"PROP"}, nameoff : Nat \X Names, value : V]
    BY <1>4, <1>7 DEF TagsOf
  <2>2. t \in [tag : {"PROP"}, nameoff : Nat \X Names, value : V]
        /\ t.tag = "PROP" /\ t.nameoff = f.struct[j].nameoff /\ t.value = v
    BY <2>1
  <2> QED
    BY <2>2 DEF TagsOf
<1> HIDE DEF t
<1>9. /\ u \in Seq(TagsOf(V)) /\ Len(u) = len /\ u[j] = t
      /\ \A i \in 1..len : i # j => u[i] = f.struct[i]
  BY <1>4, <1>7, <1>8
<1>10. g = [f EXCEPT !.struct = u]
  BY DEF t, u
<1> HIDE DEF u, g
<1>11. /\ g.version = f.version /\ g.reserved = f.reserved /\ g.offRsv = f.offRsv
       /\ g.offStruct = f.offStruct /\ g.offStrings = f.offStrings /\ g.total = f.total
       /\ g.strings = f.strings /\ g.struct = u
       /\ g.sizeStruct = f.sizeStruct /\ g.sizeStrings = f.sizeStrings
  BY <1>10 DEF TreesOf
<1>12. g \in TreesOf(V)
  BY <1>9, <1>10 DEF TreesOf
<1>13. StructBytes(g.struct) = StructBytes(f.struct)
  <2>1. ASSUME NEW i \in 1..len PROVE Bytes(u[i]) = Bytes(f.struct[i])
    <3>1. CASE i = j
      <4>1. Bytes(t) = 3 * TagSize + Tagalign(v.len)
        BY <1>8 DEF Bytes
      <4>2. Bytes(f.struct[j]) = 3 * TagSize + Tagalign(v.len)
        BY <1>1, <1>4 DEF Bytes
      <4> QED
        BY <3>1, <4>1, <4>2, <1>9
    <3>2. CASE i # j
      BY <3>2, <1>9
    <3> QED
      BY <3>1, <3>2
  <2>2. [i \in 1..Len(u) |-> Bytes(u[i])] = [i \in 1..len |-> Bytes(f.struct[i])]
    BY <2>1, <1>9
  <2> QED
    BY <2>2, <1>11 DEF StructBytes
<1>14. DataSize(g) = DataSize(f) /\ ReserveBytes(g) = ReserveBytes(f) /\ SameHeader(f, g)
  BY <1>11 DEF DataSize, ReserveBytes, SameHeader
<1>15. Sound(g)
  <2>1. /\ f.sizeStruct = StructBytes(f.struct) /\ f.sizeStrings = StringBytes(f.strings)
        /\ 40 <= f.offRsv /\ f.offRsv + ReserveBytes(f) <= f.offStruct
        /\ f.offStruct + StructBytes(f.struct) <= f.offStrings /\ DataSize(f) <= f.total
    BY SoundIs
  <2> QED
    BY <2>1, <1>11, <1>12, <1>13, <1>14, SoundIs
<1>16. /\ Readable(g) /\ TagsKept(f, g, n) /\ Has(g, n, name, v)
       /\ \A other, x : other # name /\ Has(f, n, other, x) => Has(g, n, other, x)
       /\ \A m \in Nat : Named(f, m) => Named(g, m)
  <2>1. j = GetProperty(f, n, name)
    BY DEF j
  <2>2. /\ Len(g.struct) = Len(f.struct)
        /\ \A i \in 1..len : i # j => g.struct[i] = f.struct[i]
        /\ g.struct[j].tag = "PROP" /\ g.struct[j].nameoff = f.struct[j].nameoff
        /\ g.struct[j].value = v
    BY <1>8, <1>9, <1>11
  <2> QED
    BY <2>1, <2>2, <1>1, <1>11, <1>12, Replaced
<1>17. j = GetProperty(f, n, name) /\ Replaces(f, g, j)
  BY <1>8, <1>9, <1>11 DEF Replaces, j
<1> QED
  BY <1>1, <1>6, <1>12, <1>14, <1>15, <1>16, <1>17 DEF IsSet

(* fdt_del_mem_rsv                                                         *)
LEMMA DelMemRsvIs ==
  ASSUME NEW V, Lengths(V), NEW f \in TreesOf(V), Readable(f), Sound(f), f.reserved > 0
  PROVE  LET g == DelMemRsv(f)
         IN  /\ g \in TreesOf(V) /\ Readable(g) /\ Sound(g) /\ g.version = f.version
             /\ g.total = f.total /\ DataSize(g) <= DataSize(f)
             /\ g.struct = f.struct /\ g.strings = f.strings
<1> DEFINE g == DelMemRsv(f)
<1>1. /\ f.reserved \in Nat /\ f.offRsv \in Nat /\ f.offStruct \in Nat /\ f.offStrings \in Nat
      /\ f.sizeStrings \in Nat /\ ReserveBytes(f) = 16 * f.reserved + 16
      /\ StructBytes(f.struct) \in Nat /\ DataSize(f) = f.offStrings + f.sizeStrings
      /\ f.total \in Nat
  BY TreeFields, TreeNumbers
<1>2. /\ f.sizeStruct = StructBytes(f.struct) /\ f.sizeStrings = StringBytes(f.strings)
      /\ 40 <= f.offRsv /\ f.offRsv + ReserveBytes(f) <= f.offStruct
      /\ f.offStruct + StructBytes(f.struct) <= f.offStrings /\ DataSize(f) <= f.total
  BY SoundIs
<1>3. /\ g.version = f.version /\ g.reserved = f.reserved - 1 /\ g.offRsv = f.offRsv
      /\ g.offStruct = f.offStruct - 16 /\ g.offStrings = f.offStrings - 16
      /\ g.total = f.total /\ g.strings = f.strings /\ g.struct = f.struct
      /\ g.sizeStruct = f.sizeStruct /\ g.sizeStrings = f.sizeStrings
  BY DEF TreesOf, DelMemRsv, ReserveEntrySize
<1>4. f.reserved - 1 \in Nat /\ f.offStruct - 16 \in Nat /\ f.offStrings - 16 \in Nat
  BY <1>1, <1>2
<1>5. g \in TreesOf(V)
  <2>1. g = [f EXCEPT !.reserved = f.reserved - 1, !.offStruct = f.offStruct - 16,
                      !.offStrings = f.offStrings - 16]
    BY DEF DelMemRsv, ReserveEntrySize
  <2> QED
    BY <1>4, <2>1 DEF TreesOf
<1> HIDE DEF g
<1>6. ReserveBytes(g) = ReserveBytes(f) - 16
  <2>1. ReserveBytes(g) = 16 * (f.reserved - 1) + 16
    BY <1>3, <1>5, TreeNumbers
  <2> QED
    BY <2>1, <1>1
<1>7. DataSize(g) = DataSize(f) - 16
  BY <1>1, <1>3 DEF DataSize
<1>8. Sound(g)
  <2>1. g.offRsv + ReserveBytes(g) <= g.offStruct
    BY <1>1, <1>2, <1>3, <1>6
  <2>2. g.offStruct + StructBytes(g.struct) <= g.offStrings
    BY <1>1, <1>2, <1>3
  <2>3. DataSize(g) <= g.total
    BY <1>1, <1>2, <1>3, <1>7
  <2> QED
    BY <2>1, <2>2, <2>3, <1>2, <1>3, <1>5, SoundIs
<1>9. Readable(g)
  BY <1>3 DEF Readable, IsTag
<1>10. DataSize(g) <= DataSize(f)
  BY <1>1, <1>7
<1> QED
  BY <1>3, <1>5, <1>8, <1>9, <1>10 DEF g

(* fdt_packblocks_ and fdt_pack                                            *)
LEMMA PackBlocksIs ==
  ASSUME NEW V, Lengths(V), NEW f \in TreesOf(V), Readable(f),
         f.sizeStrings = StringBytes(f.strings)
  PROVE  LET p == PackBlocks(f)
         IN  /\ p \in TreesOf(V) /\ p.version = f.version /\ p.reserved = f.reserved
             /\ p.struct = f.struct /\ p.strings = f.strings /\ p.total = f.total
             /\ p.sizeStruct = StructBytes(p.struct) /\ p.sizeStrings = StringBytes(p.strings)
             /\ p.offRsv = 40 /\ p.offStruct = 40 + ReserveBytes(p)
             /\ p.offStrings = 40 + ReserveBytes(p) + StructBytes(p.struct)
             /\ DataSize(p) = 40 + ReserveBytes(f) + StructBytes(f.struct) + f.sizeStrings
<1> DEFINE p == PackBlocks(f)
<1>1. ReserveBytes(f) \in Nat /\ StructBytes(f.struct) \in Nat /\ f.sizeStrings \in Nat
  BY TreeFields, TreeNumbers
<1>2. /\ p.version = f.version /\ p.reserved = f.reserved /\ p.offRsv = 40
      /\ p.offStruct = 40 + ReserveBytes(f)
      /\ p.offStrings = 40 + ReserveBytes(f) + StructBytes(f.struct)
      /\ p.total = f.total /\ p.strings = f.strings /\ p.struct = f.struct
      /\ p.sizeStruct = StructBytes(f.struct) /\ p.sizeStrings = f.sizeStrings
  BY DEF TreesOf, PackBlocks, HeaderSize
<1>3. p \in TreesOf(V)
  <2>1. p = [f EXCEPT !.offRsv = 40, !.offStruct = 40 + ReserveBytes(f),
                      !.offStrings = 40 + ReserveBytes(f) + StructBytes(f.struct),
                      !.sizeStruct = StructBytes(f.struct)]
    BY DEF PackBlocks, HeaderSize
  <2>2. 40 + ReserveBytes(f) \in Nat /\ 40 + ReserveBytes(f) + StructBytes(f.struct) \in Nat
    BY <1>1
  <2> HIDE DEF p
  <2> QED
    BY <1>1, <2>1, <2>2 DEF TreesOf
<1> HIDE DEF p
<1>4. ReserveBytes(p) = ReserveBytes(f)
  BY <1>2 DEF ReserveBytes
<1>5. DataSize(p) = 40 + ReserveBytes(f) + StructBytes(f.struct) + f.sizeStrings
  BY <1>2 DEF DataSize
<1> QED
  BY <1>2, <1>3, <1>4, <1>5 DEF p

IsResized(f, g, ver, size, V) ==
  /\ g \in TreesOf(V) /\ Readable(g) /\ Sound(g) /\ g.version = ver /\ g.total = size
  /\ g.reserved = f.reserved /\ g.struct = f.struct /\ g.strings = f.strings
  /\ DataSize(g) = DataSize(f)

(* A tree whose header is given another version and size.                  *)
LEMMA Resized ==
  ASSUME NEW V, Lengths(V), NEW f \in TreesOf(V), Readable(f),
         NEW ver \in Nat, NEW size \in Nat, DataSize(f) <= size,
         f.sizeStrings = StringBytes(f.strings),
         40 <= f.offRsv, f.offRsv + ReserveBytes(f) <= f.offStruct,
         f.offStruct + StructBytes(f.struct) <= f.offStrings,
         NEW g, g = [f EXCEPT !.version = ver, !.total = size,
                              !.sizeStruct = StructBytes(f.struct)]
  PROVE  IsResized(f, g, ver, size, V)
<1>1. StructBytes(f.struct) \in Nat
  BY TreeNumbers
<1>2. g \in TreesOf(V)
  BY <1>1 DEF TreesOf
<1>3. /\ g.version = ver /\ g.reserved = f.reserved /\ g.offRsv = f.offRsv
      /\ g.offStruct = f.offStruct /\ g.offStrings = f.offStrings
      /\ g.total = size /\ g.strings = f.strings /\ g.struct = f.struct
      /\ g.sizeStruct = StructBytes(f.struct) /\ g.sizeStrings = f.sizeStrings
  BY DEF TreesOf
<1>4. DataSize(g) = DataSize(f) /\ ReserveBytes(g) = ReserveBytes(f)
  BY <1>3 DEF DataSize, ReserveBytes
<1>5. Sound(g)
  BY <1>2, <1>3, <1>4, SoundIs
<1>6. Readable(g)
  BY <1>3 DEF Readable, IsTag
<1> QED
  BY <1>2, <1>3, <1>4, <1>5, <1>6 DEF IsResized

(* fdt_open_into leaves the tree as it was, in the blocks of the new       *)
(* buffer.                                                                 *)
LEMMA PackIs ==
  ASSUME NEW V, Lengths(V), NEW f \in TreesOf(V), Readable(f), Sound(f)
  PROVE  LET g == Pack(f)
         IN  /\ g \in TreesOf(V) /\ Readable(g) /\ Sound(g) /\ g.version = f.version
             /\ g.reserved = f.reserved /\ g.struct = f.struct /\ g.strings = f.strings
             /\ g.total = DataSize(g) /\ DataSize(g) <= DataSize(f)
<1> DEFINE p == PackBlocks(f)
           g == Pack(f)
<1>1. /\ f.sizeStrings = StringBytes(f.strings) /\ 40 <= f.offRsv
      /\ f.offRsv + ReserveBytes(f) <= f.offStruct
      /\ f.offStruct + StructBytes(f.struct) <= f.offStrings
  BY SoundIs
<1>2. /\ p \in TreesOf(V) /\ p.version = f.version /\ p.reserved = f.reserved
      /\ p.struct = f.struct /\ p.strings = f.strings
      /\ p.sizeStruct = StructBytes(p.struct) /\ p.sizeStrings = StringBytes(p.strings)
      /\ p.offRsv = 40 /\ p.offStruct = 40 + ReserveBytes(p)
      /\ p.offStrings = 40 + ReserveBytes(p) + StructBytes(p.struct)
      /\ DataSize(p) = 40 + ReserveBytes(f) + StructBytes(f.struct) + f.sizeStrings
  BY <1>1, PackBlocksIs
<1>3. g = [p EXCEPT !.total = DataSize(p)]
  BY DEF Pack
<1> HIDE DEF p
<1>4. /\ ReserveBytes(p) \in Nat /\ StructBytes(p.struct) \in Nat /\ DataSize(p) \in Nat
      /\ p.version \in Nat
  BY <1>2, TreeFields, TreeNumbers
<1>5. g = [p EXCEPT !.version = p.version, !.total = DataSize(p),
                    !.sizeStruct = StructBytes(p.struct)]
  BY <1>2, <1>3 DEF TreesOf
<1> HIDE DEF g
<1>6. Readable(p)
  BY <1>2 DEF Readable, IsTag
<1>7. /\ DataSize(p) <= DataSize(p) /\ 40 <= p.offRsv
      /\ p.offRsv + ReserveBytes(p) <= p.offStruct
      /\ p.offStruct + StructBytes(p.struct) <= p.offStrings
  BY <1>2, <1>4
<1>8. /\ g \in TreesOf(V) /\ Readable(g) /\ Sound(g) /\ g.version = p.version
      /\ g.total = DataSize(p) /\ g.reserved = p.reserved /\ g.struct = p.struct
      /\ g.strings = p.strings /\ DataSize(g) = DataSize(p)
  <2>1. IsResized(p, g, p.version, DataSize(p), V)
    BY <1>2, <1>4, <1>5, <1>6, <1>7, Resized
  <2> QED
    BY <2>1 DEF IsResized
<1>9. DataSize(p) <= DataSize(f)
  <2>1. /\ f.offRsv \in Nat /\ f.offStruct \in Nat /\ f.offStrings \in Nat
        /\ f.sizeStrings \in Nat /\ ReserveBytes(f) \in Nat /\ StructBytes(f.struct) \in Nat
        /\ DataSize(f) = f.offStrings + f.sizeStrings
    BY TreeFields, TreeNumbers
  <2> QED
    BY <1>1, <1>2, <2>1
<1> QED
  BY <1>2, <1>8, <1>9 DEF g

(* fdt_open_into: the tree arrives in the buffer, in order, or it does not *)
(* fit.                                                                    *)
LEMMA OpenIntoIs ==
  ASSUME NEW V, Lengths(V), NEW f \in TreesOf(V), Readable(f), NEW size \in Nat,
         f.sizeStrings = StringBytes(f.strings),
         HeaderSize + ReserveBytes(f) + StructBytes(f.struct) + f.sizeStrings <= f.total,
         NEW r, r = OpenInto(f, size)
  PROVE  \/ r.err = "BADVERSION"
         \/ r.err = "NOSPACE" /\ size < f.total
         \/ LET g == r.fdt
            IN  /\ r.err = "none" /\ g \in TreesOf(V) /\ Readable(g) /\ Sound(g)
                /\ g.version = 17 /\ g.total = size /\ DataSize(g) <= f.total
                /\ g.struct = f.struct /\ g.strings = f.strings /\ g.reserved = f.reserved
<1> DEFINE p == PackBlocks(f)
<1>1. /\ p \in TreesOf(V) /\ p.version = f.version /\ p.reserved = f.reserved
      /\ p.struct = f.struct /\ p.strings = f.strings
      /\ p.sizeStruct = StructBytes(p.struct) /\ p.sizeStrings = StringBytes(p.strings)
      /\ p.offRsv = 40 /\ p.offStruct = 40 + ReserveBytes(p)
      /\ p.offStrings = 40 + ReserveBytes(p) + StructBytes(p.struct)
      /\ DataSize(p) = 40 + ReserveBytes(f) + StructBytes(f.struct) + f.sizeStrings
  BY PackBlocksIs
<1>2. /\ f.offRsv \in Nat /\ f.offStruct \in Nat /\ f.offStrings \in Nat /\ f.total \in Nat
      /\ f.sizeStrings \in Nat /\ ReserveBytes(f) \in Nat /\ StructBytes(f.struct) \in Nat
      /\ DataSize(f) \in Nat
  BY TreeFields, TreeNumbers
<1>3. ReserveBytes(p) \in Nat /\ StructBytes(p.struct) \in Nat /\ DataSize(p) \in Nat
  BY <1>1, TreeNumbers
<1>4. CASE f.version < 16
  BY <1>4 DEF OpenInto, Fails
<1>5. CASE ~(f.version < 16) /\ ~Misordered(f) /\ f.total > size
  BY <1>2, <1>5 DEF OpenInto, Fails
<1>6. CASE ~(f.version < 16) /\ ~Misordered(f) /\ ~(f.total > size)
  <2> DEFINE g == [f EXCEPT !.version = 17, !.total = size,
                            !.sizeStruct = StructBytes(f.struct)]
  <2>1. r.err = "none" /\ r.fdt = g
    BY <1>6 DEF OpenInto, Done
  <2>2. /\ 40 <= f.offRsv /\ f.offRsv + ReserveBytes(f) <= f.offStruct
        /\ f.offStruct + StructBytes(f.struct) <= f.offStrings /\ DataSize(f) <= f.total
    BY <1>2, <1>6 DEF Misordered, HeaderSize
  <2>3. DataSize(f) <= size /\ 17 \in Nat
    BY <1>2, <1>6, <2>2
  <2>4. g = [f EXCEPT !.version = 17, !.total = size, !.sizeStruct = StructBytes(f.struct)]
    OBVIOUS
  <2> HIDE DEF g
  <2>5. /\ g \in TreesOf(V) /\ Readable(g) /\ Sound(g) /\ g.version = 17 /\ g.total = size
        /\ g.reserved = f.reserved /\ g.struct = f.struct /\ g.strings = f.strings
        /\ DataSize(g) = DataSize(f)
    <3>1. IsResized(f, g, 17, size, V)
      BY <2>2, <2>3, <2>4, Resized
    <3> QED
      BY <3>1 DEF IsResized
  <2> QED
    BY <2>1, <2>2, <2>5
<1>7. CASE ~(f.version < 16) /\ Misordered(f) /\ size < DataSize(p)
  <2>1. r.err = "NOSPACE"
    BY <1>7 DEF OpenInto, Fails
  <2>2. size < f.total
    BY <1>1, <1>2, <1>3, <1>7 DEF HeaderSize
  <2> QED
    BY <2>1, <2>2
<1>8. CASE ~(f.version < 16) /\ Misordered(f) /\ ~(size < DataSize(p))
  <2> DEFINE g == [p EXCEPT !.version = 17, !.total = size]
  <2>1. r.err = "none" /\ r.fdt = g
    BY <1>8 DEF OpenInto, Done
  <2> HIDE DEF p
  <2>2. g = [p EXCEPT !.version = 17, !.total = size, !.sizeStruct = StructBytes(p.struct)]
    BY <1>1 DEF TreesOf
  <2>3. Readable(p)
    BY <1>1 DEF Readable, IsTag
  <2>4. /\ 40 <= p.offRsv /\ p.offRsv + ReserveBytes(p) <= p.offStruct
        /\ p.offStruct + StructBytes(p.struct) <= p.offStrings /\ DataSize(p) <= size
        /\ 17 \in Nat
    BY <1>1, <1>3, <1>8
  <2> HIDE DEF g
  <2>5. /\ g \in TreesOf(V) /\ Readable(g) /\ Sound(g) /\ g.version = 17 /\ g.total = size
        /\ g.reserved = p.reserved /\ g.struct = p.struct /\ g.strings = p.strings
        /\ DataSize(g) = DataSize(p)
    <3>1. IsResized(p, g, 17, size, V)
      BY <1>1, <2>2, <2>3, <2>4, Resized
    <3> QED
      BY <3>1 DEF IsResized
  <2>6. DataSize(p) <= f.total
    BY <1>1 DEF HeaderSize
  <2> QED
    BY <1>1, <2>1, <2>5, <2>6
<1> QED
  BY <1>4, <1>5, <1>6, <1>7, <1>8

(* fdt_create_empty_tree                                                   *)
LEMMA EmptyTreeIs ==
  ASSUME NEW V, Lengths(V)
  PROVE  /\ EmptyTree \in TreesOf(V) /\ Readable(EmptyTree) /\ EmptyTree.strings = <<>>
         /\ EmptyTree.sizeStrings = StringBytes(EmptyTree.strings)
         /\ EmptyTree.total \in Nat /\ EmptyTree.reserved = 0
         /\ HeaderSize + ReserveBytes(EmptyTree) + StructBytes(EmptyTree.struct)
              + EmptyTree.sizeStrings <= EmptyTree.total
<1>1. RootOnly \in Seq(TagsOf(V))
  <2>1. BeginNode(RootName) \in TagsOf(V) /\ EndNode \in TagsOf(V) /\ End \in TagsOf(V)
    BY OwnNames DEF BeginNode, EndNode, End, TagsOf
  <2>2. \A a \in TagsOf(V), b \in TagsOf(V), c \in TagsOf(V) : <<a, b, c>> \in Seq(TagsOf(V))
    OBVIOUS
  <2> QED
    BY <2>1, <2>2 DEF RootOnly
<1>2. StructBytes(RootOnly) \in Nat
  BY <1>1, StructConcat
<1> DEFINE rsv == RoundUp(HeaderSize, ReserveEntrySize)
<1>3. rsv \in Nat /\ rsv >= 40
  <2>1. HeaderSize \in Int /\ ReserveEntrySize \in Nat \ {0}
    BY DEF HeaderSize, ReserveEntrySize
  <2>2. rsv \in Int /\ HeaderSize <= rsv
    BY <2>1, RoundUpBounds
  <2> QED
    BY <2>2 DEF HeaderSize
<1> HIDE DEF rsv
<1> DEFINE e == EmptyTree
<1>4. e = [version |-> 17, reserved |-> 0, struct |-> RootOnly, strings |-> <<>>,
           offRsv |-> rsv, offStruct |-> rsv + 16, offStrings |-> rsv + 16 + StructBytes(RootOnly),
           sizeStruct |-> StructBytes(RootOnly), sizeStrings |-> 0,
           total |-> rsv + 16 + StructBytes(RootOnly)]
  BY DEF EmptyTree, ReserveEntrySize, rsv
<1> HIDE DEF e
<1>5. /\ rsv + 16 \in Nat /\ rsv + 16 + StructBytes(RootOnly) \in Nat
  BY <1>2, <1>3
<1>6. e \in TreesOf(V)
  BY <1>1, <1>2, <1>3, <1>4, <1>5 DEF TreesOf
<1>7. /\ e.reserved = 0 /\ e.struct = RootOnly /\ e.strings = <<>> /\ e.sizeStrings = 0
      /\ e.total = rsv + 16 + StructBytes(RootOnly)
  BY <1>4
<1>8. StringBytes(<<>>) = 0
  <2>1. [i \in 1..Len(<<>>) |-> Length[<<>>[i]] + 1] = <<>>
    OBVIOUS
  <2> QED
    BY <2>1, SumOfOne DEF StringBytes
<1>9. ReserveBytes(e) = 16
  BY <1>6, <1>7, TreeNumbers
<1>10. Readable(e)
  <2>1. /\ Len(RootOnly) = 3 /\ RootOnly[1].tag = "BEGIN_NODE"
        /\ RootOnly[2].tag = "END_NODE" /\ RootOnly[3].tag = "END"
    BY DEF RootOnly, BeginNode, EndNode, End
  <2>2. \A j \in 1..3 : j = 1 \/ j = 2 \/ j = 3
    OBVIOUS
  <2>3. \A j \in 1..3 : RootOnly[j].tag # "PROP"
    BY <2>1, <2>2
  <2> QED
    BY <1>7, <2>1, <2>3 DEF Readable, IsTag
<1>11. 40 + 16 + StructBytes(RootOnly) + 0 <= rsv + 16 + StructBytes(RootOnly)
  BY <1>2, <1>3
<1> QED
  BY <1>5, <1>6, <1>7, <1>8, <1>9, <1>10, <1>11 DEF e, HeaderSize

-----------------------------------------------------------------------------
(* What update_fdt has still to add, from where it is.                     *)
TellNeeds(i) == Needs(Told[i].name, Told[i].len)
ChosenNeeds == StructBytes(<<BeginNode("chosen"), EndNode>>)
CellsNeed == Needs("#address-cells", 4) + Needs("#size-cells", 4)
BootNeeds == Needs("bootargs", cmdline.len)

From(k, i) == IF k <= i THEN TellNeeds(i) ELSE 0
TellRest(k) == From(k, 1) + From(k, 2) + From(k, 3) + From(k, 4) + From(k, 5)

Rest(where, k) ==
  IF where = "cells" THEN CellsNeed + ChosenNeeds + BootNeeds + TellRest(1)
  ELSE IF where \in {"reserved", "chosen"} THEN ChosenNeeds + BootNeeds + TellRest(1)
  ELSE IF where = "bootargs" THEN BootNeeds + TellRest(1)
  ELSE TellRest(k)

Good(f, first, size) ==
  /\ f \in TreesOf(Values) /\ Readable(f) /\ Sound(f) /\ f.version = 17
  /\ f.total <= size /\ Named(f, Len(first.strings))

ToldValue(i, n) == [len |-> Told[i].len, data |-> IF i = 1 THEN Placeholder ELSE n]

HasTold(f, n, k, rounds, line) ==
  /\ line.len > 1 => Has(f, n, "bootargs", line)
  /\ \A i \in 1..(k - 1) : Has(f, n, Told[i].name, ToldValue(i, rounds))

(* The inductive invariant: the tree is good and has room for the rest,    *)
(* and once /chosen is there it has what was told.                         *)
Progress ==
  /\ at \in {"open", "cells", "reserved", "chosen", "bootargs", "told", "ready",
             "too_small", "load_error"}
  /\ at = "open" => fdt = NoTree
  /\ at \in {"open", "cells", "reserved", "chosen", "bootargs"} => told = 1
  /\ at = "ready" => told = 6
  /\ at # "ready" => round = 0

Room ==
  at \in {"cells", "reserved", "chosen", "bootargs", "told"} =>
    fdt.total = bufsize /\ DataSize(fdt) + Rest(at, told) <= Original.total + Added

Tells ==
  /\ at \in {"chosen", "bootargs", "told", "ready"} => fdt.reserved = 0
  /\ at \in {"bootargs", "told", "ready"} => node = Chosen(fdt) /\ node # NotFound
  /\ at \in {"told", "ready"} => HasTold(fdt, node, told, round, cmdline)
  /\ at = "ready" => fdt.total = DataSize(fdt)

IInv ==
  /\ TypeOK /\ Progress /\ EnoughRoom
  /\ at \notin {"open", "too_small", "load_error"} => fdt # NoTree
  /\ fdt # NoTree => Good(fdt, Original, bufsize)
  /\ Room /\ Tells

-----------------------------------------------------------------------------
(* The five properties of the system table and the memory map.             *)
LEMMA ToldIs ==
  /\ Len(Told) = 5 /\ 5 \in Nat
  /\ Told[1].name = "linux,uefi-system-table" /\ Told[1].len = 8
  /\ Told[2].name = "linux,uefi-mmap-start" /\ Told[2].len = 8
  /\ Told[3].name = "linux,uefi-mmap-size" /\ Told[3].len = 4
  /\ Told[4].name = "linux,uefi-mmap-desc-size" /\ Told[4].len = 4
  /\ Told[5].name = "linux,uefi-mmap-desc-ver" /\ Told[5].len = 4
<1>6. Len(Told) = 5
  BY DEF Told
<1>1. Told[1] = [name |-> "linux,uefi-system-table", len |-> 8]
  BY DEF Told
<1>2. Told[2] = [name |-> "linux,uefi-mmap-start", len |-> 8]
  BY DEF Told
<1>3. Told[3] = [name |-> "linux,uefi-mmap-size", len |-> 4]
  BY DEF Told
<1>4. Told[4] = [name |-> "linux,uefi-mmap-desc-size", len |-> 4]
  BY DEF Told
<1>5. Told[5] = [name |-> "linux,uefi-mmap-desc-ver", len |-> 4]
  BY DEF Told
<1>11. Told[1].name = "linux,uefi-system-table" /\ Told[1].len = 8
  BY Zenon DEF Told
<1>12. Told[2].name = "linux,uefi-mmap-start" /\ Told[2].len = 8
  BY Zenon DEF Told
<1>13. Told[3].name = "linux,uefi-mmap-size" /\ Told[3].len = 4
  BY Zenon DEF Told
<1>14. Told[4].name = "linux,uefi-mmap-desc-size" /\ Told[4].len = 4
  BY Zenon DEF Told
<1>15. Told[5].name = "linux,uefi-mmap-desc-ver" /\ Told[5].len = 4
  BY Zenon DEF Told
<1> QED
  BY <1>6, <1>11, <1>12, <1>13, <1>14, <1>15

(* Their names differ, and none is the one of the command line.            *)
LEMMA ToldNames ==
  /\ \A i \in 1..5 : Told[i].name \in Names /\ Told[i].len \in {4, 8} /\ Told[i].len \in Nat
  /\ \A i \in 1..5, j \in 1..5 : i # j => Told[i].name # Told[j].name
  /\ \A i \in 1..5 : Told[i].name # "bootargs"
  /\ "bootargs" \in Names /\ "#address-cells" \in Names /\ "#size-cells" \in Names
<1>1. \A i \in 1..5 : i = 1 \/ i = 2 \/ i = 3 \/ i = 4 \/ i = 5
  OBVIOUS
<1>2. \A i \in 1..5 : Told[i].name \in Names
  BY OwnNames, ToldIs
<1>3. \A i \in 1..5 : Told[i].len \in {4, 8}
  BY <1>1, ToldIs
<1>4. \A i \in 1..5, j \in 1..5 : i # j => Told[i].name # Told[j].name
  BY <1>1, ToldIs
<1>5. \A i \in 1..5 : Told[i].name # "bootargs"
  BY <1>1, ToldIs
<1>6. "bootargs" \in Names /\ "#address-cells" \in Names /\ "#size-cells" \in Names
  BY OwnNames
<1>7. \A i \in 1..5 : Told[i].len \in Nat
  BY <1>3
<1> QED
  BY <1>2, <1>3, <1>4, <1>5, <1>6, <1>7

(* What they are told has the length the property has.                     *)
LEMMA ToldValueIs ==
  ASSUME NEW i \in 1..5, NEW n \in 0..Rounds
  PROVE  ToldValue(i, n) \in Values /\ ToldValue(i, n).len = Told[i].len
<1>1. Told[i].len \in {4, 8} /\ 0 \in 0..Rounds
  BY ToldNames, TreesAssumption
<1>2. ToldValue(i, n) \in [len : {4, 8}, data : 0..Rounds]
  BY <1>1 DEF ToldValue, Placeholder
<1> QED
  BY <1>2 DEF Values, ToldValue

(* The room a property takes is a number,                                  *)
LEMMA NeedsNat ==
  ASSUME NEW name \in Names, NEW len \in Nat
  PROVE  Needs(name, len) \in Nat /\ PropBytes(name, len) = Needs(name, len)
<1>1. Length[name] \in Nat /\ Tagalign(len) \in Nat
  BY NamesAssumption, TagalignIs
<1>2. Needs(name, len) \in Nat
  BY <1>1 DEF Needs
<1>3. [len |-> len].len = len
  OBVIOUS
<1>4. Bytes(Prop(<<1, name>>, [len |-> len])) = 12 + Tagalign(len)
  BY <1>3, PropBytesIs
<1> QED
  BY <1>2, <1>4 DEF PropBytes, Needs

(* and so is the one of the node /chosen.                                  *)
LEMMA ChosenNeedsNat == ChosenNeeds \in Nat
<1>1. BeginNode("chosen") \in TagsOf({}) /\ EndNode \in TagsOf({})
  BY OwnNames DEF BeginNode, EndNode, TagsOf
<1>2. <<BeginNode("chosen"), EndNode>> \in Seq(TagsOf({})) /\ Lengths({})
  BY <1>1 DEF Lengths
<1> QED
  BY <1>2, StructConcat DEF ChosenNeeds

(* Added is what is to be added at the beginning.                          *)
LEMMA AddedIs ==
  ASSUME cmdline.len \in Nat
  PROVE  /\ Added = CellsNeed + ChosenNeeds + BootNeeds + TellRest(1)
         /\ CellsNeed \in Nat /\ BootNeeds \in Nat /\ Added \in Nat
         /\ \A k : TellRest(k) \in Nat
         /\ \A i \in 1..5 : TellNeeds(i) \in Nat
<1>1. \A i \in 1..5 : TellNeeds(i) \in Nat
                      /\ PropBytes(Told[i].name, Told[i].len) = TellNeeds(i)
  BY ToldNames, NeedsNat DEF TellNeeds
<1>2. /\ Needs("#address-cells", 4) \in Nat /\ Needs("#size-cells", 4) \in Nat
      /\ BootNeeds \in Nat /\ PropBytes("bootargs", cmdline.len) = BootNeeds
      /\ PropBytes("#address-cells", 4) = Needs("#address-cells", 4)
      /\ PropBytes("#size-cells", 4) = Needs("#size-cells", 4)
  BY ToldNames, NeedsNat DEF BootNeeds
<1>3. \A k, i : i \in 1..5 => From(k, i) \in Nat
  BY <1>1 DEF From
<1>4. \A k : TellRest(k) \in Nat
  <2> SUFFICES ASSUME NEW k PROVE TellRest(k) \in Nat
    OBVIOUS
  <2>1. From(k, 1) \in Nat /\ From(k, 2) \in Nat /\ From(k, 3) \in Nat /\ From(k, 4) \in Nat
        /\ From(k, 5) \in Nat
    BY <1>3
  <2> QED
    BY <2>1 DEF TellRest
<1> DEFINE s == [i \in 1..Len(Told) |-> PropBytes(Told[i].name, Told[i].len)]
<1>5. s = <<TellNeeds(1), TellNeeds(2), TellNeeds(3), TellNeeds(4), TellNeeds(5)>>
  <2>1. s = [i \in 1..5 |-> TellNeeds(i)]
    BY <1>1, ToldIs
  <2> QED
    BY <2>1
<1>6. TellNeeds(1) \in Nat /\ TellNeeds(2) \in Nat /\ TellNeeds(3) \in Nat
      /\ TellNeeds(4) \in Nat /\ TellNeeds(5) \in Nat
  BY <1>1
<1>7. SumOf(s) = TellNeeds(1) + TellNeeds(2) + TellNeeds(3) + TellNeeds(4) + TellNeeds(5)
  <2>1. \A a \in Nat, b \in Nat, c \in Nat, d \in Nat, e \in Nat :
          SumOf(<<a, b, c, d, e>>) = a + b + c + d + e
    BY SumOfFive
  <2>2. SumOf(<<TellNeeds(1), TellNeeds(2), TellNeeds(3), TellNeeds(4), TellNeeds(5)>>)
          = TellNeeds(1) + TellNeeds(2) + TellNeeds(3) + TellNeeds(4) + TellNeeds(5)
    <3>1. PICK a \in Nat, b \in Nat, c \in Nat, d \in Nat, e \in Nat :
            a = TellNeeds(1) /\ b = TellNeeds(2) /\ c = TellNeeds(3) /\ d = TellNeeds(4)
            /\ e = TellNeeds(5)
      BY <1>6, Zenon
    <3>2. SumOf(<<a, b, c, d, e>>) = a + b + c + d + e
      BY <2>1
    <3> QED
      BY <3>1, <3>2
  <2> HIDE DEF s
  <2> QED
    BY <1>5, <2>2
<1>8. TellRest(1) = TellNeeds(1) + TellNeeds(2) + TellNeeds(3) + TellNeeds(4) + TellNeeds(5)
  BY <1>6 DEF TellRest, From
<1>9. Added = ChosenNeeds + BootNeeds + Needs("#address-cells", 4) + Needs("#size-cells", 4)
                + SumOf(s)
  BY <1>2 DEF Added, ChosenNeeds
<1>10. CellsNeed \in Nat /\ CellsNeed = Needs("#address-cells", 4) + Needs("#size-cells", 4)
  BY <1>2 DEF CellsNeed
<1> HIDE DEF s
<1>11. TellRest(1) \in Nat /\ SumOf(s) = TellRest(1) /\ ChosenNeeds \in Nat
  BY <1>4, <1>7, <1>8, ChosenNeedsNat
<1>12. Added = CellsNeed + ChosenNeeds + BootNeeds + TellRest(1) /\ Added \in Nat
  BY <1>2, <1>9, <1>10, <1>11
<1> QED
  BY <1>1, <1>2, <1>4, <1>10, <1>12

(* The room for the properties still to be told, from the k-th on.         *)
LEMMA TellRestStep ==
  ASSUME cmdline.len \in Nat, NEW k \in 1..5
  PROVE  TellRest(k) = TellNeeds(k) + TellRest(k + 1)
<1>1. TellNeeds(1) \in Nat /\ TellNeeds(2) \in Nat /\ TellNeeds(3) \in Nat
      /\ TellNeeds(4) \in Nat /\ TellNeeds(5) \in Nat
  BY AddedIs
<1>2. k = 1 \/ k = 2 \/ k = 3 \/ k = 4 \/ k = 5
  OBVIOUS
<1> QED
  BY <1>1, <1>2 DEF TellRest, From

(* The values that do not change during update_fdt.                        *)
LEMMA ConstantsAre ==
  ASSUME TypeOK
  PROVE  /\ cmdline.len \in Nat /\ cmdline \in Values /\ bufsize \in Nat
         /\ Cells \in Values /\ Cells.len = 4 /\ told \in Nat /\ round \in 0..Rounds /\ Rounds \in Nat
<1>1. cmdline.len \in Nat /\ bufsize \in Nat /\ Rounds \in Nat
  BY TreesAssumption DEF TypeOK
<1>2. cmdline \in Values /\ Cells \in Values
  BY DEF TypeOK, Values
<1>3. Cells.len = 4
  BY DEF Cells
<1> QED
  BY <1>1, <1>2, <1>3 DEF TypeOK

(* The tree to begin with.                                                 *)
LEMMA OriginalIs ==
  ASSUME TypeOK
  PROVE  /\ Original \in TreesOf(Values) /\ Readable(Original) /\ Original.total \in Nat
         /\ Original.sizeStrings = StringBytes(Original.strings)
         /\ HeaderSize + ReserveBytes(Original) + StructBytes(Original.struct)
              + Original.sizeStrings <= Original.total
<1>1. CASE orig = NoTree
  <2>1. Original = EmptyTree
    BY <1>1 DEF Original
  <2> QED
    BY <2>1, EmptyTreeIs, ValuesHaveLengths
<1>2. CASE orig # NoTree
  <2>1. Original = orig /\ orig \in Trees
    BY <1>2 DEF Original, TypeOK
  <2>2. /\ orig \in TreesOf(ValuesOf(orig)) /\ Readable(orig)
        /\ orig.sizeStrings = StringBytes(orig.strings)
        /\ HeaderSize + ReserveBytes(orig) + StructBytes(orig.struct)
              + orig.sizeStrings <= orig.total
    BY <2>1, TreesAssumption
  <2>3. ValuesOf(orig) \subseteq Values
    BY <2>1 DEF Values
  <2>4. orig \in TreesOf(Values)
    BY <2>2, <2>3, TreesGrow
  <2> QED
    BY <2>1, <2>2, <2>4, TreeFields
<1> QED
  BY <1>1, <1>2

(* What is derived from them does not change either.                       *)
LEMMA Unmoved ==
  ASSUME orig' = orig, bufsize' = bufsize, cmdline' = cmdline
  PROVE  Original' = Original /\ Added' = Added /\ BootNeeds' = BootNeeds
BY DEF Original, Added, BootNeeds

(* A good tree is a tree.                                                  *)
LEMMA GoodIsTree ==
  ASSUME NEW f, NEW first, NEW size, Good(f, first, size)
  PROVE  /\ f # NoTree /\ DataSize(f) \in Nat /\ f.total \in Nat /\ f.reserved \in Nat
         /\ Len(f.struct) \in Nat /\ IsNode(f, Root)
<1>1. f \in TreesOf(Values) /\ f.version = 17 /\ Readable(f)
  BY DEF Good
<1>2. f # NoTree
  BY <1>1 DEF NoTree
<1>3. Len(f.struct) \in Nat /\ f.total \in Nat /\ f.reserved \in Nat
  BY <1>1, TreeFields
<1>4. DataSize(f) \in Nat
  BY <1>1, TreeNumbers, ValuesHaveLengths
<1>5. IsNode(f, Root)
  BY <1>1, <1>3 DEF IsNode, Readable, Root
<1> QED
  BY <1>2, <1>3, <1>4, <1>5

(* A good tree in which a property was set is a good one.                  *)
LEMMA SetIsGood ==
  ASSUME TypeOK, NEW f, NEW g, NEW size \in Nat, Good(f, Original, size),
         NEW n, NEW name, NEW v, IsSet(f, g, n, name, v, Values)
  PROVE  Good(g, Original, size) /\ g.total = f.total /\ g.reserved = f.reserved
<1>1. Len(Original.strings) \in Nat
  BY OriginalIs, TreeFields
<1> QED
  BY <1>1 DEF Good, IsSet, SameHeader

(* Setting a property of /chosen leaves the node where it is.              *)
LEMMA ChosenStays ==
  ASSUME NEW f, NEW first, NEW size, Good(f, first, size), Chosen(f) # NotFound
  PROVE  /\ IsNode(f, Chosen(f)) /\ Chosen(f) \in Nat
         /\ \A g, name, v : IsSet(f, g, Chosen(f), name, v, Values) => Chosen(g) = Chosen(f)
<1>1. Len(f.struct) \in Nat /\ f \in TreesOf(Values)
  BY GoodIsTree DEF Good
<1>2. Chosen(f) \in Nat
  BY <1>1, ChosenIs
<1>3. IsChosen(f, Chosen(f))
  BY <1>1, ChosenIs
<1>4. TagsKept(f, f, Chosen(f))
  BY <1>1, <1>2, <1>3 DEF TagsKept, IsChosen, Root
<1>5. IsNode(f, Chosen(f))
  BY <1>1, <1>4, ChosenKept
<1>6. ASSUME NEW g, NEW name, NEW v, IsSet(f, g, Chosen(f), name, v, Values)
      PROVE  Chosen(g) = Chosen(f)
  <2>1. g \in TreesOf(Values) /\ TagsKept(f, g, Chosen(f))
    BY <1>6 DEF IsSet
  <2>2. Len(g.struct) \in Nat
    BY <2>1, TreeFields
  <2> QED
    BY <1>1, <2>1, <2>2, ChosenKept
<1> QED
  BY <1>2, <1>5, <1>6

-----------------------------------------------------------------------------
(* The invariant holds at first and every step keeps it.                   *)
LEMMA IInvInit == Init => IInv
<1> SUFFICES ASSUME Init PROVE IInv
  OBVIOUS
<1>1. 0 \in 0..Rounds /\ 1 \in 1..(Len(Told) + 1)
  <2>1. Rounds \in Nat
    BY TreesAssumption
  <2>2. Len(Told) = 5
    BY ToldIs
  <2> QED
    BY <2>1, <2>2
<1>2. TypeOK
  BY <1>1 DEF Init, TypeOK, NotFound
<1>3. Progress /\ EnoughRoom /\ Room /\ Tells
  BY DEF Init, Progress, EnoughRoom, Room, Tells
<1> QED
  BY <1>2, <1>3 DEF Init, IInv

(* Opening the tree into the buffer keeps the invariant.                   *)
LEMMA StepOpenTree == ASSUME IInv, OpenTree PROVE IInv'
<1> DEFINE q == IF orig = NoTree THEN CreateEmptyTree(bufsize) ELSE OpenInto(orig, bufsize)
           next == IF orig = NoTree THEN "cells" ELSE "reserved"
           g == q.fdt
<1>1. TypeOK /\ at = "open" /\ told = 1 /\ round = 0
  BY DEF IInv, OpenTree, Progress
<1>2. /\ orig' = orig /\ bufsize' = bufsize /\ cmdline' = cmdline /\ node' = node
      /\ told' = told /\ round' = round
  BY DEF OpenTree
<1>3. Original' = Original /\ Added' = Added /\ BootNeeds' = BootNeeds
  BY <1>2, Unmoved
<1>4. /\ q.err = "none" => fdt' = g /\ at' = next
      /\ q.err # "none" => fdt' = NoTree /\ at' = Failure(q.err)
  BY DEF OpenTree, Calls, Fails
<1>5. /\ Original \in TreesOf(Values) /\ Readable(Original) /\ Original.total \in Nat
      /\ Original.sizeStrings = StringBytes(Original.strings)
      /\ HeaderSize + ReserveBytes(Original) + StructBytes(Original.struct)
           + Original.sizeStrings <= Original.total
  BY <1>1, OriginalIs
<1>6. bufsize \in Nat /\ cmdline.len \in Nat
  BY <1>1, ConstantsAre
<1>7. /\ Added = CellsNeed + ChosenNeeds + BootNeeds + TellRest(1)
      /\ CellsNeed \in Nat /\ BootNeeds \in Nat /\ Added \in Nat
      /\ TellRest(1) \in Nat /\ ChosenNeeds \in Nat
  BY <1>6, AddedIs, ChosenNeedsNat
<1>8. \/ q = OpenInto(Original, bufsize)
      \/ q.err = "NOSPACE" /\ bufsize < Original.total
  BY DEF Original, CreateEmptyTree, Fails
<1> HIDE DEF q
<1>9. \/ q.err = "BADVERSION"
      \/ q.err = "NOSPACE" /\ bufsize < Original.total
      \/ /\ q.err = "none" /\ g \in TreesOf(Values) /\ Readable(g) /\ Sound(g)
         /\ g.version = 17 /\ g.total = bufsize /\ DataSize(g) <= Original.total
         /\ g.strings = Original.strings
  BY <1>5, <1>6, <1>8, OpenIntoIs, ValuesHaveLengths
<1>10. TypeOK'
  <2>1. at' \in {"cells", "reserved", "too_small", "load_error"}
    BY <1>4 DEF Failure
  <2> QED
    BY <1>1, <1>2, <2>1 DEF TypeOK
<1>11. CASE q.err # "none"
  <2>1. fdt' = NoTree /\ at' \in {"too_small", "load_error"}
    BY <1>4, <1>11 DEF Failure
  <2>2. at' = "too_small" => bufsize < Original.total
    BY <1>4, <1>9, <1>11 DEF Failure
  <2>3. EnoughRoom'
    <3>1. bufsize < Original.total => bufsize < Original.total + Added
      BY <1>5, <1>6, <1>7
    <3> QED
      BY <1>2, <1>3, <2>2, <3>1 DEF EnoughRoom
  <2>4. Progress' /\ Room' /\ Tells'
    BY <1>1, <1>2, <2>1 DEF Progress, Room, Tells
  <2> QED
    BY <1>10, <2>1, <2>3, <2>4 DEF IInv
<1>12. CASE q.err = "none"
  <2>1. /\ g \in TreesOf(Values) /\ Readable(g) /\ Sound(g)
        /\ g.version = 17 /\ g.total = bufsize /\ DataSize(g) <= Original.total
        /\ g.strings = Original.strings /\ fdt' = g /\ at' = next
    BY <1>4, <1>9, <1>12
  <2> HIDE DEF g
  <2>2. Good(g, Original, bufsize)
    <3>1. Len(Original.strings) \in Nat
      BY <1>5, TreeFields
    <3>2. Named(g, Len(Original.strings))
      BY <2>1, <3>1 DEF Named
    <3> QED
      BY <1>6, <2>1, <3>2 DEF Good
  <2>3. g # NoTree /\ DataSize(g) \in Nat
    BY <2>2, GoodIsTree
  <2>4. at' \in {"cells", "reserved"}
    BY <2>1
  <2>5. Progress' /\ EnoughRoom' /\ Tells'
    BY <1>1, <1>2, <2>4 DEF Progress, EnoughRoom, Tells
  <2>6. Room'
    <3>1. DataSize(g) + (CellsNeed + ChosenNeeds + BootNeeds + TellRest(1)) <= Original.total + Added
      BY <1>5, <1>7, <2>1, <2>3
    <3>2. DataSize(g) + (ChosenNeeds + BootNeeds + TellRest(1)) <= Original.total + Added
      BY <1>5, <1>7, <2>1, <2>3
    <3> QED
      BY <1>2, <1>3, <2>1, <2>4, <3>1, <3>2 DEF Room, Rest
  <2>7. (fdt # NoTree)' /\ Good(fdt, Original, bufsize)'
    BY <1>2, <1>3, <2>1, <2>2, <2>3
  <2> QED
    BY <1>10, <2>5, <2>6, <2>7 DEF IInv
<1> QED
  BY <1>11, <1>12

(* A property of the root, set or not, as update_fdt_cell_size does not    *)
(* look.                                                                   *)
LEMMA TriedIsGood ==
  ASSUME TypeOK, NEW f, Good(f, Original, bufsize), NEW name \in Names,
         NEW g, g = SetProp(f, Root, name, Cells).fdt
  PROVE  /\ Good(g, Original, bufsize) /\ g.total = f.total
         /\ DataSize(g) <= DataSize(f) + Needs(name, 4) /\ Needs(name, 4) \in Nat
<1> DEFINE r == SetProp(f, Root, name, Cells)
<1>1. Cells \in Values /\ Cells.len = 4 /\ bufsize \in Nat
  BY ConstantsAre
<1>2. IsNode(f, Root) /\ DataSize(f) \in Nat
  BY GoodIsTree
<1>3. r = SetProp(f, Root, name, Cells) /\ g = r.fdt
  OBVIOUS
<1> HIDE DEF r
<1>4. f \in TreesOf(Values) /\ Readable(f) /\ Sound(f)
  BY DEF Good
<1>5. /\ Needs(name, 4) \in Nat
      /\ \/ /\ r.err = "NOSPACE" /\ r.fdt = f
            /\ DataSize(f) + Needs(name, 4) > f.total
         \/ /\ r.err = "none" /\ IsSet(f, r.fdt, Root, name, Cells, Values)
            /\ DataSize(r.fdt) <= DataSize(f) + Needs(name, 4)
  <2>1. /\ Needs(name, Cells.len) \in Nat
        /\ \/ /\ r.err = "NOSPACE" /\ r.fdt = f
              /\ DataSize(f) + Needs(name, Cells.len) > f.total
           \/ /\ r.err = "none" /\ IsSet(f, r.fdt, Root, name, Cells, Values)
              /\ DataSize(r.fdt) <= DataSize(f) + Needs(name, Cells.len)
    BY <1>1, <1>2, <1>3, <1>4, SetPropIs, ValuesHaveLengths
  <2> QED
    BY <1>1, <2>1
<1>6. CASE g = f
  BY <1>2, <1>5, <1>6
<1>7. CASE g # f
  <2>1. IsSet(f, g, Root, name, Cells, Values) /\ DataSize(g) <= DataSize(f) + Needs(name, 4)
    BY <1>3, <1>5, <1>7
  <2> QED
    BY <1>1, <1>5, <2>1, SetIsGood
<1> QED
  BY <1>6, <1>7

(* So does setting the cell sizes of the root of an empty tree,            *)
LEMMA StepUpdateCellSize == ASSUME IInv, UpdateCellSize PROVE IInv'
<1> DEFINE f == SetProp(fdt, Root, "#address-cells", Cells).fdt
           g == SetProp(f, Root, "#size-cells", Cells).fdt
<1>1. TypeOK /\ at = "cells" /\ told = 1 /\ round = 0 /\ fdt # NoTree
      /\ Good(fdt, Original, bufsize)
  BY DEF IInv, UpdateCellSize, Progress
<1>2. /\ orig' = orig /\ bufsize' = bufsize /\ cmdline' = cmdline /\ node' = node
      /\ told' = told /\ round' = round /\ at' = "reserved" /\ fdt' = g
  BY DEF UpdateCellSize
<1>3. Original' = Original /\ Added' = Added /\ BootNeeds' = BootNeeds
  BY <1>2, Unmoved
<1>4. fdt.total = bufsize
      /\ DataSize(fdt) + (CellsNeed + ChosenNeeds + BootNeeds + TellRest(1))
           <= Original.total + Added
  BY <1>1 DEF IInv, Room, Rest
<1>5. bufsize \in Nat /\ cmdline.len \in Nat /\ Original.total \in Nat
  BY <1>1, ConstantsAre, OriginalIs
<1>6. BootNeeds \in Nat /\ Added \in Nat /\ TellRest(1) \in Nat /\ ChosenNeeds \in Nat
  BY <1>5, AddedIs, ChosenNeedsNat
<1>7. f = SetProp(fdt, Root, "#address-cells", Cells).fdt
      /\ g = SetProp(f, Root, "#size-cells", Cells).fdt
  OBVIOUS
<1> HIDE DEF f, g
<1>8. /\ Good(f, Original, bufsize) /\ f.total = fdt.total
      /\ DataSize(f) <= DataSize(fdt) + Needs("#address-cells", 4)
      /\ Needs("#address-cells", 4) \in Nat
  BY <1>1, <1>7, TriedIsGood, ToldNames
<1>9. /\ Good(g, Original, bufsize) /\ g.total = f.total
      /\ DataSize(g) <= DataSize(f) + Needs("#size-cells", 4)
      /\ Needs("#size-cells", 4) \in Nat
  BY <1>1, <1>7, <1>8, TriedIsGood, ToldNames
<1>10. g # NoTree /\ DataSize(g) \in Nat /\ DataSize(f) \in Nat /\ DataSize(fdt) \in Nat
  BY <1>1, <1>8, <1>9, GoodIsTree
<1>11. DataSize(g) + (ChosenNeeds + BootNeeds + TellRest(1)) <= Original.total + Added
  BY <1>4, <1>5, <1>6, <1>8, <1>9, <1>10 DEF CellsNeed
<1>12. Room'
  BY <1>2, <1>3, <1>4, <1>8, <1>9, <1>11 DEF Room, Rest
<1>13. TypeOK' /\ Progress' /\ EnoughRoom' /\ Tells'
  BY <1>1, <1>2 DEF TypeOK, Progress, EnoughRoom, Tells
<1>14. (fdt # NoTree)' /\ Good(fdt, Original, bufsize)'
  BY <1>2, <1>3, <1>9, <1>10
<1> QED
  BY <1>12, <1>13, <1>14 DEF IInv

(* deleting the memory reservations,                                       *)
LEMMA StepDelReservations == ASSUME IInv, DelReservations PROVE IInv'
<1>1. TypeOK /\ at = "reserved" /\ told = 1 /\ round = 0 /\ fdt # NoTree
      /\ Good(fdt, Original, bufsize)
  BY DEF IInv, DelReservations, Progress
<1>2. /\ orig' = orig /\ bufsize' = bufsize /\ cmdline' = cmdline /\ node' = node
      /\ told' = told /\ round' = round
  BY DEF DelReservations
<1>3. Original' = Original /\ Added' = Added /\ BootNeeds' = BootNeeds
  BY <1>2, Unmoved
<1>4. fdt.total = bufsize
      /\ DataSize(fdt) + (ChosenNeeds + BootNeeds + TellRest(1)) <= Original.total + Added
  BY <1>1 DEF IInv, Room, Rest
<1>5. cmdline.len \in Nat /\ Original.total \in Nat /\ DataSize(fdt) \in Nat /\ fdt.reserved \in Nat
  BY <1>1, ConstantsAre, OriginalIs, GoodIsTree
<1>6. BootNeeds \in Nat /\ Added \in Nat /\ TellRest(1) \in Nat /\ ChosenNeeds \in Nat
  BY <1>5, AddedIs, ChosenNeedsNat
<1>7. at' \in {"reserved", "chosen"}
  BY <1>1 DEF DelReservations
<1>8. /\ Good(fdt', Original, bufsize) /\ fdt'.total = fdt.total
      /\ DataSize(fdt') <= DataSize(fdt) /\ DataSize(fdt') \in Nat
      /\ at' = "chosen" => fdt'.reserved = 0
  <2>1. CASE fdt.reserved > 0
    <3> DEFINE g == DelMemRsv(fdt)
    <3>1. fdt' = g /\ at' = "reserved"
      BY <1>1, <2>1 DEF DelReservations
    <3>2. fdt \in TreesOf(Values) /\ Readable(fdt) /\ Sound(fdt)
      BY <1>1 DEF Good
    <3>3. /\ g \in TreesOf(Values) /\ Readable(g) /\ Sound(g) /\ g.version = fdt.version
          /\ g.total = fdt.total /\ DataSize(g) <= DataSize(fdt)
          /\ g.struct = fdt.struct /\ g.strings = fdt.strings
      BY <2>1, <3>2, DelMemRsvIs, ValuesHaveLengths
    <3> HIDE DEF g
    <3>4. Good(g, Original, bufsize)
      BY <1>1, <3>3 DEF Good, Named, IsTag
    <3>5. DataSize(g) \in Nat
      BY <3>4, GoodIsTree
    <3> QED
      BY <3>1, <3>3, <3>4, <3>5
  <2>2. CASE ~(fdt.reserved > 0)
    <3>1. fdt' = fdt /\ fdt.reserved = 0
      BY <1>5, <2>2 DEF DelReservations
    <3> QED
      BY <1>1, <1>5, <3>1
  <2> QED
    BY <2>1, <2>2
<1>9. DataSize(fdt') + (ChosenNeeds + BootNeeds + TellRest(1)) <= Original.total + Added
  BY <1>4, <1>5, <1>6, <1>8
<1>10. Room'
  BY <1>2, <1>3, <1>4, <1>7, <1>8, <1>9 DEF Room, Rest
<1>11. TypeOK' /\ Progress' /\ EnoughRoom'
  BY <1>1, <1>2, <1>7 DEF TypeOK, Progress, EnoughRoom
<1>12. Tells'
  BY <1>7, <1>8 DEF Tells
<1>13. (fdt # NoTree)' /\ Good(fdt, Original, bufsize)'
  BY <1>2, <1>3, <1>8, GoodIsTree
<1> QED
  BY <1>10, <1>11, <1>12, <1>13 DEF IInv

(* finding /chosen,                                                        *)
LEMMA StepFindChosen == ASSUME IInv, FindChosen PROVE IInv'
<1>1. TypeOK /\ at = "chosen" /\ told = 1 /\ round = 0 /\ fdt # NoTree
      /\ Good(fdt, Original, bufsize) /\ Chosen(fdt) # NotFound
  BY DEF IInv, FindChosen, Progress
<1>2. /\ orig' = orig /\ bufsize' = bufsize /\ cmdline' = cmdline /\ fdt' = fdt
      /\ told' = told /\ round' = round /\ at' = "bootargs" /\ node' = Chosen(fdt)
  BY DEF FindChosen
<1>3. Original' = Original /\ Added' = Added /\ BootNeeds' = BootNeeds
  BY <1>2, Unmoved
<1>4. fdt.total = bufsize /\ fdt.reserved = 0
      /\ DataSize(fdt) + (ChosenNeeds + BootNeeds + TellRest(1)) <= Original.total + Added
  BY <1>1 DEF IInv, Room, Rest, Tells
<1>5. cmdline.len \in Nat /\ Original.total \in Nat /\ DataSize(fdt) \in Nat
  BY <1>1, ConstantsAre, OriginalIs, GoodIsTree
<1>6. BootNeeds \in Nat /\ Added \in Nat /\ TellRest(1) \in Nat /\ ChosenNeeds \in Nat
  BY <1>5, AddedIs, ChosenNeedsNat
<1>7. DataSize(fdt) + (BootNeeds + TellRest(1)) <= Original.total + Added
  BY <1>4, <1>5, <1>6
<1>8. Room'
  BY <1>2, <1>3, <1>4, <1>7 DEF Room, Rest
<1>9. Chosen(fdt) \in Nat
  BY <1>1, ChosenStays
<1>10. TypeOK' /\ Progress' /\ EnoughRoom'
  BY <1>1, <1>2, <1>9 DEF TypeOK, Progress, EnoughRoom
<1>11. Tells'
  BY <1>1, <1>2, <1>4 DEF Tells
<1>12. (fdt # NoTree)' /\ Good(fdt, Original, bufsize)'
  BY <1>1, <1>2, <1>3
<1> QED
  BY <1>8, <1>10, <1>11, <1>12 DEF IInv

(* adding it,                                                              *)
LEMMA StepAddChosen == ASSUME IInv, AddChosen PROVE IInv'
<1> DEFINE r == AddSubnode(fdt, Root, "chosen")
<1>1. TypeOK /\ at = "chosen" /\ told = 1 /\ round = 0 /\ fdt # NoTree
      /\ Good(fdt, Original, bufsize)
  BY DEF IInv, AddChosen, Progress
<1>2. /\ orig' = orig /\ bufsize' = bufsize /\ cmdline' = cmdline
      /\ told' = told /\ round' = round /\ node' = Chosen(r.fdt) /\ fdt' = r.fdt
      /\ at' = IF r.err = "none" THEN "bootargs" ELSE Failure(r.err)
  BY DEF AddChosen, Calls
<1>3. Original' = Original /\ Added' = Added /\ BootNeeds' = BootNeeds
  BY <1>2, Unmoved
<1>4. fdt.total = bufsize /\ fdt.reserved = 0
      /\ DataSize(fdt) + (ChosenNeeds + BootNeeds + TellRest(1)) <= Original.total + Added
  BY <1>1 DEF IInv, Room, Rest, Tells
<1>5. cmdline.len \in Nat /\ Original.total \in Nat /\ DataSize(fdt) \in Nat /\ bufsize \in Nat
      /\ Len(Original.strings) \in Nat
  BY <1>1, ConstantsAre, OriginalIs, GoodIsTree, TreeFields
<1>6. BootNeeds \in Nat /\ Added \in Nat /\ TellRest(1) \in Nat /\ ChosenNeeds \in Nat
  BY <1>5, AddedIs, ChosenNeedsNat
<1>7. r = AddSubnode(fdt, Root, "chosen")
  OBVIOUS
<1> HIDE DEF r
<1>8. \/ /\ r.err = "NOSPACE" /\ r.fdt = fdt /\ DataSize(fdt) + ChosenNeeds > fdt.total
      \/ /\ r.err = "none" /\ r.fdt \in TreesOf(Values) /\ Readable(r.fdt) /\ Sound(r.fdt)
         /\ SameHeader(fdt, r.fdt) /\ DataSize(r.fdt) = DataSize(fdt) + ChosenNeeds
         /\ Chosen(r.fdt) # NotFound /\ AddsChosen(fdt, r.fdt)
         /\ \A m \in Nat : Named(fdt, m) => Named(r.fdt, m)
  <2>1. fdt \in TreesOf(Values) /\ Readable(fdt) /\ Sound(fdt)
    BY <1>1 DEF Good
  <2> QED
    BY <1>7, <2>1, AddChosenIs, ValuesHaveLengths DEF ChosenNeeds
<1>9. Good(r.fdt, Original, bufsize)
  <2>1. CASE r.fdt = fdt
    BY <1>1, <2>1
  <2>2. CASE r.fdt # fdt
    BY <1>1, <1>5, <1>8, <2>2 DEF Good, SameHeader
  <2> QED
    BY <2>1, <2>2
<1>10. Chosen(r.fdt) \in Nat
  BY <1>9, GoodIsTree, ChosenIs
<1>11. at' \in {"bootargs", "too_small"}
  BY <1>2, <1>8 DEF Failure
<1>12. TypeOK' /\ Progress'
  BY <1>1, <1>2, <1>10, <1>11 DEF TypeOK, Progress
<1>13. (fdt # NoTree)' /\ Good(fdt, Original, bufsize)'
  BY <1>2, <1>3, <1>9, GoodIsTree
<1>14. CASE r.err = "NOSPACE"
  <2>1. at' = "too_small"
    BY <1>2, <1>14 DEF Failure
  <2>2. bufsize < Original.total + Added
    BY <1>4, <1>5, <1>6, <1>8, <1>14
  <2>3. EnoughRoom' /\ Room' /\ Tells'
    BY <1>2, <1>3, <2>1, <2>2 DEF EnoughRoom, Room, Tells
  <2> QED
    BY <1>12, <1>13, <2>3 DEF IInv
<1>15. CASE r.err = "none"
  <2>1. /\ at' = "bootargs" /\ SameHeader(fdt, r.fdt)
        /\ DataSize(r.fdt) = DataSize(fdt) + ChosenNeeds /\ Chosen(r.fdt) # NotFound
    BY <1>2, <1>8, <1>15
  <2>2. DataSize(r.fdt) + (BootNeeds + TellRest(1)) <= Original.total + Added
    BY <1>4, <1>5, <1>6, <2>1
  <2>3. Room'
    BY <1>2, <1>3, <1>4, <2>1, <2>2 DEF Room, Rest, SameHeader
  <2>4. EnoughRoom' /\ Tells'
    BY <1>2, <1>4, <2>1 DEF EnoughRoom, Tells, SameHeader
  <2> QED
    BY <1>12, <1>13, <2>3, <2>4 DEF IInv
<1> QED
  BY <1>8, <1>14, <1>15

(* A property of /chosen is set, or there was no room for it.              *)
WasSet(f, g, n, name, v) ==
  /\ Good(g, Original, bufsize) /\ g # NoTree
  /\ g.total = f.total /\ g.reserved = f.reserved
  /\ Chosen(g) = n /\ Has(g, n, name, v)
  /\ \A other, w : other # name /\ Has(f, n, other, w) => Has(g, n, other, w)

(* Setting a property of /chosen either fails for space or uses the room   *)
(* that was counted for it.                                                *)
LEMMA SetInChosen ==
  ASSUME IInv, at \in {"bootargs", "told"}, NEW name \in Names, NEW v \in Values,
         NEW r, r = SetProp(fdt, node, name, v)
  PROVE  /\ Needs(name, v.len) \in Nat /\ DataSize(fdt) \in Nat
         /\ \/ /\ r.err = "NOSPACE" /\ r.fdt = fdt
               /\ DataSize(fdt) + Needs(name, v.len) > fdt.total
            \/ /\ r.err = "none" /\ WasSet(fdt, r.fdt, node, name, v)
               /\ DataSize(r.fdt) \in Nat
               /\ DataSize(r.fdt) <= DataSize(fdt) + Needs(name, v.len)
<1>1. /\ TypeOK /\ Good(fdt, Original, bufsize) /\ node = Chosen(fdt) /\ Chosen(fdt) # NotFound
  BY DEF IInv, Tells
<1>2. bufsize \in Nat
  BY <1>1, ConstantsAre
<1>3. IsNode(fdt, node) /\ DataSize(fdt) \in Nat
  BY <1>1, ChosenStays, GoodIsTree
<1>4. fdt \in TreesOf(Values) /\ Readable(fdt) /\ Sound(fdt)
  BY <1>1 DEF Good
<1>5. /\ Needs(name, v.len) \in Nat
      /\ \/ /\ r.err = "NOSPACE" /\ r.fdt = fdt
            /\ DataSize(fdt) + Needs(name, v.len) > fdt.total
         \/ /\ r.err = "none" /\ IsSet(fdt, r.fdt, node, name, v, Values)
            /\ DataSize(r.fdt) <= DataSize(fdt) + Needs(name, v.len)
  BY <1>3, <1>4, SetPropIs, ValuesHaveLengths
<1>6. ASSUME IsSet(fdt, r.fdt, node, name, v, Values)
      PROVE  WasSet(fdt, r.fdt, node, name, v) /\ DataSize(r.fdt) \in Nat
  <2>1. /\ Good(r.fdt, Original, bufsize) /\ r.fdt.total = fdt.total
        /\ r.fdt.reserved = fdt.reserved
    BY <1>1, <1>2, <1>6, SetIsGood
  <2>2. Chosen(r.fdt) = node
    BY <1>1, <1>6, ChosenStays
  <2>3. r.fdt # NoTree /\ DataSize(r.fdt) \in Nat
    BY <2>1, GoodIsTree
  <2> QED
    BY <1>6, <2>1, <2>2, <2>3 DEF WasSet, IsSet
<1> QED
  BY <1>3, <1>5, <1>6

(* Setting the command line keeps the invariant.                           *)
LEMMA StepSetBootargs == ASSUME IInv, SetBootargs PROVE IInv'
<1> DEFINE r == SetProp(fdt, node, "bootargs", cmdline)
<1>1. TypeOK /\ at = "bootargs" /\ told = 1 /\ round = 0 /\ fdt # NoTree
      /\ Good(fdt, Original, bufsize)
  BY DEF IInv, SetBootargs, Progress
<1>2. /\ orig' = orig /\ bufsize' = bufsize /\ cmdline' = cmdline
      /\ told' = told /\ round' = round /\ node' = node
  BY DEF SetBootargs
<1>3. Original' = Original /\ Added' = Added /\ BootNeeds' = BootNeeds
  BY <1>2, Unmoved
<1>4. /\ fdt.total = bufsize /\ fdt.reserved = 0 /\ node = Chosen(fdt) /\ node # NotFound
      /\ DataSize(fdt) + (BootNeeds + TellRest(1)) <= Original.total + Added
  BY <1>1 DEF IInv, Room, Rest, Tells
<1>5. /\ cmdline.len \in Nat /\ Original.total \in Nat /\ DataSize(fdt) \in Nat
      /\ bufsize \in Nat /\ cmdline \in Values /\ "bootargs" \in Names
  BY <1>1, ConstantsAre, OriginalIs, GoodIsTree, ToldNames
<1>6. BootNeeds \in Nat /\ Added \in Nat /\ TellRest(1) \in Nat
  BY <1>5, AddedIs
<1>7. CASE cmdline.len > 1
  <2>1. /\ fdt' = r.fdt /\ at' = IF r.err = "none" THEN "told" ELSE Failure(r.err)
    BY <1>7 DEF SetBootargs, Calls
  <2>2. r = SetProp(fdt, node, "bootargs", cmdline)
    OBVIOUS
  <2> HIDE DEF r
  <2>3. \/ /\ r.err = "NOSPACE" /\ r.fdt = fdt
           /\ DataSize(fdt) + BootNeeds > fdt.total
        \/ /\ r.err = "none" /\ WasSet(fdt, r.fdt, node, "bootargs", cmdline)
           /\ DataSize(r.fdt) \in Nat
           /\ DataSize(r.fdt) <= DataSize(fdt) + BootNeeds
    BY <1>1, <1>5, <2>2, SetInChosen DEF BootNeeds
  <2>4. CASE r.err = "NOSPACE"
    <3>1. at' = "too_small" /\ fdt' = fdt
      BY <2>1, <2>3, <2>4 DEF Failure
    <3>2. bufsize < Original.total + Added
      BY <1>4, <1>5, <1>6, <2>3, <2>4
    <3>3. EnoughRoom' /\ Room' /\ Tells'
      BY <1>2, <1>3, <3>1, <3>2 DEF EnoughRoom, Room, Tells
    <3>4. TypeOK' /\ Progress'
      BY <1>1, <1>2, <3>1 DEF TypeOK, Progress
    <3> QED
      BY <1>1, <1>2, <1>3, <3>1, <3>3, <3>4 DEF IInv
  <2>5. CASE r.err = "none"
    <3>1. /\ at' = "told" /\ WasSet(fdt, r.fdt, node, "bootargs", cmdline)
          /\ DataSize(r.fdt) \in Nat
          /\ DataSize(r.fdt) <= DataSize(fdt) + BootNeeds
      BY <2>1, <2>3, <2>5
    <3>2. DataSize(r.fdt) + TellRest(1) <= Original.total + Added
      BY <1>4, <1>5, <1>6, <3>1
    <3>3. Room'
      BY <1>1, <1>2, <1>3, <1>4, <2>1, <3>1, <3>2 DEF Room, Rest, WasSet
    <3>4. HasTold(r.fdt, node, 1, 0, cmdline)
      BY <3>1 DEF HasTold, WasSet
    <3>5. EnoughRoom' /\ Tells'
      BY <1>1, <1>2, <1>4, <2>1, <3>1, <3>4 DEF EnoughRoom, Tells, WasSet
    <3>6. TypeOK' /\ Progress'
      BY <1>1, <1>2, <3>1 DEF TypeOK, Progress
    <3>7. (fdt # NoTree)' /\ Good(fdt, Original, bufsize)'
      BY <1>2, <1>3, <2>1, <3>1 DEF WasSet
    <3> QED
      BY <3>3, <3>5, <3>6, <3>7 DEF IInv
  <2> QED
    BY <2>3, <2>4, <2>5
<1>8. CASE ~(cmdline.len > 1)
  <2>1. at' = "told" /\ fdt' = fdt
    BY <1>8 DEF SetBootargs
  <2>2. DataSize(fdt) + TellRest(1) <= Original.total + Added
    BY <1>4, <1>5, <1>6
  <2>3. Room'
    BY <1>1, <1>2, <1>3, <1>4, <2>1, <2>2 DEF Room, Rest
  <2>4. HasTold(fdt, node, 1, 0, cmdline)
    BY <1>8 DEF HasTold
  <2>5. EnoughRoom' /\ Tells'
    BY <1>1, <1>2, <1>4, <2>1, <2>4 DEF EnoughRoom, Tells
  <2>6. TypeOK' /\ Progress'
    BY <1>1, <1>2, <2>1 DEF TypeOK, Progress
  <2> QED
    BY <1>1, <1>2, <1>3, <2>1, <2>3, <2>5, <2>6 DEF IInv
<1> QED
  BY <1>7, <1>8

(* So does telling one of the five properties,                             *)
LEMMA StepTell == ASSUME IInv, Tell PROVE IInv'
<1> DEFINE name == Told[told].name
           v == ToldValue(told, 0)
           r == SetProp(fdt, node, name, v)
<1>1. /\ TypeOK /\ at = "told" /\ round = 0 /\ fdt # NoTree
      /\ Good(fdt, Original, bufsize) /\ HasTold(fdt, node, told, 0, cmdline)
  BY DEF IInv, Tell, Progress, Tells
<1>2. told \in 1..5 /\ 0 \in 0..Rounds
  <2>1. told \in 1..(Len(Told) + 1) /\ told <= Len(Told) /\ Rounds \in Nat
    BY <1>1, TreesAssumption DEF TypeOK, Tell
  <2>2. Len(Told) = 5
    BY ToldIs
  <2> QED
    BY <2>1, <2>2
<1>3. /\ orig' = orig /\ bufsize' = bufsize /\ cmdline' = cmdline
      /\ told' = told + 1 /\ round' = round /\ node' = node
  BY DEF Tell
<1>4. Original' = Original /\ Added' = Added /\ BootNeeds' = BootNeeds
  BY <1>3, Unmoved
<1>5. /\ fdt.total = bufsize /\ fdt.reserved = 0 /\ node = Chosen(fdt) /\ node # NotFound
      /\ DataSize(fdt) + TellRest(told) <= Original.total + Added
  BY <1>1 DEF IInv, Room, Rest, Tells
<1>6. /\ cmdline.len \in Nat /\ Original.total \in Nat /\ DataSize(fdt) \in Nat
      /\ bufsize \in Nat /\ name \in Names
  BY <1>1, <1>2, ConstantsAre, OriginalIs, GoodIsTree, ToldNames
<1>7. /\ Added \in Nat /\ TellRest(told) = TellNeeds(told) + TellRest(told + 1)
      /\ TellRest(told + 1) \in Nat /\ TellNeeds(told) \in Nat
  BY <1>2, <1>6, AddedIs, TellRestStep
<1>8. v \in Values /\ v.len = Told[told].len
  BY <1>2, ToldValueIs
<1>9. v = [len |-> Told[told].len, data |-> Placeholder]
  BY DEF ToldValue, Placeholder
<1>10. fdt' = r.fdt /\ at' = IF r.err = "none" THEN "told" ELSE Failure(r.err)
  BY <1>9 DEF Tell, Calls
<1>11. r = SetProp(fdt, node, name, v) /\ TellNeeds(told) = Needs(name, v.len)
       /\ name = Told[told].name
  BY <1>8 DEF TellNeeds
<1> HIDE DEF r, v, name
<1>12. \/ /\ r.err = "NOSPACE" /\ r.fdt = fdt
          /\ DataSize(fdt) + TellNeeds(told) > fdt.total
       \/ /\ r.err = "none" /\ WasSet(fdt, r.fdt, node, name, v)
          /\ DataSize(r.fdt) \in Nat
          /\ DataSize(r.fdt) <= DataSize(fdt) + TellNeeds(told)
  BY <1>1, <1>6, <1>8, <1>11, SetInChosen
<1>13. told + 1 \in 1..6 /\ told + 1 \in 1..(Len(Told) + 1)
  <2>1. Len(Told) = 5
    BY ToldIs
  <2> QED
    BY <1>2, <2>1
<1>14. CASE r.err = "NOSPACE"
  <2>1. at' = "too_small" /\ fdt' = fdt
    BY <1>10, <1>12, <1>14 DEF Failure
  <2>2. bufsize < Original.total + Added
    BY <1>5, <1>6, <1>7, <1>12, <1>14
  <2>3. EnoughRoom' /\ Room' /\ Tells'
    BY <1>3, <1>4, <2>1, <2>2 DEF EnoughRoom, Room, Tells
  <2>4. TypeOK' /\ Progress'
    BY <1>1, <1>3, <1>13, <2>1 DEF TypeOK, Progress
  <2> QED
    BY <1>1, <1>3, <1>4, <2>1, <2>3, <2>4 DEF IInv
<1>15. CASE r.err = "none"
  <2>1. /\ at' = "told" /\ WasSet(fdt, r.fdt, node, name, v)
        /\ DataSize(r.fdt) \in Nat
        /\ DataSize(r.fdt) <= DataSize(fdt) + TellNeeds(told)
    BY <1>10, <1>12, <1>15
  <2>2. DataSize(r.fdt) + TellRest(told + 1) <= Original.total + Added
    BY <1>5, <1>6, <1>7, <2>1
  <2>3. Room'
    BY <1>3, <1>4, <1>5, <1>10, <2>1, <2>2 DEF Room, Rest, WasSet
  <2>4. HasTold(r.fdt, node, told + 1, 0, cmdline)
    <3>1. cmdline.len > 1 => Has(r.fdt, node, "bootargs", cmdline)
      <4>1. name # "bootargs"
        BY <1>2, <1>11, ToldNames
      <4> QED
        BY <1>1, <2>1, <4>1 DEF HasTold, WasSet
    <3>2. ASSUME NEW i \in 1..((told + 1) - 1)
          PROVE  Has(r.fdt, node, Told[i].name, ToldValue(i, 0))
      <4>1. CASE i = told
        BY <1>11, <2>1, <4>1 DEF WasSet, v
      <4>2. CASE i # told
        <5>1. i \in 1..(told - 1) /\ i \in 1..5
          BY <1>2, <4>2
        <5>2. Told[i].name # name
          BY <1>2, <1>11, <4>2, <5>1, ToldNames
        <5>3. Has(fdt, node, Told[i].name, ToldValue(i, 0))
          BY <1>1, <5>1 DEF HasTold
        <5> QED
          BY <2>1, <5>2, <5>3 DEF WasSet
      <4> QED
        BY <4>1, <4>2
    <3> QED
      BY <3>1, <3>2 DEF HasTold
  <2>5. EnoughRoom' /\ Tells'
    BY <1>1, <1>3, <1>5, <1>10, <2>1, <2>4 DEF EnoughRoom, Tells, WasSet
  <2>6. TypeOK' /\ Progress'
    BY <1>1, <1>3, <1>13, <2>1 DEF TypeOK, Progress
  <2>7. (fdt # NoTree)' /\ Good(fdt, Original, bufsize)'
    BY <1>3, <1>4, <1>10, <2>1 DEF WasSet
  <2> QED
    BY <2>3, <2>5, <2>6, <2>7 DEF IInv
<1> QED
  BY <1>12, <1>14, <1>15

(* Chosen and the properties are told by the tags and the strings.         *)
LEMMA SameTags ==
  ASSUME NEW f, NEW g, g.struct = f.struct, g.strings = f.strings
  PROVE  /\ Chosen(g) = Chosen(f)
         /\ \A n, name, v : Has(g, n, name, v) <=> Has(f, n, name, v)
         /\ \A m : Named(g, m) <=> Named(f, m)
<1>1. Chosen(g) = Chosen(f)
  BY DEF Chosen, SubnodeOffset, Depth, IsTag
<1>2. \A n, name : GetProperty(g, n, name) = GetProperty(f, n, name)
  BY DEF GetProperty, PropertiesOf, SpelledAt, IsTag
<1> QED
  BY <1>1, <1>2 DEF Has, Named, IsTag

(* and packing the tree.                                                   *)
LEMMA StepPackTree == ASSUME IInv, PackTree PROVE IInv'
<1> DEFINE g == Pack(fdt)
<1>1. /\ TypeOK /\ at = "told" /\ round = 0 /\ fdt # NoTree
      /\ Good(fdt, Original, bufsize) /\ HasTold(fdt, node, told, 0, cmdline)
      /\ fdt.total = bufsize /\ fdt.reserved = 0 /\ node = Chosen(fdt) /\ node # NotFound
  BY DEF IInv, PackTree, Progress, Tells, Room
<1>2. told = 6
  <2>1. told \in 1..(Len(Told) + 1) /\ told > Len(Told)
    BY <1>1 DEF TypeOK, PackTree
  <2>2. Len(Told) = 5
    BY ToldIs
  <2> QED
    BY <2>1, <2>2
<1>3. /\ orig' = orig /\ bufsize' = bufsize /\ cmdline' = cmdline /\ node' = node
      /\ told' = told /\ round' = round /\ at' = "ready" /\ fdt' = g
  BY DEF PackTree
<1>4. Original' = Original /\ Added' = Added
  BY <1>3, Unmoved
<1>5. fdt \in TreesOf(Values) /\ Readable(fdt) /\ Sound(fdt) /\ fdt.version = 17
  BY <1>1 DEF Good
<1>6. /\ g \in TreesOf(Values) /\ Readable(g) /\ Sound(g) /\ g.version = fdt.version
      /\ g.reserved = fdt.reserved /\ g.struct = fdt.struct /\ g.strings = fdt.strings
      /\ g.total = DataSize(g) /\ DataSize(g) <= DataSize(fdt)
  BY <1>5, PackIs, ValuesHaveLengths
<1> HIDE DEF g
<1>7. /\ Chosen(g) = node /\ HasTold(g, node, told, 0, cmdline)
      /\ Named(g, Len(Original.strings))
  BY <1>1, <1>6, SameTags DEF HasTold, Good
<1>8. g.total <= bufsize
  <2>1. /\ DataSize(fdt) \in Nat /\ bufsize \in Nat /\ DataSize(g) \in Nat
        /\ DataSize(fdt) <= fdt.total
    BY <1>1, <1>5, <1>6, GoodIsTree, ConstantsAre, TreeNumbers, SoundIs, ValuesHaveLengths
  <2> QED
    BY <1>1, <1>6, <2>1
<1>9. Good(g, Original, bufsize)
  BY <1>5, <1>6, <1>7, <1>8 DEF Good
<1>10. TypeOK' /\ Progress'
  BY <1>1, <1>2, <1>3 DEF TypeOK, Progress
<1>11. Room' /\ EnoughRoom'
  BY <1>3 DEF Room, EnoughRoom
<1>12. Tells'
  BY <1>1, <1>3, <1>6, <1>7 DEF Tells
<1>13. (fdt # NoTree)' /\ Good(fdt, Original, bufsize)'
  BY <1>3, <1>4, <1>9, GoodIsTree
<1> QED
  BY <1>10, <1>11, <1>12, <1>13 DEF IInv

(* The tree while update_fdt_memmap is at its k-th property: those before  *)
(* it are of this round, the others of the one before.                     *)
Writing(f, k) ==
  /\ Good(f, Original, bufsize) /\ f.reserved = 0 /\ f.total = DataSize(f)
  /\ Chosen(f) = node /\ node # NotFound
  /\ cmdline.len > 1 => Has(f, node, "bootargs", cmdline)
  /\ \A i \in 1..5 :
       Has(f, node, Told[i].name, ToldValue(i, IF i < k THEN round + 1 ELSE round))

(* The k-th property is written.                                           *)
Writes(f, g, k) ==
  /\ Writing(f, k) /\ Writing(g, k + 1)
  /\ IsSet(f, g, node, Told[k].name, ToldValue(k, round + 1), Values)

(* fdt_setprop_inplace of one of the four properties of the map does not   *)
(* fail, since they have the length they are written with.                 *)
LEMMA WriteOne ==
  ASSUME TypeOK, round < Rounds, NEW k \in 2..5, NEW f, Writing(f, k),
         NEW r, r = SetPropInplace(f, node, Told[k].name,
                                   [len |-> Told[k].len, data |-> round + 1])
  PROVE  r.err = "none" /\ Writes(f, r.fdt, k)
<1> DEFINE v == ToldValue(k, round + 1)
           w == ToldValue(k, round)
           g == r.fdt
<1>1. /\ k \in 1..5 /\ k \in Int /\ ~(k < k) /\ k # 1
      /\ round \in 0..Rounds /\ round + 1 \in 0..Rounds /\ bufsize \in Nat
  BY ConstantsAre
<1>2. /\ v \in Values /\ v.len = Told[k].len /\ w.len = Told[k].len
      /\ v = [len |-> Told[k].len, data |-> round + 1]
  BY <1>1, ToldValueIs DEF ToldValue
<1>3. Has(f, node, Told[k].name, w)
  <2>1. Has(f, node, Told[k].name, ToldValue(k, IF k < k THEN round + 1 ELSE round))
    BY <1>1 DEF Writing
  <2> QED
    BY <1>1, <2>1
<1>4. /\ Good(f, Original, bufsize) /\ f.total = DataSize(f) /\ f.reserved = 0
      /\ Chosen(f) = node /\ node # NotFound
  BY DEF Writing
<1>5. f \in TreesOf(Values) /\ Readable(f) /\ Sound(f) /\ IsNode(f, node)
  BY <1>4, ChosenStays DEF Good
<1>6. r = SetPropInplace(f, node, Told[k].name, v)
  BY <1>2
<1> HIDE DEF v, w
<1>7. /\ r.err = "none" /\ IsSet(f, g, node, Told[k].name, v, Values)
      /\ DataSize(g) = DataSize(f)
  BY <1>2, <1>3, <1>5, <1>6, InplaceIs, ValuesHaveLengths
<1> HIDE DEF g
<1>8. Good(g, Original, bufsize) /\ g.total = DataSize(g) /\ g.reserved = 0
  BY <1>1, <1>4, <1>7, SetIsGood
<1>9. Chosen(g) = node
  BY <1>4, <1>7, ChosenStays
<1>10. /\ Has(g, node, Told[k].name, v)
       /\ \A other, x : other # Told[k].name /\ Has(f, node, other, x)
                          => Has(g, node, other, x)
  BY <1>7 DEF IsSet
<1>11. cmdline.len > 1 => Has(g, node, "bootargs", cmdline)
  <2>1. Told[k].name # "bootargs"
    BY <1>1, ToldNames
  <2> QED
    BY <1>10, <2>1 DEF Writing
<1>12. ASSUME NEW i \in 1..5
       PROVE  Has(g, node, Told[i].name, ToldValue(i, IF i < k + 1 THEN round + 1 ELSE round))
  <2>1. CASE i = k
    <3>1. (IF i < k + 1 THEN round + 1 ELSE round) = round + 1
      BY <1>1, <2>1
    <3> QED
      BY <1>10, <2>1, <3>1 DEF v
  <2>2. CASE i # k
    <3>1. (IF i < k + 1 THEN round + 1 ELSE round) = (IF i < k THEN round + 1 ELSE round)
      BY <1>1, <2>2
    <3>2. Told[i].name # Told[k].name
      BY <1>1, <2>2, ToldNames
    <3>3. Has(f, node, Told[i].name, ToldValue(i, IF i < k THEN round + 1 ELSE round))
      BY DEF Writing
    <3> QED
      BY <1>10, <3>1, <3>2, <3>3
  <2> QED
    BY <2>1, <2>2
<1>13. Writing(g, k + 1)
  BY <1>4, <1>8, <1>9, <1>11, <1>12 DEF Writing
<1> QED
  BY <1>7, <1>13 DEF Writes, g, v

(* The four properties of update_fdt_memmap are the last four of the five. *)
LEMMA MapPropsAre ==
  /\ MapProps[1] = Told[2] /\ MapProps[2] = Told[3] /\ MapProps[3] = Told[4]
  /\ MapProps[4] = Told[5] /\ Len(MapProps) = 4
<1>1. /\ MapProps \in Seq({Told[i] : i \in 2..5}) /\ Len(MapProps) = 5 - 2 + 1
      /\ \A i \in 1..(5 - 2 + 1) : MapProps[i] = Told[2 + i - 1]
  <2>1. \A i \in 2..5 : Told[i] \in {Told[j] : j \in 2..5}
    OBVIOUS
  <2> HIDE DEF Told
  <2> QED
    BY <2>1, SubSeqProperties DEF MapProps
<1> QED
  BY <1>1

(* update_fdt_memmap writes the four, one after the other.                 *)
LEMMA MemmapWrites ==
  ASSUME IInv, UpdateMemmap
  PROVE  /\ at' = "ready"
         /\ \E f, g, h : /\ Writes(fdt, f, 2) /\ Writes(f, g, 3)
                         /\ Writes(g, h, 4) /\ Writes(h, fdt', 5)
<1> DEFINE n == Chosen(fdt)
           Value(k) == [len |-> Told[k].len, data |-> round + 1]
           q1 == SetPropInplace(fdt, n, Told[2].name, Value(2))
           q2 == SetPropInplace(q1.fdt, n, Told[3].name, Value(3))
           q3 == SetPropInplace(q2.fdt, n, Told[4].name, Value(4))
           q4 == SetPropInplace(q3.fdt, n, Told[5].name, Value(5))
<1>1. /\ TypeOK /\ at = "ready" /\ told = 6 /\ fdt # NoTree /\ round < Rounds
      /\ Good(fdt, Original, bufsize) /\ HasTold(fdt, node, 6, round, cmdline)
      /\ fdt.total = DataSize(fdt) /\ fdt.reserved = 0 /\ node = n /\ node # NotFound
  BY DEF IInv, UpdateMemmap, Progress, Tells
<1>2. Writing(fdt, 2)
  <2>1. \A i \in 1..5 : ToldValue(i, IF i < 2 THEN round + 1 ELSE round) = ToldValue(i, round)
    BY DEF ToldValue
  <2>2. \A i \in 1..5 : Has(fdt, node, Told[i].name, ToldValue(i, round))
    BY <1>1 DEF HasTold
  <2> QED
    BY <1>1, <2>1, <2>2 DEF Writing, HasTold
<1>3. q1.err = "none" /\ Writes(fdt, q1.fdt, 2) /\ Writing(q1.fdt, 3)
  BY <1>1, <1>2, WriteOne DEF Writes
<1>4. q2.err = "none" /\ Writes(q1.fdt, q2.fdt, 3) /\ Writing(q2.fdt, 4)
  <2> HIDE DEF q1
  <2> QED
    BY <1>1, <1>3, WriteOne DEF Writes
<1>5. q3.err = "none" /\ Writes(q2.fdt, q3.fdt, 4) /\ Writing(q3.fdt, 5)
  <2> HIDE DEF q2
  <2> QED
    BY <1>1, <1>4, WriteOne DEF Writes
<1>6. q4.err = "none" /\ Writes(q3.fdt, q4.fdt, 5)
  <2> HIDE DEF q3
  <2> QED
    BY <1>1, <1>5, WriteOne
<1>7. fdt' = q4.fdt /\ at' = "ready"
  <2> DEFINE Write(r, p) ==
               Then(r, LAMBDA f : SetPropInplace(f, Chosen(fdt), p.name,
                                                 [len |-> p.len, data |-> round + 1]))
  <2>1. Write(Done(fdt), MapProps[1]) = q1
    BY MapPropsAre DEF Then, Done
  <2>2. Write(q1, MapProps[2]) = q2
    BY <1>3, MapPropsAre DEF Then
  <2>3. Write(q2, MapProps[3]) = q3
    BY <1>4, MapPropsAre, SMTT(30) DEF Then
  <2> HIDE DEF q1, q2, q3
  <2>4. Write(q3, MapProps[4]) = q4
    BY <1>5, MapPropsAre DEF Then
  <2> HIDE DEF q4
  <2> QED
    BY <1>1, <1>6, <2>1, <2>2, <2>3, <2>4 DEF UpdateMemmap
<1> HIDE DEF q1, q2, q3, q4
<1> QED
  BY <1>3, <1>4, <1>5, <1>6, <1>7

(* Writing the memory map into the tree keeps the invariant.               *)
LEMMA StepUpdateMemmap == ASSUME IInv, UpdateMemmap PROVE IInv'
<1>1. /\ TypeOK /\ at = "ready" /\ told = 6 /\ round < Rounds
  BY DEF IInv, UpdateMemmap, Progress
<1>2. /\ orig' = orig /\ bufsize' = bufsize /\ cmdline' = cmdline /\ node' = node
      /\ told' = told /\ round' = round + 1
  BY DEF UpdateMemmap
<1>3. Original' = Original /\ Added' = Added
  BY <1>2, Unmoved
<1>4. round \in 0..Rounds /\ round + 1 \in 0..Rounds /\ round \in Nat
  BY <1>1, ConstantsAre
<1>5. at' = "ready" /\ Writing(fdt', 6)
  <2>1. PICK f, g, h : Writes(h, fdt', 5)
    BY MemmapWrites
  <2>2. Writing(fdt', 5 + 1) /\ 5 + 1 = 6
    BY <2>1 DEF Writes
  <2> QED
    BY <2>2, MemmapWrites
<1>6. HasTold(fdt', node, 6, round + 1, cmdline)
  <2>1. ASSUME NEW i \in 1..5
        PROVE  Has(fdt', node, Told[i].name, ToldValue(i, round + 1))
    <3>1. (IF i < 6 THEN round + 1 ELSE round) = round + 1
      OBVIOUS
    <3>2. Has(fdt', node, Told[i].name, ToldValue(i, IF i < 6 THEN round + 1 ELSE round))
      BY <1>5 DEF Writing
    <3> QED
      BY <3>1, <3>2
  <2> QED
    BY <1>5, <2>1 DEF HasTold, Writing
<1>7. TypeOK' /\ Progress' /\ Room' /\ EnoughRoom'
  BY <1>1, <1>2, <1>4, <1>5 DEF TypeOK, Progress, Room, EnoughRoom
<1>8. Tells'
  BY <1>1, <1>2, <1>5, <1>6 DEF Tells, Writing
<1>9. (fdt # NoTree)' /\ Good(fdt, Original, bufsize)'
  BY <1>2, <1>3, <1>5, GoodIsTree DEF Writing
<1> QED
  BY <1>7, <1>8, <1>9 DEF IInv

(* A step that changes nothing keeps it.                                   *)
LEMMA StepStutter == ASSUME IInv, UNCHANGED vars PROVE IInv'
<1>1. /\ orig' = orig /\ bufsize' = bufsize /\ cmdline' = cmdline /\ fdt' = fdt
      /\ node' = node /\ at' = at /\ told' = told /\ round' = round
  BY DEF vars
<1>2. Original' = Original /\ Added' = Added /\ BootNeeds' = BootNeeds
  BY <1>1, Unmoved
<1>3. TypeOK' /\ Progress' /\ EnoughRoom'
  BY <1>1, <1>2 DEF IInv, TypeOK, Progress, EnoughRoom
<1>4. Room' /\ Tells'
  BY <1>1, <1>2 DEF IInv, Room, Rest, Tells
<1> QED
  BY <1>1, <1>2, <1>3, <1>4 DEF IInv

(* Every call of update_fdt and update_fdt_memmap keeps the invariant.     *)
THEOREM TreeInvariant == Spec => []IInv
<1>1. IInv /\ [Next]_vars => IInv'
  BY StepOpenTree, StepUpdateCellSize, StepDelReservations, StepFindChosen,
     StepAddChosen, StepSetBootargs, StepTell, StepPackTree, StepUpdateMemmap,
     StepStutter DEF Next
<1> QED
  BY IInvInit, <1>1, PTL DEF Spec

(* For every tree a firmware may have, in every buffer: the header tells   *)
(* the truth after every call of libfdt that update_fdt makes, it runs out *)
(* of space only where the tree and what is added have no room, the values *)
(* written behind ExitBootServices fit, and no call that fails leaves a    *)
(* string nobody names.                                                    *)
THEOREM BlobSoundHolds == Spec => []BlobSound
<1>1. IInv => BlobSound
  <2> SUFFICES ASSUME IInv PROVE BlobSound
    OBVIOUS
  <2>1. TypeOK /\ EnoughRoom
    BY DEF IInv
  <2>2. InPlaceFits
    BY DEF IInv, Progress, InPlaceFits
  <2>3. HeaderSound /\ NoOrphanStrings
    BY DEF IInv, Good, Named, HeaderSound, NoOrphanStrings
  <2> QED
    BY <2>1, <2>2, <2>3 DEF BlobSound
<1> QED
  BY TreeInvariant, <1>1, PTL

(* For every tree a firmware may have: the kernel's tree is packed, has no *)
(* memory reservations, and /chosen has the command line, the system table *)
(* and the memory map of the last call of update_fdt_memmap.               *)
THEOREM KernelIsToldHolds == Spec => []KernelIsTold
<1>1. IInv => KernelIsTold
  <2> SUFFICES ASSUME IInv, at = "ready" PROVE KernelIsTold
    BY DEF KernelIsTold
  <2>1. /\ TypeOK /\ HasTold(fdt, Chosen(fdt), 6, round, cmdline)
        /\ fdt.reserved = 0 /\ fdt.total = DataSize(fdt)
    BY DEF IInv, Progress, Tells
  <2>2. \A name, v : Has(fdt, Chosen(fdt), name, v) => ValueOf(name) = v
    BY DEF Has, ValueOf
  <2>3. cmdline.len > 1 => ValueOf("bootargs") = cmdline
    BY <2>1, <2>2 DEF HasTold
  <2>4. \A i \in 1..5 : ValueOf(Told[i].name) = ToldValue(i, round)
    BY <2>1, <2>2 DEF HasTold
  <2>5. ValueOf("linux,uefi-system-table").len = 8
    <3>1. ValueOf(Told[1].name) = ToldValue(1, round)
      BY <2>4
    <3>2. ToldValue(1, round).len = Told[1].len
      BY DEF ToldValue
    <3> QED
      BY <3>1, <3>2, ToldIs
  <2>6. ASSUME NEW i \in 1..Len(MapProps)
        PROVE  ValueOf(MapProps[i].name) = [len |-> MapProps[i].len, data |-> round]
    <3>1. i + 1 \in 1..5 /\ i + 1 # 1 /\ MapProps[i] = Told[i + 1]
      BY MapPropsAre
    <3>2. ToldValue(i + 1, round) = [len |-> Told[i + 1].len, data |-> round]
      BY <3>1 DEF ToldValue
    <3> QED
      BY <2>4, <3>1, <3>2
  <2> QED
    BY <2>1, <2>3, <2>5, <2>6 DEF KernelIsTold
<1> QED
  BY TreeInvariant, <1>1, PTL

-----------------------------------------------------------------------------
(* The sequential writer.  The tags it writes: the offset of a name is     *)
(* counted from the end of the strings until fdt_finish.                   *)
SwTags ==
  [tag : {"BEGIN_NODE"}, name : Names]
    \cup [tag : {"PROP"}, nameoff : Int \X Names, value : [len : Nat]]
    \cup [tag : {"END_NODE", "END"}]

SwTrees ==
  [magic : {"SW", "FDT"}, version : Nat, reserved : Nat,
   struct : Seq(SwTags), strings : Seq(Names),
   offRsv : Nat, offStruct : Nat, offStrings : Nat,
   sizeStruct : Nat, sizeStrings : Nat, total : Nat]

(* The string of the table a property has its name in.                     *)
StringOf(f, t) == t.nameoff[1] + IF f.magic = "SW" THEN Len(f.strings) + 1 ELSE 0

(* The blocks are as long as the header says and do not meet.              *)
SwBlocks(f) ==
  /\ f \in SwTrees /\ f.offRsv = SwHeader
  /\ f.sizeStruct = StructBytes(f.struct) /\ f.sizeStrings = StringBytes(f.strings)
  /\ f.offStruct + f.sizeStruct + f.sizeStrings <= f.total
  /\ f.reserved \in 0..MaxReserves /\ SwHeader <= f.offStruct

SwPhase(f) ==
  IF f.magic = "FDT"
    THEN /\ f.offStruct = SwHeader + ReserveBytes(f)
         /\ f.offStrings = f.offStruct + f.sizeStruct /\ f.total = DataSize(f)
  ELSE IF f.offStrings = 0
    THEN f.struct = <<>> /\ f.strings = <<>> /\ f.offStruct = SwHeader + 16 * f.reserved
  ELSE f.offStrings = f.total /\ f.offStruct = SwHeader + ReserveBytes(f)

(* Every property has its name, every string a property.                   *)
SwNamed(f) ==
  \A j \in 1..Len(f.struct) :
    IsTag(f, j, "PROP") => EndsAt(f, StringOf(f, f.struct[j]), f.struct[j].nameoff[2])
SwOwned(f) ==
  \A i \in 1..Len(f.strings) :
    \E j \in 1..Len(f.struct) :
      IsTag(f, j, "PROP") /\ f.struct[j].nameoff[1] = FromEnd(f, i)

SwTree(f) == SwBlocks(f) /\ SwPhase(f) /\ SwNamed(f) /\ (f.magic = "SW" => SwOwned(f))

(* The inductive invariant of the writer.                                  *)
SwInv ==
  /\ place \in Buffers /\ dedup \in BOOLEAN /\ swErr \in {"none", "NOSPACE", "BADSTATE"}
  /\ sw # NoSw =>
       /\ SwTree(sw) /\ sw.total <= place.size
       /\ sw.magic = "SW" => sw.total = place.size

-----------------------------------------------------------------------------
(* Every tag of the writer has a number of bytes.                          *)
LEMMA SwBytesNat == \A t \in SwTags : Bytes(t) \in Nat
<1> SUFFICES ASSUME NEW t \in SwTags PROVE Bytes(t) \in Nat
  OBVIOUS
<1>1. CASE t \in [tag : {"BEGIN_NODE"}, name : Names]
  <2>1. t \in TagsOf({}) /\ Lengths({})
    BY <1>1 DEF TagsOf, Lengths
  <2> QED
    BY <2>1, BytesNat
<1>2. CASE t \in [tag : {"PROP"}, nameoff : Int \X Names, value : [len : Nat]]
  <2>1. t.tag = "PROP" /\ t.value.len \in Nat
    BY <1>2
  <2>2. Bytes(t) = 3 * TagSize + Tagalign(t.value.len)
    BY <2>1 DEF Bytes
  <2> QED
    BY <2>1, <2>2, TagalignIs DEF TagSize
<1>3. CASE t \in [tag : {"END_NODE", "END"}]
  <2>1. t \in TagsOf({}) /\ Lengths({})
    BY <1>3 DEF TagsOf, Lengths
  <2> QED
    BY <2>1, BytesNat
<1> QED
  BY <1>1, <1>2, <1>3 DEF SwTags

(* A tag that is appended adds its bytes.                                  *)
LEMMA SwAppend ==
  ASSUME NEW s \in Seq(SwTags), NEW t \in SwTags
  PROVE  /\ StructBytes(s) \in Nat /\ Bytes(t) \in Nat
         /\ StructBytes(Append(s, t)) = StructBytes(s) + Bytes(t)
<1>1. <<t>> \in Seq(SwTags) /\ Append(s, t) = s \o <<t>>
  BY AppendIsConcat
<1>2. Bytes(t) \in Nat
  BY SwBytesNat
<1>3. StructBytes(s) \in Nat /\ StructBytes(s \o <<t>>) = StructBytes(s) + StructBytes(<<t>>)
  BY <1>1, SwBytesNat, BytesConcat
<1> QED
  BY <1>1, <1>2, <1>3, StructOne

(* A string in front of the table adds its length and a NUL.               *)
LEMMA StringPrepend ==
  ASSUME NEW s \in Seq(Names), NEW name \in Names
  PROVE  /\ StringBytes(s) \in Nat
         /\ StringBytes(<<name>> \o s) = Length[name] + 1 + StringBytes(s)
         /\ <<name>> \o s \in Seq(Names) /\ Len(<<name>> \o s) = Len(s) + 1
         /\ (<<name>> \o s)[1] = name
         /\ \A i \in 1..Len(s) : (<<name>> \o s)[i + 1] = s[i]
<1> DEFINE p == <<name>> \o s
           sb == [i \in 1..Len(s) |-> Length[s[i]] + 1]
           one == <<Length[name] + 1>>
           pb == [i \in 1..Len(p) |-> Length[p[i]] + 1]
<1>1. sb \in Seq(Nat) /\ Len(sb) = Len(s)
  BY NamesAssumption
<1>2. one \in Seq(Nat) /\ Len(one) = 1 /\ one[1] = Length[name] + 1
  BY NamesAssumption
<1>3. /\ one \o sb \in Seq(Nat) /\ Len(one \o sb) = 1 + Len(s)
      /\ \A i \in 1..(1 + Len(s)) :
           (one \o sb)[i] = IF i <= 1 THEN one[i] ELSE sb[i - 1]
  BY <1>1, <1>2, ConcatProperties
<1>4. /\ p \in Seq(Names) /\ Len(p) = 1 + Len(s)
      /\ \A i \in 1..(1 + Len(s)) : p[i] = IF i <= 1 THEN name ELSE s[i - 1]
  <2>1. <<name>> \in Seq(Names) /\ Len(<<name>>) = 1 /\ <<name>>[1] = name
    OBVIOUS
  <2>2. /\ p \in Seq(Names) /\ Len(p) = 1 + Len(s)
        /\ \A i \in 1..(1 + Len(s)) : p[i] = IF i <= 1 THEN <<name>>[i] ELSE s[i - 1]
    BY <2>1, ConcatProperties
  <2> QED
    BY <2>1, <2>2
<1> HIDE DEF p
<1>5. ASSUME NEW i \in 1..(1 + Len(s)) PROVE pb[i] = (one \o sb)[i]
  <2>1. CASE i = 1
    BY <2>1, <1>2, <1>3, <1>4
  <2>2. CASE i # 1
    <3>1. i - 1 \in 1..Len(s) /\ ~(i <= 1)
      BY <2>2
    <3> QED
      BY <3>1, <1>3, <1>4
  <2> QED
    BY <2>1, <2>2
<1>6. one \o sb = [i \in 1..(1 + Len(s)) |-> (one \o sb)[i]]
  BY <1>3
<1>7. pb = one \o sb
  BY <1>4, <1>5, <1>6
<1>8. SumOf(one \o sb) = SumOf(one) + SumOf(sb) /\ SumOf(sb) \in Nat
  BY <1>1, <1>2, SumOfConcat
<1>9. SumOf(one) = Length[name] + 1 /\ Length[name] \in Nat
  BY NamesAssumption, SumOfOne
<1>10. StringBytes(p) = SumOf(pb) /\ StringBytes(s) = SumOf(sb)
  BY DEF StringBytes
<1>11. /\ p[1] = name /\ \A i \in 1..Len(s) : p[i + 1] = s[i]
  BY <1>4
<1> HIDE DEF pb, sb, one
<1>12. StringBytes(p) = Length[name] + 1 + StringBytes(s) /\ StringBytes(s) \in Nat
  BY <1>7, <1>8, <1>9, <1>10
<1> QED
  BY <1>4, <1>11, <1>12 DEF p

(* fdt_grab_space_: room for a tag, or the tree as it was.                 *)
Grown(f, g, t) ==
  /\ SwBlocks(g) /\ g.struct = Append(f.struct, t)
  /\ Len(g.struct) = Len(f.struct) + 1 /\ g.struct[Len(f.struct) + 1] = t
  /\ \A j \in 1..Len(f.struct) : g.struct[j] = f.struct[j]
  /\ g.magic = f.magic /\ g.strings = f.strings /\ g.offStruct = f.offStruct
  /\ g.offStrings = f.offStrings /\ g.total = f.total /\ g.reserved = f.reserved

(* fdt_grab_space_ appends the tag where there is room, and refuses        *)
(* without a change where there is not.                                    *)
LEMMA GrabIs ==
  ASSUME NEW f, SwBlocks(f), NEW t \in SwTags, NEW r, r = GrabSpace(f, t)
  PROVE  \/ r.err = "NOSPACE" /\ r.fdt = f
         \/ r.err = "none" /\ Grown(f, r.fdt, t)
<1> DEFINE g == [f EXCEPT !.struct = Append(@, t), !.sizeStruct = @ + Bytes(t)]
<1>1. /\ f \in SwTrees /\ f.struct \in Seq(SwTags) /\ f.strings \in Seq(Names)
      /\ f.sizeStruct \in Nat /\ f.sizeStrings \in Nat /\ f.offStruct \in Nat /\ f.total \in Nat
      /\ Len(f.struct) \in Nat
  BY DEF SwBlocks, SwTrees
<1>2. /\ Bytes(t) \in Nat /\ StructBytes(Append(f.struct, t)) = f.sizeStruct + Bytes(t)
  BY <1>1, SwAppend DEF SwBlocks
<1>3. CASE f.sizeStruct + Bytes(t) > f.total - f.offStruct - f.sizeStrings
  <2>1. r = Fails("NOSPACE", f)
    BY <1>3 DEF GrabSpace
  <2> QED
    BY <2>1 DEF Fails
<1>4. CASE ~(f.sizeStruct + Bytes(t) > f.total - f.offStruct - f.sizeStrings)
  <2>1. r = Done(g)
    BY <1>4 DEF GrabSpace
  <2>2. r.err = "none" /\ r.fdt = g
    BY <2>1 DEF Done
  <2>3. /\ Append(f.struct, t) \in Seq(SwTags)
        /\ Len(Append(f.struct, t)) = Len(f.struct) + 1
        /\ Append(f.struct, t)[Len(f.struct) + 1] = t
        /\ \A j \in 1..Len(f.struct) : Append(f.struct, t)[j] = f.struct[j]
    BY <1>1, AppendProperties
  <2>4. f.offStruct + (f.sizeStruct + Bytes(t)) + f.sizeStrings <= f.total
    <3>1. \A a, b, c, d, e \in Nat : ~(a + b > c - d - e) => d + (a + b) + e <= c
      OBVIOUS
    <3> QED
      BY <1>1, <1>2, <1>4, <3>1
  <2>5. /\ g.struct = Append(f.struct, t) /\ g.sizeStruct = f.sizeStruct + Bytes(t)
        /\ g.magic = f.magic /\ g.strings = f.strings /\ g.offStruct = f.offStruct
        /\ g.offStrings = f.offStrings /\ g.total = f.total /\ g.reserved = f.reserved
        /\ g.offRsv = f.offRsv /\ g.sizeStrings = f.sizeStrings
    BY <1>1 DEF SwTrees
  <2>7. g \in SwTrees
    <3>1. f.sizeStruct + Bytes(t) \in Nat
      BY <1>1, <1>2
    <3> QED
      BY <1>1, <2>3, <3>1 DEF SwTrees
  <2> HIDE DEF g
  <2>6. SwBlocks(g)
    BY <1>2, <2>4, <2>5, <2>7 DEF SwBlocks
  <2> QED
    BY <2>2, <2>3, <2>5, <2>6 DEF Grown
<1> QED
  BY <1>3, <1>4

(* A tag behind the others leaves every property its name.                 *)
LEMMA GrownNamed ==
  ASSUME NEW f, NEW g, NEW t \in SwTags, Grown(f, g, t), SwBlocks(f), SwNamed(f),
         t.tag = "PROP" => EndsAt(f, StringOf(f, t), t.nameoff[2])
  PROVE  SwNamed(g)
<1>1. Len(f.struct) \in Nat
  BY DEF SwBlocks, SwTrees
<1> SUFFICES ASSUME NEW j \in 1..Len(g.struct), IsTag(g, j, "PROP")
             PROVE  EndsAt(g, StringOf(g, g.struct[j]), g.struct[j].nameoff[2])
  BY DEF SwNamed
<1>2. \A i, name : EndsAt(f, i, name) <=> EndsAt(g, i, name)
  BY DEF Grown, EndsAt
<1>3. \A u : StringOf(f, u) = StringOf(g, u)
  BY DEF Grown, StringOf
<1>4. CASE j = Len(f.struct) + 1
  BY <1>2, <1>3, <1>4 DEF Grown, IsTag
<1>5. CASE j # Len(f.struct) + 1
  <2>1. j \in 1..Len(f.struct) /\ g.struct[j] = f.struct[j]
    BY <1>1, <1>5 DEF Grown
  <2> QED
    BY <1>2, <1>3, <2>1 DEF SwNamed, IsTag
<1> QED
  BY <1>4, <1>5

(* What a reader will find: every tag, with the name that was meant.       *)
Meant(t) ==
  IF t.tag # "PROP" THEN t
  ELSE [tag |-> "PROP", len |-> t.value.len, name |-> t.nameoff[2]]
Meants(s) == [j \in 1..Len(s) |-> Meant(s[j])]

(* What is meant by one tag more.                                          *)
LEMMA MeantsAppend ==
  ASSUME NEW s \in Seq(SwTags), NEW t \in SwTags
  PROVE  Meants(Append(s, t)) = Append(Meants(s), Meant(t))
<1>1. /\ Len(Append(s, t)) = Len(s) + 1 /\ Append(s, t)[Len(s) + 1] = t
      /\ \A j \in 1..Len(s) : Append(s, t)[j] = s[j] /\ Len(s) \in Nat
  BY AppendProperties
<1> DEFINE X == {Meant(u) : u \in SwTags}
           m == Meants(s)
<1>2. m \in Seq(X) /\ Len(m) = Len(s) /\ Meant(t) \in X
      /\ \A j \in 1..Len(s) : m[j] = Meant(s[j])
  BY DEF Meants
<1> HIDE DEF X, m
<1>3. /\ Append(m, Meant(t)) \in Seq(X) /\ Len(Append(m, Meant(t))) = Len(s) + 1
      /\ Append(m, Meant(t))[Len(s) + 1] = Meant(t)
      /\ \A j \in 1..Len(s) : Append(m, Meant(t))[j] = m[j]
  BY <1>2, AppendProperties
<1>4. Append(m, Meant(t)) = [j \in 1..(Len(s) + 1) |-> Append(m, Meant(t))[j]]
  <2> DEFINE a == Append(m, Meant(t))
  <2>1. a \in Seq(X) /\ Len(a) = Len(s) + 1
    BY <1>3
  <2> HIDE DEF a
  <2>2. a = [j \in 1..Len(a) |-> a[j]]
    BY <2>1
  <2> QED
    BY <2>1, <2>2 DEF a
<1>5. ASSUME NEW j \in 1..(Len(s) + 1)
      PROVE  Append(m, Meant(t))[j] = Meant(Append(s, t)[j])
  <2>1. CASE j = Len(s) + 1
    BY <1>1, <1>3, <2>1
  <2>2. CASE j # Len(s) + 1
    <3>1. j \in 1..Len(s)
      BY <1>1, <2>2
    <3> QED
      BY <1>1, <1>2, <1>3, <3>1
  <2> QED
    BY <2>1, <2>2
<1>6. Meants(Append(s, t)) = [j \in 1..(Len(s) + 1) |-> Meant(Append(s, t)[j])]
  BY <1>1 DEF Meants
<1> QED
  BY <1>4, <1>5, <1>6 DEF m

(* What a tree says depends on its tags and on the strings they name.      *)
LEMMA WrittenIs ==
  ASSUME NEW f \in SwTrees, SwNamed(f)
  PROVE  Written(f) = Meants(f.struct)
<1> DEFINE count == IF f.magic = "SW" THEN Len(f.strings) + 1 ELSE 0
           Read(t) == IF t.tag # "PROP" THEN t
                      ELSE [tag |-> "PROP", len |-> t.value.len,
                            name |-> SpelledAt(f, <<t.nameoff[1] + count, t.nameoff[2]>>)]
<1>1. f.struct \in Seq(SwTags) /\ Len(f.struct) \in Nat /\ DOMAIN f.struct = 1..Len(f.struct)
  BY DEF SwTrees
<1>2. Written(f) = [j \in DOMAIN f.struct |-> Read(f.struct[j])]
  BY DEF Written
<1>3. ASSUME NEW j \in 1..Len(f.struct) PROVE Read(f.struct[j]) = Meant(f.struct[j])
  <2> DEFINE t == f.struct[j]
  <2>1. CASE t.tag # "PROP"
    BY <2>1 DEF Meant
  <2>2. CASE t.tag = "PROP"
    <3>1. EndsAt(f, StringOf(f, t), t.nameoff[2])
      BY <2>2 DEF SwNamed, IsTag
    <3>2. t \in SwTags
      BY <1>1
    <3>3. t.nameoff[2] \in Names
      BY <2>2, <3>2 DEF SwTags
    <3>4. StringOf(f, t) = t.nameoff[1] + count
      BY DEF StringOf
    <3> HIDE DEF t, count
    <3>5. SpelledAt(f, <<StringOf(f, t), t.nameoff[2]>>) = t.nameoff[2]
      BY <3>1, <3>3, SpelledIs
    <3> QED
      BY <2>2, <3>4, <3>5 DEF Meant, t
  <2> QED
    BY <2>1, <2>2
<1> HIDE DEF Read
<1> QED
  BY <1>1, <1>2, <1>3 DEF Meants

-----------------------------------------------------------------------------
(* A call of the writer that is refused, and one that writes a tag.        *)
Refused(f, r) == r.err \in {"NOSPACE", "BADSTATE"} /\ r.fdt = f

WroteTag(f, g, t) ==
  /\ InStruct(f) /\ SwTree(g) /\ g.magic = "SW"
  /\ g.total = f.total /\ g.reserved = f.reserved /\ g.offStrings = f.offStrings
  /\ g.offStruct = f.offStruct
  /\ Written(g) = Append(Written(f), Meant(t))

(* The fields of a tree in sequential writing.                             *)
LEMMA SwTreeFields ==
  ASSUME NEW f, SwBlocks(f)
  PROVE  /\ f \in SwTrees /\ f.struct \in Seq(SwTags) /\ f.strings \in Seq(Names)
         /\ Len(f.struct) \in Nat /\ Len(f.strings) \in Nat
         /\ f.offStruct \in Nat /\ f.sizeStruct \in Nat /\ f.sizeStrings \in Nat
         /\ f.total \in Nat /\ f.offStrings \in Nat /\ f.reserved \in Nat
         /\ f.magic \in {"SW", "FDT"} /\ f # NoSw /\ SwHeader = 48
         /\ ReserveBytes(f) = 16 * f.reserved + 16
<1>1. f \in SwTrees
  BY DEF SwBlocks
<1>2. f.magic # "none" /\ NoSw.magic = "none"
  BY <1>1 DEF SwTrees, NoSw
<1>3. SwHeader = 48
  <2>1. HeaderSize \in Int /\ ReserveEntrySize \in Nat \ {0}
    BY DEF HeaderSize, ReserveEntrySize
  <2>2. /\ HeaderSize % ReserveEntrySize # 0
            => SwHeader = HeaderSize + (ReserveEntrySize - (HeaderSize % ReserveEntrySize))
    BY <2>1, RoundUpIs, Zenon DEF SwHeader
  <2>3. HeaderSize % ReserveEntrySize = 8
    BY DEF HeaderSize, ReserveEntrySize
  <2> QED
    BY <2>2, <2>3 DEF HeaderSize, ReserveEntrySize
<1>4. f.reserved \in Nat
  BY <1>1 DEF SwTrees
<1>5. ReserveBytes(f) = 16 * f.reserved + 16
  BY <1>4 DEF ReserveBytes, ReserveEntrySize
<1> QED
  BY <1>1, <1>2, <1>3, <1>5 DEF SwTrees

(* A tag more leaves the strings owned,                                    *)
LEMMA GrownOwned ==
  ASSUME NEW f, NEW g, NEW t, Grown(f, g, t), SwBlocks(f), SwOwned(f)
  PROVE  SwOwned(g)
<1>1. Len(f.struct) \in Nat
  BY SwTreeFields
<1> SUFFICES ASSUME NEW i \in 1..Len(g.strings)
             PROVE  \E j \in 1..Len(g.struct) :
                      IsTag(g, j, "PROP") /\ g.struct[j].nameoff[1] = FromEnd(g, i)
  BY DEF SwOwned
<1>2. PICK j \in 1..Len(f.struct) :
        IsTag(f, j, "PROP") /\ f.struct[j].nameoff[1] = FromEnd(f, i)
  BY DEF SwOwned, Grown
<1>3. j \in 1..Len(g.struct) /\ g.struct[j] = f.struct[j] /\ FromEnd(g, i) = FromEnd(f, i)
  BY <1>1 DEF Grown, FromEnd
<1> QED
  BY <1>2, <1>3 DEF IsTag

(* the phase of the writer the same,                                       *)
LEMMA GrownPhase ==
  ASSUME NEW f, NEW g, NEW t, Grown(f, g, t), SwBlocks(f), SwPhase(f), InStruct(f)
  PROVE  SwPhase(g) /\ InStruct(g)
<1>1. f.total # 0 /\ f.offStrings = f.total /\ f.magic = "SW"
  BY SwTreeFields DEF InStruct, SwBlocks
<1>2. ReserveBytes(g) = ReserveBytes(f)
  BY DEF Grown, ReserveBytes
<1> QED
  BY <1>1, <1>2 DEF SwPhase, InStruct, Grown

(* and adds its meaning to what was written.                               *)
LEMMA GrownWritten ==
  ASSUME NEW f, NEW g, NEW t \in SwTags, Grown(f, g, t), SwBlocks(f),
         SwNamed(f), SwNamed(g)
  PROVE  Written(g) = Append(Written(f), Meant(t))
<1>1. f \in SwTrees /\ g \in SwTrees /\ f.struct \in Seq(SwTags) /\ g.struct = Append(f.struct, t)
  BY DEF Grown, SwBlocks, SwTrees
<1>2. Written(f) = Meants(f.struct) /\ Written(g) = Meants(g.struct)
  BY <1>1, WrittenIs
<1> QED
  BY <1>1, <1>2, MeantsAppend

(* fdt_begin_node and fdt_end_node                                         *)
LEMMA WriteTagIs ==
  ASSUME NEW f, SwTree(f), NEW t \in SwTags, t.tag # "PROP", NEW r, r = WriteTag(f, t)
  PROVE  Refused(f, r) \/ (r.err = "none" /\ WroteTag(f, r.fdt, t))
<1>1. CASE ~InStruct(f)
  BY <1>1 DEF WriteTag, Refused, Fails
<1>2. CASE InStruct(f)
  <2>1. r = GrabSpace(f, t) /\ SwBlocks(f) /\ SwPhase(f) /\ SwNamed(f) /\ SwOwned(f)
    BY <1>2 DEF WriteTag, SwTree, InStruct
  <2>2. CASE r.err = "NOSPACE" /\ r.fdt = f
    BY <2>2 DEF Refused
  <2>3. CASE r.err = "none" /\ Grown(f, r.fdt, t)
    <3> DEFINE g == r.fdt
    <3>1. Grown(f, g, t)
      BY <2>3
    <3> HIDE DEF g
    <3>2. SwNamed(g) /\ SwOwned(g) /\ SwPhase(g) /\ InStruct(g)
      BY <1>2, <2>1, <3>1, GrownNamed, GrownOwned, GrownPhase
    <3>3. Written(g) = Append(Written(f), Meant(t))
      BY <2>1, <3>1, <3>2, GrownWritten
    <3>4. SwTree(g)
      BY <3>1, <3>2 DEF SwTree, Grown
    <3>5. WroteTag(f, g, t)
      BY <1>2, <3>1, <3>2, <3>3, <3>4 DEF WroteTag, InStruct, Grown
    <3> QED
      BY <2>3, <3>5 DEF g
  <2> QED
    BY <2>1, <2>2, <2>3, GrabIs
<1> QED
  BY <1>1, <1>2

(* fdt_add_string_: a name in front of the others.                         *)
Prefixed(f, h, name) ==
  /\ SwBlocks(h) /\ h.struct = f.struct
  /\ Len(h.strings) = Len(f.strings) + 1 /\ h.strings[1] = name
  /\ \A i \in 1..Len(f.strings) : h.strings[i + 1] = f.strings[i]
  /\ h.magic = f.magic /\ h.offStruct = f.offStruct
  /\ h.offStrings = f.offStrings /\ h.total = f.total /\ h.reserved = f.reserved

(* fdt_add_string_ puts a name in front of the strings, moving none.       *)
LEMMA SwAddStringIs ==
  ASSUME NEW f, SwBlocks(f), NEW name \in Names, NEW r, r = SwAddString(f, name)
  PROVE  \/ r.err = "NOSPACE" /\ r.fdt = f
         \/ r.err = "none" /\ Prefixed(f, r.fdt, name)
<1> DEFINE size == f.sizeStrings + Length[name] + 1
           s == <<name>> \o f.strings
           g == [f EXCEPT !.strings = s, !.sizeStrings = size]
<1>1. /\ f \in SwTrees /\ f.strings \in Seq(Names)
      /\ f.sizeStruct \in Nat /\ f.sizeStrings \in Nat /\ f.offStruct \in Nat /\ f.total \in Nat
      /\ Len(f.strings) \in Nat /\ Length[name] \in Nat
  BY SwTreeFields, NamesAssumption
<1>2. /\ s \in Seq(Names) /\ StringBytes(s) = Length[name] + 1 + StringBytes(f.strings)
      /\ Len(s) = Len(f.strings) + 1 /\ s[1] = name
      /\ \A i \in 1..Len(f.strings) : s[i + 1] = f.strings[i]
  BY <1>1, StringPrepend
<1>3. size \in Nat /\ StringBytes(s) = size
  <2>1. StringBytes(f.strings) = f.sizeStrings
    BY DEF SwBlocks
  <2>2. \A a, b \in Nat : b + 1 + a = a + b + 1 /\ a + b + 1 \in Nat
    OBVIOUS
  <2> HIDE DEF s
  <2> QED
    BY <1>1, <1>2, <2>1, <2>2, SMTT(30)
<1>4. CASE f.total - size < f.offStruct + f.sizeStruct
  <2>1. r = Fails("NOSPACE", f)
    BY <1>4 DEF SwAddString
  <2> QED
    BY <2>1 DEF Fails
<1>5. CASE ~(f.total - size < f.offStruct + f.sizeStruct)
  <2>1. r = Done(g)
    BY <1>5 DEF SwAddString
  <2>2. r.err = "none" /\ r.fdt = g
    BY <2>1 DEF Done
  <2> HIDE DEF size, s
  <2>3. f.offStruct + f.sizeStruct + size <= f.total
    <3>1. \A a, b, c, d \in Nat : ~(a - b < c + d) => c + d + b <= a
      OBVIOUS
    <3> QED
      BY <1>1, <1>3, <1>5, <3>1
  <2>4. g \in SwTrees
    BY <1>1, <1>2, <1>3 DEF SwTrees
  <2>5. /\ g.struct = f.struct /\ g.sizeStruct = f.sizeStruct
        /\ g.magic = f.magic /\ g.strings = s /\ g.offStruct = f.offStruct
        /\ g.offStrings = f.offStrings /\ g.total = f.total /\ g.reserved = f.reserved
        /\ g.offRsv = f.offRsv /\ g.sizeStrings = size
    BY <1>1 DEF SwTrees
  <2> HIDE DEF g
  <2>6. SwBlocks(g)
    BY <1>3, <2>3, <2>4, <2>5 DEF SwBlocks
  <2>7. Prefixed(f, g, name)
    BY <1>2, <2>5, <2>6 DEF Prefixed
  <2> QED
    BY <2>2, <2>7
<1> QED
  BY <1>4, <1>5

(* The properties keep their names, as these are counted from the end; the *)
(* new name is the one that is found.                                      *)
LEMMA PrefixedNamed ==
  ASSUME NEW f, NEW h, NEW name \in Names, Prefixed(f, h, name), SwBlocks(f), SwNamed(f),
         f.magic = "SW"
  PROVE  /\ SwNamed(h) /\ FindString(h, name) = 1 /\ EndsAt(h, 1, name)
         /\ \A i \in 1..Len(f.strings) : FromEnd(h, i + 1) = FromEnd(f, i)
<1>1. /\ Len(f.strings) \in Nat /\ Len(h.strings) = Len(f.strings) + 1 /\ h.magic = "SW"
      /\ h.strings[1] = name /\ h.struct = f.struct /\ f.struct \in Seq(SwTags)
  BY SwTreeFields DEF Prefixed
<1>2. ASSUME NEW i, NEW n, EndsAt(f, i, n) PROVE EndsAt(h, i + 1, n)
  <2>1. i \in 1..Len(f.strings) /\ (f.strings[i] = n \/ <<f.strings[i], n>> \in EndsWith)
    BY <1>2 DEF EndsAt
  <2>2. i + 1 \in 1..Len(h.strings) /\ h.strings[i + 1] = f.strings[i]
    BY <1>1, <2>1 DEF Prefixed
  <2> QED
    BY <2>1, <2>2 DEF EndsAt
<1>3. SwNamed(h)
  <2> SUFFICES ASSUME NEW j \in 1..Len(h.struct), IsTag(h, j, "PROP")
               PROVE  EndsAt(h, StringOf(h, h.struct[j]), h.struct[j].nameoff[2])
    BY DEF SwNamed
  <2> DEFINE t == f.struct[j]
  <2>1. EndsAt(f, StringOf(f, t), t.nameoff[2])
    BY <1>1 DEF SwNamed, IsTag
  <2>2. t \in SwTags /\ t.tag = "PROP"
    BY <1>1 DEF IsTag
  <2>3. t.nameoff[1] \in Int
    BY <2>2 DEF SwTags
  <2> HIDE DEF t
  <2>4. StringOf(h, t) = StringOf(f, t) + 1
    <3>1. /\ StringOf(h, t) = t.nameoff[1] + (Len(h.strings) + 1)
          /\ StringOf(f, t) = t.nameoff[1] + (Len(f.strings) + 1)
      BY <1>1 DEF StringOf
    <3>2. \A a \in Int, b \in Nat : a + ((b + 1) + 1) = (a + (b + 1)) + 1
      OBVIOUS
    <3> QED
      BY <1>1, <2>3, <3>1, <3>2
  <2>5. EndsAt(h, StringOf(h, t), t.nameoff[2])
    BY <1>2, <2>1, <2>4
  <2> QED
    BY <1>1, <2>5 DEF t
<1>4. EndsAt(h, 1, name)
  BY <1>1 DEF EndsAt
<1>5. FindString(h, name) = 1
  <2> DEFINE S == {i \in 1..Len(h.strings) : SpelledAt(h, <<i, name>>) = name}
  <2>1. SpelledAt(h, <<1, name>>) = name
    BY <1>4, SpelledIs
  <2>2. S \subseteq Nat \ {0} /\ 1 \in S
    BY <1>1, <2>1
  <2>3. \A y \in S : 1 <= y
    BY <1>1
  <2>4. FindString(h, name) = FirstOf(S)
    BY DEF FindString
  <2> HIDE DEF S
  <2> QED
    BY <2>2, <2>3, <2>4, FirstOfUnique
<1>6. \A i \in 1..Len(f.strings) : FromEnd(h, i + 1) = FromEnd(f, i)
  BY <1>1 DEF FromEnd
<1> QED
  BY <1>3, <1>4, <1>5, <1>6

(* fdt_find_add_string_: what fdt_property_placeholder then refers to.     *)
SwHasString(f, h, name) ==
  /\ SwBlocks(h) /\ SwNamed(h) /\ h.struct = f.struct /\ h.magic = "SW"
  /\ h.offStruct = f.offStruct /\ h.offStrings = f.offStrings /\ h.total = f.total
  /\ h.reserved = f.reserved
  /\ EndsAt(h, FindString(h, name), name)
  /\ \A i \in 1..Len(h.strings) :
       \/ i = FindString(h, name)
       \/ \E j \in 1..Len(h.struct) :
            IsTag(h, j, "PROP") /\ h.struct[j].nameoff[1] = FromEnd(h, i)

(* fdt_find_add_string_ gives a place where the name is, known or new.     *)
LEMMA SwFindAddStringIs ==
  ASSUME NEW f, SwTree(f), f.magic = "SW", NEW name \in Names,
         NEW r, r = SwFindAddString(f, name)
  PROVE  Refused(f, r) \/ (r.err = "none" /\ SwHasString(f, r.fdt, name))
<1>1. SwBlocks(f) /\ SwNamed(f) /\ SwOwned(f) /\ Len(f.strings) \in Nat
  BY SwTreeFields DEF SwTree
<1>2. CASE dedup /\ FindString(f, name) # NotFound
  <2>1. r.err = "none" /\ r.fdt = f
    BY <1>2 DEF SwFindAddString, Done
  <2>2. EndsAt(f, FindString(f, name), name)
    BY <1>1, <1>2, FoundIs DEF NotFound
  <2> QED
    BY <1>1, <2>1, <2>2 DEF SwHasString, SwOwned
<1>3. CASE ~(dedup /\ FindString(f, name) # NotFound)
  <2>1. r = SwAddString(f, name)
    BY <1>3 DEF SwFindAddString
  <2>2. CASE r.err = "NOSPACE" /\ r.fdt = f
    BY <2>2 DEF Refused
  <2>3. CASE r.err = "none" /\ Prefixed(f, r.fdt, name)
    <3> DEFINE h == r.fdt
    <3>1. Prefixed(f, h, name)
      BY <2>3
    <3> HIDE DEF h
    <3>2. /\ SwNamed(h) /\ FindString(h, name) = 1 /\ EndsAt(h, 1, name)
          /\ \A i \in 1..Len(f.strings) : FromEnd(h, i + 1) = FromEnd(f, i)
      BY <1>1, <3>1, PrefixedNamed
    <3>3. ASSUME NEW i \in 1..Len(h.strings), i # 1
          PROVE  \E j \in 1..Len(h.struct) :
                   IsTag(h, j, "PROP") /\ h.struct[j].nameoff[1] = FromEnd(h, i)
      <4>1. i - 1 \in 1..Len(f.strings) /\ i = (i - 1) + 1
        BY <1>1, <3>1, <3>3 DEF Prefixed
      <4>2. FromEnd(h, i) = FromEnd(f, i - 1)
        BY <3>2, <4>1
      <4>3. PICK j \in 1..Len(f.struct) :
              IsTag(f, j, "PROP") /\ f.struct[j].nameoff[1] = FromEnd(f, i - 1)
        BY <1>1, <4>1 DEF SwOwned
      <4> QED
        BY <3>1, <4>2, <4>3 DEF Prefixed, IsTag
    <3>4. SwHasString(f, h, name)
      BY <3>1, <3>2, <3>3 DEF SwHasString, Prefixed
    <3> QED
      BY <2>3, <3>4 DEF h
  <2> QED
    BY <1>1, <2>1, <2>2, <2>3, SwAddStringIs
<1> QED
  BY <1>2, <1>3

(* fdt_property_placeholder                                                *)
PropRead(name, len) == [tag |-> "PROP", len |-> len, name |-> name]

(* fdt_property_placeholder appends the property; a name that was added    *)
(* for it is taken back when there is no room.                             *)
LEMMA SwPropertyIs ==
  ASSUME NEW f, SwTree(f), NEW name \in Names, NEW len \in Nat,
         NEW r, r = SwProperty(f, name, len)
  PROVE  \/ Refused(f, r)
         \/ r.err = "none" /\ \E t : WroteTag(f, r.fdt, t) /\ Meant(t) = PropRead(name, len)
<1> DEFINE named == SwFindAddString(f, name)
           h == named.fdt
           i == FindString(h, name)
           t == Prop(<<FromEnd(h, i), name>>, [len |-> len])
           added == GrabSpace(h, t)
<1>1. CASE ~InStruct(f)
  BY <1>1 DEF SwProperty, Refused, Fails
<1>2. CASE InStruct(f) /\ named.err # "none"
  <2>1. f.magic = "SW"
    BY <1>2 DEF InStruct
  <2>2. named = SwFindAddString(f, name)
    OBVIOUS
  <2>3. r = named
    BY <1>2 DEF SwProperty
  <2> HIDE DEF named
  <2> QED
    BY <1>2, <2>1, <2>2, <2>3, SwFindAddStringIs
<1>3. CASE InStruct(f) /\ named.err = "none"
  <2>1. f.magic = "SW" /\ SwBlocks(f) /\ SwPhase(f) /\ SwNamed(f)
    BY <1>3 DEF InStruct, SwTree
  <2>2. named = SwFindAddString(f, name)
    OBVIOUS
  <2>3. SwHasString(f, named.fdt, name)
    <3> HIDE DEF named
    <3> QED
      BY <1>3, <2>1, <2>2, SwFindAddStringIs DEF Refused
  <2>4. r = IF added.err # "none" THEN Fails(added.err, f) ELSE added
    BY <1>3 DEF SwProperty
  <2>5. h = named.fdt /\ added = GrabSpace(h, t) /\ i = FindString(h, name)
        /\ t = Prop(<<FromEnd(h, i), name>>, [len |-> len])
    OBVIOUS
  <2> HIDE DEF added, t, i, h, named
  <2>6. /\ SwBlocks(h) /\ SwNamed(h) /\ h.magic = "SW" /\ EndsAt(h, i, name)
        /\ h.struct = f.struct
    BY <2>3, <2>5 DEF SwHasString
  <2>7. Len(h.strings) \in Nat /\ i \in Int /\ FromEnd(h, i) \in Int
        /\ FromEnd(h, i) + (Len(h.strings) + 1) = i
    <3>1. Len(h.strings) \in Nat /\ i \in 1..Len(h.strings)
      BY <2>6, SwTreeFields DEF EndsAt
    <3>2. \A a \in Nat : \A b \in 1..a :
            b \in Int /\ b - a - 1 \in Int /\ (b - a - 1) + (a + 1) = b
      OBVIOUS
    <3> QED
      BY <3>1, <3>2 DEF FromEnd
  <2>8. /\ t.tag = "PROP" /\ t.nameoff = <<FromEnd(h, i), name>> /\ t.value = [len |-> len]
        /\ t \in SwTags
    BY <2>5, <2>7 DEF Prop, SwTags
  <2>9. t.nameoff[1] = FromEnd(h, i) /\ t.nameoff[2] = name /\ t.value.len = len
    BY <2>8
  <2>10. EndsAt(h, StringOf(h, t), t.nameoff[2]) /\ Meant(t) = PropRead(name, len)
    BY <2>6, <2>7, <2>8, <2>9 DEF StringOf, Meant, PropRead
  <2>11. CASE added.err = "NOSPACE"
    BY <2>4, <2>11 DEF Refused, Fails
  <2>12. CASE added.err = "none" /\ Grown(h, added.fdt, t)
    <3> DEFINE g == added.fdt
    <3>1. Grown(h, g, t) /\ r = added
      BY <2>4, <2>12
    <3> HIDE DEF g
    <3>2. SwNamed(g)
      BY <2>6, <2>8, <2>10, <3>1, GrownNamed
    <3>3. SwOwned(g)
      <4>1. /\ Len(h.struct) \in Nat /\ Len(g.struct) = Len(h.struct) + 1
            /\ g.struct[Len(h.struct) + 1] = t /\ g.strings = h.strings
            /\ \A j \in 1..Len(h.struct) : g.struct[j] = h.struct[j]
        BY <2>6, <3>1, SwTreeFields DEF Grown
      <4> SUFFICES ASSUME NEW k \in 1..Len(g.strings)
                   PROVE  \E j \in 1..Len(g.struct) :
                            IsTag(g, j, "PROP") /\ g.struct[j].nameoff[1] = FromEnd(g, k)
        BY DEF SwOwned
      <4>2. FromEnd(g, k) = FromEnd(h, k) /\ k \in 1..Len(h.strings)
        BY <4>1 DEF FromEnd
      <4>3. CASE k = i
        <5>1. Len(h.struct) + 1 \in 1..Len(g.struct)
              /\ IsTag(g, Len(h.struct) + 1, "PROP")
              /\ g.struct[Len(h.struct) + 1].nameoff[1] = FromEnd(g, k)
          BY <2>8, <2>9, <4>1, <4>2, <4>3 DEF IsTag
        <5> QED
          BY <5>1
      <4>4. CASE k # i
        <5>1. PICK j \in 1..Len(h.struct) :
                IsTag(h, j, "PROP") /\ h.struct[j].nameoff[1] = FromEnd(h, k)
          BY <2>3, <2>5, <4>2, <4>4 DEF SwHasString
        <5>2. j \in 1..Len(g.struct) /\ g.struct[j] = h.struct[j]
          BY <4>1
        <5> QED
          BY <4>2, <5>1, <5>2 DEF IsTag
      <4> QED
        BY <4>3, <4>4
    <3>4. SwPhase(g) /\ InStruct(g)
      <4>1. ReserveBytes(h) = ReserveBytes(f)
        BY <2>3, <2>5 DEF SwHasString, ReserveBytes
      <4>2. f.offStrings = f.total /\ f.total # 0
        BY <1>3, <2>1, SwTreeFields DEF InStruct, SwBlocks
      <4>3. SwPhase(h) /\ InStruct(h)
        BY <2>1, <2>3, <2>5, <4>1, <4>2 DEF SwHasString, SwPhase, InStruct
      <4> QED
        BY <2>6, <3>1, <4>3, GrownPhase
    <3>5. SwTree(g) /\ g.magic = "SW"
      BY <2>6, <3>1, <3>2, <3>3, <3>4 DEF SwTree, Grown
    <3>6. Written(g) = Append(Written(f), Meant(t))
      <4>1. Written(g) = Append(Written(h), Meant(t))
        BY <2>6, <2>8, <3>1, <3>2, GrownWritten
      <4>2. Written(h) = Written(f)
        BY <2>1, <2>6, WrittenIs DEF SwBlocks
      <4> QED
        BY <4>1, <4>2
    <3>7. WroteTag(f, g, t)
      BY <1>3, <2>3, <2>5, <3>1, <3>5, <3>6 DEF WroteTag, Grown, SwHasString
    <3> QED
      BY <2>10, <2>12, <3>1, <3>7 DEF g
  <2> QED
    BY <2>5, <2>6, <2>8, <2>11, <2>12, GrabIs
<1> QED
  BY <1>1, <1>2, <1>3

-----------------------------------------------------------------------------
(* fdt_add_reservemap_entry and fdt_finish_reservemap.                     *)
LEMMA AddReserveIs ==
  ASSUME NEW f, SwTree(f), NEW r, r = AddReserve(f)
  PROVE  \/ Refused(f, r)
         \/ /\ r.err = "none" /\ InMemrsv(f) /\ f.offStruct + 16 <= f.total
            /\ r.fdt = [f EXCEPT !.offStruct = @ + 16]
<1>1. CASE ~InMemrsv(f)
  BY <1>1 DEF AddReserve, Refused, Fails
<1>2. CASE InMemrsv(f)
  <2>1. CASE f.offStruct + ReserveEntrySize > f.total
    BY <1>2, <2>1 DEF AddReserve, Refused, Fails
  <2>2. CASE ~(f.offStruct + ReserveEntrySize > f.total)
    <3>1. r = Done([f EXCEPT !.offStruct = @ + ReserveEntrySize])
      BY <1>2, <2>2 DEF AddReserve
    <3>2. r.err = "none" /\ r.fdt = [f EXCEPT !.offStruct = @ + 16]
      BY <3>1 DEF Done, ReserveEntrySize
    <3>3. f.offStruct + 16 <= f.total
      <4>1. f.offStruct \in Nat /\ f.total \in Nat
        BY SwTreeFields DEF SwTree
      <4>2. ~(f.offStruct + 16 > f.total)
        BY <2>2 DEF ReserveEntrySize
      <4> QED
        BY <4>1, <4>2
    <3> QED
      BY <1>2, <3>2, <3>3
  <2> QED
    BY <2>1, <2>2
<1> QED
  BY <1>1, <1>2

(* An empty tree has no tags and no strings.                               *)
LEMMA NothingIsEmpty == StructBytes(<<>>) = 0 /\ StringBytes(<<>>) = 0
<1>1. StructBytes(<<>>) = 0
  <2>1. Bytes(EndNode) \in Nat
    <3>1. EndNode \in SwTags
      BY DEF EndNode, SwTags
    <3> QED
      BY <3>1, SwBytesNat
  <2> QED
    BY <2>1, StructOne
<1>2. [i \in 1..Len(<<>>) |-> Length[<<>>[i]] + 1] = <<>>
  OBVIOUS
<1> QED
  BY <1>1, <1>2, SumOfOne DEF StringBytes

(* One more entry, and perhaps the last.                                   *)
WithEntry(f, n, strings) ==
  [f EXCEPT !.offStrings = strings, !.offStruct = @ + 16, !.reserved = n]

(* The tree fdt_create has made, with any number of reservations.          *)
LEMMA ReservedTree ==
  ASSUME NEW f, SwTree(f), InMemrsv(f), f.offStruct + 16 <= f.total,
         NEW n \in 0..MaxReserves, NEW strings \in {0, f.total},
         strings = 0 => n = f.reserved + 1, strings # 0 => n = f.reserved,
         NEW g, g = WithEntry(f, n, strings)
  PROVE  /\ SwTree(g) /\ g.magic = "SW" /\ g.total = f.total /\ g.reserved = n
         /\ g.offStrings = strings /\ Written(g) = Written(f) /\ f.total # 0
<1>1. SwBlocks(f) /\ SwPhase(f) /\ f.magic = "SW" /\ f.offStrings = 0
  BY DEF SwTree, InMemrsv
<1>2. /\ f.struct = <<>> /\ f.strings = <<>> /\ f.offStruct = SwHeader + 16 * f.reserved
  BY <1>1 DEF SwPhase
<1>3. /\ f \in SwTrees /\ f.offStruct \in Nat /\ f.total \in Nat /\ f.reserved \in Nat
      /\ SwHeader = 48 /\ f.sizeStruct = 0 /\ f.sizeStrings = 0
  BY <1>1, <1>2, SwTreeFields, NothingIsEmpty DEF SwBlocks
<1>4. n \in Nat /\ strings \in Nat /\ f.offStruct + 16 \in Nat /\ f.total # 0
  BY <1>3, SwNamesFit
<1>5. g \in SwTrees
  BY <1>3, <1>4 DEF SwTrees, WithEntry
<1>6. /\ g.magic = "SW" /\ g.struct = <<>> /\ g.strings = <<>> /\ g.total = f.total
      /\ g.offStruct = f.offStruct + 16 /\ g.reserved = n /\ g.offStrings = strings
      /\ g.sizeStruct = 0 /\ g.sizeStrings = 0 /\ g.offRsv = f.offRsv
  BY <1>1, <1>2, <1>3 DEF SwTrees, WithEntry
<1>7. SwBlocks(g)
  <2>1. g.sizeStruct = StructBytes(g.struct) /\ g.sizeStrings = StringBytes(g.strings)
    BY <1>6, NothingIsEmpty
  <2>2. g.offStruct + g.sizeStruct + g.sizeStrings <= g.total /\ SwHeader <= g.offStruct
    BY <1>2, <1>3, <1>6
  <2> QED
    BY <1>1, <1>5, <1>6, <2>1, <2>2 DEF SwBlocks
<1>8. SwPhase(g)
  <2>1. CASE strings = 0
    <3>1. g.offStruct = SwHeader + 16 * g.reserved
      BY <1>2, <1>3, <1>6, <2>1
    <3> QED
      BY <1>6, <2>1, <3>1 DEF SwPhase
  <2>2. CASE strings # 0
    <3>1. ReserveBytes(g) = 16 * g.reserved + 16
      BY <1>7, SwTreeFields
    <3>2. g.offStruct = SwHeader + ReserveBytes(g)
      BY <1>2, <1>3, <1>6, <2>2, <3>1
    <3> QED
      BY <1>6, <2>2, <3>2 DEF SwPhase
  <2> QED
    BY <2>1, <2>2
<1>9. SwNamed(g) /\ SwOwned(g) /\ SwNamed(f)
  BY <1>2, <1>6 DEF SwNamed, SwOwned
<1>10. Written(g) = Written(f)
  BY <1>2, <1>3, <1>5, <1>6, <1>9, WrittenIs
<1> QED
  BY <1>4, <1>6, <1>7, <1>8, <1>9, <1>10 DEF SwTree

(* fdt_finish: joining the blocks loses nothing.                           *)
LEMMA JoinedIs ==
  ASSUME NEW f, SwTree(f), InStruct(f), NEW g, g = Joined(f)
  PROVE  /\ SwTree(g) /\ g.magic = "FDT" /\ g.total <= f.total /\ g.reserved = f.reserved
         /\ Written(g) = Written(f)
<1> DEFINE n == Len(f.strings) + 1
           Fixed(t) == IF t.tag = "PROP" THEN [t EXCEPT !.nameoff[1] = @ + Len(f.strings) + 1]
                       ELSE t
           s == [j \in DOMAIN f.struct |-> Fixed(f.struct[j])]
           strings == f.offStruct + f.sizeStruct
<1>1. SwBlocks(f) /\ SwPhase(f) /\ SwNamed(f) /\ f.magic = "SW"
  BY DEF SwTree, InStruct
<1>2. /\ f \in SwTrees /\ f.struct \in Seq(SwTags) /\ f.strings \in Seq(Names)
      /\ Len(f.struct) \in Nat /\ Len(f.strings) \in Nat
      /\ f.offStruct \in Nat /\ f.sizeStruct \in Nat /\ f.sizeStrings \in Nat
      /\ f.total \in Nat /\ f.reserved \in Nat /\ SwHeader = 48
      /\ ReserveBytes(f) = 16 * f.reserved + 16
  BY <1>1, SwTreeFields
<1>3. f.offStrings = f.total /\ f.total # 0 /\ f.offStruct = SwHeader + ReserveBytes(f)
  <2>1. f.offStrings = f.total
    BY DEF InStruct
  <2>2. SwHeader <= f.offStruct /\ f.offStruct + f.sizeStruct + f.sizeStrings <= f.total
    BY <1>1 DEF SwBlocks
  <2>3. f.total # 0
    BY <1>2, <2>2
  <2> QED
    BY <1>1, <2>1, <2>3 DEF SwPhase
<1>4. g = [f EXCEPT !.magic = "FDT", !.offStrings = strings, !.struct = s,
                    !.total = strings + f.sizeStrings]
  BY DEF Joined
<1>5. ASSUME NEW t \in SwTags
      PROVE  /\ Fixed(t) \in SwTags /\ Bytes(Fixed(t)) = Bytes(t) /\ Meant(Fixed(t)) = Meant(t)
             /\ Fixed(t).tag = t.tag
             /\ t.tag = "PROP" => /\ Fixed(t).nameoff[1] = t.nameoff[1] + n
                                  /\ Fixed(t).nameoff[2] = t.nameoff[2]
  <2>1. CASE t.tag # "PROP"
    BY <2>1
  <2>2. CASE t.tag = "PROP"
    <3>1. /\ t \in [tag : {"PROP"}, nameoff : Int \X Names, value : [len : Nat]]
      BY <2>2 DEF SwTags
    <3>2. PICK a \in Int, name \in Names, v \in [len : Nat] :
            t = [tag |-> "PROP", nameoff |-> <<a, name>>, value |-> v]
      <4>1. t.nameoff \in Int \X Names /\ t.value \in [len : Nat]
        BY <3>1
      <4>2. t = [tag |-> "PROP", nameoff |-> t.nameoff, value |-> t.value]
        BY <3>1
      <4>3. PICK a \in Int, name \in Names : t.nameoff = <<a, name>>
        BY <4>1
      <4> QED
        BY <4>1, <4>2, <4>3
    <3>3. Fixed(t) = [tag |-> "PROP", nameoff |-> <<a + Len(f.strings) + 1, name>>, value |-> v]
      <4>1. Fixed(t) = [t EXCEPT !.nameoff[1] = @ + Len(f.strings) + 1]
        BY <2>2
      <4> HIDE DEF Fixed
      <4> QED
        BY <3>2, <4>1
    <3>4. a + Len(f.strings) + 1 \in Int /\ a + Len(f.strings) + 1 = a + n
      BY <1>2
    <3> HIDE DEF Fixed, n
    <3>5. Fixed(t).tag = "PROP" /\ Fixed(t).nameoff = <<a + n, name>> /\ Fixed(t).value = v
          /\ t.nameoff = <<a, name>> /\ t.value = v
      BY <3>2, <3>3, <3>4
    <3>6. Fixed(t) \in SwTags
      BY <3>3, <3>4 DEF SwTags
    <3>7. Bytes(Fixed(t)) = Bytes(t) /\ Meant(Fixed(t)) = Meant(t)
      BY <2>2, <3>5 DEF Bytes, Meant
    <3> QED
      BY <2>2, <3>5, <3>6, <3>7
  <2> QED
    BY <2>1, <2>2
<1>6. strings \in Nat /\ strings + f.sizeStrings \in Nat /\ strings + f.sizeStrings <= f.total
  BY <1>1, <1>2, SMTT(30) DEF SwBlocks
<1> HIDE DEF Fixed
<1>7. /\ s \in Seq(SwTags) /\ Len(s) = Len(f.struct)
      /\ \A j \in 1..Len(f.struct) : s[j] = Fixed(f.struct[j]) /\ f.struct[j] \in SwTags
  <2>1. s = [j \in 1..Len(f.struct) |-> Fixed(f.struct[j])]
    BY <1>2
  <2>2. \A j \in 1..Len(f.struct) : f.struct[j] \in SwTags /\ Fixed(f.struct[j]) \in SwTags
    BY <1>2, <1>5
  <2> HIDE DEF s
  <2> QED
    BY <1>2, <2>1, <2>2
<1> HIDE DEF s, strings
<1>8. g \in SwTrees
  <2> DEFINE g1 == [f EXCEPT !.magic = "FDT"]
             g2 == [g1 EXCEPT !.offStrings = strings]
             g3 == [g2 EXCEPT !.struct = s]
             g4 == [g3 EXCEPT !.total = strings + f.sizeStrings]
  <2>1. g1 \in SwTrees
    BY <1>2 DEF SwTrees
  <2>2. g2 \in SwTrees
    <3> HIDE DEF g1
    <3> QED
      BY <1>6, <2>1 DEF SwTrees
  <2>3. g3 \in SwTrees
    <3> HIDE DEF g2
    <3> QED
      BY <1>7, <2>2 DEF SwTrees
  <2>4. g4 \in SwTrees
    <3> HIDE DEF g3
    <3> QED
      BY <1>6, <2>3 DEF SwTrees
  <2>5. g = g4
    BY <1>4, Zenon
  <2> QED
    BY <2>4, <2>5
<1>9. /\ g.magic = "FDT" /\ g.struct = s /\ g.strings = f.strings /\ g.offStrings = strings
      /\ g.offStruct = f.offStruct /\ g.total = strings + f.sizeStrings
      /\ g.reserved = f.reserved /\ g.sizeStruct = f.sizeStruct
      /\ g.sizeStrings = f.sizeStrings /\ g.offRsv = f.offRsv
  BY <1>2, <1>4 DEF SwTrees
<1>10. StructBytes(s) = StructBytes(f.struct)
  <2>1. [i \in 1..Len(s) |-> Bytes(s[i])] = [i \in 1..Len(f.struct) |-> Bytes(f.struct[i])]
    BY <1>5, <1>7
  <2> QED
    BY <2>1 DEF StructBytes
<1>11. SwBlocks(g)
  <2>1. g.sizeStruct = StructBytes(g.struct) /\ g.sizeStrings = StringBytes(g.strings)
    BY <1>1, <1>9, <1>10 DEF SwBlocks
  <2>2. g.offStruct + g.sizeStruct + g.sizeStrings <= g.total
    BY <1>2, <1>9 DEF strings
  <2> QED
    BY <1>1, <1>8, <1>9, <2>1, <2>2 DEF SwBlocks
<1>12. SwPhase(g)
  <2>1. ReserveBytes(g) = ReserveBytes(f)
    BY <1>9 DEF ReserveBytes
  <2>2. g.offStrings = g.offStruct + g.sizeStruct /\ g.total = DataSize(g)
    BY <1>9 DEF DataSize, strings
  <2> QED
    BY <1>3, <1>9, <2>1, <2>2 DEF SwPhase
<1>13. SwNamed(g)
  <2> SUFFICES ASSUME NEW j \in 1..Len(g.struct), IsTag(g, j, "PROP")
               PROVE  EndsAt(g, StringOf(g, g.struct[j]), g.struct[j].nameoff[2])
    BY DEF SwNamed
  <2> DEFINE t == f.struct[j]
  <2>1. t \in SwTags /\ g.struct[j] = Fixed(t) /\ j \in 1..Len(f.struct)
    BY <1>7, <1>9
  <2>2. t.tag = "PROP"
    BY <1>5, <2>1 DEF IsTag
  <2>3. EndsAt(f, StringOf(f, t), t.nameoff[2])
    BY <1>1, <2>1, <2>2 DEF SwNamed, IsTag
  <2> HIDE DEF t
  <2>4. Fixed(t).nameoff[1] = t.nameoff[1] + n /\ Fixed(t).nameoff[2] = t.nameoff[2]
    BY <1>5, <2>1, <2>2
  <2>5. t.nameoff[1] + n \in Int
    BY <1>2, <2>1, <2>2 DEF SwTags
  <2>6. StringOf(g, Fixed(t)) = StringOf(f, t)
    <3>1. StringOf(g, Fixed(t)) = t.nameoff[1] + n + 0
      BY <1>9, <2>4 DEF StringOf
    <3>2. StringOf(f, t) = t.nameoff[1] + n
      BY <1>1 DEF StringOf
    <3> HIDE DEF n
    <3> QED
      BY <2>5, <3>1, <3>2
  <2> QED
    BY <1>9, <2>1, <2>3, <2>4, <2>6 DEF EndsAt
<1>14. Written(g) = Written(f)
  <2>1. Meants(s) = Meants(f.struct)
    BY <1>5, <1>7 DEF Meants
  <2> QED
    BY <1>1, <1>2, <1>8, <1>9, <1>13, <2>1, WrittenIs
<1> QED
  BY <1>6, <1>9, <1>11, <1>12, <1>13, <1>14 DEF SwTree

(* fdt_resize: neither move writes over what the other has still to read.  *)
LEMMA ResizeIs ==
  ASSUME NEW f, SwTree(f), f.magic = "SW", f.total = place.size, place \in Buffers,
         NEW b \in Buffers, f.offStruct + f.sizeStruct + f.sizeStrings <= b.size,
         NEW g, g = ResizeInto(f, b)
  PROVE  /\ SwTree(g) /\ g.magic = "SW" /\ g.total = b.size /\ g.reserved = f.reserved
         /\ (g.offStrings = 0) = (f.offStrings = 0) /\ Written(g) = Written(f)
<1> DEFINE head == f.offStruct + f.sizeStruct
           tail == f.sizeStrings
           oldtail == place.at + f.total - tail
           newtail == b.at + b.size - tail
           headFirst == b.at <= place.at
           lost == IF headFirst THEN Meets(b.at, head, oldtail, tail)
                   ELSE Meets(newtail, tail, place.at, head)
           strings == IF f.offStrings = 0 THEN 0 ELSE b.size
<1>1. SwBlocks(f) /\ SwPhase(f) /\ SwNamed(f) /\ SwOwned(f)
  BY DEF SwTree
<1>2. /\ f \in SwTrees /\ f.offStruct \in Nat /\ f.sizeStruct \in Nat /\ f.sizeStrings \in Nat
      /\ f.total \in Nat /\ f.reserved \in Nat /\ SwHeader = 48 /\ f.offStrings \in Nat
      /\ f.strings \in Seq(Names) /\ f.struct \in Seq(SwTags)
  BY <1>1, SwTreeFields
<1>3. b.at \in Nat /\ b.size \in Nat /\ place.at \in Nat /\ place.size \in Nat
  BY SwNamesFit
<1>4. /\ head \in Nat /\ tail \in Nat /\ head + tail <= f.total /\ head + tail <= b.size
      /\ 48 <= head
  <2>1. SwHeader <= f.offStruct /\ f.offStruct + f.sizeStruct + f.sizeStrings <= f.total
    BY <1>1 DEF SwBlocks
  <2>2. head \in Nat /\ tail \in Nat /\ 48 <= head
    <3>1. \A a, c \in Nat : 48 <= a => 48 <= a + c /\ a + c \in Nat
      OBVIOUS
    <3>2. 48 <= f.offStruct
      BY <1>2, <2>1
    <3> QED
      BY <1>2, <3>1, <3>2
  <2> QED
    BY <2>1, <2>2
<1> HIDE DEF head, tail
<1>5. ~lost
  <2>1. CASE headFirst
    <3>2. \A a, h, t, p, n \in Nat : h + t <= n /\ a <= p => ~(p + n - t < a + h)
      OBVIOUS
    <3>1. ~(oldtail < b.at + head)
      BY <1>2, <1>3, <1>4, <2>1, <3>2
    <3> QED
      BY <2>1, <3>1 DEF Meets
  <2>2. CASE ~headFirst
    <3>2. \A a, h, t, p, n \in Nat : h + t <= n /\ ~(a <= p) => ~(a + n - t < p + h)
      OBVIOUS
    <3>1. ~(newtail < place.at + head)
      BY <1>3, <1>4, <2>2, <3>2
    <3> QED
      BY <2>2, <3>1 DEF Meets
  <2> QED
    BY <2>1, <2>2
<1>6. g = [f EXCEPT !.total = b.size, !.offStrings = strings]
  <2>1. g = [f EXCEPT !.total = b.size,
                      !.offStrings = IF @ = 0 THEN 0 ELSE b.size,
                      !.struct = IF lost /\ ~headFirst THEN Lost(@) ELSE @,
                      !.strings = IF lost /\ headFirst THEN LostNames(@) ELSE @]
    BY DEF ResizeInto, head, tail
  <2> HIDE DEF lost, headFirst
  <2> QED
    BY <1>2, <1>5, <2>1 DEF SwTrees
<1>7. strings \in Nat /\ b.size # 0 /\ strings \in {0, b.size} /\ (strings = 0 <=> f.offStrings = 0)
  BY <1>3, <1>4
<1> HIDE DEF strings
<1>8. g \in SwTrees
  BY <1>2, <1>3, <1>6, <1>7 DEF SwTrees
<1>9. /\ g.magic = "SW" /\ g.struct = f.struct /\ g.strings = f.strings /\ g.total = b.size
      /\ g.offStruct = f.offStruct /\ g.reserved = f.reserved /\ g.offStrings = strings
      /\ g.sizeStruct = f.sizeStruct /\ g.sizeStrings = f.sizeStrings /\ g.offRsv = f.offRsv
  BY <1>2, <1>6 DEF SwTrees
<1>10. SwBlocks(g)
  BY <1>1, <1>8, <1>9 DEF SwBlocks
<1>11. SwPhase(g)
  BY <1>1, <1>7, <1>9 DEF SwPhase, ReserveBytes
<1>12. SwNamed(g) /\ SwOwned(g)
  BY <1>1, <1>9 DEF SwNamed, SwOwned, EndsAt, StringOf, IsTag, FromEnd
<1>13. Written(g) = Written(f)
  BY <1>1, <1>2, <1>8, <1>9, <1>12, WrittenIs
<1> QED
  BY <1>7, <1>9, <1>10, <1>11, <1>12, <1>13 DEF SwTree

-----------------------------------------------------------------------------
(* Every call keeps the invariant and is a step of what the writer         *)
(* promises.                                                               *)
LEMMA SwAnswered ==
  ASSUME SwInv, sw # NoSw, NEW g, SwTree(g), g.total <= sw.total,
         g.magic = "SW" => sw.magic = "SW" /\ g.total = sw.total,
         sw' = g, swErr' = "none", UNCHANGED <<place, dedup>>
  PROVE  SwInv'
<1>1. /\ SwTree(sw) /\ sw.total <= place.size /\ place \in Buffers
      /\ sw.magic = "SW" => sw.total = place.size
  BY DEF SwInv
<1>2. sw.total \in Nat /\ g.total \in Nat /\ place.size \in Nat /\ SwBlocks(sw)
      /\ sw.magic \in {"SW", "FDT"}
  BY <1>1, SwTreeFields, SwNamesFit DEF SwTree
<1> QED
  BY <1>1, <1>2 DEF SwInv

(* A call that is refused leaves the writer and the document.              *)
LEMMA SwRefused ==
  ASSUME SwInv, NEW r, Refused(sw, r), Answer(r)
  PROVE  SwInv' /\ Document!Next
<1>1. sw' = sw /\ swErr' = r.err /\ place' = place /\ dedup' = dedup /\ sw # NoSw
  BY DEF Answer, Refused
<1>2. SwInv'
  BY <1>1 DEF SwInv, Refused
<1>3. Document!KeepAll
  BY <1>1 DEF Document!KeepAll, Written
<1> QED
  BY <1>2, <1>3 DEF Document!Next

(* A call that writes a tag appends it to the document.                    *)
LEMMA SwWrote ==
  ASSUME SwInv, NEW r, r.err = "none", NEW t, WroteTag(sw, r.fdt, t), Answer(r),
         \/ Meant(t) \in {BeginNode(name) : name \in SwNodeNames}
         \/ Meant(t) = EndNode
         \/ Meant(t) \in [tag : {"PROP"}, len : SwLens, name : SwPropNames]
  PROVE  SwInv' /\ Document!Next
<1> DEFINE g == r.fdt
<1>1. sw' = g /\ swErr' = "none" /\ place' = place /\ dedup' = dedup /\ sw # NoSw
  BY DEF Answer
<1>2. /\ SwTree(sw) /\ SwTree(g) /\ g.magic = "SW" /\ sw.magic = "SW" /\ g.total = sw.total
      /\ g.reserved = sw.reserved /\ g.offStrings = sw.offStrings
      /\ Written(g) = Append(Written(sw), Meant(t)) /\ sw.offStrings = sw.total
  BY <1>1 DEF WroteTag, InStruct, SwInv
<1> HIDE DEF g
<1>3. sw.total # 0 /\ g # NoSw /\ sw.total \in Nat
  <2>1. SwBlocks(sw) /\ SwBlocks(g)
    BY <1>2 DEF SwTree
  <2>2. /\ SwHeader <= sw.offStruct /\ sw.offStruct + sw.sizeStruct + sw.sizeStrings <= sw.total
        /\ SwHeader = 48 /\ sw.offStruct \in Nat /\ sw.sizeStruct \in Nat
        /\ sw.sizeStrings \in Nat /\ sw.total \in Nat
    BY <2>1, SwTreeFields DEF SwBlocks
  <2>3. sw.total # 0
    BY <2>2
  <2> QED
    BY <2>1, <2>2, <2>3, SwTreeFields
<1>4. SwInv'
  BY <1>1, <1>2, <1>3, SwAnswered
<1>5. Document!Write
  BY <1>1, <1>2, <1>3 DEF Document!Write
<1> QED
  BY <1>4, <1>5 DEF Document!Next

(* The calls that write a tag.                                             *)
LEMMA SwStepTags ==
  ASSUME SwInv, BeginANode \/ EndANode \/ PropertyPlaceholder
  PROVE  SwInv' /\ Document!Next
<1>1. CASE BeginANode
  <2>1. PICK name \in SwNodeNames : sw # NoSw /\ Answer(WriteTag(sw, BeginNode(name)))
    BY <1>1 DEF BeginANode
  <2> DEFINE r == WriteTag(sw, BeginNode(name))
  <2>2. BeginNode(name) \in SwTags /\ BeginNode(name).tag # "PROP"
        /\ Meant(BeginNode(name)) = BeginNode(name)
    BY SwNamesFit DEF BeginNode, SwTags, Meant
  <2>3. SwTree(sw) /\ Answer(r) /\ r = WriteTag(sw, BeginNode(name))
    BY <2>1 DEF SwInv
  <2> HIDE DEF r
  <2>4. Refused(sw, r) \/ (r.err = "none" /\ WroteTag(sw, r.fdt, BeginNode(name)))
    BY <2>2, <2>3, WriteTagIs
  <2> QED
    BY <2>2, <2>3, <2>4, SwRefused, SwWrote
<1>2. CASE EndANode
  <2> DEFINE r == WriteTag(sw, EndNode)
  <2>2. EndNode \in SwTags /\ EndNode.tag # "PROP" /\ Meant(EndNode) = EndNode
    BY DEF EndNode, SwTags, Meant
  <2>3. SwTree(sw) /\ Answer(r) /\ r = WriteTag(sw, EndNode)
    BY <1>2 DEF SwInv, EndANode
  <2> HIDE DEF r
  <2>4. Refused(sw, r) \/ (r.err = "none" /\ WroteTag(sw, r.fdt, EndNode))
    BY <2>2, <2>3, WriteTagIs
  <2> QED
    BY <2>2, <2>3, <2>4, SwRefused, SwWrote
<1>3. CASE PropertyPlaceholder
  <2>1. PICK name \in SwPropNames, len \in SwLens :
          sw # NoSw /\ Answer(SwProperty(sw, name, len))
    BY <1>3 DEF PropertyPlaceholder
  <2> DEFINE r == SwProperty(sw, name, len)
  <2>2. name \in Names /\ len \in Nat
    BY SwNamesFit
  <2>3. SwTree(sw) /\ Answer(r) /\ r = SwProperty(sw, name, len)
    BY <2>1 DEF SwInv
  <2> HIDE DEF r
  <2>4. \/ Refused(sw, r)
        \/ r.err = "none" /\ \E t : WroteTag(sw, r.fdt, t) /\ Meant(t) = PropRead(name, len)
    BY <2>2, <2>3, SwPropertyIs
  <2>5. CASE Refused(sw, r)
    BY <2>3, <2>5, SwRefused
  <2>6. CASE ~Refused(sw, r)
    <3>1. PICK t : WroteTag(sw, r.fdt, t) /\ Meant(t) = PropRead(name, len)
      BY <2>4, <2>6
    <3>2. Meant(t) \in [tag : {"PROP"}, len : SwLens, name : SwPropNames]
      BY <3>1 DEF PropRead
    <3> QED
      BY <2>3, <2>4, <2>6, <3>1, <3>2, SwWrote
  <2> QED
    BY <2>5, <2>6
<1> QED
  BY <1>1, <1>2, <1>3

(* The calls on the memory reservations.                                   *)
LEMMA SwStepReserve ==
  ASSUME SwInv, AddReservemapEntry \/ FinishReservemap
  PROVE  SwInv' /\ Document!Next
<1> DEFINE r == AddReserve(sw)
           h == r.fdt
<1>1. sw # NoSw
  BY DEF AddReservemapEntry, FinishReservemap, Answer
<1>2. SwTree(sw) /\ sw.total <= place.size
  BY <1>1 DEF SwInv
<1>3. CASE r.err # "none"
  <2>1. Answer(r)
    BY <1>3 DEF AddReservemapEntry, FinishReservemap
  <2>2. r = AddReserve(sw)
    OBVIOUS
  <2> HIDE DEF r
  <2>3. Refused(sw, r)
    BY <1>2, <1>3, <2>2, AddReserveIs
  <2> QED
    BY <2>1, <2>3, SwRefused
<1>4. CASE r.err = "none"
  <2>1. r = AddReserve(sw) /\ h = r.fdt
    OBVIOUS
  <2>2. CASE AddReservemapEntry
    <3> DEFINE g == [h EXCEPT !.reserved = @ + 1]
    <3>1. Answer(Done(g)) /\ sw.reserved < MaxReserves
      BY <1>4, <2>2 DEF AddReservemapEntry
    <3>2. sw' = g /\ swErr' = "none" /\ place' = place /\ dedup' = dedup
      BY <3>1 DEF Answer, Done
    <3>3. InMemrsv(sw) /\ sw.offStruct + 16 <= sw.total /\ h = [sw EXCEPT !.offStruct = @ + 16]
      <4> HIDE DEF r, h
      <4> QED
        BY <1>2, <1>4, <2>1, AddReserveIs DEF Refused
    <3>4. sw \in SwTrees /\ sw.reserved \in Nat /\ MaxReserves \in Nat
          /\ sw.total \in Nat /\ sw.offStrings = 0 /\ sw.magic = "SW"
      BY <1>2, <3>3, SwTreeFields, SwNamesFit DEF SwTree, InMemrsv
    <3>5. g = WithEntry(sw, sw.reserved + 1, 0)
      <4> HIDE DEF r, h
      <4>1. [sw EXCEPT !.offStrings = 0] = sw /\ h.reserved = sw.reserved
        BY <3>3, <3>4 DEF SwTrees
      <4> QED
        BY <3>3, <4>1 DEF WithEntry
    <3> HIDE DEF g, r, h
    <3>6. sw.reserved + 1 \in 0..MaxReserves
      BY <3>1, <3>4
    <3>7. /\ SwTree(g) /\ g.magic = "SW" /\ g.total = sw.total /\ g.reserved = sw.reserved + 1
          /\ g.offStrings = 0 /\ Written(g) = Written(sw)
      BY <1>2, <3>3, <3>5, <3>6, ReservedTree
    <3>8. SwInv'
      BY <1>1, <3>2, <3>4, <3>7, SwAnswered
    <3>9. g # NoSw
      BY <3>7, SwTreeFields DEF SwTree
    <3>10. Document!Reserve
      BY <1>1, <3>2, <3>4, <3>7, <3>9 DEF Document!Reserve
    <3> QED
      BY <3>8, <3>10 DEF Document!Next
  <2>3. CASE FinishReservemap
    <3> DEFINE g == [h EXCEPT !.offStrings = h.total]
    <3>1. Answer(Done(g))
      BY <1>4, <2>3 DEF FinishReservemap
    <3>2. sw' = g /\ swErr' = "none" /\ place' = place /\ dedup' = dedup
      BY <3>1 DEF Answer, Done
    <3>3. InMemrsv(sw) /\ sw.offStruct + 16 <= sw.total /\ h = [sw EXCEPT !.offStruct = @ + 16]
      <4> HIDE DEF r, h
      <4> QED
        BY <1>2, <1>4, <2>1, AddReserveIs DEF Refused
    <3>4. sw \in SwTrees /\ sw.reserved \in 0..MaxReserves /\ sw.offStruct \in Nat
          /\ sw.total \in Nat /\ sw.offStrings = 0 /\ sw.magic = "SW"
      BY <1>2, <3>3, SwTreeFields DEF SwTree, SwBlocks, InMemrsv
    <3>5. g = WithEntry(sw, sw.reserved, sw.total)
      <4> HIDE DEF r, h
      <4> QED
        BY <3>3, <3>4 DEF SwTrees, WithEntry
    <3>6. sw.total # 0
      BY <3>3, <3>4
    <3> HIDE DEF g, r, h
    <3>7. /\ SwTree(g) /\ g.magic = "SW" /\ g.total = sw.total /\ g.reserved = sw.reserved
          /\ g.offStrings = sw.total /\ Written(g) = Written(sw)
      BY <1>2, <3>3, <3>4, <3>5, <3>6, ReservedTree
    <3>8. SwInv'
      BY <1>1, <3>2, <3>4, <3>7, SwAnswered
    <3>9. g # NoSw
      BY <3>7, SwTreeFields DEF SwTree
    <3>10. Document!BeginTags
      BY <1>1, <3>2, <3>4, <3>6, <3>7, <3>9 DEF Document!BeginTags
    <3> QED
      BY <3>8, <3>10 DEF Document!Next
  <2> QED
    BY <2>2, <2>3
<1> QED
  BY <1>3, <1>4

(* fdt_finish.                                                             *)
LEMMA SwStepFinish ==
  ASSUME SwInv, SwFinish
  PROVE  SwInv' /\ Document!Next
<1> DEFINE r == WriteTag(sw, End)
           h == r.fdt
           g == Joined(h)
<1>1. sw # NoSw
  BY DEF SwFinish, Answer
<1>2. SwTree(sw) /\ sw.total <= place.size
  BY <1>1 DEF SwInv
<1>3. End \in SwTags /\ End.tag # "PROP" /\ Meant(End) = End /\ End = [tag |-> "END"]
  BY DEF End, SwTags, Meant
<1>4. r = WriteTag(sw, End) /\ h = r.fdt /\ g = Joined(h)
      /\ Answer(IF r.err = "none" THEN Done(g) ELSE r)
  BY DEF SwFinish
<1> HIDE DEF r, h, g
<1>5. Refused(sw, r) \/ (r.err = "none" /\ WroteTag(sw, h, End))
  BY <1>2, <1>3, <1>4, WriteTagIs
<1>6. CASE Refused(sw, r)
  <2>1. Answer(r)
    BY <1>4, <1>6 DEF Refused
  <2> QED
    BY <1>6, <2>1, SwRefused
<1>7. CASE r.err = "none" /\ WroteTag(sw, h, End)
  <2>1. sw' = g /\ swErr' = "none" /\ place' = place /\ dedup' = dedup
    BY <1>4, <1>7 DEF Answer, Done
  <2>2. /\ InStruct(sw) /\ SwTree(h) /\ h.magic = "SW" /\ h.total = sw.total
        /\ h.offStrings = sw.offStrings /\ h.reserved = sw.reserved
        /\ Written(h) = Append(Written(sw), End)
    BY <1>3, <1>7 DEF WroteTag
  <2>3. InStruct(h)
    BY <2>2 DEF InStruct
  <2>4. /\ SwTree(g) /\ g.magic = "FDT" /\ g.total <= sw.total /\ g.reserved = sw.reserved
        /\ Written(g) = Append(Written(sw), End)
    BY <1>4, <2>2, <2>3, JoinedIs
  <2>5. SwInv'
    BY <1>1, <2>1, <2>4, SwAnswered
  <2>6. sw.total # 0 /\ g # NoSw /\ sw.magic = "SW" /\ sw.offStrings = sw.total
    <3>1. /\ SwHeader <= sw.offStruct /\ sw.offStruct + sw.sizeStruct + sw.sizeStrings <= sw.total
          /\ SwHeader = 48 /\ sw.offStruct \in Nat /\ sw.sizeStruct \in Nat
          /\ sw.sizeStrings \in Nat /\ sw.total \in Nat
      BY <1>2, SwTreeFields DEF SwTree, SwBlocks
    <3>2. sw.total # 0
      BY <3>1
    <3> QED
      BY <2>2, <2>4, <3>2, SwTreeFields DEF SwTree, InStruct
  <2>7. Document!Complete
    BY <1>1, <1>3, <2>1, <2>4, <2>6 DEF Document!Complete
  <2> QED
    BY <2>5, <2>7 DEF Document!Next
<1> QED
  BY <1>5, <1>6, <1>7

(* fdt_resize.                                                             *)
LEMMA SwStepResize ==
  ASSUME SwInv, Resize
  PROVE  SwInv' /\ Document!Next
<1>1. PICK b \in Buffers :
        /\ sw # NoSw /\ sw.magic = "SW"
        /\ IF sw.offStruct + sw.sizeStruct + sw.sizeStrings > b.size
             THEN Answer(Fails("NOSPACE", sw))
           ELSE sw' = ResizeInto(sw, b) /\ place' = b /\ swErr' = "none" /\ UNCHANGED dedup
  BY DEF Resize
<1>2. SwTree(sw) /\ sw.total = place.size /\ place \in Buffers
  BY <1>1 DEF SwInv
<1>3. CASE sw.offStruct + sw.sizeStruct + sw.sizeStrings > b.size
  <2> DEFINE r == Fails("NOSPACE", sw)
  <2>1. Refused(sw, r) /\ Answer(r)
    BY <1>1, <1>3 DEF Refused, Fails
  <2> HIDE DEF r
  <2> QED
    BY <2>1, SwRefused
<1>4. CASE ~(sw.offStruct + sw.sizeStruct + sw.sizeStrings > b.size)
  <2> DEFINE g == ResizeInto(sw, b)
  <2>1. sw' = g /\ place' = b /\ swErr' = "none" /\ dedup' = dedup
    BY <1>1, <1>4
  <2>2. sw.offStruct + sw.sizeStruct + sw.sizeStrings <= b.size /\ b.size \in Nat
    <3>1. /\ sw.offStruct \in Nat /\ sw.sizeStruct \in Nat /\ sw.sizeStrings \in Nat
          /\ b.size \in Nat
      BY <1>2, SwTreeFields, SwNamesFit DEF SwTree
    <3> QED
      BY <1>4, <3>1
  <2>3. /\ SwTree(g) /\ g.magic = "SW" /\ g.total = b.size /\ g.reserved = sw.reserved
        /\ (g.offStrings = 0) = (sw.offStrings = 0) /\ Written(g) = Written(sw)
    BY <1>1, <1>2, <2>2, ResizeIs
  <2> HIDE DEF g
  <2>4. SwInv'
    BY <2>1, <2>2, <2>3 DEF SwInv
  <2>5. g # NoSw
    BY <2>3, SwTreeFields DEF SwTree
  <2>6. Document!KeepAll
    BY <1>1, <2>1, <2>3, <2>5 DEF Document!KeepAll
  <2> QED
    BY <2>4, <2>6 DEF Document!Next
<1> QED
  BY <1>3, <1>4

(* Every call keeps the invariant of the writer and is a step, or none, of *)
(* the document.                                                           *)
LEMMA SwStep ==
  ASSUME SwInv, [SwNext]_swVars
  PROVE  SwInv' /\ [Document!Next]_(Document!vars)
<1>1. CASE SwNext
  BY <1>1, SwStepTags, SwStepReserve, SwStepFinish, SwStepResize DEF SwNext
<1>2. CASE UNCHANGED swVars
  <2>1. sw' = sw /\ place' = place /\ dedup' = dedup /\ swErr' = swErr
    BY <1>2 DEF swVars
  <2> QED
    BY <2>1 DEF SwInv, Document!vars, Written
<1> QED
  BY <1>1, <1>2

(* The writer begins with an empty document.                               *)
LEMMA SwStart == SwInit => SwInv /\ Document!Init
<1> SUFFICES ASSUME SwInit PROVE SwInv /\ Document!Init
  OBVIOUS
<1>1. place \in Buffers /\ dedup \in BOOLEAN /\ place.size \in Nat /\ MaxReserves \in Nat
  BY SwNamesFit DEF SwInit
<1>2. CASE sw = NoSw
  <2>1. swErr \in {"none", "NOSPACE"}
    BY DEF SwInit
  <2> QED
    BY <1>1, <1>2, <2>1 DEF SwInv, Document!Init
<1>3. CASE sw # NoSw
  <2> DEFINE g == SwCreated(place.size)
  <2>1. sw = g /\ swErr = "none" /\ ~(place.size < SwHeader)
    BY <1>3 DEF SwInit
  <2>2. SwHeader = 48
    <3>1. HeaderSize \in Int /\ ReserveEntrySize \in Nat \ {0}
      BY DEF HeaderSize, ReserveEntrySize
    <3>2. /\ HeaderSize % ReserveEntrySize # 0
              => SwHeader = HeaderSize + (ReserveEntrySize - (HeaderSize % ReserveEntrySize))
      BY <3>1, RoundUpIs, Zenon DEF SwHeader
    <3>3. HeaderSize % ReserveEntrySize = 8
      BY DEF HeaderSize, ReserveEntrySize
    <3> QED
      BY <3>2, <3>3 DEF HeaderSize, ReserveEntrySize
  <2>3. g \in SwTrees
    BY <1>1, <2>2 DEF SwCreated, SwTrees
  <2>4. /\ g.magic = "SW" /\ g.reserved = 0 /\ g.struct = <<>> /\ g.strings = <<>>
        /\ g.offRsv = SwHeader /\ g.offStruct = SwHeader /\ g.offStrings = 0
        /\ g.sizeStruct = 0 /\ g.sizeStrings = 0 /\ g.total = place.size
    BY DEF SwCreated
  <2> HIDE DEF g
  <2>5. SwBlocks(g)
    BY <1>1, <2>1, <2>2, <2>3, <2>4, NothingIsEmpty DEF SwBlocks
  <2>6. SwPhase(g) /\ SwNamed(g) /\ SwOwned(g)
    BY <2>2, <2>4 DEF SwPhase, SwNamed, SwOwned
  <2>7. SwInv
    BY <1>1, <2>1, <2>4, <2>5, <2>6 DEF SwInv, SwTree
  <2>8. Written(g) = <<>>
    <3>1. Written(g) = Meants(<<>>)
      BY <2>3, <2>4, <2>6, WrittenIs
    <3> QED
      BY <3>1 DEF Meants
  <2> QED
    BY <1>3, <2>1, <2>4, <2>7, <2>8 DEF Document!Init
<1> QED
  BY <1>2, <1>3

(* However the calls of the sequential writer and its moves to another     *)
(* buffer follow one another: the structure block and the names never      *)
(* meet, no name is without a property, and fdt_finish leaves a sound tree. *)
THEOREM WriterSoundHolds == SwBehaviour => []WriterSound
<1>1. SwInv => WriterSound
  <2> SUFFICES ASSUME SwInv PROVE WriterSound
    OBVIOUS
  <2>1. CASE sw = NoSw
    BY <2>1 DEF SwInv, WriterSound, SwTypeOK, BlocksApart, FinishedSound, SwNoOrphans
  <2>2. CASE sw # NoSw
    <3>1. /\ SwBlocks(sw) /\ SwPhase(sw) /\ (sw.magic = "SW" => SwOwned(sw))
          /\ sw.total <= place.size
      BY <2>2 DEF SwInv, SwTree
    <3>2. /\ sw.offStruct \in Nat /\ sw.sizeStruct \in Nat /\ sw.sizeStrings \in Nat
          /\ sw.total \in Nat /\ sw.reserved \in Nat /\ SwHeader = 48
          /\ ReserveBytes(sw) = 16 * sw.reserved + 16
      BY <3>1, SwTreeFields
    <3>3. sw.offStruct + sw.sizeStruct + sw.sizeStrings <= sw.total
      BY <3>1 DEF SwBlocks
    <3>4. SwTypeOK
      BY <3>1 DEF SwInv, SwTypeOK, SwBlocks
    <3>5. BlocksApart
      BY <3>2, <3>3 DEF BlocksApart
    <3>6. FinishedSound
      <4> SUFFICES ASSUME sw.magic = "FDT" PROVE Sound(sw) /\ sw.total = DataSize(sw)
        BY DEF FinishedSound
      <4>1. /\ sw.offStruct = SwHeader + ReserveBytes(sw)
            /\ sw.offStrings = sw.offStruct + sw.sizeStruct /\ sw.total = DataSize(sw)
        BY <3>1 DEF SwPhase
      <4>2. sw.sizeStruct = StructBytes(sw.struct) /\ sw.sizeStrings = StringBytes(sw.strings)
            /\ sw.offRsv = SwHeader
        BY <3>1 DEF SwBlocks
      <4>3. /\ ~(sw.offRsv < HeaderSize) /\ ~(sw.offStruct < sw.offRsv + ReserveBytes(sw))
            /\ ~(sw.offStrings < sw.offStruct + StructBytes(sw.struct))
            /\ ~(sw.total < DataSize(sw))
        BY <3>2, <4>1, <4>2 DEF HeaderSize
      <4> QED
        BY <4>1, <4>2, <4>3 DEF Sound, Misordered
    <3>7. SwNoOrphans
      BY <3>1 DEF SwNoOrphans, SwOwned
    <3> QED
      BY <3>4, <3>5, <3>6, <3>7 DEF WriterSound
  <2> QED
    BY <2>1, <2>2
<1> QED
  BY <1>1, SwStart, SwStep, PTL DEF SwBehaviour

(* The writer only appends: a call in its state adds the tag it was given, *)
(* and a refused call, a move and the fix-ups of fdt_finish leave what was *)
(* written as a reader will find it.                                       *)
THEOREM WriterAppends == SwBehaviour => SwSpec
<1>1. SwInv /\ [SwNext]_swVars => SwInv' /\ [Document!Next]_(Document!vars)
  BY SwStep
<1> QED
  BY <1>1, SwStart, PTL DEF SwBehaviour, SwSpec, Document!Spec

-----------------------------------------------------------------------------
(* The paths of the nodes, from the beginning of the structure block on.   *)
IsPaths(f, u) ==
  u = [i \in 0..Len(f.struct) |-> IF i = 0 THEN <<>> ELSE EnterTag(u[i - 1], f.struct[i])]

PathsOf(f) == CHOOSE u : IsPaths(f, u)

(* A path is a sequence of names, whatever tag is behind it.               *)
LEMMA EnterTagIs ==
  ASSUME NEW V, NEW t \in TagsOf(V), NEW p \in Seq(Names)
  PROVE  EnterTag(p, t) \in Seq(Names)
<1>1. CASE t.tag = "BEGIN_NODE"
  <2>1. t.name \in Names
    BY <1>1 DEF TagsOf
  <2> QED
    BY <1>1, <2>1 DEF EnterTag
<1>2. CASE t.tag = "END_NODE"
  <2>1. Front(p) \in Seq(Names)
    <3>1. Len(p) \in Nat
      OBVIOUS
    <3> QED
      BY <3>1 DEF Front
  <2> QED
    BY <1>2, <2>1 DEF EnterTag
<1>3. CASE t.tag \notin {"BEGIN_NODE", "END_NODE"}
  BY <1>3 DEF EnterTag
<1> QED
  BY <1>1, <1>2, <1>3

(* The recursion that follows the nodes has a solution.                    *)
LEMMA PathsExist ==
  ASSUME NEW V, NEW f \in TreesOf(V)
  PROVE  \E u : IsPaths(f, u) /\ u \in [0..Len(f.struct) -> Seq(Names)]
<1> DEFINE N == Len(f.struct)
           S == Seq(Names)
           step == [i \in 1..N |-> [p \in S |-> EnterTag(p, f.struct[i])]]
<1>1. N \in Nat /\ <<>> \in S
  BY TreeFields
<1>2. step \in [1..N -> [S -> S]]
  <2>1. ASSUME NEW i \in 1..N, NEW p \in S PROVE EnterTag(p, f.struct[i]) \in S
    <3>1. f.struct[i] \in TagsOf(V)
      BY TreeFields
    <3> QED
      BY <3>1, EnterTagIs
  <2> HIDE DEF S
  <2> QED
    BY <2>1
<1>3. ASSUME NEW i \in 1..N, NEW p \in S PROVE step[i][p] = EnterTag(p, f.struct[i])
  <2> HIDE DEF S
  <2> QED
    OBVIOUS
<1> HIDE DEF step
<1>4. PICK u : Recurs(u, N, S, <<>>, step)
  <2> HIDE DEF S, N
  <2> QED
    BY <1>1, <1>2, RecursionExists
<1>5. u \in [0..N -> S] /\ u[0] = <<>> /\ \A i \in 1..N : u[i] = step[i][u[i - 1]]
  BY <1>4 DEF Recurs
<1>6. ASSUME NEW i \in 0..N
      PROVE  u[i] = IF i = 0 THEN <<>> ELSE EnterTag(u[i - 1], f.struct[i])
  <2>1. CASE i # 0
    <3>1. i \in 1..N /\ i - 1 \in 0..N
      BY <1>1, <2>1
    <3> HIDE DEF S
    <3>2. u[i - 1] \in S
      BY <1>5, <3>1
    <3> QED
      BY <1>3, <1>5, <2>1, <3>1, <3>2
  <2> QED
    BY <1>5, <2>1
<1> DEFINE v == [i \in 0..N |-> u[i]]
<1>7. u = v
  BY <1>5
<1>8. IsPaths(f, u)
  BY <1>6, <1>7 DEF IsPaths
<1> QED
  BY <1>5, <1>8

(* The path of a tag is the one of the tag in front of it, entered or left. *)
LEMMA PathIs ==
  ASSUME NEW V, NEW f \in TreesOf(V)
  PROVE  /\ PathOf(f, 0) = <<>> /\ \A i \in 0..Len(f.struct) : PathOf(f, i) \in Seq(Names)
         /\ \A i \in 1..Len(f.struct) :
              PathOf(f, i) = EnterTag(PathOf(f, i - 1), f.struct[i])
<1> DEFINE N == Len(f.struct)
           u == PathsOf(f)
<1>1. IsPaths(f, u)
  BY PathsExist DEF PathsOf
<1>2. \A j : PathOf(f, j) = u[j]
  BY DEF PathOf, PathsOf, IsPaths
<1>3. N \in Nat
  BY TreeFields
<1> HIDE DEF u
<1>4. \A i \in 0..N : u[i] = IF i = 0 THEN <<>> ELSE EnterTag(u[i - 1], f.struct[i])
  BY <1>1 DEF IsPaths
<1> HIDE DEF N
<1>5. u[0] = <<>> /\ \A i \in 1..N : u[i] = EnterTag(u[i - 1], f.struct[i])
  BY <1>3, <1>4
<1>6. \A i \in 0..N : u[i] \in Seq(Names)
  <2> DEFINE T == {i \in 0..N : u[i] \in Seq(Names)}
  <2>1. 0 \in T
    <3>1. 0 \in 0..N /\ u[0] \in Seq(Names)
      BY <1>3, <1>5
    <3> QED
      BY <3>1
  <2>2. ASSUME NEW i \in 0..(N - 1), i \in T PROVE i + 1 \in T
    <3>1. i + 1 \in 1..N /\ i + 1 \in 0..N /\ (i + 1) - 1 = i
      BY <1>3
    <3>2. f.struct[i + 1] \in TagsOf(V)
      BY <3>1, TreeFields DEF N
    <3>3. u[i] \in Seq(Names)
      BY <2>2
    <3>4. EnterTag(u[i], f.struct[i + 1]) \in Seq(Names)
      BY <3>2, <3>3, EnterTagIs
    <3>5. u[i + 1] = EnterTag(u[i], f.struct[i + 1])
      BY <1>5, <3>1
    <3> QED
      BY <3>1, <3>4, <3>5
  <2> HIDE DEF T
  <2>3. \A i \in 0..N : i \in T
    BY <1>3, <2>1, <2>2, AllUpTo
  <2> QED
    BY <2>3 DEF T
<1> QED
  BY <1>2, <1>5, <1>6 DEF N

-----------------------------------------------------------------------------
(* What a reader sees of a tag: its kind, the name of the node, the name   *)
(* of the property, and the value unless that is what is changed.          *)
Alike(f, g, i, k, c) ==
  /\ g.struct[k].tag = f.struct[i].tag
  /\ IsTag(f, i, "BEGIN_NODE") => g.struct[k].name = f.struct[i].name
  /\ IsTag(f, i, "PROP") => SpelledAt(g, g.struct[k].nameoff) = SpelledAt(f, f.struct[i].nameoff)
  /\ IsTag(f, i, "PROP") /\ i # c => g.struct[k].value = f.struct[i].value

(* The tags up to a are in both trees, and those behind it as well, d tags *)
(* farther behind.                                                         *)
Moves(f, g, a, d, c) ==
  /\ a \in 1..Len(f.struct) /\ d \in Nat
  /\ Len(g.struct) \in Nat /\ Len(g.struct) = Len(f.struct) + d
  /\ \A i \in 1..a : Alike(f, g, i, i, c)
  /\ \A i \in (a + 1)..Len(f.struct) : Alike(f, g, i, i + d, c)

(* Tags that are alike enter and leave the same node.                      *)
LEMMA EnterAlike ==
  ASSUME NEW f, NEW g, NEW i, NEW k, NEW c, Alike(f, g, i, k, c), NEW p
  PROVE  EnterTag(p, g.struct[k]) = EnterTag(p, f.struct[i])
BY DEF EnterTag, Alike, IsTag

(* In front of the place the paths are the same,                           *)
LEMMA PathsInFront ==
  ASSUME NEW V, NEW W, NEW f \in TreesOf(V), NEW g \in TreesOf(W), NEW a, NEW d, NEW c,
         Moves(f, g, a, d, c)
  PROVE  \A i \in 0..a : PathOf(g, i) = PathOf(f, i)
<1>1. /\ PathOf(f, 0) = <<>> /\ PathOf(g, 0) = <<>>
      /\ \A i \in 1..Len(f.struct) : PathOf(f, i) = EnterTag(PathOf(f, i - 1), f.struct[i])
      /\ \A i \in 1..Len(g.struct) : PathOf(g, i) = EnterTag(PathOf(g, i - 1), g.struct[i])
  BY PathIs
<1>2. a \in Nat /\ 1 <= a /\ a <= Len(f.struct) /\ a <= Len(g.struct)
      /\ Len(f.struct) \in Nat /\ Len(g.struct) \in Nat
  BY TreeFields DEF Moves
<1> DEFINE T == {i \in 0..a : PathOf(g, i) = PathOf(f, i)}
<1>3. 0 \in T
  BY <1>1, <1>2
<1>4. ASSUME NEW i \in 0..(a - 1), i \in T PROVE i + 1 \in T
  <2>1. i + 1 \in 1..a /\ (i + 1) - 1 = i /\ i + 1 \in 0..a
        /\ i + 1 \in 1..Len(f.struct) /\ i + 1 \in 1..Len(g.struct)
    BY <1>2
  <2>2. Alike(f, g, i + 1, i + 1, c)
    BY <2>1 DEF Moves
  <2>3. PathOf(g, i) = PathOf(f, i)
    BY <1>4
  <2>4. PathOf(f, i + 1) = EnterTag(PathOf(f, i), f.struct[i + 1])
        /\ PathOf(g, i + 1) = EnterTag(PathOf(g, i), g.struct[i + 1])
    BY <1>1, <2>1
  <2>5. PathOf(g, i + 1) = PathOf(f, i + 1)
    BY <2>2, <2>3, <2>4, EnterAlike
  <2> QED
    BY <2>1, <2>5
<1> HIDE DEF T
<1>5. \A i \in 0..a : i \in T
  BY <1>2, <1>3, <1>4, AllUpTo
<1> QED
  BY <1>5 DEF T

(* and behind it, when what is put there leaves the node it is in.         *)
LEMMA PathsBehind ==
  ASSUME NEW V, NEW W, NEW f \in TreesOf(V), NEW g \in TreesOf(W), NEW a, NEW d, NEW c,
         Moves(f, g, a, d, c), PathOf(g, a + d) = PathOf(f, a)
  PROVE  \A i \in a..Len(f.struct) : PathOf(g, i + d) = PathOf(f, i)
<1>1. /\ \A i \in 1..Len(f.struct) : PathOf(f, i) = EnterTag(PathOf(f, i - 1), f.struct[i])
      /\ \A i \in 1..Len(g.struct) : PathOf(g, i) = EnterTag(PathOf(g, i - 1), g.struct[i])
  BY PathIs
<1>2. a \in Nat /\ 1 <= a /\ a <= Len(f.struct) /\ d \in Nat
      /\ Len(f.struct) \in Nat /\ Len(g.struct) = Len(f.struct) + d
  BY TreeFields DEF Moves
<1> DEFINE N == Len(f.struct) - a
           T == {n \in 0..N : PathOf(g, (a + n) + d) = PathOf(f, a + n)}
<1>3. 0 \in T
  <2>1. a + 0 = a /\ 0 \in 0..N
    BY <1>2
  <2> QED
    BY <2>1
<1>4. ASSUME NEW n \in 0..(N - 1), n \in T PROVE n + 1 \in T
  <2> DEFINE i == (a + n) + 1
             k == ((a + n) + d) + 1
  <2>1. n + 1 \in 0..N /\ a + (n + 1) = i /\ i + d = k
    BY <1>2
  <2>2. i \in (a + 1)..Len(f.struct) /\ i \in 1..Len(f.struct) /\ i - 1 = a + n
    BY <1>2
  <2>3. k \in 1..Len(g.struct) /\ k - 1 = (a + n) + d
    BY <1>2
  <2> HIDE DEF i, k
  <2>4. Alike(f, g, i, k, c)
    BY <2>1, <2>2 DEF Moves
  <2>5. PathOf(g, (a + n) + d) = PathOf(f, a + n)
    BY <1>4
  <2>6. PathOf(f, i) = EnterTag(PathOf(f, a + n), f.struct[i])
        /\ PathOf(g, k) = EnterTag(PathOf(g, (a + n) + d), g.struct[k])
    BY <1>1, <2>2, <2>3
  <2>7. PathOf(g, k) = PathOf(f, i)
    BY <2>4, <2>5, <2>6, EnterAlike
  <2>8. PathOf(g, (a + (n + 1)) + d) = PathOf(f, a + (n + 1))
    BY <2>1, <2>7
  <2> QED
    BY <2>1, <2>8
<1>5. N \in Nat
  BY <1>2
<1> HIDE DEF T, N
<1>6. \A n \in 0..N : n \in T
  BY <1>3, <1>4, <1>5, AllUpTo
<1>7. ASSUME NEW i \in a..Len(f.struct) PROVE PathOf(g, i + d) = PathOf(f, i)
  <2>1. i - a \in 0..N /\ a + (i - a) = i
    BY <1>2 DEF N
  <2>2. i - a \in T
    BY <1>6, <2>1
  <2>3. PathOf(g, (a + (i - a)) + d) = PathOf(f, a + (i - a))
    BY <2>2 DEF T
  <2> QED
    BY <2>1, <2>3
<1> QED
  BY <1>7

(* Tags that are alike are properties, and named, alike.                   *)
LEMMA NamedAlike ==
  ASSUME NEW f, NEW g, NEW i, NEW k, NEW c, Alike(f, g, i, k, c), NEW name
  PROVE  /\ IsProperty(g, k) <=> IsProperty(f, i)
         /\ IsNamed(g, k, name) <=> IsNamed(f, i, name)
         /\ IsTag(g, k, "BEGIN_NODE") <=> IsTag(f, i, "BEGIN_NODE")
<1>1. g.struct[k].tag = f.struct[i].tag
  BY DEF Alike
<1>2. IsProperty(g, k) <=> IsProperty(f, i)
  BY <1>1 DEF IsProperty
<1>3. IsTag(f, i, "PROP") => SpelledAt(g, g.struct[k].nameoff) = SpelledAt(f, f.struct[i].nameoff)
  BY DEF Alike
<1>4. IsNamed(g, k, name) <=> IsNamed(f, i, name)
  BY <1>1, <1>3 DEF IsNamed, IsTag
<1> QED
  BY <1>1, <1>2, <1>4 DEF IsTag

-----------------------------------------------------------------------------
(* The first property of a name is the same one in front of the place,     *)
LEMMA FirstInFront ==
  ASSUME NEW f, NEW g, NEW a, NEW d, NEW c, Moves(f, g, a, d, c), Len(f.struct) \in Nat,
         NEW m \in 1..a, NEW name, NEW i \in 1..a
  PROVE  FirstNamed(g, m, name, i) <=> FirstNamed(f, m, name, i)
<1>1. a \in Nat /\ a <= Len(f.struct) /\ a <= Len(g.struct) /\ Len(g.struct) \in Nat
  BY DEF Moves
<1>2. \A l \in 1..a : /\ IsProperty(g, l) <=> IsProperty(f, l)
                      /\ IsNamed(g, l, name) <=> IsNamed(f, l, name)
  <2>1. ASSUME NEW l \in 1..a
        PROVE  /\ IsProperty(g, l) <=> IsProperty(f, l)
               /\ IsNamed(g, l, name) <=> IsNamed(f, l, name)
    <3>1. Alike(f, g, l, l, c)
      BY DEF Moves
    <3> QED
      BY <3>1, NamedAlike
  <2> QED
    BY <2>1
<1>3. i \in (m + 1)..Len(g.struct) <=> i \in (m + 1)..Len(f.struct)
  BY <1>1
<1>4. \A l \in (m + 1)..(i - 1) : l \in 1..a
  BY <1>1
<1>5. IsNamed(g, i, name) <=> IsNamed(f, i, name)
  BY <1>2
<1>6. (\A l \in (m + 1)..(i - 1) : IsProperty(g, l) /\ ~IsNamed(g, l, name))
        <=> (\A l \in (m + 1)..(i - 1) : IsProperty(f, l) /\ ~IsNamed(f, l, name))
  BY <1>2, <1>4
<1> QED
  BY <1>3, <1>5, <1>6 DEF FirstNamed

(* and behind it.                                                          *)
LEMMA FirstBehind ==
  ASSUME NEW f, NEW g, NEW a, NEW d, NEW c, Moves(f, g, a, d, c), Len(f.struct) \in Nat,
         NEW m \in (a + 1)..Len(f.struct), NEW name, NEW i \in (a + 1)..Len(f.struct)
  PROVE  FirstNamed(g, m + d, name, i + d) <=> FirstNamed(f, m, name, i)
<1>1. a \in Nat /\ d \in Nat /\ a <= Len(f.struct) /\ Len(g.struct) = Len(f.struct) + d
  BY DEF Moves
<1>2. \A l \in (a + 1)..Len(f.struct) :
         /\ IsProperty(g, l + d) <=> IsProperty(f, l)
         /\ IsNamed(g, l + d, name) <=> IsNamed(f, l, name)
  <2>1. ASSUME NEW l \in (a + 1)..Len(f.struct)
        PROVE  /\ IsProperty(g, l + d) <=> IsProperty(f, l)
               /\ IsNamed(g, l + d, name) <=> IsNamed(f, l, name)
    <3>1. Alike(f, g, l, l + d, c)
      BY DEF Moves
    <3> QED
      BY <3>1, NamedAlike
  <2> QED
    BY <2>1
<1>3. i + d \in ((m + d) + 1)..Len(g.struct) <=> i \in (m + 1)..Len(f.struct)
  BY <1>1
<1>4. IsNamed(g, i + d, name) <=> IsNamed(f, i, name)
  BY <1>2
<1>5. ASSUME NEW l \in (m + 1)..(i - 1)
      PROVE  l \in (a + 1)..Len(f.struct) /\ l + d \in ((m + d) + 1)..((i + d) - 1)
  BY <1>1
<1>6. ASSUME NEW k \in ((m + d) + 1)..((i + d) - 1)
      PROVE  k - d \in (m + 1)..(i - 1) /\ (k - d) + d = k /\ k - d \in (a + 1)..Len(f.struct)
  BY <1>1
<1>7. (\A k \in ((m + d) + 1)..((i + d) - 1) : IsProperty(g, k) /\ ~IsNamed(g, k, name))
        <=> (\A l \in (m + 1)..(i - 1) : IsProperty(f, l) /\ ~IsNamed(f, l, name))
  <2>1. ASSUME \A k \in ((m + d) + 1)..((i + d) - 1) : IsProperty(g, k) /\ ~IsNamed(g, k, name),
               NEW l \in (m + 1)..(i - 1)
        PROVE  IsProperty(f, l) /\ ~IsNamed(f, l, name)
    BY <1>2, <1>5, <2>1
  <2>2. ASSUME \A l \in (m + 1)..(i - 1) : IsProperty(f, l) /\ ~IsNamed(f, l, name),
               NEW k \in ((m + d) + 1)..((i + d) - 1)
        PROVE  IsProperty(g, k) /\ ~IsNamed(g, k, name)
    <3>1. IsProperty(f, k - d) /\ ~IsNamed(f, k - d, name)
      BY <1>6, <2>2
    <3>2. /\ IsProperty(g, (k - d) + d) <=> IsProperty(f, k - d)
          /\ IsNamed(g, (k - d) + d, name) <=> IsNamed(f, k - d, name)
      BY <1>2, <1>6
    <3> QED
      BY <1>6, <3>1, <3>2
  <2> QED
    BY <2>1, <2>2
<1> QED
  BY <1>3, <1>4, <1>7 DEF FirstNamed

(* A node of one tree has the property of a name if and only if a node of  *)
(* the other one has it.                                                   *)
SameProp(f, m, g, k, name) == \A v : Has(f, m, name, v) <=> Has(g, k, name, v)

(* It is enough that the first properties of the name have one value.      *)
LEMMA SameFirst ==
  ASSUME NEW V, NEW W, NEW f \in TreesOf(V), Readable(f), NEW g \in TreesOf(W), Readable(g),
         NEW m, IsNode(f, m), NEW k, IsNode(g, k), NEW name,
         \A i : FirstNamed(f, m, name, i) =>
                  \E l : FirstNamed(g, k, name, l) /\ g.struct[l].value = f.struct[i].value,
         \A l : FirstNamed(g, k, name, l) => \E i : FirstNamed(f, m, name, i)
  PROVE  SameProp(f, m, g, k, name)
<1> DEFINE i == GetProperty(f, m, name)
           l == GetProperty(g, k, name)
<1>1. /\ i # 0 => FirstNamed(f, m, name, i)
      /\ \A j : FirstNamed(f, m, name, j) => i = j /\ j # 0
  BY GetPropertyIs
<1>2. /\ l # 0 => FirstNamed(g, k, name, l)
      /\ \A j : FirstNamed(g, k, name, j) => l = j /\ j # 0
  BY GetPropertyIs
<1>3. \A v : Has(f, m, name, v) <=> i # 0 /\ f.struct[i].value = v
  BY DEF Has, NotFound
<1>4. \A v : Has(g, k, name, v) <=> l # 0 /\ g.struct[l].value = v
  BY DEF Has, NotFound
<1> HIDE DEF i, l
<1>5. i # 0 => l # 0 /\ g.struct[l].value = f.struct[i].value
  BY <1>1, <1>2
<1>6. l # 0 => i # 0
  BY <1>1, <1>2
<1> QED
  BY <1>3, <1>4, <1>5, <1>6 DEF SameProp

(* Where the changed value is not the first of the name, the property is   *)
(* the same on the same side of the place.                                 *)
LEMMA ValueAlike ==
  ASSUME NEW f, NEW g, NEW i, NEW k, NEW c, Alike(f, g, i, k, c), i # c, IsTag(f, i, "PROP")
  PROVE  g.struct[k].value = f.struct[i].value
BY DEF Alike

(* A node behind the place reads the same properties, moved.               *)
LEMMA SameBehind ==
  ASSUME NEW V, NEW W, NEW f \in TreesOf(V), Readable(f), NEW g \in TreesOf(W), Readable(g),
         NEW a, NEW d, NEW c, Moves(f, g, a, d, c), c \notin (a + 1)..Len(f.struct),
         NEW m \in (a + 1)..Len(f.struct), IsNode(f, m), IsNode(g, m + d), NEW name
  PROVE  SameProp(f, m, g, m + d, name)
<1>1. a \in Nat /\ d \in Nat /\ a <= Len(f.struct) /\ Len(g.struct) = Len(f.struct) + d
      /\ Len(f.struct) \in Nat
  BY TreeFields DEF Moves
<1>2. ASSUME NEW i, FirstNamed(f, m, name, i)
      PROVE  FirstNamed(g, m + d, name, i + d) /\ g.struct[i + d].value = f.struct[i].value
  <2>1. i \in (m + 1)..Len(f.struct) /\ IsTag(f, i, "PROP")
    BY <1>2 DEF FirstNamed, IsNamed
  <2>2. i \in (a + 1)..Len(f.struct) /\ i # c
    BY <1>1, <2>1
  <2>3. FirstNamed(g, m + d, name, i + d)
    BY <1>1, <1>2, <2>2, FirstBehind
  <2>4. Alike(f, g, i, i + d, c)
    BY <2>2 DEF Moves
  <2> QED
    BY <2>1, <2>2, <2>3, <2>4, ValueAlike
<1>3. ASSUME NEW l, FirstNamed(g, m + d, name, l)
      PROVE  FirstNamed(f, m, name, l - d)
  <2>1. l \in ((m + d) + 1)..Len(g.struct)
    BY <1>3 DEF FirstNamed
  <2>2. l - d \in (a + 1)..Len(f.struct) /\ (l - d) + d = l
    BY <1>1, <2>1
  <2> QED
    BY <1>1, <1>3, <2>2, FirstBehind
<1> QED
  BY <1>2, <1>3, SameFirst

(* A node in front of the place reads the same properties, when those of   *)
(* the name are in front of it too.                                        *)
LEMMA SameInFront ==
  ASSUME NEW V, NEW W, NEW f \in TreesOf(V), Readable(f), NEW g \in TreesOf(W), Readable(g),
         NEW a, NEW d, NEW c, Moves(f, g, a, d, c),
         NEW m \in 1..a, IsNode(f, m), IsNode(g, m), NEW name,
         ~FirstNamed(f, m, name, c),
         \A i : FirstNamed(f, m, name, i) => i <= a,
         \A i : FirstNamed(g, m, name, i) => i <= a
  PROVE  SameProp(f, m, g, m, name)
<1>1. a \in Nat /\ a <= Len(f.struct) /\ Len(f.struct) \in Nat /\ m \in Nat /\ 1 <= m
      /\ Len(g.struct) \in Nat
  BY TreeFields DEF Moves
<1>2. ASSUME NEW i, FirstNamed(f, m, name, i)
      PROVE  FirstNamed(g, m, name, i) /\ g.struct[i].value = f.struct[i].value
  <2>1. i \in (m + 1)..Len(f.struct) /\ IsTag(f, i, "PROP") /\ i <= a
    BY <1>2 DEF FirstNamed, IsNamed
  <2>2. i \in 1..a /\ i # c
    BY <1>1, <1>2, <2>1
  <2>3. FirstNamed(g, m, name, i)
    BY <1>1, <1>2, <2>2, FirstInFront
  <2>4. Alike(f, g, i, i, c)
    BY <2>2 DEF Moves
  <2> QED
    BY <2>1, <2>2, <2>3, <2>4, ValueAlike
<1>3. ASSUME NEW l, FirstNamed(g, m, name, l)
      PROVE  FirstNamed(f, m, name, l)
  <2>1. l \in (m + 1)..Len(g.struct) /\ l <= a
    BY <1>3 DEF FirstNamed
  <2>2. l \in 1..a
    BY <1>1, <2>1
  <2> QED
    BY <1>1, <1>3, <2>2, FirstInFront
<1> QED
  BY <1>2, <1>3, SameFirst

-----------------------------------------------------------------------------
(* Every node is one of E or one that h leads to.                          *)
Covers(f, g, h, E) == \A k \in Nodes(g) : k \in E \/ \E m \in Nodes(f) : k = h[m]

(* h takes the nodes of one tree to those of the other with their paths    *)
(* and properties, but for the property of one name of one node; E are the *)
(* nodes that are new.                                                     *)
Maps(f, g, h, n, name, E) ==
  /\ h \in [Nodes(f) -> Nodes(g)]
  /\ Covers(f, g, h, E)
  /\ \A m \in Nodes(f) : PathOf(g, h[m]) = PathOf(f, m)
  /\ \A m \in Nodes(f) : \A nm : m # n \/ nm # name => SameProp(f, m, g, h[m], nm)
  /\ n \in Nodes(f) => \E v : Has(g, h[n], name, v)
  /\ \A k \in E : \A nm, v : ~Has(g, k, nm, v)

(* Nodes are where a property can be put.                                  *)
LEMMA NodesAre ==
  ASSUME NEW f, NEW m
  PROVE  m \in Nodes(f) <=> IsNode(f, m)
BY DEF Nodes, IsNode

(* A tag that is copied is alike, with the strings it was written with.    *)
LEMMA CopiedAlike ==
  ASSUME NEW V, NEW W, NEW f \in TreesOf(V), Readable(f), NEW g \in TreesOf(W), StringsKept(f, g),
         NEW i \in 1..Len(f.struct), NEW k, NEW c, g.struct[k] = f.struct[i]
  PROVE  Alike(f, g, i, k, c)
<1>1. ASSUME IsTag(f, i, "PROP")
      PROVE  SpelledAt(g, f.struct[i].nameoff) = SpelledAt(f, f.struct[i].nameoff)
  <2> DEFINE no == f.struct[i].nameoff
  <2>1. no[1] \in 1..Len(f.strings)
    BY <1>1 DEF Readable
  <2>2. Len(f.strings) \in Nat /\ Len(g.strings) \in Nat
    BY TreeFields
  <2> HIDE DEF no
  <2>3. no[1] \in 1..Len(g.strings) /\ g.strings[no[1]] = f.strings[no[1]]
    BY <2>1, <2>2 DEF StringsKept
  <2> QED
    BY <2>1, <2>3, SpelledKept DEF no
<1> QED
  BY <1>1 DEF Alike

(* A value that is replaced leaves the nodes where they are.               *)
LEMMA ReplacedMaps ==
  ASSUME NEW V, NEW f \in TreesOf(V), Readable(f), NEW g \in TreesOf(V), Readable(g),
         NEW n, IsNode(f, n), NEW name, NEW j, j = GetProperty(f, n, name), j # NotFound,
         g.strings = f.strings, Len(g.struct) = Len(f.struct),
         \A i \in 1..Len(f.struct) : i # j => g.struct[i] = f.struct[i],
         g.struct[j].tag = "PROP", g.struct[j].nameoff = f.struct[j].nameoff,
         NEW v, Has(g, n, name, v)
  PROVE  /\ Maps(f, g, [m \in Nodes(f) |-> m], n, name, {})
         /\ Moves(f, g, Len(f.struct), 0, j)
<1> DEFINE N == Len(f.struct)
           h == [m \in Nodes(f) |-> m]
<1>1. N \in Nat /\ Len(g.struct) = N /\ N > 1
  BY TreeFields DEF Readable
<1>2. FirstNamed(f, n, name, j)
  BY GetPropertyIs DEF NotFound
<1>3. j \in (n + 1)..N /\ IsTag(f, j, "PROP") /\ n \in 1..N /\ IsTag(f, n, "BEGIN_NODE")
  BY <1>2 DEF FirstNamed, IsNamed, IsNode
<1>4. StringsKept(f, g)
  BY TreeFields DEF StringsKept
<1>5. ASSUME NEW i \in 1..N PROVE Alike(f, g, i, i, j)
  <2>1. CASE i # j
    BY <1>4, <2>1, CopiedAlike
  <2>2. CASE i = j
    <3>1. SpelledAt(g, g.struct[j].nameoff) = SpelledAt(f, f.struct[j].nameoff)
      BY DEF SpelledAt
    <3> QED
      BY <1>3, <2>2, <3>1 DEF Alike, IsTag
  <2> QED
    BY <2>1, <2>2
<1>6. Moves(f, g, N, 0, j)
  <2>1. N \in 1..N /\ 0 \in Nat /\ Len(g.struct) = N + 0 /\ (N + 1)..N = {}
    BY <1>1
  <2> QED
    BY <1>1, <1>5, <2>1 DEF Moves
<1>7. \A m \in 1..N : IsNode(g, m) <=> IsNode(f, m)
  BY <1>1, <1>5, NamedAlike DEF IsNode
<1>8. Nodes(f) \subseteq 1..N /\ Nodes(g) = Nodes(f)
  BY <1>1, <1>7 DEF Nodes, IsNode
<1>9. ASSUME NEW m \in Nodes(f) PROVE PathOf(g, m) = PathOf(f, m)
  <2>1. m \in 0..N
    BY <1>1, <1>8
  <2> QED
    BY <1>6, <2>1, PathsInFront
<1>10. ASSUME NEW m \in Nodes(f), NEW nm, m # n \/ nm # name
       PROVE  SameProp(f, m, g, m, nm)
  <2>1. m \in 1..N /\ IsNode(f, m) /\ IsNode(g, m)
    BY <1>7, <1>8, NodesAre
  <2>2. ASSUME FirstNamed(f, m, nm, j) PROVE FALSE
    <3>1. IsNamed(f, j, nm) /\ IsNamed(f, j, name)
      BY <1>2, <2>2 DEF FirstNamed
    <3>2. nm = name
      BY <3>1 DEF IsNamed
    <3>3. /\ j \in (m + 1)..N /\ \A i \in (m + 1)..(j - 1) : IsProperty(f, i)
          /\ \A i \in (n + 1)..(j - 1) : IsProperty(f, i)
      BY <1>2, <2>2 DEF FirstNamed
    <3>4. ~IsProperty(f, m) /\ ~IsProperty(f, n)
      BY <1>3, <2>1 DEF IsNode, IsTag, IsProperty
    <3>5. m \notin (n + 1)..(j - 1) /\ n \notin (m + 1)..(j - 1)
      BY <3>3, <3>4
    <3>6. m = n
      BY <1>1, <1>3, <2>1, <3>3, <3>5
    <3> QED
      BY <1>10, <3>2, <3>6
  <2>3. \A i : FirstNamed(f, m, nm, i) => i <= N
    BY <1>1, <2>1 DEF FirstNamed
  <2>4. \A i : FirstNamed(g, m, nm, i) => i <= N
    BY <1>1, <2>1 DEF FirstNamed
  <2> QED
    BY <1>6, <2>1, <2>2, <2>3, <2>4, SameInFront
<1>11. Maps(f, g, h, n, name, {})
  BY <1>8, <1>9, <1>10 DEF Maps, Covers
<1> QED
  BY <1>6, <1>11

(* The node a property is put into has the other properties it had.        *)
LEMMA SameInNode ==
  ASSUME NEW V, NEW f \in TreesOf(V), Readable(f), NEW g \in TreesOf(V), Readable(g),
         NEW n, IsNode(f, n), IsNode(g, n), Moves(f, g, n, 1, 0),
         NEW name, IsNamed(g, n + 1, name), NEW nm, nm # name
  PROVE  SameProp(f, n, g, n, nm)
<1>1. n \in Nat /\ 1 <= n /\ n < Len(f.struct) /\ Len(f.struct) \in Nat
      /\ Len(g.struct) = Len(f.struct) + 1
  BY NodeIsNotLast DEF Moves
<1>2. IsProperty(g, n + 1) /\ ~IsNamed(g, n + 1, nm)
  BY DEF IsNamed, IsTag, IsProperty
<1>3. ASSUME NEW l \in (n + 1)..Len(f.struct)
      PROVE  /\ Alike(f, g, l, l + 1, 0)
             /\ IsProperty(g, l + 1) <=> IsProperty(f, l)
             /\ IsNamed(g, l + 1, nm) <=> IsNamed(f, l, nm)
  <2>1. Alike(f, g, l, l + 1, 0)
    BY DEF Moves
  <2> QED
    BY <2>1, NamedAlike
<1>4. ASSUME NEW i, FirstNamed(f, n, nm, i)
      PROVE  FirstNamed(g, n, nm, i + 1) /\ g.struct[i + 1].value = f.struct[i].value
  <2>1. /\ i \in (n + 1)..Len(f.struct) /\ IsNamed(f, i, nm)
        /\ \A l \in (n + 1)..(i - 1) : IsProperty(f, l) /\ ~IsNamed(f, l, nm)
    BY <1>4 DEF FirstNamed
  <2>2. i + 1 \in (n + 1)..Len(g.struct) /\ IsNamed(g, i + 1, nm)
    BY <1>1, <1>3, <2>1
  <2>3. ASSUME NEW k \in (n + 1)..((i + 1) - 1) PROVE IsProperty(g, k) /\ ~IsNamed(g, k, nm)
    <3>1. CASE k = n + 1
      BY <1>2, <3>1
    <3>2. CASE k # n + 1
      <4>1. k - 1 \in (n + 1)..(i - 1) /\ k - 1 \in (n + 1)..Len(f.struct) /\ (k - 1) + 1 = k
        BY <1>1, <2>1, <3>2
      <4>2. IsProperty(f, k - 1) /\ ~IsNamed(f, k - 1, nm)
        BY <2>1, <4>1
      <4>3. /\ IsProperty(g, (k - 1) + 1) <=> IsProperty(f, k - 1)
            /\ IsNamed(g, (k - 1) + 1, nm) <=> IsNamed(f, k - 1, nm)
        BY <1>3, <4>1
      <4> QED
        BY <4>1, <4>2, <4>3
    <3> QED
      BY <3>1, <3>2
  <2>4. i # 0 /\ IsTag(f, i, "PROP")
    BY <1>1, <2>1 DEF IsNamed
  <2>5. g.struct[i + 1].value = f.struct[i].value
    BY <1>3, <2>1, <2>4, ValueAlike
  <2> QED
    BY <2>2, <2>3, <2>5 DEF FirstNamed
<1>5. ASSUME NEW k, FirstNamed(g, n, nm, k)
      PROVE  FirstNamed(f, n, nm, k - 1)
  <2>1. /\ k \in (n + 1)..Len(g.struct) /\ IsNamed(g, k, nm)
        /\ \A l \in (n + 1)..(k - 1) : IsProperty(g, l) /\ ~IsNamed(g, l, nm)
    BY <1>5 DEF FirstNamed
  <2>2. k # n + 1
    BY <1>2, <2>1
  <2>3. k - 1 \in (n + 1)..Len(f.struct) /\ (k - 1) + 1 = k
    BY <1>1, <2>1, <2>2
  <2>4. IsNamed(f, k - 1, nm)
    BY <1>3, <2>1, <2>3
  <2>5. ASSUME NEW l \in (n + 1)..((k - 1) - 1) PROVE IsProperty(f, l) /\ ~IsNamed(f, l, nm)
    <3>1. l + 1 \in (n + 1)..(k - 1) /\ l \in (n + 1)..Len(f.struct)
      BY <1>1, <2>1
    <3> QED
      BY <1>3, <2>1, <3>1
  <2> QED
    BY <2>3, <2>4, <2>5 DEF FirstNamed
<1> QED
  BY <1>4, <1>5, SameFirst

-----------------------------------------------------------------------------
(* Tags put behind a tag move those behind them.                           *)
LEMMA SplicedMoves ==
  ASSUME NEW V, NEW f \in TreesOf(V), Readable(f), NEW g \in TreesOf(V), StringsKept(f, g),
         NEW a \in 1..Len(f.struct), NEW tags, Len(tags) \in Nat,
         Spliced(f, g, a + 1, 0, tags)
  PROVE  Moves(f, g, a, Len(tags), 0) /\ \A i \in 1..Len(tags) : g.struct[a + i] = tags[i]
<1> DEFINE N == Len(f.struct)
           d == Len(tags)
<1>1. N \in Nat /\ a \in Nat /\ Len(g.struct) \in Nat
  BY TreeFields
<1>2. /\ Len(g.struct) = N - 0 + d
      /\ \A i \in 1..((a + 1) - 1) : g.struct[i] = f.struct[i]
      /\ \A i \in 1..d : g.struct[(a + 1) - 1 + i] = tags[i]
      /\ \A i \in ((a + 1) + 0)..N : g.struct[i - 0 + d] = f.struct[i]
  BY DEF Spliced
<1>3. ASSUME NEW i \in 1..a PROVE Alike(f, g, i, i, 0)
  <2>1. i \in 1..((a + 1) - 1) /\ i \in 1..N
    BY <1>1
  <2> QED
    BY <1>2, <2>1, CopiedAlike
<1>4. ASSUME NEW i \in (a + 1)..N PROVE Alike(f, g, i, i + d, 0)
  <2>1. i \in ((a + 1) + 0)..N /\ i \in 1..N /\ i - 0 + d = i + d
    BY <1>1
  <2>2. g.struct[i + d] = f.struct[i]
    BY <1>2, <2>1
  <2> QED
    BY <2>1, <2>2, CopiedAlike
<1>5. \A i \in 1..d : (a + 1) - 1 + i = a + i
  BY <1>1
<1>6. Len(g.struct) = N + d
  BY <1>1, <1>2
<1> QED
  BY <1>1, <1>2, <1>3, <1>4, <1>5, <1>6 DEF Moves

(* A property put behind the begin of a node moves the nodes behind it.    *)
Behind(f, a, d) == [m \in Nodes(f) |-> IF m <= a THEN m ELSE m + d]

(* Every node is found again, and keeps its path if those put there close  *)
(* what they open.                                                         *)
LEMMA BehindIs ==
  ASSUME NEW V, NEW f \in TreesOf(V), NEW g \in TreesOf(V), NEW a, NEW d, NEW c,
         Moves(f, g, a, d, c)
  PROVE  /\ Behind(f, a, d) \in [Nodes(f) -> Nodes(g)]
         /\ Covers(f, g, Behind(f, a, d), (a + 1)..(a + d))
         /\ PathOf(g, a + d) = PathOf(f, a) =>
              \A m \in Nodes(f) : PathOf(g, Behind(f, a, d)[m]) = PathOf(f, m)
<1> DEFINE N == Len(f.struct)
           h == Behind(f, a, d)
<1>1. N \in Nat /\ a \in 1..N /\ d \in Nat /\ Len(g.struct) = N + d
  BY TreeFields DEF Moves
<1>2. \A m \in Nodes(f) : m \in 1..N /\ IsTag(f, m, "BEGIN_NODE") /\ h[m] = IF m <= a THEN m ELSE m + d
  BY DEF Nodes, Behind
<1>3. ASSUME NEW i \in 1..N
      PROVE  Alike(f, g, i, IF i <= a THEN i ELSE i + d, c)
  <2>1. CASE i <= a
    <3>1. i \in 1..a
      BY <1>1, <2>1
    <3> QED
      BY <2>1, <3>1 DEF Moves
  <2>2. CASE ~(i <= a)
    <3>1. i \in (a + 1)..N
      BY <1>1, <2>2
    <3> QED
      BY <2>2, <3>1 DEF Moves
  <2> QED
    BY <2>1, <2>2
<1>4. ASSUME NEW m \in Nodes(f) PROVE h[m] \in Nodes(g)
  <2> DEFINE k == IF m <= a THEN m ELSE m + d
  <2>1. h[m] = k /\ m \in 1..N /\ IsTag(f, m, "BEGIN_NODE") /\ Alike(f, g, m, k, c)
    BY <1>2, <1>3
  <2>2. k \in 1..Len(g.struct)
    BY <1>1, <2>1
  <2> HIDE DEF k
  <2>3. IsTag(g, k, "BEGIN_NODE")
    BY <2>1, NamedAlike
  <2> QED
    BY <2>1, <2>2, <2>3 DEF Nodes
<1>5. h \in [Nodes(f) -> Nodes(g)]
  BY <1>4 DEF Behind
<1>6. ASSUME NEW k \in Nodes(g), k \notin (a + 1)..(a + d)
      PROVE  \E m \in Nodes(f) : k = h[m]
  <2> DEFINE m == IF k <= a THEN k ELSE k - d
  <2>1. k \in 1..Len(g.struct) /\ IsTag(g, k, "BEGIN_NODE")
    BY <1>6 DEF Nodes
  <2>2. m \in 1..N /\ (IF m <= a THEN m ELSE m + d) = k
    BY <1>1, <1>6, <2>1
  <2> HIDE DEF m
  <2>3. Alike(f, g, m, k, c)
    BY <1>3, <2>2
  <2>4. IsTag(f, m, "BEGIN_NODE")
    BY <2>1, <2>3, NamedAlike
  <2>5. m \in Nodes(f)
    BY <2>2, <2>4 DEF Nodes
  <2> QED
    BY <1>2, <2>2, <2>5
<1>7. ASSUME PathOf(g, a + d) = PathOf(f, a), NEW m \in Nodes(f)
      PROVE  PathOf(g, h[m]) = PathOf(f, m)
  <2>1. CASE m <= a
    <3>1. m \in 0..a /\ h[m] = m
      BY <1>1, <1>2, <2>1
    <3> QED
      BY <3>1, PathsInFront
  <2>2. CASE ~(m <= a)
    <3>1. m \in a..N /\ h[m] = m + d
      BY <1>1, <1>2, <2>2
    <3> QED
      BY <1>7, <3>1, PathsBehind
  <2> QED
    BY <2>1, <2>2
<1> QED
  BY <1>5, <1>6, <1>7 DEF Covers

(* What is behind the begin of another node belongs to no node in front.   *)
LEMMA NotBeyond ==
  ASSUME NEW f, NEW a \in Nat, ~IsProperty(f, a), NEW m \in Nat, m < a, NEW name, NEW i,
         FirstNamed(f, m, name, i)
  PROVE  i < a
<1>1. /\ i \in (m + 1)..Len(f.struct) /\ IsNamed(f, i, name)
      /\ \A l \in (m + 1)..(i - 1) : IsProperty(f, l)
  BY DEF FirstNamed
<1>2. i # a
  BY <1>1 DEF IsNamed, IsTag, IsProperty
<1>3. a \notin (m + 1)..(i - 1)
  BY <1>1
<1> QED
  BY <1>1, <1>2, <1>3

(* A property put behind the begin of a node: the nodes keep their paths,  *)
(* and only that node and that name read differently.                      *)
LEMMA InsertedMaps ==
  ASSUME NEW V, NEW f \in TreesOf(V), Readable(f), NEW g \in TreesOf(V), Readable(g),
         NEW n, IsNode(f, n), NEW name \in Names, NEW k, NEW v \in V,
         StringsKept(f, g), EndsAt(g, k, name), Has(g, n, name, v),
         Spliced(f, g, n + 1, 0, <<Prop(<<k, name>>, v)>>)
  PROVE  Maps(f, g, Behind(f, n, 1), n, name, {}) /\ Moves(f, g, n, 1, 0)
<1> DEFINE N == Len(f.struct)
           h == Behind(f, n, 1)
           t == Prop(<<k, name>>, v)
<1>1. N \in Nat /\ n \in Nat /\ 1 <= n /\ n < N /\ n \in 1..N
  BY NodeIsNotLast
<1>2. Moves(f, g, n, 1, 0) /\ g.struct[n + 1] = t
  <2>1. Len(<<t>>) = 1 /\ 1 \in 1..1 /\ <<t>>[1] = t
    OBVIOUS
  <2> HIDE DEF t
  <2>2. Spliced(f, g, n + 1, 0, <<t>>)
    BY DEF t
  <2> QED
    BY <1>1, <2>1, <2>2, SplicedMoves
<1>3. t.tag = "PROP" /\ t.nameoff = <<k, name>>
  BY DEF Prop
<1>4. IsNamed(g, n + 1, name)
  <2>1. SpelledAt(g, <<k, name>>) = name
    BY SpelledIs
  <2> HIDE DEF t
  <2> QED
    BY <1>2, <1>3, <2>1 DEF IsNamed, IsTag
<1>5. Len(g.struct) = N + 1
  BY <1>2 DEF Moves
<1>6. PathOf(g, n + 1) = PathOf(f, n)
  <2>1. n + 1 \in 1..Len(g.struct) /\ (n + 1) - 1 = n /\ n \in 0..n
    BY <1>1, <1>5
  <2>2. PathOf(g, n + 1) = EnterTag(PathOf(g, n), g.struct[n + 1])
    BY <2>1, PathIs
  <2>3. PathOf(g, n) = PathOf(f, n)
    BY <1>2, <2>1, PathsInFront
  <2> HIDE DEF t
  <2> QED
    BY <1>2, <1>3, <2>2, <2>3 DEF EnterTag
<1>7. /\ h \in [Nodes(f) -> Nodes(g)]
      /\ Covers(f, g, h, (n + 1)..(n + 1))
      /\ \A m \in Nodes(f) : PathOf(g, h[m]) = PathOf(f, m)
  <2>1. Moves(f, g, n, 1, 0) /\ PathOf(g, n + 1) = PathOf(f, n)
    BY <1>2, <1>6
  <2>2. Behind(f, n, 1) \in [Nodes(f) -> Nodes(g)]
    BY <2>1, BehindIs
  <2>3. Covers(f, g, Behind(f, n, 1), (n + 1)..(n + 1))
    BY <2>1, BehindIs
  <2>4. \A m \in Nodes(f) : PathOf(g, Behind(f, n, 1)[m]) = PathOf(f, m)
    BY <2>1, BehindIs
  <2> QED
    BY <2>2, <2>3, <2>4
<1>8. n + 1 \notin Nodes(g)
  <2> HIDE DEF t
  <2> QED
    BY <1>2, <1>3 DEF Nodes, IsTag
<1>9. \A m \in Nodes(f) : h[m] = IF m <= n THEN m ELSE m + 1
  BY DEF Behind
<1>10. n \in Nodes(f) /\ h[n] = n /\ n \in Nodes(g)
  <2>1. n \in Nodes(f)
    BY NodesAre
  <2> QED
    BY <1>1, <1>7, <1>9, <2>1
<1>11. ASSUME NEW m \in Nodes(f), NEW nm, m # n \/ nm # name
       PROVE  SameProp(f, m, g, h[m], nm)
  <2>1. m \in 1..N /\ IsNode(f, m) /\ h[m] = (IF m <= n THEN m ELSE m + 1) /\ IsNode(g, h[m])
    BY <1>7, <1>9, NodesAre DEF Nodes
  <2>2. CASE m > n
    <3>1. m \in (n + 1)..N /\ h[m] = m + 1 /\ 0 \notin (n + 1)..N
      BY <1>1, <2>1, <2>2
    <3> QED
      BY <1>2, <2>1, <3>1, SameBehind
  <2>3. CASE m < n
    <3>1. m \in 1..n /\ h[m] = m /\ m \in Nat
      BY <1>1, <2>1, <2>3
    <3>2. ~IsProperty(f, n) /\ ~IsProperty(g, n)
      BY <1>10, NodesAre DEF IsNode, IsTag, IsProperty
    <3>3. \A i : FirstNamed(f, m, nm, i) => i <= n
      <4>1. ASSUME NEW i, FirstNamed(f, m, nm, i) PROVE i <= n
        <5>1. i < n /\ i \in (m + 1)..N
          BY <1>1, <2>3, <3>1, <3>2, <4>1, NotBeyond DEF FirstNamed
        <5> QED
          BY <1>1, <5>1
      <4> QED
        BY <4>1
    <3>4. \A i : FirstNamed(g, m, nm, i) => i <= n
      <4>1. ASSUME NEW i, FirstNamed(g, m, nm, i) PROVE i <= n
        <5>1. i < n /\ i \in (m + 1)..Len(g.struct)
          BY <1>1, <2>3, <3>1, <3>2, <4>1, NotBeyond DEF FirstNamed
        <5> QED
          BY <1>1, <1>5, <5>1
      <4> QED
        BY <4>1
    <3>5. ~FirstNamed(f, m, nm, 0)
      BY <3>1 DEF FirstNamed
    <3> QED
      BY <1>2, <2>1, <3>1, <3>3, <3>4, <3>5, SameInFront
  <2>4. CASE m = n
    <3>1. nm # name /\ IsNode(g, n) /\ IsNode(f, n)
      BY <1>10, <1>11, <2>4, NodesAre
    <3> QED
      BY <1>2, <1>4, <1>10, <2>4, <3>1, SameInNode
  <2> QED
    BY <1>1, <2>1, <2>2, <2>3, <2>4
<1>12. \E w : Has(g, h[n], name, w)
  BY <1>10
<1>13. Covers(f, g, h, {})
  <2>1. (n + 1)..(n + 1) = {n + 1}
    BY <1>1
  <2> HIDE DEF h
  <2> QED
    BY <1>7, <1>8, <2>1 DEF Covers
<1> HIDE DEF h
<1>14. Maps(f, g, h, n, name, {})
  BY <1>7, <1>11, <1>12, <1>13 DEF Maps
<1> QED
  BY <1>2, <1>14 DEF h

-----------------------------------------------------------------------------
(* The begin and the end of a node are told by their kind and name.        *)
LEMMA TagsToldApart ==
  ASSUME NEW V, NEW t \in TagsOf(V)
  PROVE  /\ t.tag = "BEGIN_NODE" => t = BeginNode(t.name) /\ t.name \in Names
         /\ t.tag = "END_NODE" => t = EndNode
<1>1. CASE t \in [tag : {"BEGIN_NODE"}, name : Names]
  BY <1>1 DEF BeginNode
<1>2. CASE t \in [tag : {"PROP"}, nameoff : Nat \X Names, value : V]
  BY <1>2
<1>3. CASE t \in [tag : {"END_NODE", "NOP", "END"}]
  BY <1>3 DEF EndNode
<1> QED
  BY <1>1, <1>2, <1>3 DEF TagsOf

(* Entering a node below the root, and leaving it.                         *)
LEMMA FrontOfTwo ==
  ASSUME NEW x, NEW y
  PROVE  Front(<<x, y>>) = <<x>> /\ Append(<<x>>, y) = <<x, y>>
<1> DEFINE S == {x, y}
<1>1. <<x, y>> \in Seq(S) /\ Len(<<x, y>>) = 2 /\ <<x>> \in Seq(S) /\ Len(<<x>>) = 1
  OBVIOUS
<1>2. x \in S /\ y \in S /\ <<x, y>>[1] = x /\ <<x, y>>[2] = y /\ <<x>>[1] = x
  OBVIOUS
<1> HIDE DEF S
<1>3. Front(<<x, y>>) = SubSeq(<<x, y>>, 1, 1)
  <2>1. 2 - 1 = 1
    OBVIOUS
  <2> QED
    BY <1>1, <2>1 DEF Front
<1>4. \A s \in Seq(S) : Len(s) = 2 =>
         SubSeq(s, 1, 1) \in Seq(S) /\ Len(SubSeq(s, 1, 1)) = 1 /\ SubSeq(s, 1, 1)[1] = s[1]
  OBVIOUS
<1>5. SubSeq(<<x, y>>, 1, 1) = <<x>>
  <2> DEFINE s == SubSeq(<<x, y>>, 1, 1)
  <2>1. s \in Seq(S) /\ Len(s) = 1 /\ s[1] = x
    BY <1>1, <1>2, <1>4
  <2> HIDE DEF s
  <2>2. \A i \in 1..Len(s) : s[i] = <<x>>[i]
    BY <1>2, <2>1
  <2>3. s = <<x>>
    BY <1>1, <2>1, <2>2, SeqEqual
  <2> QED
    BY <2>3 DEF s
<1>6. Append(<<x>>, y) = <<x, y>>
  <2> DEFINE s == Append(<<x>>, y)
  <2>1. s \in Seq(S) /\ Len(s) = Len(<<x>>) + 1 /\ s[Len(<<x>>) + 1] = y
        /\ \A i \in 1..Len(<<x>>) : s[i] = <<x>>[i]
    BY <1>1, <1>2, AppendProperties
  <2> HIDE DEF s
  <2>2. Len(s) = 2 /\ s[1] = x /\ s[2] = y
    BY <1>1, <1>2, <2>1
  <2>3. \A i \in 1..Len(s) : s[i] = <<x, y>>[i]
    BY <1>2, <2>2
  <2>4. s = <<x, y>>
    BY <1>1, <2>1, <2>2, <2>3, SeqEqual
  <2> QED
    BY <2>4 DEF s
<1> QED
  BY <1>3, <1>5, <1>6

(* The path of the root is the one of its properties.                      *)
LEMMA RootPathIs ==
  ASSUME NEW V, NEW f \in TreesOf(V), Len(f.struct) > 1, f.struct[1] = BeginNode(RootName),
         NEW a \in 1..Len(f.struct), \A i \in (Root + 1)..a : IsProperty(f, i)
  PROVE  PathOf(f, a) = RootPath
<1>1. /\ PathOf(f, 0) = <<>>
      /\ \A i \in 1..Len(f.struct) : PathOf(f, i) = EnterTag(PathOf(f, i - 1), f.struct[i])
  BY PathIs
<1>2. Len(f.struct) \in Nat /\ a \in Nat
  BY TreeFields
<1>3. PathOf(f, 1) = RootPath
  <2>1. 1 \in 1..Len(f.struct) /\ 1 - 1 = 0
    BY <1>2
  <2>2. PathOf(f, 1) = EnterTag(<<>>, BeginNode(RootName))
    BY <1>1, <2>1
  <2>3. EnterTag(<<>>, BeginNode(RootName)) = Append(<<>>, RootName)
    BY DEF EnterTag, BeginNode
  <2>4. Append(<<>>, RootName) = RootPath
    BY DEF RootPath
  <2> QED
    BY <2>2, <2>3, <2>4
<1> DEFINE N == a - 1
           T == {n \in 0..N : PathOf(f, n + 1) = RootPath}
<1>4. 0 \in T
  BY <1>2, <1>3
<1>5. ASSUME NEW n \in 0..(N - 1), n \in T PROVE n + 1 \in T
  <2>1. /\ n + 1 \in 0..N /\ (n + 1) + 1 \in 1..Len(f.struct) /\ ((n + 1) + 1) - 1 = n + 1
        /\ (n + 1) + 1 \in (Root + 1)..a
    BY <1>2 DEF Root
  <2>2. f.struct[(n + 1) + 1].tag \in {"PROP", "NOP"}
    BY <2>1 DEF IsProperty
  <2>3. PathOf(f, (n + 1) + 1) = EnterTag(PathOf(f, n + 1), f.struct[(n + 1) + 1])
    BY <1>1, <2>1
  <2>4. PathOf(f, n + 1) = RootPath
    BY <1>5
  <2>5. PathOf(f, (n + 1) + 1) = RootPath
    BY <2>2, <2>3, <2>4 DEF EnterTag
  <2> QED
    BY <2>1, <2>5
<1>6. N \in Nat /\ N \in 0..N /\ N + 1 = a
  BY <1>2
<1> HIDE DEF T, N
<1>7. N \in T
  BY <1>4, <1>5, <1>6, AllUpTo
<1> QED
  BY <1>6, <1>7 DEF T

(* A node without properties that is put behind those of the root.         *)
ChosenAt(f, g, b) ==
  /\ Moves(f, g, b - 1, 2, 0) /\ Maps(f, g, Behind(f, b - 1, 2), 0, RootName, {b})
  /\ b \in 2..(Len(f.struct) - 1) /\ b \in Nodes(g)
  /\ PathOf(f, b - 1) = RootPath
  /\ PathOf(g, b) = ChosenPath /\ PathOf(g, b + 1) = RootPath

(* fdt_add_subnode below the root adds such a node, named chosen.          *)
LEMMA AddedMaps ==
  ASSUME NEW V, NEW f \in TreesOf(V), Readable(f), NEW g \in TreesOf(V), Readable(g),
         WellNested(f), AddsChosen(f, g)
  PROVE  \E b : ChosenAt(f, g, b)
<1> DEFINE N == Len(f.struct)
           tags == <<BeginNode("chosen"), EndNode>>
<1>1. N \in Nat /\ N > 1
  BY TreeFields DEF Readable
<1>2. /\ f.struct[1] = BeginNode(RootName) /\ f.struct[N - 1] = EndNode
  BY DEF WellNested
<1> HIDE DEF tags
<1>3. PICK b \in (Root + 1)..N :
        /\ ~IsProperty(f, b) /\ \A i \in (Root + 1)..(b - 1) : IsProperty(f, i)
        /\ Spliced(f, g, b, 0, tags)
  BY DEF AddsChosen, tags
<1>4. g.strings = f.strings /\ StringsKept(f, g)
  <2>1. g.strings = f.strings /\ Len(f.strings) \in Nat
    BY TreeFields DEF AddsChosen
  <2> QED
    BY <2>1 DEF StringsKept
<1>5. b \in Nat /\ 2 <= b /\ b <= N - 1 /\ b - 1 \in 1..N /\ (b - 1) + 1 = b
      /\ (b - 1) + 2 = b + 1
  <2>1. b \in Nat /\ 2 <= b /\ b <= N
    BY <1>1, <1>3 DEF Root
  <2>2. N - 1 # 1
    <3>1. f.struct[1].tag = "BEGIN_NODE" /\ f.struct[N - 1].tag = "END_NODE"
      BY <1>2 DEF BeginNode, EndNode
    <3> QED
      BY <3>1
  <2>3. ~(N - 1 \in (Root + 1)..(b - 1))
    BY <1>2, <1>3 DEF IsProperty, EndNode
  <2> HIDE DEF N
  <2>4. b # N
    <3>1. CASE b = N
      <4>1. N - 1 \in 2..(N - 1)
        BY <1>1, <2>2
      <4> QED
        BY <2>3, <3>1, <4>1 DEF Root
    <3> QED
      BY <3>1
  <2> QED
    BY <1>1, <2>1, <2>4
<1>6. /\ Moves(f, g, b - 1, 2, 0) /\ g.struct[b] = BeginNode("chosen")
      /\ g.struct[b + 1] = EndNode
  <2>1. Len(tags) = 2 /\ 1 \in 1..2 /\ 2 \in 1..2 /\ 2 \in Nat
        /\ tags[1] = BeginNode("chosen") /\ tags[2] = EndNode
    BY DEF tags
  <2>2. Spliced(f, g, (b - 1) + 1, 0, tags)
    BY <1>3, <1>5
  <2>3. PICK a \in 1..N : a = b - 1
    BY <1>5
  <2>4. Moves(f, g, a, Len(tags), 0) /\ \A i \in 1..Len(tags) : g.struct[a + i] = tags[i]
    <3>1. Spliced(f, g, a + 1, 0, tags)
      BY <2>2, <2>3
    <3>2. a \in 1..Len(f.struct) /\ Len(tags) \in Nat
      BY <2>1
    <3> HIDE DEF N
    <3> QED
      BY <1>4, <3>1, <3>2, SplicedMoves
  <2>5. a + 1 = b /\ a + 2 = b + 1
    BY <1>5, <2>3
  <2> QED
    BY <2>1, <2>3, <2>4, <2>5
<1>7. Len(g.struct) = N + 2
  BY <1>6 DEF Moves
<1>8. PathOf(f, b - 1) = RootPath /\ PathOf(g, b - 1) = RootPath
  <2>1. PathOf(f, b - 1) = RootPath
    BY <1>1, <1>2, <1>3, <1>5, RootPathIs
  <2>2. b - 1 \in 0..(b - 1)
    BY <1>5
  <2> QED
    BY <1>6, <2>1, <2>2, PathsInFront
<1>9. PathOf(g, b) = ChosenPath
  <2>1. b \in 1..Len(g.struct)
    BY <1>1, <1>5, <1>7
  <2>2. PathOf(g, b) = EnterTag(RootPath, BeginNode("chosen"))
    BY <1>6, <1>8, <2>1, PathIs
  <2>3. EnterTag(RootPath, BeginNode("chosen")) = Append(RootPath, "chosen")
    BY DEF EnterTag, BeginNode
  <2>4. Append(RootPath, "chosen") = ChosenPath
    BY FrontOfTwo DEF RootPath, ChosenPath
  <2> QED
    BY <2>2, <2>3, <2>4
<1>10. PathOf(g, b + 1) = RootPath
  <2>1. b + 1 \in 1..Len(g.struct) /\ (b + 1) - 1 = b
    BY <1>1, <1>5, <1>7
  <2>2. PathOf(g, b + 1) = EnterTag(ChosenPath, EndNode)
    BY <1>6, <1>9, <2>1, PathIs
  <2>3. EnterTag(ChosenPath, EndNode) = Front(ChosenPath)
    BY DEF EnterTag, EndNode
  <2>4. Front(ChosenPath) = RootPath
    BY FrontOfTwo DEF RootPath, ChosenPath
  <2> QED
    BY <2>2, <2>3, <2>4
<1> DEFINE h == Behind(f, b - 1, 2)
<1>11. /\ h \in [Nodes(f) -> Nodes(g)]
       /\ Covers(f, g, h, b..(b + 1))
       /\ \A m \in Nodes(f) : PathOf(g, h[m]) = PathOf(f, m)
  <2>1. Moves(f, g, b - 1, 2, 0) /\ PathOf(g, (b - 1) + 2) = PathOf(f, b - 1)
    BY <1>5, <1>6, <1>8, <1>10
  <2>2. Behind(f, b - 1, 2) \in [Nodes(f) -> Nodes(g)]
    BY <2>1, BehindIs
  <2>3. Covers(f, g, Behind(f, b - 1, 2), ((b - 1) + 1)..((b - 1) + 2))
    BY <2>1, BehindIs
  <2>4. \A m \in Nodes(f) : PathOf(g, Behind(f, b - 1, 2)[m]) = PathOf(f, m)
    BY <2>1, BehindIs
  <2> QED
    BY <1>5, <2>2, <2>3, <2>4
<1>12. b + 1 \notin Nodes(g) /\ b \in Nodes(g)
  <2>1. b \in 1..Len(g.struct)
    BY <1>1, <1>5, <1>7
  <2> QED
    BY <1>6, <2>1 DEF Nodes, IsTag, BeginNode, EndNode
<1>13. \A m \in Nodes(f) : h[m] = IF m <= b - 1 THEN m ELSE m + 2
  BY DEF Behind
<1>14. Covers(f, g, h, {b})
  <2>1. \A k : k \in b..(b + 1) => k = b \/ k = b + 1
    BY <1>5
  <2> HIDE DEF h
  <2> QED
    BY <1>11, <1>12, <2>1 DEF Covers
<1>15. ASSUME NEW nm, NEW v PROVE ~Has(g, b, nm, v)
  <2>1. ASSUME NEW l, FirstNamed(g, b, nm, l) PROVE FALSE
    <3>1. /\ l \in (b + 1)..Len(g.struct) /\ IsTag(g, l, "PROP")
          /\ \A i \in (b + 1)..(l - 1) : IsProperty(g, i)
      BY <2>1 DEF FirstNamed, IsNamed
    <3>2. ~IsProperty(g, b + 1) /\ ~IsTag(g, b + 1, "PROP")
      BY <1>6 DEF IsProperty, IsTag, EndNode
    <3>3. l # b + 1 /\ b + 1 \notin (b + 1)..(l - 1)
      BY <3>1, <3>2
    <3> QED
      BY <1>5, <3>1, <3>3
  <2>2. IsNode(g, b)
    BY <1>12, NodesAre
  <2> QED
    BY <2>1, <2>2, GetPropertyIs DEF Has, NotFound
<1>16. ASSUME NEW m \in Nodes(f), NEW nm PROVE SameProp(f, m, g, h[m], nm)
  <2>1. m \in 1..N /\ IsNode(f, m) /\ h[m] = (IF m <= b - 1 THEN m ELSE m + 2) /\ IsNode(g, h[m])
    BY <1>11, <1>13, NodesAre DEF Nodes
  <2>2. CASE m > b - 1
    <3>1. m \in ((b - 1) + 1)..N /\ h[m] = m + 2 /\ 0 \notin ((b - 1) + 1)..N
      BY <1>1, <1>5, <2>1, <2>2
    <3> QED
      BY <1>6, <2>1, <3>1, SameBehind
  <2>3. CASE ~(m > b - 1)
    <3>1. m \in 1..(b - 1) /\ h[m] = m /\ m \in Nat /\ m < b
      BY <1>1, <1>5, <2>1, <2>3
    <3>2. ~IsProperty(f, b) /\ ~IsProperty(g, b)
      BY <1>3, <1>6 DEF IsProperty, BeginNode
    <3>3. \A i : FirstNamed(f, m, nm, i) => i <= b - 1
      <4>1. ASSUME NEW i, FirstNamed(f, m, nm, i) PROVE i <= b - 1
        <5>1. i < b /\ i \in (m + 1)..N
          BY <1>5, <3>1, <3>2, <4>1, NotBeyond DEF FirstNamed
        <5> QED
          BY <1>5, <5>1
      <4> QED
        BY <4>1
    <3>4. \A i : FirstNamed(g, m, nm, i) => i <= b - 1
      <4>1. ASSUME NEW i, FirstNamed(g, m, nm, i) PROVE i <= b - 1
        <5>1. i < b /\ i \in (m + 1)..Len(g.struct)
          BY <1>5, <3>1, <3>2, <4>1, NotBeyond DEF FirstNamed
        <5> QED
          BY <1>5, <1>7, <5>1
      <4> QED
        BY <4>1
    <3>5. ~FirstNamed(f, m, nm, 0)
      BY <3>1 DEF FirstNamed
    <3> QED
      BY <1>6, <2>1, <3>1, <3>3, <3>4, <3>5, SameInFront
  <2> QED
    BY <2>2, <2>3
<1>17. 0 \notin Nodes(f)
  BY DEF Nodes
<1> HIDE DEF h
<1>18. Maps(f, g, h, 0, RootName, {b})
  BY <1>11, <1>14, <1>15, <1>16, <1>17 DEF Maps
<1> QED
  <2>1. b \in 2..(N - 1)
    BY <1>1, <1>5
  <2>2. ChosenAt(f, g, b)
    BY <1>6, <1>8, <1>9, <1>10, <1>12, <1>18, <2>1 DEF h, ChosenAt
  <2> QED
    BY <2>2

-----------------------------------------------------------------------------
(* A tree of nested nodes with paths of their own.                         *)
Tidy(f) == WellNested(f) /\ OnePathEach(f)

(* It is nested still when what is put in lies below the root.             *)
LEMMA NestedMoved ==
  ASSUME NEW V, NEW f \in TreesOf(V), Readable(f), NEW g \in TreesOf(V), NEW a, NEW d, NEW c,
         WellNested(f), Moves(f, g, a, d, c), PathOf(g, a + d) = PathOf(f, a),
         d = 0 \/ a <= Len(f.struct) - 2,
         \A i \in (a + 1)..(a + d) : PathOf(g, i) # <<>> /\ PathOf(g, i)[1] = RootName
  PROVE  WellNested(g)
<1> DEFINE N == Len(f.struct)
<1>1. N \in Nat /\ N > 1 /\ a \in 1..N /\ d \in Nat /\ Len(g.struct) = N + d
  BY TreeFields DEF Moves, Readable
<1>2. /\ f.struct[1] = BeginNode(RootName) /\ f.struct[N - 1] = EndNode
      /\ \A j \in 1..(N - 2) : PathOf(f, j) # <<>> /\ PathOf(f, j)[1] = RootName
  BY DEF WellNested
<1>3. \A i \in 1..a : Alike(f, g, i, i, c)
  BY DEF Moves
<1>4. \A i \in (a + 1)..N : Alike(f, g, i, i + d, c)
  BY DEF Moves
<1>5. (\A i \in 0..a : PathOf(g, i) = PathOf(f, i))
  BY PathsInFront
<1>6. (\A i \in a..N : PathOf(g, i + d) = PathOf(f, i))
  BY PathsBehind
<1>7. g.struct[1] = BeginNode(RootName)
  <2>1. Alike(f, g, 1, 1, c)
    BY <1>1, <1>3
  <2>2. g.struct[1] \in TagsOf(V)
    <3>1. 1 \in 1..Len(g.struct)
      BY <1>1
    <3> QED
      BY <3>1, TreeFields
  <2>3. g.struct[1].tag = "BEGIN_NODE" /\ g.struct[1].name = RootName
    BY <1>2, <2>1 DEF Alike, IsTag, BeginNode
  <2> QED
    BY <2>2, <2>3, TagsToldApart
<1>8. g.struct[Len(g.struct) - 1] = EndNode
  <2> DEFINE k == Len(g.struct) - 1
  <2>1. f.struct[N - 1].tag = "END_NODE"
    BY <1>2 DEF EndNode
  <2>2. Alike(f, g, N - 1, k, c)
    <3>1. CASE N - 1 <= a
      <4>1. d = 0
        BY <1>1, <3>1
      <4>2. N - 1 \in 1..a /\ k = N - 1
        BY <1>1, <3>1, <4>1
      <4> QED
        BY <1>3, <4>2
    <3>2. CASE ~(N - 1 <= a)
      <4>1. N - 1 \in (a + 1)..N /\ k = (N - 1) + d
        BY <1>1, <3>2
      <4> QED
        BY <1>4, <4>1
    <3> QED
      BY <3>1, <3>2
  <2>3. k \in 1..Len(g.struct)
    BY <1>1
  <2> HIDE DEF k
  <2>4. g.struct[k].tag = "END_NODE" /\ g.struct[k] \in TagsOf(V)
    BY <2>1, <2>2, <2>3, TreeFields DEF Alike
  <2> QED
    BY <2>4, TagsToldApart DEF k
<1>9. ASSUME NEW j \in 1..(Len(g.struct) - 2)
      PROVE  PathOf(g, j) # <<>> /\ PathOf(g, j)[1] = RootName
  <2>1. CASE j <= a
    <3>1. j \in 0..a /\ j \in 1..(N - 2)
      BY <1>1, <2>1
    <3> QED
      BY <1>2, <1>5, <3>1
  <2>2. CASE j \in (a + 1)..(a + d)
    BY <2>2
  <2>3. CASE j > a + d
    <3>1. j - d \in a..N /\ j - d \in 1..(N - 2) /\ (j - d) + d = j
      BY <1>1, <2>3
    <3>2. PathOf(g, (j - d) + d) = PathOf(f, j - d)
      BY <1>6, <3>1
    <3> QED
      BY <1>2, <3>1, <3>2
  <2> QED
    BY <1>1, <2>1, <2>2, <2>3
<1> QED
  BY <1>7, <1>8, <1>9 DEF WellNested

(* Every node has a path of its own still when a new one has a new path.   *)
LEMMA OnePathMapped ==
  ASSUME NEW f, NEW g, NEW h, NEW n, NEW name, NEW E, Maps(f, g, h, n, name, E),
         OnePathEach(f), \A k \in E : PathOf(g, k) \notin Paths(f),
         \A k \in E, l \in E : k = l
  PROVE  OnePathEach(g)
<1>1. /\ \A k \in Nodes(g) : k \in E \/ \E m \in Nodes(f) : k = h[m]
      /\ \A m \in Nodes(f) : PathOf(g, h[m]) = PathOf(f, m)
  BY DEF Maps, Covers
<1>2. \A m \in Nodes(f) : PathOf(f, m) \in Paths(f)
  BY DEF Paths
<1>3. ASSUME NEW k \in Nodes(g), NEW l \in Nodes(g), PathOf(g, k) = PathOf(g, l)
      PROVE  k = l
  <2>1. CASE k \in E /\ l \in E
    BY <2>1
  <2>2. CASE k \in E /\ l \notin E
    <3>1. PICK m \in Nodes(f) : l = h[m]
      BY <1>1, <2>2
    <3>2. PathOf(g, k) = PathOf(f, m)
      BY <1>1, <1>3, <3>1
    <3> QED
      BY <1>2, <2>2, <3>2
  <2>3. CASE k \notin E /\ l \in E
    <3>1. PICK m \in Nodes(f) : k = h[m]
      BY <1>1, <2>3
    <3>2. PathOf(g, l) = PathOf(f, m)
      BY <1>1, <1>3, <3>1
    <3> QED
      BY <1>2, <2>3, <3>2
  <2>4. CASE k \notin E /\ l \notin E
    <3>1. PICK m \in Nodes(f) : k = h[m]
      BY <1>1, <2>4
    <3>2. PICK o \in Nodes(f) : l = h[o]
      BY <1>1, <2>4
    <3>3. PathOf(f, m) = PathOf(f, o)
      BY <1>1, <1>3, <3>1, <3>2
    <3>4. m = o
      BY <3>3 DEF OnePathEach
    <3> QED
      BY <3>1, <3>2, <3>4
  <2> QED
    BY <2>1, <2>2, <2>3, <2>4
<1> QED
  BY <1>3 DEF OnePathEach

-----------------------------------------------------------------------------
(* What a reader finds are the properties its nodes have.                  *)
LEMMA PropertiesIs ==
  ASSUME NEW V, NEW f \in TreesOf(V), Readable(f), NEW p
  PROVE  p \in Properties(f) <=>
           \E m \in Nodes(f) : \E nm, v : p = <<PathOf(f, m), nm, v>> /\ Has(f, m, nm, v)
<1> DEFINE Spelled(i) == SpelledAt(f, f.struct[i].nameoff)
           Keys(j) == {<<j, Spelled(i)>> : i \in PropertiesOf(f, j)}
           keys == UNION {Keys(j) : j \in Nodes(f)}
           Found(key) == <<PathOf(f, key[1]), key[2],
                           f.struct[GetProperty(f, key[1], key[2])].value>>
<1>1. p \in Properties(f) <=> \E key \in keys : p = Found(key)
  BY DEF Properties
<1>2. ASSUME NEW m \in Nodes(f), NEW nm
      PROVE  <<m, nm>> \in keys <=> GetProperty(f, m, nm) # NotFound
  <2>1. IsNode(f, m)
    BY NodesAre
  <2>2. ASSUME <<m, nm>> \in keys PROVE GetProperty(f, m, nm) # NotFound
    <3>1. PICK i \in PropertiesOf(f, m) : Spelled(i) = nm
      <4>1. PICK j \in Nodes(f) : <<m, nm>> \in Keys(j)
        BY <2>2
      <4>2. PICK i \in PropertiesOf(f, j) : <<m, nm>> = <<j, Spelled(i)>>
        BY <4>1
      <4>3. j = m /\ Spelled(i) = nm
        BY <4>2
      <4> QED
        BY <4>3
    <3> DEFINE S == {j \in PropertiesOf(f, m) : SpelledAt(f, f.struct[j].nameoff) = nm}
    <3>2. i \in S
      BY <3>1
    <3>3. S \subseteq Nat \ {0}
      <4>1. \A j \in PropertiesOf(f, m) : j \in (m + 1)..Len(f.struct)
        BY <2>1, PropertiesAre
      <4>2. m \in Nat /\ Len(f.struct) \in Nat
        BY <2>1, NodeIsNotLast
      <4> QED
        BY <4>1, <4>2
    <3>4. GetProperty(f, m, nm) = FirstOf(S)
      BY DEF GetProperty
    <3> HIDE DEF S
    <3> QED
      BY <3>2, <3>3, <3>4, FirstOfIs DEF NotFound
  <2>3. ASSUME GetProperty(f, m, nm) # NotFound PROVE <<m, nm>> \in keys
    <3> DEFINE i == GetProperty(f, m, nm)
    <3>1. FirstNamed(f, m, nm, i)
      BY <2>1, <2>3, GetPropertyIs DEF NotFound
    <3> HIDE DEF i
    <3>2. /\ i \in (m + 1)..Len(f.struct) /\ IsTag(f, i, "PROP") /\ Spelled(i) = nm
          /\ \A j \in (m + 1)..(i - 1) : IsProperty(f, j)
      BY <3>1 DEF FirstNamed, IsNamed
    <3>3. m \in Nat /\ Len(f.struct) \in Nat
      BY <2>1, NodeIsNotLast
    <3>4. ASSUME NEW j \in (m + 1)..i PROVE IsProperty(f, j)
      <4>1. CASE j = i
        BY <3>2, <4>1 DEF IsTag, IsProperty
      <4>2. CASE j # i
        <5>1. j \in (m + 1)..(i - 1)
          BY <3>2, <3>3, <4>2
        <5> QED
          BY <3>2, <5>1
      <4> QED
        BY <4>1, <4>2
    <3>5. i \in PropertiesOf(f, m)
      BY <2>1, <3>2, <3>4, PropertiesAre
    <3>6. <<m, nm>> \in Keys(m)
      BY <3>2, <3>5
    <3> QED
      BY <3>6
  <2> QED
    BY <2>2, <2>3
<1>3. \A key \in keys : \E m \in Nodes(f) : \E nm : key = <<m, nm>>
  <2> SUFFICES ASSUME NEW key \in keys PROVE \E m \in Nodes(f) : \E nm : key = <<m, nm>>
    OBVIOUS
  <2>1. PICK m \in Nodes(f) : key \in Keys(m)
    OBVIOUS
  <2>2. PICK i \in PropertiesOf(f, m) : key = <<m, Spelled(i)>>
    BY <2>1
  <2> QED
    BY <2>2
<1> HIDE DEF keys
<1>4. ASSUME p \in Properties(f)
      PROVE  \E m \in Nodes(f) : \E nm, v : p = <<PathOf(f, m), nm, v>> /\ Has(f, m, nm, v)
  <2>1. PICK key \in keys : p = Found(key)
    BY <1>1, <1>4
  <2>2. PICK m \in Nodes(f) : \E nm : key = <<m, nm>>
    BY <1>3
  <2>3. PICK nm : key = <<m, nm>>
    BY <2>2
  <2>4. GetProperty(f, m, nm) # NotFound
    BY <1>2, <2>1, <2>3
  <2>5. p = <<PathOf(f, m), nm, f.struct[GetProperty(f, m, nm)].value>>
    BY <2>1, <2>3
  <2> QED
    BY <2>4, <2>5 DEF Has
<1>5. ASSUME NEW m \in Nodes(f), NEW nm, NEW v, p = <<PathOf(f, m), nm, v>>, Has(f, m, nm, v)
      PROVE  p \in Properties(f)
  <2>1. <<m, nm>> \in keys
    BY <1>2, <1>5 DEF Has
  <2>2. p = Found(<<m, nm>>)
    BY <1>5 DEF Has
  <2> QED
    BY <1>1, <2>1, <2>2
<1> QED
  BY <1>4, <1>5

-----------------------------------------------------------------------------
(* What a reader sees of setting properties of one node.                   *)
Edits(f, g, path, names) ==
  /\ Paths(g) = Paths(f)
  /\ Abstract!Others(Properties(g), path, names) = Abstract!Others(Properties(f), path, names)
  /\ Abstract!NamesIn(Properties(f), path) \subseteq Abstract!NamesIn(Properties(g), path)

(* Setting one after the other is such an edit, as is setting none.        *)
LEMMA EditsAgain ==
  ASSUME NEW f, NEW g, NEW k, NEW path, NEW names, Edits(f, g, path, names), Edits(g, k, path, names)
  PROVE  Edits(f, k, path, names)
BY DEF Edits

(* The tags and strings are all a reader sees.                             *)
LEMMA EditsNothing ==
  ASSUME NEW f, NEW g, f.struct = g.struct, f.strings = g.strings
  PROVE  /\ Paths(g) = Paths(f) /\ Properties(g) = Properties(f)
         /\ \A path, names : Edits(f, g, path, names)
<1>1. \A i : PathOf(g, i) = PathOf(f, i)
  BY DEF PathOf
<1>2. Nodes(g) = Nodes(f)
  BY DEF Nodes, IsTag
<1>3. \A no : SpelledAt(g, no) = SpelledAt(f, no)
  BY DEF SpelledAt
<1>4. \A n : PropertiesOf(g, n) = PropertiesOf(f, n)
  BY DEF PropertiesOf, IsTag
<1>5. \A n, name : GetProperty(g, n, name) = GetProperty(f, n, name)
  <2>1. ASSUME NEW n, NEW name PROVE GetProperty(g, n, name) = GetProperty(f, n, name)
    <3>1. {j \in PropertiesOf(g, n) : SpelledAt(g, g.struct[j].nameoff) = name}
            = {j \in PropertiesOf(f, n) : SpelledAt(f, f.struct[j].nameoff) = name}
      BY <1>3, <1>4
    <3> QED
      BY <3>1 DEF GetProperty
  <2> QED
    BY <2>1
<1>6. Paths(g) = Paths(f)
  BY <1>1, <1>2 DEF Paths
<1>7. Properties(g) = Properties(f)
  BY <1>1, <1>2, <1>3, <1>4, <1>5 DEF Properties
<1> QED
  BY <1>6, <1>7 DEF Edits

(* Nodes that are mapped one to one have the same paths.                   *)
LEMMA PathsMapped ==
  ASSUME NEW f, NEW g, NEW h, NEW n, NEW name, NEW E, Maps(f, g, h, n, name, E), E \subseteq Nodes(g)
  PROVE  Paths(g) = Paths(f) \cup {PathOf(g, k) : k \in E}
<1>1. /\ \A k \in Nodes(g) : k \in E \/ \E m \in Nodes(f) : k = h[m]
      /\ \A m \in Nodes(f) : PathOf(g, h[m]) = PathOf(f, m) /\ h[m] \in Nodes(g)
  BY DEF Maps, Covers
<1>2. \A p : p \in Paths(g) => p \in Paths(f) \/ \E k \in E : p = PathOf(g, k)
  BY <1>1 DEF Paths
<1>3. \A p : p \in Paths(f) => p \in Paths(g)
  BY <1>1 DEF Paths
<1>4. \A k \in E : PathOf(g, k) \in Paths(g)
  BY DEF Paths
<1> QED
  BY <1>2, <1>3, <1>4

(* They have the same properties, but for the one of the one node.         *)
LEMMA PropertiesMapped ==
  ASSUME NEW V, NEW W, NEW f \in TreesOf(V), Readable(f), NEW g \in TreesOf(W), Readable(g),
         NEW h, NEW n, NEW name, NEW E, Maps(f, g, h, n, name, E), E \subseteq Nodes(g), NEW p,
         ~(n \in Nodes(f) /\ p[1] = PathOf(f, n) /\ p[2] = name)
  PROVE  p \in Properties(f) <=> p \in Properties(g)
<1>1. /\ \A k \in Nodes(g) : k \in E \/ \E m \in Nodes(f) : k = h[m]
      /\ \A m \in Nodes(f) : PathOf(g, h[m]) = PathOf(f, m) /\ h[m] \in Nodes(g)
      /\ \A m \in Nodes(f) : \A nm : m # n \/ nm # name => SameProp(f, m, g, h[m], nm)
      /\ \A k \in E : \A nm, v : ~Has(g, k, nm, v)
  BY DEF Maps, Covers
<1>2. p \in Properties(f) <=>
        \E m \in Nodes(f) : \E nm, v : p = <<PathOf(f, m), nm, v>> /\ Has(f, m, nm, v)
  BY PropertiesIs
<1>3. p \in Properties(g) <=>
        \E m \in Nodes(g) : \E nm, v : p = <<PathOf(g, m), nm, v>> /\ Has(g, m, nm, v)
  BY PropertiesIs
<1>4. ASSUME p \in Properties(f) PROVE p \in Properties(g)
  <2>1. PICK m \in Nodes(f) : \E nm, v : p = <<PathOf(f, m), nm, v>> /\ Has(f, m, nm, v)
    BY <1>2, <1>4
  <2>2. PICK nm, v : p = <<PathOf(f, m), nm, v>> /\ Has(f, m, nm, v)
    BY <2>1
  <2>3. m # n \/ nm # name
    BY <2>2
  <2>4. Has(g, h[m], nm, v) /\ h[m] \in Nodes(g) /\ p = <<PathOf(g, h[m]), nm, v>>
    BY <1>1, <2>2, <2>3 DEF SameProp
  <2> QED
    BY <1>3, <2>4
<1>5. ASSUME p \in Properties(g) PROVE p \in Properties(f)
  <2>1. PICK k \in Nodes(g) : \E nm, v : p = <<PathOf(g, k), nm, v>> /\ Has(g, k, nm, v)
    BY <1>3, <1>5
  <2>2. PICK nm, v : p = <<PathOf(g, k), nm, v>> /\ Has(g, k, nm, v)
    BY <2>1
  <2>3. PICK m \in Nodes(f) : k = h[m]
    BY <1>1, <2>2
  <2>4. p = <<PathOf(f, m), nm, v>>
    BY <1>1, <2>2, <2>3
  <2>5. m # n \/ nm # name
    BY <2>4
  <2>6. Has(f, m, nm, v)
    BY <1>1, <2>2, <2>3, <2>5 DEF SameProp
  <2> QED
    BY <1>2, <2>4, <2>6
<1> QED
  BY <1>4, <1>5

(* So setting one property is an edit of its node,                         *)
LEMMA EditsOne ==
  ASSUME NEW V, NEW W, NEW f \in TreesOf(V), Readable(f), NEW g \in TreesOf(W), Readable(g),
         NEW h, NEW n \in Nodes(f), NEW name, Maps(f, g, h, n, name, {}), OnePathEach(f),
         NEW names, name \in names
  PROVE  Edits(f, g, PathOf(f, n), names)
<1> DEFINE path == PathOf(f, n)
<1>1. Paths(g) = Paths(f)
  BY PathsMapped
<1>2. \A p : ~(p[1] = path /\ p[2] = name) => (p \in Properties(f) <=> p \in Properties(g))
  BY PropertiesMapped
<1>3. Abstract!Others(Properties(g), path, names) = Abstract!Others(Properties(f), path, names)
  <2>1. Abstract!Others(Properties(f), path, names)
          = {p \in Properties(f) : ~(p[1] = path /\ p[2] \in names)}
    BY DEF Abstract!Others
  <2>2. Abstract!Others(Properties(g), path, names)
          = {p \in Properties(g) : ~(p[1] = path /\ p[2] \in names)}
    BY DEF Abstract!Others
  <2> HIDE DEF path
  <2>3. \A p : p \in {q \in Properties(f) : ~(q[1] = path /\ q[2] \in names)}
                 <=> p \in {q \in Properties(g) : ~(q[1] = path /\ q[2] \in names)}
    BY <1>2
  <2> QED
    BY <2>1, <2>2, <2>3
<1>4. \E v : <<path, name, v>> \in Properties(g)
  <2>1. /\ h[n] \in Nodes(g) /\ PathOf(g, h[n]) = path
    BY DEF Maps
  <2>2. PICK v : Has(g, h[n], name, v)
    BY DEF Maps
  <2>3. <<path, name, v>> \in Properties(g)
    BY <2>1, <2>2, PropertiesIs
  <2> QED
    BY <2>3
<1>5. Abstract!NamesIn(Properties(f), path) \subseteq Abstract!NamesIn(Properties(g), path)
  <2>1. Abstract!NamesIn(Properties(f), path) = {p[2] : p \in {q \in Properties(f) : q[1] = path}}
    BY DEF Abstract!NamesIn
  <2>2. Abstract!NamesIn(Properties(g), path) = {p[2] : p \in {q \in Properties(g) : q[1] = path}}
    BY DEF Abstract!NamesIn
  <2>3. ASSUME NEW p \in Properties(f), p[1] = path
        PROVE  \E q \in Properties(g) : q[1] = path /\ q[2] = p[2]
    <3> HIDE DEF path
    <3>1. CASE p[2] = name
      <4>1. PICK v : <<path, name, v>> \in Properties(g)
        BY <1>4
      <4> QED
        BY <3>1, <4>1
    <3>2. CASE p[2] # name
      BY <1>2, <2>3, <3>2
    <3> QED
      BY <3>1, <3>2
  <2> HIDE DEF path
  <2> QED
    BY <2>1, <2>2, <2>3
<1> QED
  BY <1>1, <1>3, <1>5 DEF Edits

(* and adding /chosen adds a path and no property.                         *)
LEMMA EditsAdd ==
  ASSUME NEW V, NEW W, NEW f \in TreesOf(V), Readable(f), NEW g \in TreesOf(W), Readable(g),
         NEW b, ChosenAt(f, g, b)
  PROVE  Paths(g) = Paths(f) \cup {ChosenPath} /\ Properties(g) = Properties(f)
<1>1. /\ Maps(f, g, Behind(f, b - 1, 2), 0, RootName, {b}) /\ {b} \subseteq Nodes(g)
      /\ PathOf(g, b) = ChosenPath
  BY DEF ChosenAt
<1>2. Paths(g) = Paths(f) \cup {PathOf(g, k) : k \in {b}}
  BY <1>1, PathsMapped
<1>3. 0 \notin Nodes(f)
  <2>1. Len(f.struct) \in Nat
    BY TreeFields
  <2> QED
    BY <2>1 DEF Nodes
<1>4. \A p : p \in Properties(f) <=> p \in Properties(g)
  BY <1>1, <1>3, PropertiesMapped
<1> QED
  BY <1>1, <1>2, <1>4

-----------------------------------------------------------------------------
(* Behind the begin of a node there is more than its end and that of all.  *)
LEMMA NodeHasEnd ==
  ASSUME NEW V, NEW f \in TreesOf(V), Readable(f), WellNested(f), NEW n \in Nodes(f)
  PROVE  /\ n \in 1..(Len(f.struct) - 2) /\ n \in 1..Len(f.struct) /\ n \in Nat
         /\ PathOf(f, n) # <<>> /\ PathOf(f, n)[1] = RootName
<1>1. n \in Nat /\ 1 <= n /\ n < Len(f.struct) /\ Len(f.struct) \in Nat
  BY NodesAre, NodeIsNotLast
<1>2. f.struct[n].tag = "BEGIN_NODE"
  BY DEF Nodes, IsTag
<1>3. f.struct[Len(f.struct) - 1].tag = "END_NODE"
  BY DEF WellNested, EndNode
<1>4. n # Len(f.struct) - 1
  BY <1>2, <1>3
<1>5. n \in 1..(Len(f.struct) - 2)
  BY <1>1, <1>4
<1> QED
  BY <1>1, <1>5 DEF WellNested

(* Setting a property keeps the nodes and their paths, and is seen as an   *)
(* edit of its node,                                                       *)
LEMMA SetEdits ==
  ASSUME NEW V, NEW f \in TreesOf(V), Readable(f), Tidy(f), NEW n, IsNode(f, n), NEW name,
         NEW v \in V, NEW g, IsSet(f, g, n, name, v, V)
  PROVE  /\ Tidy(g)
         /\ \A names : name \in names => Edits(f, g, PathOf(f, n), names)
<1>1. WellNested(f) /\ OnePathEach(f) /\ n \in Nodes(f)
  BY NodesAre DEF Tidy
<1>2. /\ g \in TreesOf(V) /\ Readable(g) /\ Has(g, n, name, v)
  BY DEF IsSet
<1>3. /\ n \in 1..(Len(f.struct) - 2) /\ n \in 1..Len(f.struct) /\ n \in Nat
      /\ PathOf(f, n) # <<>> /\ PathOf(f, n)[1] = RootName /\ Len(f.struct) \in Nat
  BY <1>1, NodeHasEnd, TreeFields
<1>4. ASSUME NEW h, Maps(f, g, h, n, name, {}), WellNested(g)
      PROVE  /\ Tidy(g)
             /\ \A names : name \in names => Edits(f, g, PathOf(f, n), names)
  <2>1. OnePathEach(g)
    BY <1>1, <1>4, OnePathMapped
  <2>2. ASSUME NEW names, name \in names PROVE Edits(f, g, PathOf(f, n), names)
    BY <1>1, <1>2, <1>4, <2>2, EditsOne
  <2> QED
    BY <1>4, <2>1, <2>2 DEF Tidy
<1>5. CASE GetProperty(f, n, name) # NotFound /\ Replaces(f, g, GetProperty(f, n, name))
  <2> DEFINE j == GetProperty(f, n, name)
             h == [m \in Nodes(f) |-> m]
  <2>1. /\ j = GetProperty(f, n, name) /\ j # NotFound
        /\ g.strings = f.strings /\ Len(g.struct) = Len(f.struct)
        /\ \A i \in 1..Len(f.struct) : i # j => g.struct[i] = f.struct[i]
        /\ g.struct[j].tag = "PROP" /\ g.struct[j].nameoff = f.struct[j].nameoff
    BY <1>5 DEF Replaces
  <2> HIDE DEF j
  <2>2. Maps(f, g, h, n, name, {})
    BY <1>2, <2>1, ReplacedMaps
  <2>3. Moves(f, g, Len(f.struct), 0, j)
    BY <1>2, <2>1, ReplacedMaps
  <2> HIDE DEF h
  <2>4. WellNested(g)
    <3>1. Len(f.struct) \in 0..Len(f.struct) /\ Len(f.struct) + 0 = Len(f.struct)
      BY <1>3
    <3>2. PathOf(g, Len(f.struct) + 0) = PathOf(f, Len(f.struct))
      BY <1>2, <2>3, <3>1, PathsInFront
    <3>3. \A i : ~(i \in (Len(f.struct) + 1)..(Len(f.struct) + 0))
      BY <1>3
    <3> QED
      BY <1>1, <1>2, <2>3, <3>2, <3>3, NestedMoved
  <2> QED
    BY <1>4, <2>2, <2>4
<1>6. CASE Inserts(f, g, n, name, v)
  <2>1. /\ name \in Names /\ StringsKept(f, g)
        /\ \E k : EndsAt(g, k, name) /\ Spliced(f, g, n + 1, 0, <<Prop(<<k, name>>, v)>>)
    BY <1>6 DEF Inserts
  <2>2. PICK k : EndsAt(g, k, name) /\ Spliced(f, g, n + 1, 0, <<Prop(<<k, name>>, v)>>)
    BY <2>1
  <2>3. Maps(f, g, Behind(f, n, 1), n, name, {})
    BY <1>2, <2>1, <2>2, InsertedMaps
  <2>4. Moves(f, g, n, 1, 0)
    BY <1>2, <2>1, <2>2, InsertedMaps
  <2>5. PathOf(g, n + 1) = PathOf(f, n)
    <3>1. g.struct[n + 1] = Prop(<<k, name>>, v)
      <4> DEFINE tags == <<Prop(<<k, name>>, v)>>
      <4>1. Len(tags) = 1 /\ tags[1] = Prop(<<k, name>>, v) /\ Len(tags) \in Nat /\ 1 \in 1..1
        OBVIOUS
      <4>2. Spliced(f, g, n + 1, 0, tags)
        BY <2>2
      <4> HIDE DEF tags
      <4>3. n \in 1..Len(f.struct) /\ Len(tags) \in Nat /\ StringsKept(f, g) /\ g \in TreesOf(V)
        BY <1>2, <1>3, <2>1, <4>1
      <4>4. Moves(f, g, n, Len(tags), 0) /\ \A i \in 1..Len(tags) : g.struct[n + i] = tags[i]
        BY <4>2, <4>3, SplicedMoves
      <4> QED
        BY <4>1, <4>4
    <3>2. n + 1 \in 1..Len(g.struct) /\ (n + 1) - 1 = n /\ n \in 0..n
      BY <1>3, <2>4 DEF Moves
    <3>3. PathOf(g, n + 1) = EnterTag(PathOf(g, n), g.struct[n + 1])
      BY <1>2, <3>2, PathIs
    <3>4. PathOf(g, n + 1) = PathOf(g, n)
      BY <3>1, <3>3 DEF EnterTag, Prop
    <3>5. PathOf(g, n) = PathOf(f, n)
      BY <1>2, <2>4, <3>2, PathsInFront
    <3> QED
      BY <3>4, <3>5
  <2>6. WellNested(g)
    <3>1. \A i \in (n + 1)..(n + 1) : PathOf(g, i) # <<>> /\ PathOf(g, i)[1] = RootName
      <4>1. \A i \in (n + 1)..(n + 1) : i = n + 1
        BY <1>3
      <4> QED
        BY <1>3, <2>5, <4>1
    <3>2. n <= Len(f.struct) - 2
      BY <1>3
    <3> QED
      BY <1>1, <1>2, <2>4, <2>5, <3>1, <3>2, NestedMoved
  <2> QED
    BY <1>4, <2>3, <2>6
<1> QED
  BY <1>5, <1>6 DEF IsSet

(* and so does adding /chosen where there is none.                         *)
LEMMA AddEdits ==
  ASSUME NEW V, NEW f \in TreesOf(V), Readable(f), Tidy(f), NEW g \in TreesOf(V), Readable(g),
         AddsChosen(f, g), ChosenPath \notin Paths(f)
  PROVE  Tidy(g) /\ Paths(g) = Paths(f) \cup {ChosenPath} /\ Properties(g) = Properties(f)
<1>1. WellNested(f) /\ OnePathEach(f)
  BY DEF Tidy
<1>2. PICK b : ChosenAt(f, g, b)
  BY <1>1, AddedMaps
<1>3. /\ Moves(f, g, b - 1, 2, 0) /\ Maps(f, g, Behind(f, b - 1, 2), 0, RootName, {b})
      /\ b \in 2..(Len(f.struct) - 1) /\ PathOf(f, b - 1) = RootPath
      /\ PathOf(g, b) = ChosenPath /\ PathOf(g, b + 1) = RootPath
  BY <1>2 DEF ChosenAt
<1>4. Paths(g) = Paths(f) \cup {ChosenPath} /\ Properties(g) = Properties(f)
  BY <1>2, EditsAdd
<1>5. OnePathEach(g)
  <2>1. \A k \in {b} : PathOf(g, k) \notin Paths(f)
    BY <1>3
  <2>2. \A k \in {b}, l \in {b} : k = l
    OBVIOUS
  <2> QED
    BY <1>1, <1>3, <2>1, <2>2, OnePathMapped
<1>6. RootPath # <<>> /\ RootPath[1] = RootName /\ ChosenPath # <<>> /\ ChosenPath[1] = RootName
  BY DEF RootPath, ChosenPath
<1>7. Len(f.struct) \in Nat
  BY TreeFields
<1>8. /\ (b - 1) + 2 = b + 1 /\ (b - 1) + 1 = b /\ b - 1 <= Len(f.struct) - 2
      /\ \A i \in b..(b + 1) : i = b \/ i = b + 1
  BY <1>3, <1>7
<1>9. WellNested(g)
  <2>1. PathOf(g, (b - 1) + 2) = PathOf(f, b - 1)
    BY <1>3, <1>8
  <2>2. \A i \in ((b - 1) + 1)..((b - 1) + 2) : PathOf(g, i) # <<>> /\ PathOf(g, i)[1] = RootName
    BY <1>3, <1>6, <1>8
  <2> QED
    BY <1>1, <1>3, <1>8, <2>1, <2>2, NestedMoved
<1> QED
  BY <1>4, <1>5, <1>9 DEF Tidy

-----------------------------------------------------------------------------
(* A property is found in one node, and at one tag.                        *)
LEMMA PropertyPlaces ==
  ASSUME NEW V, NEW f \in TreesOf(V), Readable(f), NEW p \in Properties(f)
  PROVE  \E m \in 1..Len(f.struct), j \in 1..Len(f.struct) :
           p = <<PathOf(f, m), SpelledAt(f, f.struct[j].nameoff), f.struct[j].value>>
<1>1. PICK m \in Nodes(f) : \E nm, v : p = <<PathOf(f, m), nm, v>> /\ Has(f, m, nm, v)
  BY PropertiesIs
<1>2. PICK nm, v : p = <<PathOf(f, m), nm, v>> /\ Has(f, m, nm, v)
  BY <1>1
<1> DEFINE j == GetProperty(f, m, nm)
<1>3. j # NotFound /\ f.struct[j].value = v
  BY <1>2 DEF Has
<1>4. IsNode(f, m) /\ m \in 1..Len(f.struct)
  BY NodesAre DEF Nodes
<1>5. FirstNamed(f, m, nm, j)
  BY <1>3, <1>4, GetPropertyIs DEF NotFound
<1> HIDE DEF j
<1>6. j \in (m + 1)..Len(f.struct) /\ SpelledAt(f, f.struct[j].nameoff) = nm
  BY <1>5 DEF FirstNamed, IsNamed
<1>7. j \in 1..Len(f.struct)
  <2>1. m \in Nat /\ 1 <= m /\ Len(f.struct) \in Nat
    BY <1>4, NodeIsNotLast
  <2> QED
    BY <1>6, <2>1
<1> QED
  BY <1>2, <1>3, <1>4, <1>6, <1>7

(* So there are finitely many,                                             *)
LEMMA PropertiesFinite ==
  ASSUME NEW V, NEW f \in TreesOf(V), Readable(f)
  PROVE  IsFiniteSet(Properties(f))
<1> DEFINE I == 1..Len(f.struct)
           P == Properties(f)
           At(d) == <<PathOf(f, d[1]), SpelledAt(f, f.struct[d[2]].nameoff), f.struct[d[2]].value>>
           D == {d \in I \X I : At(d) \in P}
           F == [d \in D |-> At(d)]
<1>1. IsFiniteSet(I)
  <2>1. Len(f.struct) \in Int /\ 1 \in Int
    BY TreeFields
  <2> QED
    BY <2>1, FS_Interval
<1>2. IsFiniteSet(I \X I)
  BY <1>1, FS_Product
<1>3. \A p \in P : \E d \in I \X I : p = At(d)
  <2> SUFFICES ASSUME NEW p \in P PROVE \E d \in I \X I : p = At(d)
    OBVIOUS
  <2>1. PICK m \in I, j \in I :
          p = <<PathOf(f, m), SpelledAt(f, f.struct[j].nameoff), f.struct[j].value>>
    BY PropertyPlaces
  <2>2. <<m, j>> \in I \X I /\ p = At(<<m, j>>)
    BY <2>1
  <2> QED
    BY <2>2
<1> HIDE DEF I, P, At
<1>4. D \subseteq I \X I /\ \A d \in D : At(d) \in P
  OBVIOUS
<1>5. IsFiniteSet(D)
  BY <1>2, <1>4, FS_Subset
<1>6. \A p \in P : \E d \in D : p = At(d)
  BY <1>3
<1> HIDE DEF D
<1>7. F \in Surjection(D, P)
  <2>1. F \in [D -> P]
    BY <1>4
  <2>2. \A p \in P : \E d \in D : F[d] = p
    BY <1>6
  <2> HIDE DEF F
  <2> QED
    BY <2>1, <2>2 DEF Surjection
<1> HIDE DEF F
<1>8. IsFiniteSet(P)
  BY <1>5, <1>7, FS_Surjection
<1> QED
  BY <1>8 DEF P

(* and no two of one node and one name.                                    *)
LEMMA SingleValued ==
  ASSUME NEW V, NEW f \in TreesOf(V), Readable(f), OnePathEach(f)
  PROVE  Abstract!IsSingleValued(Properties(f))
<1> DEFINE P == Properties(f)
           K == {<<p[1], p[2]>> : p \in P}
           F == [p \in P |-> <<p[1], p[2]>>]
<1>1. IsFiniteSet(P)
  BY PropertiesFinite
<1>2. ASSUME NEW p \in P, NEW q \in P, p[1] = q[1], p[2] = q[2] PROVE p = q
  <2>1. PICK m \in Nodes(f) : \E nm, v : p = <<PathOf(f, m), nm, v>> /\ Has(f, m, nm, v)
    BY PropertiesIs
  <2>2. PICK nm, v : p = <<PathOf(f, m), nm, v>> /\ Has(f, m, nm, v)
    BY <2>1
  <2>3. PICK k \in Nodes(f) : \E km, w : q = <<PathOf(f, k), km, w>> /\ Has(f, k, km, w)
    BY PropertiesIs
  <2>4. PICK km, w : q = <<PathOf(f, k), km, w>> /\ Has(f, k, km, w)
    BY <2>3
  <2>5. p[1] = PathOf(f, m) /\ p[2] = nm /\ q[1] = PathOf(f, k) /\ q[2] = km
    BY <2>2, <2>4
  <2>6. m = k
    BY <1>2, <2>5 DEF OnePathEach
  <2>7. v = w
    BY <1>2, <2>2, <2>4, <2>5, <2>6 DEF Has
  <2> QED
    BY <1>2, <2>2, <2>4, <2>5, <2>7
<1> HIDE DEF P
<1>3. F \in [P -> K] /\ \A p \in P : F[p] = <<p[1], p[2]>>
  OBVIOUS
<1>4. \A k \in K : \E p \in P : F[p] = k
  OBVIOUS
<1> HIDE DEF F, K
<1>5. \A p \in P, q \in P : F[p] = F[q] => p = q
  BY <1>2, <1>3
<1>6. F \in Surjection(P, K)
  BY <1>3, <1>4 DEF Surjection
<1>7. F \in Injection(P, K)
  BY <1>3, <1>5 DEF Injection, IsInjective
<1>8. Cardinality(K) = Cardinality(P)
  BY <1>1, <1>6, <1>7, FS_Surjection
<1> QED
  <2>1. Cardinality({<<p[1], p[2]>> : p \in Properties(f)}) = Cardinality(Properties(f))
    BY <1>8 DEF K, P
  <2>2. \A S : Abstract!Cardinality(S) = Cardinality(S)
    BY DEF Abstract!Cardinality, Cardinality
  <2> QED
    BY <2>1, <2>2 DEF Abstract!IsSingleValued

-----------------------------------------------------------------------------
(* The tags of one kind behind the root, up to a place.                    *)
TagsTo(f, tag, k) == {n \in (Root + 1)..k : IsTag(f, n, tag)}

(* One tag more counts one more, if it is of the kind.                     *)
LEMMA CountTo ==
  ASSUME NEW f, NEW tag, NEW i \in Nat, Root <= i
  PROVE  /\ Cardinality(TagsTo(f, tag, i)) \in Nat
         /\ Cardinality(TagsTo(f, tag, i + 1))
              = Cardinality(TagsTo(f, tag, i)) + IF IsTag(f, i + 1, tag) THEN 1 ELSE 0
<1> DEFINE C == TagsTo(f, tag, i)
<1>1. C \subseteq (Root + 1)..i /\ Root = 1
  BY DEF TagsTo, Root
<1>2. IsFiniteSet(C)
  <2>1. IsFiniteSet((Root + 1)..i)
    BY <1>1, FS_Interval
  <2> QED
    BY <1>1, <2>1, FS_Subset
<1>3. Cardinality(C) \in Nat
  BY <1>2, FS_CardinalityType
<1>4. i + 1 \notin C
  BY <1>1
<1>5. \A k : k \in (Root + 1)..(i + 1) <=> k \in (Root + 1)..i \/ k = i + 1
  BY DEF Root
<1>6. CASE IsTag(f, i + 1, tag)
  <2>1. TagsTo(f, tag, i + 1) = C \cup {i + 1}
    BY <1>5, <1>6 DEF TagsTo
  <2>2. Cardinality(C \cup {i + 1}) = Cardinality(C) + 1
    BY <1>2, <1>4, FS_AddElement
  <2> QED
    BY <1>3, <1>6, <2>1, <2>2
<1>7. CASE ~IsTag(f, i + 1, tag)
  <2>1. TagsTo(f, tag, i + 1) = C
    BY <1>5, <1>7 DEF TagsTo
  <2> QED
    BY <1>3, <1>7, <2>1
<1> QED
  BY <1>3, <1>6, <1>7

(* Entering a tag makes a path one longer or shorter, or leaves it.        *)
LEMMA EnterLength ==
  ASSUME NEW V, NEW t \in TagsOf(V), NEW p \in Seq(Names), p # <<>>
  PROVE  Len(EnterTag(p, t)) = Len(p) + (IF t.tag = "BEGIN_NODE" THEN 1 ELSE 0)
                                 - (IF t.tag = "END_NODE" THEN 1 ELSE 0)
<1>1. Len(p) \in Nat /\ Len(p) # 0
  OBVIOUS
<1>2. CASE t.tag = "BEGIN_NODE"
  <2>1. EnterTag(p, t) = Append(p, t.name) /\ t.name \in Names
    BY <1>2, TagsToldApart DEF EnterTag
  <2>2. Len(EnterTag(p, t)) = Len(p) + 1
    BY <2>1, AppendProperties
  <2> QED
    BY <1>1, <1>2, <2>2
<1>3. CASE t.tag = "END_NODE"
  <2>1. EnterTag(p, t) = SubSeq(p, 1, Len(p) - 1)
    BY <1>3 DEF EnterTag, Front
  <2>2. Len(SubSeq(p, 1, Len(p) - 1)) = Len(p) - 1
    <3>1. \A i \in 1..(Len(p) - 1) : p[i] \in Names
      BY <1>1
    <3>2. Len(p) - 1 \in Int /\ 1 \in Int
      BY <1>1
    <3>3. Len(SubSeq(p, 1, Len(p) - 1)) = IF 1 <= Len(p) - 1 THEN (Len(p) - 1) - 1 + 1 ELSE 0
      BY <3>1, <3>2, SubSeqProperties
    <3>4. \A n \in Nat : n # 0 => (IF 1 <= n - 1 THEN (n - 1) - 1 + 1 ELSE 0) = n - 1
      OBVIOUS
    <3>5. (IF 1 <= Len(p) - 1 THEN (Len(p) - 1) - 1 + 1 ELSE 0) = Len(p) - 1
      BY <1>1, <3>4
    <3> QED
      BY <3>3, <3>5
  <2> QED
    BY <1>1, <1>3, <2>1, <2>2
<1>4. CASE t.tag \notin {"BEGIN_NODE", "END_NODE"}
  <2>1. EnterTag(p, t) = p
    BY <1>4 DEF EnterTag
  <2> QED
    BY <1>1, <1>4, <2>1
<1> QED
  BY <1>2, <1>3, <1>4

(* In a tree that is nested the depth below the root is the length of the  *)
(* path.                                                                   *)
LEMMA DepthIs ==
  ASSUME NEW V, NEW f \in TreesOf(V), Readable(f), WellNested(f)
  PROVE  \A i \in 1..(Len(f.struct) - 2) :
           Depth(f, Root, i) = Len(PathOf(f, i)) - 1 /\ Len(PathOf(f, i)) \in Nat \ {0}
<1> DEFINE N == Len(f.struct) - 2
           B(i) == Cardinality(TagsTo(f, "BEGIN_NODE", i))
           E(i) == Cardinality(TagsTo(f, "END_NODE", i))
           T == {i \in 0..N : i # 0 => B(i) - E(i) = Len(PathOf(f, i)) - 1}
<1>1. Len(f.struct) \in Nat /\ Len(f.struct) > 1
  BY TreeFields DEF Readable
<1>2. /\ \A i \in 0..Len(f.struct) : PathOf(f, i) \in Seq(Names)
      /\ \A i \in 1..Len(f.struct) : PathOf(f, i) = EnterTag(PathOf(f, i - 1), f.struct[i])
  BY PathIs
<1>3. \A i : Depth(f, Root, i) = B(i) - E(i)
  BY DEF Depth, TagsTo
<1>4. \A i \in 1..N : PathOf(f, i) # <<>>
  BY DEF WellNested
<1>5. ASSUME NEW i \in 1..N PROVE Len(PathOf(f, i)) \in Nat \ {0}
  <2>1. i \in 0..Len(f.struct)
    BY <1>1
  <2>2. PathOf(f, i) \in Seq(Names) /\ PathOf(f, i) # <<>>
    BY <1>2, <1>4, <2>1
  <2> HIDE DEF N
  <2> QED
    BY <2>2
<1>6. \A i \in Nat : Root <= i =>
        /\ B(i) \in Nat /\ B(i + 1) = B(i) + IF IsTag(f, i + 1, "BEGIN_NODE") THEN 1 ELSE 0
        /\ E(i) \in Nat /\ E(i + 1) = E(i) + IF IsTag(f, i + 1, "END_NODE") THEN 1 ELSE 0
  BY CountTo
<1>7. B(1) = 0 /\ E(1) = 0
  <2>1. TagsTo(f, "BEGIN_NODE", 1) = {} /\ TagsTo(f, "END_NODE", 1) = {}
    BY DEF TagsTo, Root
  <2> QED
    BY <2>1, FS_EmptySet
<1> HIDE DEF B, E
<1>8. Len(PathOf(f, 1)) = 1
  <2>1. f.struct[1] = BeginNode(RootName) /\ 1 \in 1..Len(f.struct)
    BY <1>1 DEF WellNested
  <2>2. \A i \in (Root + 1)..1 : IsProperty(f, i)
    BY DEF Root
  <2>3. PathOf(f, 1) = RootPath
    BY <1>1, <2>1, <2>2, RootPathIs
  <2> QED
    BY <2>3 DEF RootPath
<1>9. CASE N < 1
  BY <1>1, <1>9
<1>10. CASE ~(N < 1)
  <2>0. N \in Nat /\ 1 <= N
    BY <1>1, <1>10
  <2>1. 0 \in T
    BY <2>0
  <2>2. ASSUME NEW i \in 0..(N - 1), i \in T PROVE i + 1 \in T
    <3>0. i + 1 \in 0..N /\ i \in Nat
      BY <2>0
    <3>1. CASE i = 0
      <4>1. i + 1 = 1
        BY <3>1
      <4>2. B(1) - E(1) = Len(PathOf(f, 1)) - 1
        <5>1. 0 - 0 = 1 - 1
          OBVIOUS
        <5> QED
          BY <1>7, <1>8, <5>1
      <4>3. B(i + 1) - E(i + 1) = Len(PathOf(f, i + 1)) - 1
        BY <4>1, <4>2
      <4> QED
        BY <3>0, <4>3
    <3>2. CASE i # 0
      <4>1. i \in 1..N /\ i + 1 \in 1..N /\ Root <= i /\ i \in 0..Len(f.struct)
            /\ i + 1 \in 1..Len(f.struct) /\ (i + 1) - 1 = i
        BY <1>1, <2>0, <3>2 DEF Root
      <4>2. PathOf(f, i) \in Seq(Names) /\ PathOf(f, i) # <<>> /\ f.struct[i + 1] \in TagsOf(V)
            /\ PathOf(f, i + 1) = EnterTag(PathOf(f, i), f.struct[i + 1])
        BY <1>2, <1>4, <4>1, TreeFields
      <4>3. Len(PathOf(f, i + 1))
              = Len(PathOf(f, i)) + (IF IsTag(f, i + 1, "BEGIN_NODE") THEN 1 ELSE 0)
                  - (IF IsTag(f, i + 1, "END_NODE") THEN 1 ELSE 0)
        BY <4>2, EnterLength DEF IsTag
      <4>4. B(i) - E(i) = Len(PathOf(f, i)) - 1
        BY <2>2, <3>2
      <4>5. /\ B(i) \in Nat /\ B(i + 1) = B(i) + IF IsTag(f, i + 1, "BEGIN_NODE") THEN 1 ELSE 0
            /\ E(i) \in Nat /\ E(i + 1) = E(i) + IF IsTag(f, i + 1, "END_NODE") THEN 1 ELSE 0
        BY <1>6, <3>0, <4>1
      <4>6. Len(PathOf(f, i)) \in Nat
        BY <1>5, <4>1
      <4>7. B(i + 1) - E(i + 1) = Len(PathOf(f, i + 1)) - 1
        BY <4>3, <4>4, <4>5, <4>6
      <4> QED
        BY <3>0, <4>7
    <3> QED
      BY <3>1, <3>2
  <2> HIDE DEF T, N
  <2>3. \A i \in 0..N : i \in T
    BY <2>0, <2>1, <2>2, AllUpTo
  <2>4. \A i \in 1..N : B(i) - E(i) = Len(PathOf(f, i)) - 1
    BY <2>0, <2>3 DEF T
  <2>5. \A i \in 1..N : Depth(f, Root, i) = Len(PathOf(f, i)) - 1 /\ Len(PathOf(f, i)) \in Nat \ {0}
    BY <1>3, <1>5, <2>4
  <2> QED
    BY <2>5 DEF N
<1> QED
  BY <1>9, <1>10

(* So the nodes that fdt_subnode_offset looks for are those of the path    *)
(* of /chosen.                                                             *)
LEMMA IsChosenPath ==
  ASSUME NEW V, NEW f \in TreesOf(V), Readable(f), WellNested(f), NEW j \in Nodes(f)
  PROVE  IsChosen(f, j) <=> PathOf(f, j) = ChosenPath
<1> DEFINE N == Len(f.struct) - 2
           p == PathOf(f, j - 1)
           name == f.struct[j].name
<1>1. j \in 1..N /\ j \in 1..Len(f.struct) /\ PathOf(f, j)[1] = RootName /\ Len(f.struct) \in Nat
  BY NodeHasEnd, TreeFields
<1>2. f.struct[j].tag = "BEGIN_NODE" /\ IsTag(f, j, "BEGIN_NODE")
  BY DEF Nodes, IsTag
<1>3. p \in Seq(Names) /\ name \in Names
  <2>1. j - 1 \in 0..Len(f.struct) /\ f.struct[j] \in TagsOf(V)
    BY <1>1, TreeFields
  <2> QED
    BY <1>2, <2>1, PathIs, TagsToldApart
<1>4. PathOf(f, j) = Append(p, name)
  BY <1>1, <1>2, PathIs DEF EnterTag
<1>5. Depth(f, Root, j) = Len(PathOf(f, j)) - 1
  BY <1>1, DepthIs
<1> HIDE DEF p, name
<1>6. /\ Append(p, name) \in Seq(Names) /\ Len(Append(p, name)) = Len(p) + 1
      /\ Append(p, name)[Len(p) + 1] = name /\ Len(p) \in Nat
  BY <1>3, AppendProperties
<1>7. RootName \in Names /\ "chosen" \in Names
  BY OwnNames
<1>8. /\ ChosenPath \in Seq(Names) /\ Len(ChosenPath) = 2
      /\ ChosenPath[1] = RootName /\ ChosenPath[2] = "chosen"
  BY <1>7 DEF ChosenPath
<1>9. ASSUME PathOf(f, j) = ChosenPath PROVE IsChosen(f, j)
  <2>1. Len(p) = 1 /\ name = "chosen"
    <3>1. Append(p, name) = ChosenPath
      BY <1>4, <1>9
    <3>2. Len(p) + 1 = 2
      BY <1>6, <1>8, <3>1
    <3>3. Len(p) = 1
      <4>1. Len(p) \in Nat
        BY <1>6
      <4>2. \A n \in Nat : n + 1 = 2 => n = 1
        OBVIOUS
      <4> QED
        BY <3>2, <4>1, <4>2
    <3> QED
      BY <1>6, <1>8, <3>1, <3>2, <3>3
  <2>2. Depth(f, Root, j) = 1
    BY <1>5, <1>8, <1>9
  <2>3. j # 1
    <3>1. f.struct[1] = BeginNode(RootName) /\ Len(f.struct) > 1
      BY DEF WellNested, Readable
    <3>2. \A i \in (Root + 1)..1 : IsProperty(f, i)
      BY DEF Root
    <3>3. 1 \in 1..Len(f.struct)
      BY <1>1
    <3>4. PathOf(f, 1) = RootPath
      BY <3>1, <3>2, <3>3, RootPathIs
    <3>5. Len(RootPath) = 1
      BY DEF RootPath
    <3> QED
      BY <1>8, <1>9, <3>4, <3>5
  <2>4. j \in (Root + 1)..Len(f.struct)
    BY <1>1, <2>3 DEF Root
  <2> QED
    BY <1>2, <2>1, <2>2, <2>4 DEF IsChosen, name
<1>10. ASSUME IsChosen(f, j) PROVE PathOf(f, j) = ChosenPath
  <2>1. name = "chosen" /\ Depth(f, Root, j) = 1
    BY <1>10 DEF IsChosen, name
  <2>2. Len(p) = 1
    BY <1>4, <1>5, <1>6, <2>1
  <2> DEFINE q == PathOf(f, j)
  <2>3. q \in Seq(Names) /\ Len(q) = 2 /\ q[1] = RootName /\ q[2] = "chosen"
    BY <1>1, <1>4, <1>6, <2>1, <2>2
  <2> HIDE DEF q
  <2>4. \A i \in 1..Len(q) : q[i] = ChosenPath[i]
    BY <1>8, <2>3
  <2>5. q = ChosenPath
    BY <1>8, <2>3, <2>4, SeqEqual
  <2> QED
    BY <2>5 DEF q
<1> QED
  BY <1>9, <1>10

(* It finds the one there is.                                              *)
LEMMA ChosenFound ==
  ASSUME NEW V, NEW f \in TreesOf(V), Readable(f), WellNested(f)
  PROVE  /\ Chosen(f) # NotFound => Chosen(f) \in Nodes(f) /\ PathOf(f, Chosen(f)) = ChosenPath
         /\ Chosen(f) = NotFound => ChosenPath \notin Paths(f)
<1>1. Len(f.struct) \in Nat
  BY TreeFields
<1>2. \A j : IsChosen(f, j) => j \in Nodes(f)
  <2>1. \A j : j \in (Root + 1)..Len(f.struct) => j \in 1..Len(f.struct)
    BY <1>1 DEF Root
  <2> QED
    BY <2>1 DEF IsChosen, Nodes
<1>3. ASSUME Chosen(f) # NotFound
      PROVE  Chosen(f) \in Nodes(f) /\ PathOf(f, Chosen(f)) = ChosenPath
  <2>1. IsChosen(f, Chosen(f))
    BY <1>1, <1>3, ChosenIs
  <2> QED
    BY <1>2, <2>1, IsChosenPath
<1>4. ASSUME NEW k \in Nodes(f), PathOf(f, k) = ChosenPath PROVE Chosen(f) # NotFound
  <2> DEFINE S == {j \in Nodes(f) : IsChosen(f, j)}
  <2>1. k \in S
    BY <1>4, IsChosenPath
  <2>2. S \subseteq Nat
    BY <1>1 DEF Nodes
  <2>3. \E j \in S : \A y \in S : j <= y
    BY <2>1, <2>2, LeastNat
  <2>4. PICK j \in S : \A y \in S : j <= y
    BY <2>3
  <2>5. IsChosen(f, j) /\ \A i : IsChosen(f, i) => j <= i
    BY <1>2, <2>4
  <2>6. j \in 1..(Len(f.struct) - 2)
    BY <2>4, NodeHasEnd
  <2>7. ASSUME NEW i \in Root..j PROVE ~(Depth(f, Root, i) < 0)
    <3>1. i \in 1..(Len(f.struct) - 2)
      BY <1>1, <2>6 DEF Root
    <3>2. Depth(f, Root, i) = Len(PathOf(f, i)) - 1 /\ Len(PathOf(f, i)) \in Nat \ {0}
      BY <3>1, DepthIs
    <3> QED
      BY <3>2
  <2>8. Chosen(f) = j
    BY <1>1, <2>5, <2>7, ChosenIs
  <2> QED
    BY <2>6, <2>8 DEF NotFound
<1> QED
  BY <1>3, <1>4 DEF Paths

-----------------------------------------------------------------------------
(* The invariant the refinement needs.                                     *)
TidyInv == IInv /\ Tidy(Tree)

(* The tree in use is a readable one, the firmware's or that in the buffer.*)
LEMMA TreeIs ==
  ASSUME IInv
  PROVE  Tree \in TreesOf(Values) /\ Readable(Tree)
<1>1. CASE fdt = NoTree
  BY <1>1, OriginalIs DEF IInv, Tree
<1>2. CASE fdt # NoTree
  BY <1>2 DEF IInv, Tree, Good
<1> QED
  BY <1>1, <1>2

(* Nesting is a matter of the tags.                                        *)
LEMMA TidyKept ==
  ASSUME NEW f, NEW g, Tidy(f), g.struct = f.struct
  PROVE  Tidy(g)
<1>1. \A i : PathOf(g, i) = PathOf(f, i)
  BY DEF PathOf
<1>2. Nodes(g) = Nodes(f)
  BY DEF Nodes, IsTag
<1> QED
  BY <1>1, <1>2 DEF Tidy, WellNested, OnePathEach

(* The root has its own path,                                              *)
LEMMA RootIsThere ==
  ASSUME NEW V, NEW f \in TreesOf(V), Readable(f), f.struct[1] = BeginNode(RootName)
  PROVE  Root \in Nodes(f) /\ PathOf(f, Root) = RootPath /\ RootPath \in Paths(f)
<1>1. 1 \in 1..Len(f.struct) /\ Len(f.struct) > 1
  BY TreeFields DEF Readable
<1>2. \A i \in (Root + 1)..1 : IsProperty(f, i)
  BY DEF Root
<1>3. PathOf(f, 1) = RootPath
  BY <1>1, <1>2, RootPathIs
<1>4. 1 \in Nodes(f)
  BY <1>1 DEF Nodes, Readable
<1> QED
  BY <1>3, <1>4 DEF Root, Paths

(* also in the tree without any other node.                                *)
LEMMA EmptyIsTidy == Tidy(EmptyTree)
<1> DEFINE f == EmptyTree
<1>1. f.struct = RootOnly
  BY DEF EmptyTree
<1>2. /\ Len(f.struct) = 3 /\ f.struct[1] = BeginNode(RootName)
      /\ f.struct[2] = EndNode /\ f.struct[3] = End
  BY <1>1 DEF RootOnly
<1>3. f \in TreesOf(Values) /\ Readable(f)
  BY EmptyTreeIs, ValuesHaveLengths
<1> HIDE DEF f
<1>4. PathOf(f, 1) = RootPath /\ Root = 1
  BY <1>2, <1>3, RootIsThere DEF Root
<1>5. \A j \in 1..(3 - 2) : j = 1
  OBVIOUS
<1>6. WellNested(f)
  <2>1. RootPath # <<>> /\ RootPath[1] = RootName
    BY DEF RootPath
  <2>2. 3 - 1 = 2
    OBVIOUS
  <2> QED
    BY <1>2, <1>4, <1>5, <2>1, <2>2 DEF WellNested
<1>7. \A j \in Nodes(f) : j = 1
  <2>1. \A j \in 1..3 : j = 1 \/ j = 2 \/ j = 3
    OBVIOUS
  <2>2. ~IsTag(f, 2, "BEGIN_NODE") /\ ~IsTag(f, 3, "BEGIN_NODE")
    BY <1>2 DEF IsTag, EndNode, End
  <2> QED
    BY <1>2, <2>1, <2>2 DEF Nodes
<1>8. OnePathEach(f)
  BY <1>7 DEF OnePathEach
<1> QED
  BY <1>6, <1>8 DEF Tidy, f

(* Every tree to begin with is one the reader may have.                    *)
LEMMA TidyInit == Init => TidyInv /\ Abstract!Init
<1> SUFFICES ASSUME Init PROVE TidyInv /\ Abstract!Init
  OBVIOUS
<1>1. IInv
  BY IInvInit
<1>2. Tree = Original
  BY DEF Init, Tree
<1>3. Tidy(Original)
  <2>1. CASE orig = NoTree
    BY <2>1, EmptyIsTidy DEF Original
  <2>2. CASE orig # NoTree
    <3>1. orig \in Trees
      BY <2>2 DEF Init
    <3> QED
      BY <2>2, <3>1, NestedAssumption DEF Original, Tidy
  <2> QED
    BY <2>1, <2>2
<1>4. Tree \in TreesOf(Values) /\ Readable(Tree) /\ Tidy(Tree)
  BY <1>1, <1>2, <1>3, TreeIs
<1>5. RootPath \in Paths(Tree)
  BY <1>4, RootIsThere DEF Tidy, WellNested
<1>6. Abstract!IsSingleValued(Properties(Tree))
  BY <1>4, SingleValued DEF Tidy
<1> QED
  BY <1>1, <1>4, <1>5, <1>6 DEF TidyInv, Abstract!Init

(* A step that leaves the tags and the strings is none to the reader;      *)
LEMMA StepKeeps ==
  ASSUME TidyInv, NEW f, f = Tree', f.struct = Tree.struct, f.strings = Tree.strings
  PROVE  Tidy(Tree)' /\ Abstract!Keep
<1>1. Tidy(f)
  BY TidyKept DEF TidyInv
<1>2. Paths(f) = Paths(Tree) /\ Properties(f) = Properties(Tree)
  BY EditsNothing
<1>3. Tidy(Tree)'
  BY <1>1
<1>4. Paths(Tree)' = Paths(Tree) /\ Properties(Tree)' = Properties(Tree)
  BY <1>2
<1> QED
  BY <1>3, <1>4 DEF Abstract!Keep, Abstract!vars

(* one that edits a node sets properties of it;                            *)
LEMMA StepEdits ==
  ASSUME IInv', NEW f, f = Tree', Tidy(f), NEW path, path \in Paths(Tree), NEW names,
         Edits(Tree, f, path, names)
  PROVE  Tidy(Tree)' /\ Abstract!SetProps(path, names, Properties(Tree), Properties(Tree)')
<1>1. f \in TreesOf(Values) /\ Readable(f)
  <2>1. (Tree \in TreesOf(Values) /\ Readable(Tree))'
    BY TreeIs, PTL
  <2> QED
    BY <2>1
<1>2. Abstract!IsSingleValued(Properties(f))
  BY <1>1, SingleValued DEF Tidy
<1>3. Properties(Tree)' = Properties(f) /\ Paths(Tree)' = Paths(f) /\ Tidy(Tree)'
  OBVIOUS
<1> QED
  BY <1>2, <1>3 DEF Edits, Abstract!SetProps

-----------------------------------------------------------------------------
(* What the refinement says of a step.                                     *)
Refines == Tidy(Tree)' /\ Abstract!Next

(* A step that keeps the tags and strings of the tree in the buffer.       *)
LEMMA BufferKeeps ==
  ASSUME TidyInv, fdt # NoTree, fdt' # NoTree,
         fdt'.struct = fdt.struct, fdt'.strings = fdt.strings
  PROVE  Refines
<1>1. Tree = fdt /\ Tree' = fdt'
  BY DEF Tree
<1>2. Tidy(Tree)' /\ Abstract!Keep
  BY <1>1, StepKeeps
<1> QED
  BY <1>2 DEF Refines, Abstract!Next

(* Opening the tree copies it, or leaves the buffer without one;           *)
LEMMA OpenRefines == ASSUME TidyInv, IInv', OpenTree PROVE Refines
<1> DEFINE q == IF orig = NoTree THEN CreateEmptyTree(bufsize) ELSE OpenInto(orig, bufsize)
           next == IF orig = NoTree THEN "cells" ELSE "reserved"
<1>1. TypeOK /\ at = "open" /\ fdt = NoTree
  BY DEF TidyInv, IInv, OpenTree, Progress
<1>2. orig' = orig /\ Original' = Original /\ Tree = Original
  BY <1>1, Unmoved DEF OpenTree, Tree
<1>3. /\ q.err = "none" => fdt' = q.fdt /\ at' = next
      /\ q.err # "none" => fdt' = NoTree
  BY DEF OpenTree, Calls, Fails
<1>4. /\ Original \in TreesOf(Values) /\ Readable(Original)
      /\ Original.sizeStrings = StringBytes(Original.strings)
      /\ HeaderSize + ReserveBytes(Original) + StructBytes(Original.struct)
           + Original.sizeStrings <= Original.total
  BY <1>1, OriginalIs
<1>5. bufsize \in Nat
  BY <1>1, ConstantsAre
<1>6. q = OpenInto(Original, bufsize) \/ q.err = "NOSPACE"
  BY DEF Original, CreateEmptyTree, Fails
<1> HIDE DEF q
<1>7. \/ q.err # "none"
      \/ q.err = "none" /\ q.fdt.struct = Original.struct /\ q.fdt.strings = Original.strings
  BY <1>4, <1>5, <1>6, OpenIntoIs, ValuesHaveLengths
<1>8. Tree'.struct = Tree.struct /\ Tree'.strings = Tree.strings
  <2>1. CASE q.err # "none"
    BY <1>2, <1>3, <2>1 DEF Tree
  <2>2. CASE q.err = "none"
    <3>1. fdt' = q.fdt /\ at' \in {"cells", "reserved"}
      BY <1>3, <2>2
    <3>2. fdt' # NoTree
      BY <3>1 DEF IInv
    <3> QED
      BY <1>2, <1>7, <2>2, <3>1, <3>2 DEF Tree
  <2> QED
    BY <2>1, <2>2
<1>9. Tidy(Tree)' /\ Abstract!Keep
  BY <1>8, StepKeeps
<1> QED
  BY <1>9 DEF Refines, Abstract!Next

(* setting the cell sizes sets properties of the root, also when there was *)
(* no room for one of them;                                                *)
LEMMA TriedEdits ==
  ASSUME TypeOK, NEW f, Good(f, Original, bufsize), Tidy(f),
         NEW name \in RootProps, name \in Names,
         NEW g, g = SetProp(f, Root, name, Cells).fdt
  PROVE  Tidy(g) /\ Edits(f, g, RootPath, RootProps)
<1> DEFINE r == SetProp(f, Root, name, Cells)
<1>1. Cells \in Values
  BY ConstantsAre
<1>2. IsNode(f, Root) /\ f \in TreesOf(Values) /\ Readable(f) /\ Sound(f)
  BY GoodIsTree DEF Good
<1>3. r = SetProp(f, Root, name, Cells) /\ g = r.fdt
  OBVIOUS
<1> HIDE DEF r
<1>4. g = f \/ IsSet(f, g, Root, name, Cells, Values)
  BY <1>1, <1>2, <1>3, SetPropIs, ValuesHaveLengths
<1>5. PathOf(f, Root) = RootPath
  BY <1>2, RootIsThere DEF Tidy, WellNested
<1>6. CASE g = f
  BY <1>6, EditsNothing
<1>7. CASE IsSet(f, g, Root, name, Cells, Values)
  BY <1>1, <1>2, <1>5, <1>7, SetEdits
<1> QED
  BY <1>4, <1>6, <1>7

(* so the cell sizes change properties of the root only.                   *)
LEMMA CellsRefine == ASSUME TidyInv, IInv', UpdateCellSize PROVE Refines
<1> DEFINE f == SetProp(fdt, Root, "#address-cells", Cells).fdt
           g == SetProp(f, Root, "#size-cells", Cells).fdt
<1>1. TypeOK /\ fdt # NoTree /\ Good(fdt, Original, bufsize) /\ Tidy(fdt) /\ Tree = fdt
  BY DEF TidyInv, IInv, UpdateCellSize, Progress, Tree
<1>2. fdt' = g /\ at' = "reserved"
  BY DEF UpdateCellSize
<1>3. /\ f = SetProp(fdt, Root, "#address-cells", Cells).fdt
      /\ g = SetProp(f, Root, "#size-cells", Cells).fdt
  OBVIOUS
<1> HIDE DEF f, g
<1>4. /\ "#address-cells" \in RootProps /\ "#size-cells" \in RootProps
      /\ "#address-cells" \in Names /\ "#size-cells" \in Names
  BY ToldNames DEF RootProps
<1>5. Good(f, Original, bufsize)
  BY <1>1, <1>3, <1>4, TriedIsGood
<1>6. Tidy(f) /\ Edits(fdt, f, RootPath, RootProps)
  BY <1>1, <1>3, <1>4, TriedEdits
<1>7. Tidy(g) /\ Edits(f, g, RootPath, RootProps)
  BY <1>1, <1>3, <1>4, <1>5, <1>6, TriedEdits
<1>8. Tree' = g
  <2>1. fdt' # NoTree
    BY <1>2 DEF IInv
  <2> QED
    BY <1>2, <2>1 DEF Tree
<1>9. RootPath \in Paths(Tree)
  BY <1>1, TreeIs, RootIsThere DEF TidyInv, Tidy, WellNested
<1>10. Edits(Tree, g, RootPath, RootProps)
  BY <1>1, <1>6, <1>7, EditsAgain
<1>11. /\ Tidy(Tree)'
       /\ Abstract!SetProps(RootPath, RootProps, Properties(Tree), Properties(Tree)')
  BY <1>7, <1>8, <1>9, <1>10, StepEdits
<1> QED
  BY <1>11 DEF Refines, Abstract!Next

(* deleting a memory reservation, finding /chosen and packing the blocks   *)
(* are nothing to the reader;                                              *)
LEMMA ReservationRefines == ASSUME TidyInv, IInv', DelReservations PROVE Refines
<1>1. fdt # NoTree /\ Good(fdt, Original, bufsize)
  BY DEF TidyInv, IInv, DelReservations
<1>2. fdt' # NoTree
  <2>1. at' \in {"reserved", "chosen"}
    BY DEF DelReservations
  <2> QED
    BY <2>1 DEF IInv
<1>3. fdt'.struct = fdt.struct /\ fdt'.strings = fdt.strings
  <2>1. CASE fdt.reserved > 0
    <3>1. fdt' = DelMemRsv(fdt)
      BY <2>1 DEF DelReservations
    <3>2. fdt \in TreesOf(Values) /\ Readable(fdt) /\ Sound(fdt)
      BY <1>1 DEF Good
    <3> QED
      BY <2>1, <3>1, <3>2, DelMemRsvIs, ValuesHaveLengths
  <2>2. CASE ~(fdt.reserved > 0)
    BY <2>2 DEF DelReservations
  <2> QED
    BY <2>1, <2>2
<1> QED
  BY <1>1, <1>2, <1>3, BufferKeeps

(* Neither does looking for /chosen,                                       *)
LEMMA FindRefines == ASSUME TidyInv, FindChosen PROVE Refines
<1>1. fdt # NoTree /\ fdt' = fdt
  BY DEF TidyInv, IInv, FindChosen
<1> QED
  BY <1>1, BufferKeeps

(* nor moving the blocks together at the end.                              *)
LEMMA PackRefines == ASSUME TidyInv, IInv', PackTree PROVE Refines
<1>1. fdt # NoTree /\ Good(fdt, Original, bufsize)
  BY DEF TidyInv, IInv, PackTree
<1>2. fdt' # NoTree
  BY DEF IInv, PackTree
<1>3. fdt'.struct = fdt.struct /\ fdt'.strings = fdt.strings
  <2>1. fdt' = Pack(fdt)
    BY DEF PackTree
  <2>2. fdt \in TreesOf(Values) /\ Readable(fdt) /\ Sound(fdt)
    BY <1>1 DEF Good
  <2> QED
    BY <2>1, <2>2, PackIs, ValuesHaveLengths
<1> QED
  BY <1>1, <1>2, <1>3, BufferKeeps

-----------------------------------------------------------------------------
(* adding /chosen adds a node, where none has its path;                    *)
LEMMA AddRefines == ASSUME TidyInv, IInv', AddChosen PROVE Refines
<1> DEFINE r == AddSubnode(fdt, Root, "chosen")
<1>1. fdt # NoTree /\ Good(fdt, Original, bufsize) /\ Tidy(fdt) /\ Tree = fdt
      /\ Chosen(fdt) = NotFound
  BY DEF TidyInv, IInv, AddChosen, Tree
<1>2. fdt' = r.fdt
  BY DEF AddChosen, Calls
<1>3. r = AddSubnode(fdt, Root, "chosen")
  OBVIOUS
<1> HIDE DEF r
<1>4. fdt \in TreesOf(Values) /\ Readable(fdt) /\ Sound(fdt)
  BY <1>1 DEF Good
<1>5. \/ r.fdt = fdt
      \/ r.fdt \in TreesOf(Values) /\ Readable(r.fdt) /\ Good(r.fdt, Original, bufsize)
         /\ AddsChosen(fdt, r.fdt)
  <2>1. \/ r.fdt = fdt
        \/ /\ r.fdt \in TreesOf(Values) /\ Readable(r.fdt) /\ Sound(r.fdt)
           /\ SameHeader(fdt, r.fdt) /\ AddsChosen(fdt, r.fdt)
           /\ \A m \in Nat : Named(fdt, m) => Named(r.fdt, m)
    BY <1>3, <1>4, AddChosenIs, ValuesHaveLengths
  <2>2. Len(Original.strings) \in Nat
    BY OriginalIs, TreeFields DEF TidyInv, IInv
  <2> QED
    BY <1>1, <2>1, <2>2 DEF Good, SameHeader
<1>6. CASE r.fdt = fdt
  BY <1>1, <1>2, <1>6, BufferKeeps
<1>7. CASE /\ r.fdt \in TreesOf(Values) /\ Readable(r.fdt) /\ Good(r.fdt, Original, bufsize)
           /\ AddsChosen(fdt, r.fdt)
  <2>1. ChosenPath \notin Paths(fdt)
    BY <1>1, <1>4, ChosenFound DEF Tidy
  <2>2. /\ Tidy(r.fdt) /\ Paths(r.fdt) = Paths(fdt) \cup {ChosenPath}
        /\ Properties(r.fdt) = Properties(fdt)
    BY <1>1, <1>4, <1>7, <2>1, AddEdits
  <2>3. Tree' = r.fdt
    <3>1. r.fdt # NoTree
      BY <1>7, GoodIsTree
    <3> QED
      BY <1>2, <3>1 DEF Tree
  <2>4. /\ Paths(Tree)' = Paths(Tree) \cup {ChosenPath} /\ Properties(Tree)' = Properties(Tree)
        /\ Tidy(Tree)'
    BY <1>1, <2>2, <2>3
  <2>5. Abstract!AddNode(ChosenPath)
    BY <1>1, <2>1, <2>4 DEF Abstract!AddNode
  <2> QED
    BY <2>4, <2>5 DEF Refines, Abstract!Next
<1> QED
  BY <1>5, <1>6, <1>7

(* A property of /chosen that is set edits it.                             *)
LEMMA ChosenEdits ==
  ASSUME NEW f, NEW first, NEW size, Good(f, first, size), Tidy(f),
         Chosen(f) # NotFound, NEW name \in ChosenProps, NEW v \in Values, NEW g,
         IsSet(f, g, Chosen(f), name, v, Values)
  PROVE  Tidy(g) /\ Edits(f, g, ChosenPath, ChosenProps)
<1>1. f \in TreesOf(Values) /\ Readable(f) /\ WellNested(f)
  BY DEF Good, Tidy
<1>2. IsNode(f, Chosen(f))
  BY ChosenStays
<1>3. PathOf(f, Chosen(f)) = ChosenPath
  BY <1>1, ChosenFound
<1> QED
  BY <1>1, <1>2, <1>3, SetEdits

(* The names update_fdt sets there.                                        *)
LEMMA ChosenNames ==
  /\ "bootargs" \in ChosenProps /\ \A i \in 1..5 : Told[i].name \in ChosenProps
<1>1. Len(Told) = 5
  BY ToldIs
<1> HIDE DEF Told
<1> QED
  BY <1>1 DEF ChosenProps

(* The node is there already.                                              *)
LEMMA ChosenIsThere ==
  ASSUME NEW f, NEW first, NEW size, Good(f, first, size), Tidy(f), Chosen(f) # NotFound
  PROVE  ChosenPath \in Paths(f)
<1>1. f \in TreesOf(Values) /\ Readable(f) /\ WellNested(f)
  BY DEF Good, Tidy
<1>2. Chosen(f) \in Nodes(f) /\ PathOf(f, Chosen(f)) = ChosenPath
  BY <1>1, ChosenFound
<1> QED
  BY <1>2 DEF Paths

(* So an edit of it is a step of the abstract tree,                        *)
LEMMA BufferEdits ==
  ASSUME TidyInv, IInv', fdt # NoTree, Chosen(fdt) # NotFound, fdt' # NoTree,
         Tidy(fdt'), Edits(fdt, fdt', ChosenPath, ChosenProps)
  PROVE  Refines
<1>1. Tree = fdt /\ Tree' = fdt' /\ Good(fdt, Original, bufsize) /\ Tidy(fdt)
  BY DEF Tree, TidyInv, IInv
<1>2. ChosenPath \in Paths(Tree)
  BY <1>1, ChosenIsThere
<1>3. Edits(Tree, fdt', ChosenPath, ChosenProps)
  BY <1>1
<1>4. /\ Tidy(Tree)'
      /\ Abstract!SetProps(ChosenPath, ChosenProps, Properties(Tree), Properties(Tree)')
  BY <1>1, <1>2, <1>3, StepEdits
<1> QED
  BY <1>4 DEF Refines, Abstract!Next

(* and so are setting a property with fdt_setprop, which may find no room, *)
LEMMA SetRefines ==
  ASSUME TidyInv, IInv', at \in {"bootargs", "told"}, NEW name \in ChosenProps, name \in Names,
         NEW v \in Values, NEW r, r = SetProp(fdt, node, name, v), fdt' = r.fdt
  PROVE  Refines
<1>1. /\ fdt # NoTree /\ Good(fdt, Original, bufsize) /\ Tidy(fdt) /\ TypeOK
      /\ node = Chosen(fdt) /\ Chosen(fdt) # NotFound
  BY DEF TidyInv, IInv, Tells, Tree
<1>2. fdt \in TreesOf(Values) /\ Readable(fdt) /\ Sound(fdt) /\ IsNode(fdt, node)
  BY <1>1, ChosenStays DEF Good
<1>3. r.fdt = fdt \/ IsSet(fdt, r.fdt, node, name, v, Values)
  BY <1>2, SetPropIs, ValuesHaveLengths
<1>4. CASE r.fdt = fdt
  BY <1>1, <1>4, BufferKeeps
<1>5. CASE IsSet(fdt, r.fdt, node, name, v, Values)
  <2>1. Tidy(r.fdt) /\ Edits(fdt, r.fdt, ChosenPath, ChosenProps)
    BY <1>1, <1>5, ChosenEdits
  <2>2. r.fdt # NoTree
    <3>1. bufsize \in Nat
      BY <1>1, ConstantsAre
    <3>2. Good(r.fdt, Original, bufsize)
      BY <1>1, <1>5, <3>1, SetIsGood
    <3> QED
      BY <3>2, GoodIsTree
  <2> QED
    BY <1>1, <2>1, <2>2, BufferEdits
<1> QED
  BY <1>3, <1>4, <1>5

(* Writing bootargs sets one property of /chosen,                          *)
LEMMA BootargsRefines == ASSUME TidyInv, IInv', SetBootargs PROVE Refines
<1>1. fdt # NoTree /\ TypeOK /\ at = "bootargs"
  BY DEF TidyInv, IInv, SetBootargs
<1>2. CASE cmdline.len > 1
  <2>1. fdt' = SetProp(fdt, node, "bootargs", cmdline).fdt
    BY <1>2 DEF SetBootargs, Calls
  <2>2. cmdline \in Values /\ "bootargs" \in Names /\ "bootargs" \in ChosenProps
    BY <1>1, ConstantsAre, ToldNames, ChosenNames
  <2> QED
    BY <1>1, <2>1, <2>2, SetRefines
<1>3. CASE ~(cmdline.len > 1)
  <2>1. fdt' = fdt
    BY <1>3 DEF SetBootargs
  <2> QED
    BY <1>1, <2>1, BufferKeeps
<1> QED
  BY <1>2, <1>3

(* as does each of the five that update_fdt tells,                         *)
LEMMA TellRefines == ASSUME TidyInv, IInv', Tell PROVE Refines
<1> DEFINE name == Told[told].name
           v == [len |-> Told[told].len, data |-> Placeholder]
<1>1. at = "told" /\ told \in 1..5
  <2>1. at = "told" /\ told \in 1..(Len(Told) + 1) /\ told <= Len(Told)
    BY DEF TidyInv, IInv, Tell, TypeOK
  <2>2. Len(Told) = 5
    BY ToldIs
  <2> QED
    BY <2>1, <2>2
<1>2. fdt' = SetProp(fdt, node, name, v).fdt
  BY DEF Tell, Calls
<1>3. name \in Names /\ name \in ChosenProps
  BY <1>1, ToldNames, ChosenNames
<1>4. v \in Values
  <2>1. v = ToldValue(told, 0) /\ 0 \in 0..Rounds
    BY TreesAssumption DEF ToldValue, Placeholder
  <2> QED
    BY <1>1, <2>1, ToldValueIs
<1> HIDE DEF name, v
<1> QED
  BY <1>1, <1>2, <1>3, <1>4, SetRefines

(* and the four properties of the memory map, written in place.            *)
LEMMA WriteEdits ==
  ASSUME round \in 0..(Rounds - 1), NEW f, NEW g, NEW k \in 2..5, Writes(f, g, k), Tidy(f)
  PROVE  Tidy(g) /\ Edits(f, g, ChosenPath, ChosenProps)
<1>1. /\ Good(f, Original, bufsize) /\ Chosen(f) = node /\ node # NotFound
      /\ IsSet(f, g, node, Told[k].name, ToldValue(k, round + 1), Values)
  BY DEF Writes, Writing
<1>2. k \in 1..5 /\ round + 1 \in 0..Rounds
  BY TreesAssumption
<1>3. ToldValue(k, round + 1) \in Values /\ Told[k].name \in ChosenProps
  BY <1>2, ToldValueIs, ChosenNames
<1> QED
  BY <1>1, <1>3, ChosenEdits

(* so update_fdt_memmap changes properties of /chosen only.                *)
LEMMA MemmapRefines == ASSUME TidyInv, IInv', UpdateMemmap PROVE Refines
<1>1. /\ IInv /\ fdt # NoTree /\ Tidy(fdt) /\ at = "ready" /\ Chosen(fdt) # NotFound
  BY DEF TidyInv, IInv, UpdateMemmap, Tells, Tree
<1>2. round \in 0..(Rounds - 1)
  <2>1. round < Rounds /\ round \in 0..Rounds /\ Rounds \in Nat
    BY <1>1, TreesAssumption DEF UpdateMemmap, IInv, TypeOK
  <2> QED
    BY <2>1
<1>3. PICK f, g, h : Writes(fdt, f, 2) /\ Writes(f, g, 3) /\ Writes(g, h, 4) /\ Writes(h, fdt', 5)
  BY <1>1, MemmapWrites
<1>4. Tidy(f) /\ Edits(fdt, f, ChosenPath, ChosenProps)
  BY <1>1, <1>2, <1>3, WriteEdits
<1>5. Tidy(g) /\ Edits(f, g, ChosenPath, ChosenProps)
  BY <1>2, <1>3, <1>4, WriteEdits
<1>6. Tidy(h) /\ Edits(g, h, ChosenPath, ChosenProps)
  BY <1>2, <1>3, <1>5, WriteEdits
<1>7. Tidy(fdt') /\ Edits(h, fdt', ChosenPath, ChosenProps)
  BY <1>2, <1>3, <1>6, WriteEdits
<1>8. Edits(fdt, fdt', ChosenPath, ChosenProps)
  <2>1. Edits(fdt, g, ChosenPath, ChosenProps)
    BY <1>4, <1>5, EditsAgain
  <2>2. Edits(fdt, h, ChosenPath, ChosenProps)
    BY <1>6, <2>1, EditsAgain
  <2> QED
    BY <1>7, <2>2, EditsAgain
<1>9. fdt' # NoTree
  <2>1. at' = "ready"
    BY <1>1, MemmapWrites
  <2> QED
    BY <2>1 DEF IInv
<1> QED
  BY <1>1, <1>7, <1>8, <1>9, BufferEdits

(* Every step is a step of the abstract tree, or none.                     *)
LEMMA TidyStep ==
  ASSUME TidyInv, IInv', [Next]_vars
  PROVE  TidyInv' /\ [Abstract!Next]_(Abstract!vars)
<1>1. CASE Next
  <2>1. Refines
    BY <1>1, OpenRefines, CellsRefine, ReservationRefines, FindRefines, AddRefines,
       BootargsRefines, TellRefines, PackRefines, MemmapRefines DEF Next
  <2> QED
    BY <2>1 DEF Refines, TidyInv
<1>2. CASE UNCHANGED vars
  <2>1. Tree' = Tree
    BY <1>2 DEF vars, Tree, Original
  <2>2. Tidy(Tree)' /\ Abstract!Keep
    BY <2>1, StepKeeps
  <2> QED
    BY <2>2 DEF TidyInv, Abstract!Keep
<1> QED
  BY <1>1, <1>2

(* For every nested tree a firmware may have, in every buffer: what a      *)
(* reader finds in the tree changes by update_fdt and update_fdt_memmap    *)
(* only as DeviceTree lets it, one call at a time, and not by a call that  *)
(* fails.                                                                  *)
THEOREM ImplementsDeviceTree == Spec => TreeSpec
<1>1. TidyInv => IInv
  BY DEF TidyInv
<1>2. TidyInv /\ IInv' /\ [Next]_vars => TidyInv' /\ [Abstract!Next]_(Abstract!vars)
  BY TidyStep
<1> QED
  BY <1>1, <1>2, TidyInit, TreeInvariant, PTL DEF Spec, TreeSpec, Abstract!Spec
=============================================================================
