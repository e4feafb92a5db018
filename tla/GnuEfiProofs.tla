---------------------------- MODULE GnuEfiProofs ----------------------------
(***************************************************************************)
(* Theorems about the gnu-efi library: its locks, for any number of them,  *)
(* of levels and of notifications that run inside each other; its          *)
(* functions that install or replace several interfaces; the buffers that  *)
(* grow with the answer, and who uses them; the reading of files; events   *)
(* and the line that is typed; self relocation; and the formatted print.   *)
(***************************************************************************)
EXTENDS LibLock, LibProtocols, GrowBuffer, SimpleRead, LibEvents, LibHandles,
        Mbr, SelfRelocation, EfiPrint, NumberTheorems, SequenceTheorems, TLAPS

ContextType ==
  [tpl : Int, from : Int, held : Seq(Locks), at : {"runs", "raised", "released"},
   Tpl : Int]

LockTypeOK ==
  /\ level \in Int
  /\ OwnerTpl \in [Locks -> Int] /\ Lock \in [Locks -> Int]
  /\ contexts \in Seq(ContextType) /\ contexts # <<>>

(* The locks of one context are different, and their levels do not fall.   *)
WellHeld(c) ==
  /\ c.at # "runs" => c.held # <<>>
  /\ \A k \in 1..Len(c.held) : c.tpl <= LockTpl[c.held[k]]
  /\ \A j, k \in 1..Len(c.held) :
       j < k => c.held[j] # c.held[k] /\ LockTpl[c.held[j]] <= LockTpl[c.held[k]]

(* The level below the one of the k-th lock.                               *)
Below(c, k) == IF k = 1 THEN c.tpl ELSE LockTpl[c.held[k - 1]]

(* What the locks of a context, and its local variable, have saved.        *)
SavedIn(c, owner) ==
  /\ \A k \in 1..Len(c.held) :
       (k < Len(c.held) \/ c.at # "raised") => owner[c.held[k]] = Below(c, k)
  /\ c.at # "runs" => c.Tpl = Below(c, Len(c.held))

Level(c) == LevelOf(c.tpl, c.held)

(* Each context runs above the level of every one below it.                *)
Stacked(cs) ==
  /\ \A i, j \in 1..Len(cs) : i < j => cs[j].tpl > Level(cs[i])
  /\ \A i \in 2..Len(cs) : cs[i].from = Level(cs[i - 1])

Counted ==
  \A l \in Locks :
    Lock[l] = IF \E i \in 1..Len(contexts) : Owns(contexts[i], l) THEN 1 ELSE 0

LockInv ==
  /\ LockTypeOK
  /\ \A i \in 1..Len(contexts) : WellHeld(contexts[i])
  /\ \A i \in 1..Len(contexts) : SavedIn(contexts[i], OwnerTpl)
  /\ Stacked(contexts)
  /\ level = Level(Running)
  /\ Counted

-----------------------------------------------------------------------------
(* Contexts and their levels.                                              *)

LEMMA LastLevel ==
  ASSUME NEW c \in ContextType
  PROVE  Level(c) = IF Len(c.held) = 0 THEN c.tpl ELSE LockTpl[c.held[Len(c.held)]]
BY DEF Level, LevelOf, Last, ContextType

(* The level of a context is an integer, and none of its locks is above.   *)
LEMMA LevelIsHighest ==
  ASSUME NEW c \in ContextType, WellHeld(c)
  PROVE  /\ Level(c) \in Int /\ c.tpl <= Level(c)
         /\ \A k \in 1..Len(c.held) : LockTpl[c.held[k]] <= Level(c)
<1>1. Len(c.held) \in Nat /\ c.tpl \in Int
      /\ \A k \in 1..Len(c.held) : c.held[k] \in Locks
  BY DEF ContextType
<1>2. \A k \in 1..Len(c.held) : LockTpl[c.held[k]] \in Int
  BY <1>1, LockAssumption
<1>3. CASE Len(c.held) = 0
  BY <1>1, <1>3, LastLevel
<1>4. CASE Len(c.held) # 0
  BY <1>1, <1>2, <1>4, LastLevel DEF WellHeld
<1> QED BY <1>3, <1>4

(* No lock is held by two contexts: one that runs in the other would have  *)
(* taken a lock of a level below its own.                                  *)
LEMMA HeldByOne ==
  ASSUME LockInv, NEW i \in 1..Len(contexts), NEW j \in 1..Len(contexts),
         NEW k \in 1..Len(contexts[i].held), NEW m \in 1..Len(contexts[j].held),
         contexts[i].held[k] = contexts[j].held[m]
  PROVE  i = j
<1> DEFINE l == contexts[i].held[k]
<1>1. /\ Len(contexts) \in Nat
      /\ contexts[i] \in ContextType /\ contexts[j] \in ContextType
  BY DEF LockInv, LockTypeOK
<1>2. WellHeld(contexts[i]) /\ WellHeld(contexts[j])
  BY DEF LockInv
<1>a. contexts[i].held \in Seq(Locks)
  BY <1>1 DEF ContextType
<1>3. l \in Locks /\ LockTpl[l] \in Int
  BY <1>a, LockAssumption
<1>4. LockTpl[l] <= Level(contexts[i]) /\ LockTpl[l] <= Level(contexts[j])
  BY <1>1, <1>2, LevelIsHighest
<1>5. contexts[i].tpl <= LockTpl[l] /\ contexts[j].tpl <= LockTpl[l]
  BY <1>2 DEF WellHeld
<1>6. /\ Level(contexts[i]) \in Int /\ Level(contexts[j]) \in Int
      /\ contexts[i].tpl \in Int /\ contexts[j].tpl \in Int
  BY <1>1, <1>2, LevelIsHighest DEF ContextType
<1>7. /\ i < j => contexts[j].tpl > Level(contexts[i])
      /\ j < i => contexts[i].tpl > Level(contexts[j])
  BY DEF LockInv, Stacked
<1> HIDE DEF l
<1>8. ~(i < j)
  BY <1>3, <1>4, <1>5, <1>6, <1>7
<1>9. ~(j < i)
  BY <1>3, <1>4, <1>5, <1>6, <1>7
<1> QED BY <1>1, <1>8, <1>9

(* What runs is the last context.                                          *)
LEMMA TheRunning ==
  ASSUME LockInv
  PROVE  /\ Len(contexts) \in Nat /\ Len(contexts) >= 1
         /\ Running \in ContextType /\ Running = contexts[Len(contexts)]
         /\ Running.held \in Seq(Locks) /\ Len(Running.held) \in Nat
         /\ WellHeld(Running) /\ SavedIn(Running, OwnerTpl)
         /\ level = Level(Running)
<1>1. contexts \in Seq(ContextType) /\ contexts # <<>>
  BY DEF LockInv, LockTypeOK
<1>2. Len(contexts) \in Nat /\ Len(contexts) >= 1
  BY <1>1
<1>3. Running \in ContextType
  BY <1>1, <1>2 DEF Running
<1>4. Running.held \in Seq(Locks)
  BY <1>3 DEF ContextType
<1> QED BY <1>2, <1>3, <1>4 DEF LockInv, Running

(* A step of the code that runs changes its own context alone: what stays  *)
(* to be shown is that this context, the counters and the saved levels fit *)
(* together again.                                                         *)
LEMMA OwnStep ==
  ASSUME LockInv, NEW d \in ContextType, Becomes(d),
         d.tpl = Running.tpl, d.from = Running.from, WellHeld(d),
         level' = Level(d),
         OwnerTpl' \in [Locks -> Int], Lock' \in [Locks -> Int],
         SavedIn(d, OwnerTpl'),
         \A i \in 1..(Len(contexts) - 1) :
           \A k \in 1..Len(contexts[i].held) :
             OwnerTpl'[contexts[i].held[k]] = OwnerTpl[contexts[i].held[k]],
         \A l \in Locks :
           Lock'[l] = IF \/ Owns(d, l)
                         \/ \E i \in 1..(Len(contexts) - 1) : Owns(contexts[i], l)
                      THEN 1 ELSE 0
  PROVE  LockInv'
<1> DEFINE n == Len(contexts)
<1>1. /\ contexts \in Seq(ContextType) /\ n \in Nat /\ n >= 1
  BY TheRunning DEF LockInv, LockTypeOK
<1>2. /\ contexts' \in Seq(ContextType) /\ Len(contexts') = n
      /\ contexts'[n] = d /\ \A i \in 1..(n - 1) : contexts'[i] = contexts[i]
  BY <1>1 DEF Becomes
<1>a. \A i \in 1..n : \/ i = n /\ contexts'[i] = d
                      \/ i \in 1..(n - 1) /\ contexts'[i] = contexts[i]
  <2> HIDE DEF n
  <2>1. \A i \in 1..n : i = n \/ i \in 1..(n - 1)
    BY <1>1
  <2> QED BY <1>2, <2>1
<1>b. \A i \in 1..n : WellHeld(contexts[i]) /\ SavedIn(contexts[i], OwnerTpl)
  BY DEF LockInv
<1>c. n = Len(contexts) /\ contexts[n] = Running /\ 1..(n - 1) \subseteq 1..n
  BY <1>1 DEF Running
<1>3. contexts' # <<>>
  BY <1>1, <1>2
<1>4. Running' = d
  BY <1>2 DEF Running
<1>5. Level(d) \in Int
  BY LevelIsHighest
<1>6. LockTypeOK'
  BY <1>2, <1>3, <1>5 DEF LockTypeOK
<1>7. \A i \in 1..n : WellHeld(contexts'[i])
  BY <1>a, <1>b
<1>8. \A i \in 1..n : SavedIn(contexts'[i], OwnerTpl')
  <2> SUFFICES ASSUME NEW i \in 1..(n - 1) PROVE SavedIn(contexts[i], OwnerTpl')
    BY <1>a
  <2>1. SavedIn(contexts[i], OwnerTpl)
    BY <1>b, <1>c
  <2> QED BY <2>1 DEF SavedIn
<1>9. Stacked(contexts')
  <2>1. \A i, j \in 1..n : i < j => contexts'[j].tpl > Level(contexts'[i])
    <3> SUFFICES ASSUME NEW i \in 1..n, NEW j \in 1..n, i < j
                 PROVE  contexts'[j].tpl > Level(contexts'[i])
      OBVIOUS
    <3>1. contexts'[i] = contexts[i]
      BY <1>1, <1>2
    <3>3. contexts'[j].tpl = contexts[j].tpl
      BY <1>a, <1>c
    <3>2. contexts[j].tpl > Level(contexts[i])
      BY DEF LockInv, Stacked
    <3> QED BY <3>1, <3>2, <3>3
  <2>2. \A i \in 2..n : contexts'[i].from = Level(contexts'[i - 1])
    <3> SUFFICES ASSUME NEW i \in 2..n PROVE contexts'[i].from = Level(contexts'[i - 1])
      OBVIOUS
    <3>1. contexts'[i - 1] = contexts[i - 1]
      BY <1>1, <1>2
    <3>3. contexts'[i].from = contexts[i].from
      BY <1>1, <1>a, <1>c
    <3>2. contexts[i].from = Level(contexts[i - 1])
      BY DEF LockInv, Stacked
    <3> QED BY <3>1, <3>2, <3>3
  <2> QED BY <1>2, <2>1, <2>2 DEF Stacked
<1>10. Counted'
  <2> SUFFICES ASSUME NEW l \in Locks
               PROVE  (\E i \in 1..n : Owns(contexts'[i], l))
                        <=> \/ Owns(d, l)
                            \/ \E i \in 1..(n - 1) : Owns(contexts[i], l)
    BY <1>2 DEF Counted
  <2>1. n \in 1..n /\ contexts'[n] = d
    BY <1>1, <1>2
  <2>2. \A i \in 1..(n - 1) : i \in 1..n /\ contexts'[i] = contexts[i]
    BY <1>2, <1>c
  <2> HIDE DEF n
  <2> QED BY <1>a, <2>1, <2>2
<1>11. level' = Level(Running')
  BY <1>4
<1> QED BY <1>2, <1>6, <1>7, <1>8, <1>9, <1>10, <1>11 DEF LockInv

(* A lock the running code holds is held nowhere else.                     *)
LEMMA OthersLack ==
  ASSUME LockInv, NEW i \in 1..(Len(contexts) - 1), NEW k \in 1..Len(contexts[i].held),
         NEW m \in 1..Len(Running.held)
  PROVE  contexts[i].held[k] # Running.held[m]
<1>1. Len(contexts) \in Nat /\ Len(contexts) >= 1 /\ Running = contexts[Len(contexts)]
  BY TheRunning
<1>2. i \in 1..Len(contexts) /\ Len(contexts) \in 1..Len(contexts) /\ i # Len(contexts)
  BY <1>1
<1>3. m \in 1..Len(contexts[Len(contexts)].held)
  BY <1>1
<1>4. contexts[i].held[k] = contexts[Len(contexts)].held[m] => i = Len(contexts)
  BY <1>2, <1>3, HeldByOne
<1> QED BY <1>1, <1>2, <1>4

(* Who owns a lock counts it, and the others are as they were.             *)
LEMMA CountedAt ==
  ASSUME LockInv, NEW l \in Locks
  PROVE  /\ Lock[l] = IF \/ Owns(Running, l)
                         \/ \E i \in 1..(Len(contexts) - 1) : Owns(contexts[i], l)
                      THEN 1 ELSE 0
         /\ \A m \in 1..Len(Running.held) : Running.held[m] = l =>
              ~\E i \in 1..(Len(contexts) - 1) : Owns(contexts[i], l)
<1>1. Len(contexts) \in Nat /\ Len(contexts) >= 1 /\ Running = contexts[Len(contexts)]
  BY TheRunning
<1>2. Lock[l] = IF \E i \in 1..Len(contexts) : Owns(contexts[i], l) THEN 1 ELSE 0
  BY DEF LockInv, Counted
<1>3. (\E i \in 1..Len(contexts) : Owns(contexts[i], l))
        <=> \/ Owns(Running, l)
            \/ \E i \in 1..(Len(contexts) - 1) : Owns(contexts[i], l)
  BY <1>1
<1>4. ASSUME NEW m \in 1..Len(Running.held), Running.held[m] = l,
             NEW i \in 1..(Len(contexts) - 1), Owns(contexts[i], l)
      PROVE  FALSE
  <2>1. contexts \in Seq(ContextType)
    BY DEF LockInv, LockTypeOK
  <2>5. contexts[i] \in ContextType
    BY <1>1, <2>1
  <2>2. contexts[i].held \in Seq(Locks)
    BY <2>5 DEF ContextType
  <2>3. PICK k \in DOMAIN contexts[i].held : contexts[i].held[k] = l
    BY <1>4 DEF Owns
  <2>4. k \in 1..Len(contexts[i].held)
    BY <2>2, <2>3
  <2> QED BY <1>4, <2>3, <2>4, OthersLack
<1> QED BY <1>2, <1>3, <1>4

-----------------------------------------------------------------------------
(* One lemma for each step.                                                *)

LEMMA RaiseToLockStep ==
  ASSUME LockInv, NEW l \in Locks, RaiseToLock(l)
  PROVE  LockInv'
<1> DEFINE c == Running
           d == [c EXCEPT !.held = Append(@, l), !.at = "raised", !.Tpl = level]
           n == Len(c.held)
<1>1. /\ c \in ContextType /\ c.held \in Seq(Locks) /\ n \in Nat
      /\ WellHeld(c) /\ SavedIn(c, OwnerTpl) /\ level = Level(c) /\ level \in Int
  BY TheRunning DEF LockInv, LockTypeOK
<1>2. /\ c.at = "runs" /\ LockTpl[l] >= level /\ l \notin Range(c.held)
      /\ level' = LockTpl[l] /\ Becomes(d) /\ OwnerTpl' = OwnerTpl /\ Lock' = Lock
  BY DEF RaiseToLock
<1>3. LockTpl[l] \in Int
  BY LockAssumption
<1>4. /\ d \in ContextType /\ d.tpl = c.tpl /\ d.from = c.from
      /\ d.at = "raised" /\ d.Tpl = level /\ d.held = Append(c.held, l)
  <2>1. /\ c \in [tpl : Int, from : Int, held : Seq(Locks),
                 at : {"runs", "raised", "released"}, Tpl : Int]
        /\ Append(c.held, l) \in Seq(Locks)
    BY <1>1 DEF ContextType
  <2> HIDE DEF c
  <2> QED BY <1>1, <2>1 DEF ContextType
<1>5. /\ d.held \in Seq(Locks) /\ Len(d.held) = n + 1 /\ d.held[n + 1] = l
      /\ \A k \in 1..n : d.held[k] = c.held[k]
  BY <1>1, <1>4
<1>6. \A k \in 1..n : c.held[k] # l
  BY <1>1, <1>2 DEF Range
<1>7. /\ c.tpl <= level /\ c.tpl \in Int
      /\ \A k \in 1..n : LockTpl[c.held[k]] <= level /\ LockTpl[c.held[k]] \in Int
  <2>1. \A k \in 1..n : c.held[k] \in Locks
    BY <1>1
  <2> QED BY <1>1, <2>1, LevelIsHighest, LockAssumption DEF ContextType
<1> HIDE DEF c, d, n
<1>8. WellHeld(d)
  <2>1. \A k \in 1..(n + 1) : d.tpl <= LockTpl[d.held[k]]
    BY <1>1, <1>2, <1>3, <1>4, <1>5, <1>7 DEF WellHeld, n
  <2>2. ASSUME NEW j \in 1..(n + 1), NEW k \in 1..(n + 1), j < k
        PROVE  d.held[j] # d.held[k] /\ LockTpl[d.held[j]] <= LockTpl[d.held[k]]
    <3>1. CASE k = n + 1
      <4>1. j \in 1..n
        BY <1>1, <2>2, <3>1
      <4>2. d.held[j] = c.held[j] /\ d.held[k] = l /\ c.held[j] # l
        BY <1>5, <1>6, <3>1, <4>1
      <4>3. LockTpl[c.held[j]] <= level /\ LockTpl[c.held[j]] \in Int
        BY <1>7, <4>1
      <4> QED BY <1>1, <1>2, <1>3, <4>2, <4>3
    <3>2. CASE k # n + 1
      <4>1. j \in 1..n /\ k \in 1..n
        BY <1>1, <2>2, <3>2
      <4>2. c.held[j] # c.held[k] /\ LockTpl[c.held[j]] <= LockTpl[c.held[k]]
        BY <1>1, <2>2, <4>1 DEF WellHeld, n
      <4> QED BY <1>5, <4>1, <4>2
    <3> QED BY <3>1, <3>2
  <2>3. d.held # <<>>
    BY <1>1, <1>5
  <2> QED BY <1>5, <2>1, <2>2, <2>3 DEF WellHeld
<1>9. level' = Level(d)
  BY <1>1, <1>2, <1>4, <1>5, LastLevel
<1>10. SavedIn(d, OwnerTpl')
  <2>1. \A k \in 1..n : Below(d, k) = Below(c, k)
    BY <1>1, <1>4, <1>5 DEF Below
  <2>2. \A k \in 1..n : OwnerTpl[c.held[k]] = Below(c, k)
    BY <1>1, <1>2 DEF SavedIn, n
  <2>3. level = Below(d, n + 1)
    BY <1>1, <1>4, <1>5, LastLevel DEF Below, n
  <2> QED BY <1>1, <1>2, <1>4, <1>5, <2>1, <2>2, <2>3 DEF SavedIn
<1>11. \A x \in Locks : Owns(d, x) <=> Owns(c, x)
  BY <1>1, <1>2, <1>4, <1>5 DEF Owns, n
<1>12. \A x \in Locks :
         Lock'[x] = IF \/ Owns(d, x)
                       \/ \E i \in 1..(Len(contexts) - 1) : Owns(contexts[i], x)
                    THEN 1 ELSE 0
  BY <1>2, <1>11, CountedAt DEF c
<1> QED
  BY <1>2, <1>4, <1>8, <1>9, <1>10, <1>12, OwnStep DEF LockInv, LockTypeOK, c

(* What the three steps that follow have in common: the innermost lock.    *)
LEMMA Innermost ==
  ASSUME LockInv, Running.held # <<>>
  PROVE  /\ Len(Running.held) >= 1
         /\ Last(Running.held) = Running.held[Len(Running.held)]
         /\ Last(Running.held) \in Locks
         /\ \A k \in 1..Len(Running.held) : Running.held[k] \in Locks
         /\ \A k \in 1..(Len(Running.held) - 1) : Running.held[k] # Last(Running.held)
<1>1. Running.held \in Seq(Locks) /\ WellHeld(Running)
  BY TheRunning
<1>2. /\ Len(Running.held) >= 1 /\ Len(Running.held) \in Nat
      /\ \A k \in 1..Len(Running.held) : Running.held[k] \in Locks
  BY <1>1
<1>3. Last(Running.held) = Running.held[Len(Running.held)]
  BY DEF Last
<1> QED BY <1>1, <1>2, <1>3 DEF WellHeld

(* Owning the lock keeps the invariant.                                    *)
LEMMA RtAcquireLockStep ==
  ASSUME LockInv, RtAcquireLock
  PROVE  LockInv'
<1> DEFINE c == Running
           d == [c EXCEPT !.at = "runs"]
           n == Len(c.held)
           l == Last(c.held)
<1>1. /\ c \in ContextType /\ c.held \in Seq(Locks) /\ n \in Nat
      /\ WellHeld(c) /\ SavedIn(c, OwnerTpl) /\ level = Level(c)
      /\ OwnerTpl \in [Locks -> Int] /\ Lock \in [Locks -> Int]
  BY TheRunning DEF LockInv, LockTypeOK
<1>2. /\ c.at = "raised" /\ Becomes(d) /\ level' = level
      /\ OwnerTpl' = [OwnerTpl EXCEPT ![l] = c.Tpl]
      /\ Lock' = [Lock EXCEPT ![l] = @ + 1]
  BY DEF RtAcquireLock
<1>3. c.held # <<>>
  BY <1>1, <1>2 DEF WellHeld
<1>4. /\ n >= 1 /\ l = c.held[n] /\ l \in Locks
      /\ \A k \in 1..n : c.held[k] \in Locks
      /\ \A k \in 1..(n - 1) : c.held[k] # l
  BY <1>3, Innermost
<1>5. /\ d \in ContextType /\ d.tpl = c.tpl /\ d.from = c.from
      /\ d.at = "runs" /\ d.held = c.held /\ c.Tpl \in Int
  BY <1>1 DEF ContextType
<1> HIDE DEF c, d, n, l
<1>6. WellHeld(d)
  BY <1>1, <1>5 DEF WellHeld
<1>7. level' = Level(d)
  BY <1>1, <1>2, <1>5 DEF Level
<1>8. SavedIn(d, OwnerTpl')
  <2>1. \A k \in 1..n : Below(d, k) = Below(c, k)
    BY <1>5 DEF Below
  <2>2. \A k \in 1..n : k < n => OwnerTpl'[c.held[k]] = Below(c, k)
    <3> SUFFICES ASSUME NEW k \in 1..n, k < n PROVE OwnerTpl'[c.held[k]] = Below(c, k)
      OBVIOUS
    <3>1. c.held[k] # l /\ c.held[k] \in Locks
      BY <1>1, <1>4
    <3>2. OwnerTpl[c.held[k]] = Below(c, k)
      BY <1>1 DEF SavedIn, n
    <3> QED BY <1>1, <1>2, <3>1, <3>2
  <2>3. OwnerTpl'[c.held[n]] = Below(c, n)
    BY <1>1, <1>2, <1>4 DEF SavedIn, n
  <2> QED BY <1>1, <1>4, <1>5, <2>1, <2>2, <2>3 DEF SavedIn, n
<1>9. /\ OwnerTpl' \in [Locks -> Int] /\ Lock' \in [Locks -> Int]
  BY <1>1, <1>2, <1>4, <1>5
<1>10. \A i \in 1..(Len(contexts) - 1) : \A k \in 1..Len(contexts[i].held) :
         OwnerTpl'[contexts[i].held[k]] = OwnerTpl[contexts[i].held[k]]
  <2>1. n \in 1..Len(Running.held)
    BY <1>1, <1>4 DEF n, c
  <2>2. \A i \in 1..(Len(contexts) - 1) : \A k \in 1..Len(contexts[i].held) :
          contexts[i].held[k] # l
    BY <1>4, <2>1, OthersLack DEF c
  <2> QED BY <1>1, <1>2, <2>2
<1>11. \A x \in Locks :
         Lock'[x] = IF \/ Owns(d, x)
                       \/ \E i \in 1..(Len(contexts) - 1) : Owns(contexts[i], x)
                    THEN 1 ELSE 0
  <2>1. ASSUME NEW x \in Locks, x # l PROVE Owns(d, x) <=> Owns(c, x)
    BY <1>1, <1>2, <1>4, <1>5, <2>1 DEF Owns, n
  <2>a. n \in 1..n /\ DOMAIN c.held = 1..n /\ DOMAIN d.held = 1..n /\ n = Len(c.held)
    BY <1>1, <1>4, <1>5 DEF n
  <2>b. \A k \in 1..n : k < n => k \in 1..(n - 1)
    BY <1>1
  <2>2. ~Owns(c, l) /\ Owns(d, l)
    BY <1>2, <1>4, <1>5, <2>a, <2>b DEF Owns
  <2>m. n \in 1..Len(Running.held) /\ Running.held[n] = l
    BY <1>4, <2>a DEF c
  <2>3. Lock[l] = 0
    <3>1. ~\E i \in 1..(Len(contexts) - 1) : Owns(contexts[i], l)
      BY <1>4, <2>m, CountedAt
    <3>2. ~Owns(Running, l)
      BY <2>2 DEF c
    <3> QED BY <1>4, <3>1, <3>2, CountedAt
  <2> SUFFICES ASSUME NEW x \in Locks
               PROVE  Lock'[x] = IF \/ Owns(d, x)
                                    \/ \E i \in 1..(Len(contexts) - 1) : Owns(contexts[i], x)
                                 THEN 1 ELSE 0
    OBVIOUS
  <2>4. CASE x = l
    BY <1>1, <1>2, <1>4, <2>2, <2>3, <2>4
  <2>5. CASE x # l
    BY <1>1, <1>2, <2>1, <2>5, CountedAt DEF c
  <2> QED BY <2>4, <2>5
<1> QED
  BY <1>2, <1>5, <1>6, <1>7, <1>8, <1>9, <1>10, <1>11, OwnStep DEF c

(* So does giving it up,                                                   *)
LEMMA RtReleaseLockStep ==
  ASSUME LockInv, RtReleaseLock
  PROVE  LockInv'
<1> DEFINE c == Running
           n == Len(c.held)
           l == Last(c.held)
           d == [c EXCEPT !.at = "released", !.Tpl = OwnerTpl[l]]
<1>1. /\ c \in ContextType /\ c.held \in Seq(Locks) /\ n \in Nat
      /\ WellHeld(c) /\ SavedIn(c, OwnerTpl) /\ level = Level(c)
      /\ OwnerTpl \in [Locks -> Int] /\ Lock \in [Locks -> Int]
  BY TheRunning DEF LockInv, LockTypeOK
<1>2. /\ c.at = "runs" /\ c.held # <<>> /\ Becomes(d) /\ level' = level
      /\ OwnerTpl' = OwnerTpl /\ Lock' = [Lock EXCEPT ![l] = @ - 1]
  BY DEF RtReleaseLock
<1>4. /\ n >= 1 /\ l = c.held[n] /\ l \in Locks
      /\ \A k \in 1..n : c.held[k] \in Locks
      /\ \A k \in 1..(n - 1) : c.held[k] # l
  BY <1>2, Innermost
<1>a. OwnerTpl[l] \in Int
  BY <1>1, <1>4
<1>5. /\ d \in ContextType /\ d.tpl = c.tpl /\ d.from = c.from
      /\ d.at = "released" /\ d.held = c.held /\ d.Tpl = OwnerTpl[l]
  <2> HIDE DEF c, l
  <2> QED BY <1>1, <1>a DEF ContextType
<1> HIDE DEF c, d, n, l
<1>6. WellHeld(d)
  BY <1>1, <1>2, <1>5 DEF WellHeld
<1>7. level' = Level(d)
  BY <1>1, <1>2, <1>5 DEF Level
<1>8. SavedIn(d, OwnerTpl')
  <2>1. \A k \in 1..n : Below(d, k) = Below(c, k)
    BY <1>5 DEF Below
  <2>2. \A k \in 1..n : OwnerTpl[c.held[k]] = Below(c, k)
    BY <1>1, <1>2 DEF SavedIn, n
  <2>3. n \in 1..n /\ n = Len(d.held)
    BY <1>1, <1>4, <1>5 DEF n
  <2>4. d.Tpl = Below(d, n)
    BY <1>4, <1>5, <2>1, <2>2, <2>3
  <2> QED BY <1>2, <1>5, <2>1, <2>2, <2>3, <2>4 DEF SavedIn
<1>9. Lock' \in [Locks -> Int]
  BY <1>1, <1>2, <1>4
<1>11. \A x \in Locks :
         Lock'[x] = IF \/ Owns(d, x)
                       \/ \E i \in 1..(Len(contexts) - 1) : Owns(contexts[i], x)
                    THEN 1 ELSE 0
  <2>1. ASSUME NEW x \in Locks, x # l PROVE Owns(d, x) <=> Owns(c, x)
    BY <1>1, <1>2, <1>4, <1>5, <2>1 DEF Owns, n
  <2>a. n \in 1..n /\ DOMAIN c.held = 1..n /\ DOMAIN d.held = 1..n /\ n = Len(c.held)
    BY <1>1, <1>4, <1>5 DEF n
  <2>b. \A k \in 1..n : k < n => k \in 1..(n - 1)
    BY <1>1
  <2>2. Owns(c, l) /\ ~Owns(d, l)
    BY <1>2, <1>4, <1>5, <2>a, <2>b DEF Owns
  <2>3. Lock[l] = 1
    BY <1>4, <2>2, CountedAt DEF c
  <2>6. ~\E i \in 1..(Len(contexts) - 1) : Owns(contexts[i], l)
    BY <1>4, <2>a, CountedAt DEF c
  <2> SUFFICES ASSUME NEW x \in Locks
               PROVE  Lock'[x] = IF \/ Owns(d, x)
                                    \/ \E i \in 1..(Len(contexts) - 1) : Owns(contexts[i], x)
                                 THEN 1 ELSE 0
    OBVIOUS
  <2>4. CASE x = l
    BY <1>1, <1>2, <1>4, <2>2, <2>3, <2>4, <2>6
  <2>5. CASE x # l
    BY <1>1, <1>2, <2>1, <2>5, CountedAt DEF c
  <2> QED BY <2>4, <2>5
<1> QED
  BY <1>1, <1>2, <1>5, <1>6, <1>7, <1>8, <1>9, <1>11, OwnStep DEF c

(* and restoring the level.                                                *)
LEMMA RestoreFromLockStep ==
  ASSUME LockInv, RestoreFromLock
  PROVE  LockInv'
<1> DEFINE c == Running
           n == Len(c.held)
           d == [c EXCEPT !.at = "runs", !.held = Front(@)]
<1>1. /\ c \in ContextType /\ c.held \in Seq(Locks) /\ n \in Nat
      /\ WellHeld(c) /\ SavedIn(c, OwnerTpl) /\ level = Level(c)
      /\ OwnerTpl \in [Locks -> Int] /\ Lock \in [Locks -> Int]
  BY TheRunning DEF LockInv, LockTypeOK
<1>2. /\ c.at = "released" /\ Becomes(d) /\ level' = c.Tpl
      /\ OwnerTpl' = OwnerTpl /\ Lock' = Lock
  BY DEF RestoreFromLock
<1>3. c.held # <<>> /\ n >= 1
  BY <1>1, <1>2 DEF WellHeld
<1>4. /\ Front(c.held) \in Seq(Locks) /\ Len(Front(c.held)) = n - 1
      /\ \A k \in 1..(n - 1) : Front(c.held)[k] = c.held[k]
  BY <1>1, <1>3 DEF Front
<1>5. /\ d \in ContextType /\ d.tpl = c.tpl /\ d.from = c.from
      /\ d.at = "runs" /\ d.held = Front(c.held)
  <2> HIDE DEF c
  <2> QED BY <1>1, <1>4 DEF ContextType
<1>6. /\ n - 1 \in Nat /\ Len(d.held) = n - 1 /\ 1..(n - 1) \subseteq 1..n
      /\ DOMAIN d.held = 1..(n - 1) /\ DOMAIN c.held = 1..n
      /\ \A k \in 1..(n - 1) : d.held[k] = c.held[k]
  BY <1>1, <1>3, <1>4, <1>5
<1> HIDE DEF c, d
<1>7. WellHeld(d)
  <2>1. d.at = "runs" /\ d.tpl = c.tpl
    BY <1>5
  <2>2. \A k \in 1..Len(d.held) : d.tpl <= LockTpl[d.held[k]]
    BY <1>1, <1>6, <2>1 DEF WellHeld
  <2>3. \A j, k \in 1..Len(d.held) :
          j < k => d.held[j] # d.held[k] /\ LockTpl[d.held[j]] <= LockTpl[d.held[k]]
    <3>1. SUFFICES ASSUME NEW j \in 1..(n - 1), NEW k \in 1..(n - 1), j < k
                   PROVE  d.held[j] # d.held[k] /\ LockTpl[d.held[j]] <= LockTpl[d.held[k]]
      BY <1>6
    <3>2. j \in 1..n /\ k \in 1..n /\ d.held[j] = c.held[j] /\ d.held[k] = c.held[k]
      BY <1>6
    <3> QED
      BY <1>1, <3>1, <3>2 DEF WellHeld
  <2> QED
    BY <2>1, <2>2, <2>3 DEF WellHeld
<1>8. \A k \in 1..(n - 1) : Below(d, k) = Below(c, k)
  <2>1. \A k \in 1..(n - 1) : k # 1 => k - 1 \in 1..(n - 1)
    BY <1>1
  <2> QED BY <1>5, <1>6, <2>1 DEF Below
<1>9. level' = Level(d)
  <2>1. c.Tpl = Below(c, n)
    BY <1>1, <1>2 DEF SavedIn
  <2>2. Level(d) = IF n = 1 THEN c.tpl ELSE LockTpl[c.held[n - 1]]
    <3>1. n # 1 => n - 1 \in 1..(n - 1) /\ n - 1 # 0
      <4> HIDE DEF n
      <4> QED BY <1>1, <1>3
    <3>2. Level(d) = IF n - 1 = 0 THEN c.tpl ELSE LockTpl[d.held[n - 1]]
      BY <1>5, <1>6, LastLevel
    <3>3. n = 1 <=> n - 1 = 0
      BY <1>1
    <3> QED BY <1>6, <3>1, <3>2, <3>3
  <2> QED BY <1>2, <2>1, <2>2 DEF Below
<1>10. SavedIn(d, OwnerTpl')
  <2>1. \A k \in 1..(n - 1) : OwnerTpl[c.held[k]] = Below(c, k)
    BY <1>1, <1>2, <1>6 DEF SavedIn
  <2> QED BY <1>2, <1>5, <1>6, <1>8, <2>1 DEF SavedIn
<1>11. \A x \in Locks : Owns(d, x) <=> Owns(c, x)
  <2>1. \A k \in 1..n : k < n <=> k \in 1..(n - 1)
    BY <1>1
  <2> QED BY <1>2, <1>5, <1>6, <2>1 DEF Owns
<1>12. \A x \in Locks :
         Lock'[x] = IF \/ Owns(d, x)
                       \/ \E i \in 1..(Len(contexts) - 1) : Owns(contexts[i], x)
                    THEN 1 ELSE 0
  BY <1>2, <1>11, CountedAt DEF c
<1> QED
  BY <1>1, <1>2, <1>5, <1>7, <1>9, <1>10, <1>12, OwnStep DEF c

(* A notification interrupts all that run, at a level above them.          *)
LEMMA NotifyStep ==
  ASSUME LockInv, Notify
  PROVE  LockInv'
<1> DEFINE n == Len(contexts)
<1>1. /\ contexts \in Seq(ContextType) /\ n \in Nat /\ n >= 1
      /\ Running \in ContextType /\ WellHeld(Running) /\ Running = contexts[n]
      /\ level = Level(Running) /\ level \in Int
      /\ OwnerTpl \in [Locks -> Int] /\ Lock \in [Locks -> Int]
  BY TheRunning DEF LockInv, LockTypeOK
<1>2. PICK h \in HandlerTpls :
        h > level /\ level' = h /\ contexts' = Append(contexts, Context(h, level))
  BY DEF Notify
<1> DEFINE d == Context(h, level)
<1>3. OwnerTpl' = OwnerTpl /\ Lock' = Lock
  BY DEF Notify
<1>4. h \in Int
  BY LockAssumption
<1>5. /\ d.tpl = h /\ d.from = level /\ d.held = <<>> /\ d.at = "runs"
      /\ Len(d.held) = 0 /\ DOMAIN d.held = {} /\ d \in ContextType
  BY <1>1, <1>4 DEF Context, ContextType
<1> HIDE DEF d
<1>6. /\ contexts' = Append(contexts, d) /\ contexts' \in Seq(ContextType)
      /\ Len(contexts') = n + 1 /\ contexts'[n + 1] = d /\ contexts' # <<>>
      /\ \A i \in 1..n : contexts'[i] = contexts[i]
  BY <1>1, <1>2, <1>5 DEF d
<1>7. \A i \in 1..(n + 1) : i \in 1..n \/ i = n + 1
  BY <1>1
<1>8. Running' = d /\ Level(d) = h
  BY <1>5, <1>6, LastLevel DEF Running
<1>9. LockTypeOK'
  BY <1>1, <1>2, <1>3, <1>4, <1>6 DEF LockTypeOK
<1>10. WellHeld(d) /\ SavedIn(d, OwnerTpl)
  BY <1>5 DEF WellHeld, SavedIn
<1>11. \A i \in 1..(n + 1) : WellHeld(contexts'[i]) /\ SavedIn(contexts'[i], OwnerTpl')
  <2>1. \A i \in 1..n : WellHeld(contexts[i]) /\ SavedIn(contexts[i], OwnerTpl)
    BY DEF LockInv
  <2> QED BY <1>3, <1>6, <1>7, <1>10, <2>1
<1>12. Stacked(contexts')
  <2>1. \A i \in 1..n : h > Level(contexts[i])
    <3> SUFFICES ASSUME NEW i \in 1..n, i # n PROVE h > Level(contexts[i])
      BY <1>1, <1>2
    <3>1. contexts[i] \in ContextType /\ WellHeld(contexts[i]) /\ i < n /\ n \in 1..n
      BY <1>1 DEF LockInv
    <3>2. Running.tpl > Level(contexts[i])
      BY <1>1, <3>1 DEF LockInv, Stacked
    <3>3. Running.tpl <= level /\ Running.tpl \in Int /\ Level(contexts[i]) \in Int
      BY <1>1, <3>1, LevelIsHighest DEF ContextType
    <3> QED BY <1>1, <1>2, <1>4, <3>2, <3>3
  <2>2. ASSUME NEW i \in 1..(n + 1), NEW j \in 1..(n + 1), i < j
        PROVE  contexts'[j].tpl > Level(contexts'[i])
    <3>1. i \in 1..n /\ contexts'[i] = contexts[i]
      BY <1>1, <1>6, <2>2
    <3>2. CASE j = n + 1
      BY <1>5, <1>6, <2>1, <3>1, <3>2
    <3>3. CASE j \in 1..n
      BY <1>6, <2>2, <3>1, <3>3 DEF LockInv, Stacked
    <3> QED BY <1>7, <3>2, <3>3
  <2>3. ASSUME NEW i \in 2..(n + 1)
        PROVE  contexts'[i].from = Level(contexts'[i - 1])
    <3>1. i - 1 \in 1..n /\ contexts'[i - 1] = contexts[i - 1]
      BY <1>1, <1>6
    <3>2. CASE i = n + 1
      BY <1>1, <1>5, <1>6, <3>1, <3>2
    <3>3. CASE i \in 2..n
      <4>1. contexts[i].from = Level(contexts[i - 1]) /\ i \in 1..n
        BY <3>3 DEF LockInv, Stacked
      <4> QED BY <1>6, <3>1, <4>1
    <3> QED BY <1>1, <3>2, <3>3
  <2> QED BY <1>6, <2>2, <2>3 DEF Stacked
<1>13. Counted'
  <2>1. ASSUME NEW l \in Locks
        PROVE  (\E i \in 1..(n + 1) : Owns(contexts'[i], l))
                 <=> (\E i \in 1..n : Owns(contexts[i], l))
    <3>1. ~Owns(d, l)
      BY <1>5 DEF Owns
    <3> QED BY <1>1, <1>6, <1>7, <3>1
  <2> QED BY <1>3, <1>6, <2>1 DEF LockInv, Counted
<1> QED BY <1>2, <1>6, <1>8, <1>9, <1>11, <1>12, <1>13 DEF LockInv

(* And goes back to the level it has interrupted.                          *)
LEMMA NotifyReturnsStep ==
  ASSUME LockInv, NotifyReturns
  PROVE  LockInv'
<1> DEFINE n == Len(contexts)
<1>1. /\ contexts \in Seq(ContextType) /\ n \in Nat /\ n > 1
      /\ Running = contexts[n] /\ Running.held = <<>>
      /\ level' = Running.from /\ contexts' = Front(contexts)
      /\ OwnerTpl' = OwnerTpl /\ Lock' = Lock
      /\ OwnerTpl \in [Locks -> Int] /\ Lock \in [Locks -> Int]
  BY TheRunning DEF LockInv, LockTypeOK, NotifyReturns
<1>2. /\ contexts' \in Seq(ContextType) /\ Len(contexts') = n - 1
      /\ n - 1 \in 1..(n - 1) /\ contexts' # <<>> /\ n \in 2..n
      /\ \A i \in 1..(n - 1) : contexts'[i] = contexts[i] /\ i \in 1..n
  <2>1. n - 1 \in Nat /\ n - 1 \in 1..(n - 1) /\ n \in 2..n /\ 1..(n - 1) \subseteq 1..n
    BY <1>1
  <2>2. contexts' = SubSeq(contexts, 1, n - 1)
    BY <1>1 DEF Front
  <2>3. /\ contexts' \in Seq(ContextType) /\ Len(contexts') = n - 1
        /\ \A i \in 1..(n - 1) : contexts'[i] = contexts[i]
    BY <1>1, <2>1, <2>2
  <2>4. contexts' # <<>>
    BY <1>1, <2>3
  <2> QED BY <2>1, <2>3, <2>4
<1>3. Running' = contexts[n - 1]
  BY <1>2 DEF Running
<1>4. level' = Level(Running')
  BY <1>1, <1>2, <1>3 DEF LockInv, Stacked
<1>5. Level(contexts[n - 1]) \in Int
  BY <1>1, <1>2, LevelIsHighest DEF LockInv
<1>6. LockTypeOK'
  BY <1>1, <1>2, <1>3, <1>4, <1>5 DEF LockTypeOK
<1>7. \A i \in 1..(n - 1) : WellHeld(contexts'[i]) /\ SavedIn(contexts'[i], OwnerTpl')
  BY <1>1, <1>2 DEF LockInv
<1>8. Stacked(contexts')
  <2>1. ASSUME NEW i \in 1..(n - 1), NEW j \in 1..(n - 1), i < j
        PROVE  contexts'[j].tpl > Level(contexts'[i])
    BY <1>2, <2>1 DEF LockInv, Stacked
  <2>2. ASSUME NEW i \in 2..(n - 1)
        PROVE  contexts'[i].from = Level(contexts'[i - 1])
    <3>1. i \in 1..(n - 1) /\ i - 1 \in 1..(n - 1) /\ i \in 2..n
      BY <1>1
    <3>2. contexts[i].from = Level(contexts[i - 1])
      BY <3>1 DEF LockInv, Stacked
    <3> QED BY <1>2, <3>1, <3>2
  <2> QED BY <1>2, <2>1, <2>2 DEF Stacked
<1>9. Counted'
  <2>1. ASSUME NEW l \in Locks
        PROVE  (\E i \in 1..(n - 1) : Owns(contexts'[i], l))
                 <=> (\E i \in 1..n : Owns(contexts[i], l))
    <3>1. ~Owns(contexts[n], l)
      BY <1>1 DEF Owns
    <3>2. \A i \in 1..n : i \in 1..(n - 1) \/ i = n
      BY <1>1
    <3> QED BY <1>2, <3>1, <3>2
  <2> QED BY <1>1, <1>2, <2>1 DEF LockInv, Counted
<1> QED BY <1>2, <1>4, <1>6, <1>7, <1>8, <1>9 DEF LockInv

-----------------------------------------------------------------------------
(* The program begins in the invariant.                                    *)
LEMMA LockInitially == InitializeLock => LockInv
<1> SUFFICES ASSUME InitializeLock PROVE LockInv
  OBVIOUS
<1> DEFINE c == Context(TplApplication, TplApplication)
<1>1. /\ level = TplApplication /\ contexts = <<c>> /\ TplApplication \in Int
      /\ OwnerTpl = [l \in Locks |-> 0] /\ Lock = [l \in Locks |-> 0]
  BY LockAssumption DEF InitializeLock
<1>2. /\ c.tpl = TplApplication /\ c.held = <<>> /\ c.at = "runs"
      /\ Len(c.held) = 0 /\ DOMAIN c.held = {} /\ c \in ContextType
  BY <1>1 DEF Context, ContextType
<1> HIDE DEF c
<1>3. /\ contexts \in Seq(ContextType) /\ Len(contexts) = 1 /\ contexts # <<>>
      /\ contexts[1] = c /\ Running = c
  BY <1>1, <1>2 DEF Running
<1>4. \A i \in 1..1 : i = 1
  OBVIOUS
<1>5. LockTypeOK
  BY <1>1, <1>3 DEF LockTypeOK
<1>6. WellHeld(c) /\ SavedIn(c, OwnerTpl) /\ Level(c) = TplApplication
  BY <1>2, LastLevel DEF WellHeld, SavedIn
<1>7. Stacked(contexts)
  BY <1>3 DEF Stacked
<1>8. Counted
  <2>1. \A l \in Locks : ~Owns(c, l)
    BY <1>2 DEF Owns
  <2> QED BY <1>1, <1>3, <1>4, <2>1 DEF Counted
<1> QED BY <1>1, <1>3, <1>4, <1>5, <1>6, <1>7, <1>8 DEF LockInv

(* A step that changes nothing keeps it.                                   *)
LEMMA LockUnchanged == ASSUME LockInv, UNCHANGED lockVars PROVE LockInv'
BY DEF LockInv, lockVars, LockTypeOK, Counted, Running

(* Every step keeps it.                                                    *)
LEMMA LockInductive == LockSpec => []LockInv
<1>1. LockInv /\ [LockNext]_lockVars => LockInv'
  <2> SUFFICES ASSUME LockInv, [LockNext]_lockVars PROVE LockInv'
    OBVIOUS
  <2>1. CASE \E l \in Locks : RaiseToLock(l)
    BY <2>1, RaiseToLockStep
  <2>2. CASE RtAcquireLock
    BY <2>2, RtAcquireLockStep
  <2>3. CASE RtReleaseLock
    BY <2>3, RtReleaseLockStep
  <2>4. CASE RestoreFromLock
    BY <2>4, RestoreFromLockStep
  <2>5. CASE Notify
    BY <2>5, NotifyStep
  <2>6. CASE NotifyReturns
    BY <2>6, NotifyReturnsStep
  <2>7. CASE UNCHANGED lockVars
    BY <2>7, LockUnchanged
  <2> QED BY <2>1, <2>2, <2>3, <2>4, <2>5, <2>6, <2>7 DEF LockNext
<1> QED BY LockInitially, <1>1, PTL DEF LockSpec

-----------------------------------------------------------------------------
(* However many notifications run in each other, RtAcquireLock and         *)
(* RtReleaseLock keep a lock to one of them, and the assertions that it is *)
(* counted once never fail: raising the level is enough.                   *)
THEOREM LocksExcludeTheorem == LockSpec => []LocksExclude
<1>1. LockInv => LocksExclude
  <2> SUFFICES ASSUME LockInv, NEW l \in Locks
               PROVE  /\ \A i, j \in DOMAIN contexts :
                           l \in Range(contexts[i].held) /\ l \in Range(contexts[j].held)
                             => i = j
                      /\ Lock[l] = IF \E i \in DOMAIN contexts : Owns(contexts[i], l)
                                   THEN 1 ELSE 0
    BY DEF LocksExclude
  <2>1. DOMAIN contexts = 1..Len(contexts) /\ contexts \in Seq(ContextType)
    BY DEF LockInv, LockTypeOK
  <2>2. ASSUME NEW i \in 1..Len(contexts), l \in Range(contexts[i].held)
        PROVE  \E k \in 1..Len(contexts[i].held) : contexts[i].held[k] = l
    <3>1. contexts[i] \in ContextType
      BY <2>1
    <3>2. contexts[i].held \in Seq(Locks)
      BY <3>1 DEF ContextType
    <3> QED BY <2>2, <3>2 DEF Range
  <2>3. ASSUME NEW i \in 1..Len(contexts), NEW j \in 1..Len(contexts),
               l \in Range(contexts[i].held), l \in Range(contexts[j].held)
        PROVE  i = j
    BY <2>2, <2>3, HeldByOne
  <2> QED BY <2>1, <2>3 DEF LockInv, Counted
<1> QED BY LockInductive, <1>1, PTL

(* The level is that of the innermost lock, or of the code that holds none *)
(* and what RtReleaseLock is about to restore is the level of the lock     *)
(* that is left, whoever else has owned it in between.                     *)
THEOREM LevelFollowsLocksTheorem == LockSpec => []LevelFollowsLocks
<1>1. LockInv => LevelFollowsLocks
  <2> SUFFICES ASSUME LockInv PROVE LevelFollowsLocks
    OBVIOUS
  <2> DEFINE c == Running
             n == Len(c.held)
  <2>1. /\ c \in ContextType /\ c.held \in Seq(Locks) /\ n \in Nat
        /\ WellHeld(c) /\ SavedIn(c, OwnerTpl) /\ level = Level(c)
    BY TheRunning
  <2>2. level = LevelOf(c.tpl, c.held)
    BY <2>1 DEF Level
  <2>3. ASSUME c.at = "released" PROVE c.Tpl = LevelOf(c.tpl, Front(c.held))
    <3> HIDE DEF c
    <3>1. c.Tpl = Below(c, n) /\ n >= 1
      BY <2>1, <2>3 DEF WellHeld, SavedIn
    <3>2. /\ Front(c.held) \in Seq(Locks) /\ Len(Front(c.held)) = n - 1
          /\ \A k \in 1..(n - 1) : Front(c.held)[k] = c.held[k]
      BY <2>1, <3>1 DEF Front
    <3>3. CASE n = 1
      BY <3>1, <3>2, <3>3 DEF LevelOf, Below
    <3>4. CASE n # 1
      <4>1. n - 1 \in 1..(n - 1) /\ n - 1 # 0
        <5> HIDE DEF n
        <5> QED BY <2>1, <3>1, <3>4
      <4>2. Front(c.held) # <<>> /\ Last(Front(c.held)) = c.held[n - 1]
        BY <3>2, <4>1 DEF Last
      <4> QED BY <3>1, <3>4, <4>2 DEF LevelOf, Below
    <3> QED BY <3>3, <3>4
  <2> QED BY <2>2, <2>3 DEF LevelFollowsLocks
<1> QED BY LockInductive, <1>1, PTL

(* Both together: no lock has two owners, and the task priority is that of *)
(* the locks that are held, from which the program always comes down.      *)
THEOREM LocksKeptTheorem == LockSpec => []LocksKept
<1>1. LocksExclude /\ LevelFollowsLocks => LocksKept
  BY DEF LocksKept
<1> QED BY LocksExcludeTheorem, LevelFollowsLocksTheorem, <1>1, PTL

-----------------------------------------------------------------------------
(* LibInstallProtocolInterfaces and its relatives.                         *)

(* The interface a call of the list puts on the handle.                    *)
PutOn(i) == Installed(Handle, args[i].protocol, args[i].new)

Differ(n) == \A i \in 1..n, j \in 1..n : i # j => args[i].protocol # args[j].protocol

(* The handle is made by the first call.                                   *)
OneHandle ==
  /\ Handle = IF OldHandle = NoHandle /\ done > 0 THEN NewHandle ELSE OldHandle
  /\ OldHandle \in {NoHandle, TheHandle}

(* What has been installed was not there, and no two of it are the same:   *)
(* the undoing takes away what is its own, unless it is refused.           *)
Installing ==
  /\ OneHandle /\ Differ(done)
  /\ \A i \in 1..done : PutOn(i) \notin db0
  /\ db = db0 \cup {PutOn(i) : i \in refused \cup ((undone + 1)..done)}

(* Nothing is replaced, since no interface is on the variable's address.   *)
Reinstalling == db = db0 /\ done = 0

InstallTypeOK ==
  /\ installer \in {"install", "reinstall", "uninstall"}
  /\ installing \in {"begin", "call", "undo", "done"}
  /\ Len(args) \in Nat /\ DOMAIN args = 1..Len(args)
  /\ done \in 0..Len(args) /\ undone \in 0..done
  /\ refused \subseteq 1..undone
  /\ db0 \in Databases

(* Where the call is, and that no notification runs in between.            *)
InstallPhase ==
  /\ installing = "begin" => done = 0
  /\ installing \in {"begin", "call"} => Outcome = "SUCCESS" /\ undone = 0
  /\ installing = "undo" => Outcome # "SUCCESS" /\ done < Len(args)
  /\ installing \in {"call", "undo"} /\ installer # "uninstall" => tpl # "APPLICATION"

InstallInv ==
  /\ InstallTypeOK /\ InstallPhase
  /\ installer = "install" /\ installing # "done" => Installing
  /\ installer = "reinstall" /\ installing # "done" => Reinstalling
  /\ installing = "done" => AllOrNothing

(* An interface says its handle, its protocol and itself.                  *)
LEMMA InstalledIs ==
  ASSUME NEW h, NEW p, NEW i, NEW g, NEW q, NEW j
  PROVE  /\ Installed(h, p, i) = Installed(g, q, j) => h = g /\ p = q /\ i = j
         /\ Installed(h, p, i).handle = h /\ Installed(h, p, i).protocol = p
BY DEF Installed

(* Each function begins with the interfaces as they are.                   *)
LEMMA InstallStart == InstallInit => InstallInv
<1> SUFFICES ASSUME InstallInit PROVE InstallInv
  OBVIOUS
<1>1. /\ installer \in {"install", "reinstall", "uninstall"} /\ installing = "begin"
      /\ done = 0 /\ undone = 0 /\ refused = {} /\ db = db0 /\ db0 \in Databases
      /\ Outcome = "SUCCESS" /\ args \in InstallLists \cup ReinstallLists
      /\ OldHandle = Handle /\ Handle \in {NoHandle, TheHandle}
  BY DEF InstallInit
<1>2. InstallTypeOK
  BY <1>1, InstallAssumption DEF InstallTypeOK
<1>3. InstallPhase
  BY <1>1 DEF InstallPhase
<1>4. \A i : i \notin 1..0
  OBVIOUS
<1>5. Installing
  BY <1>1, <1>4 DEF Installing, OneHandle, Differ
<1>6. Reinstalling
  BY <1>1 DEF Reinstalling
<1> QED
  BY <1>1, <1>2, <1>3, <1>5, <1>6 DEF InstallInv

(* What is unchanged when only the place, the outcome or the level is not. *)
LEMMA SameInstalls ==
  ASSUME UNCHANGED <<installer, args, Handle, OldHandle, done, undone, refused, db, db0>>
  PROVE  (Installing' <=> Installing) /\ (Reinstalling' <=> Reinstalling)
<1>1. \A i : PutOn(i)' = PutOn(i)
  BY DEF PutOn
<1>2. OneHandle' <=> OneHandle
  BY DEF OneHandle
<1>3. \A n : Differ(n)' <=> Differ(n)
  BY DEF Differ
<1>4. Installing' <=> Installing
  BY <1>1, <1>2, <1>3 DEF Installing
<1>5. Reinstalling' <=> Reinstalling
  BY DEF Reinstalling
<1> QED
  BY <1>4, <1>5

(* A call that fails undoes nothing yet.                                   *)
LEMMA FailStep ==
  ASSUME InstallInv, installing = "call", installer \in {"install", "reinstall"},
         done < Len(args), NEW status, status # "SUCCESS", CallFails(status)
  PROVE  InstallInv'
<1>1. UNCHANGED <<installer, args, Handle, OldHandle, done, undone, refused, db, db0, tpl>>
      /\ installing' = "undo" /\ Outcome' = status
  BY DEF CallFails
<1>2. (Installing' <=> Installing) /\ (Reinstalling' <=> Reinstalling)
  BY <1>1, SameInstalls
<1>3. InstallTypeOK' /\ InstallPhase'
  BY <1>1 DEF InstallInv, InstallTypeOK, InstallPhase
<1> QED
  BY <1>1, <1>2, <1>3 DEF InstallInv

(* What the services may answer.                                           *)
LEMMA InstallAnswers ==
  ASSUME NEW h, NEW p, NEW i, NEW r \in InstallInterface(h, p, i)
  PROVE  \/ r.status # "SUCCESS"
         \/ ~HasOn(h, p) /\ r.db = db \cup {Installed(HandleFor(h), p, i)}
BY DEF InstallInterface, Refused, Granted

LEMMA ReinstallAnswers ==
  ASSUME NEW h, NEW p, NEW i, NEW j, Installed(h, p, i) \notin db,
         NEW r \in ReinstallInterface(h, p, i, j)
  PROVE  r.status # "SUCCESS" /\ r.db = db
BY DEF ReinstallInterface, Refused

LEMMA UninstallAnswers ==
  ASSUME NEW h, NEW p, NEW i, Installed(h, p, i) \in db,
         NEW r \in UninstallInterface(h, p, i)
  PROVE  \/ r.status = "ACCESS_DENIED" /\ r.db = db
         \/ r.status # "ACCESS_DENIED" /\ r.db = db \ {Installed(h, p, i)}
BY DEF UninstallInterface, Refused, Granted

(* An interface that is installed was not there, and differs from those    *)
(* installed before it.                                                    *)
LEMMA InstallStep == InstallInv /\ InstallNext1 => InstallInv'
<1> SUFFICES ASSUME InstallInv, InstallNext1 PROVE InstallInv'
  OBVIOUS
<1>0. PICK n \in Nat : n = done + 1
  BY DEF InstallInv, InstallTypeOK
<1> DEFINE p == args[n].protocol
           new == Installed(HandleFor(Handle), p, args[n].new)
<1>1. /\ installer = "install" /\ installing = "call" /\ done < Len(args)
      /\ InstallTypeOK /\ InstallPhase /\ Installing /\ undone = 0
  BY DEF InstallNext1, InstallInv, InstallPhase
<1>2. PICK r \in InstallInterface(Handle, p, args[n].new) :
        IF r.status = "SUCCESS" THEN Called(r.db, HandleFor(Handle)) ELSE CallFails(r.status)
  BY <1>0 DEF InstallNext1
<1>a. \/ r.status # "SUCCESS"
      \/ ~HasOn(Handle, p) /\ r.db = db \cup {new}
  BY InstallAnswers
<1>3. CASE r.status # "SUCCESS"
  BY <1>1, <1>2, <1>3, FailStep
<1>4. CASE ~HasOn(Handle, p) /\ Called(db \cup {new}, HandleFor(Handle))
  <2>1. /\ db' = db \cup {new} /\ Handle' = HandleFor(Handle) /\ done' = n
        /\ UNCHANGED <<installer, args, installing, undone, refused, Outcome, OldHandle, db0, tpl>>
    BY <1>0, <1>4 DEF Called
  <2>2. /\ done \in Nat /\ n \in 1..Len(args) /\ db0 \in Databases /\ refused = {}
        /\ \A i \in 1..n : i \in 1..done \/ i = n
        /\ \A i \in 1..done : i # n /\ i \in 1..n
    BY <1>0, <1>1 DEF InstallTypeOK
  <2>3. InstallTypeOK' /\ InstallPhase'
    BY <1>1, <2>1, <2>2 DEF InstallTypeOK, InstallPhase
  <2>4. OneHandle'
    BY <1>1, <2>1, <2>2
       DEF Installing, OneHandle, HandleFor, NoHandle, TheHandle, NewHandle
  <2>5. ASSUME NEW i \in 1..done PROVE PutOn(i)' = PutOn(i)
    <3>1. Handle # NoHandle
      BY <1>1, <2>2 DEF Installing, OneHandle, NoHandle, TheHandle, NewHandle
    <3> QED
      BY <2>1, <3>1 DEF PutOn, HandleFor
  <2>6. PutOn(n)' = new
    BY <2>1 DEF PutOn
  <2>7. db = db0 \cup {PutOn(i) : i \in 1..done}
    <3>1. refused \cup ((undone + 1)..done) = 1..done
      BY <1>1, <2>2
    <3> QED
      BY <1>1, <3>1 DEF Installing
  <2>8. new \notin db0
    <3> SUFFICES ASSUME new \in db0 PROVE FALSE
      OBVIOUS
    <3>1. new.handle = HandleFor(Handle) /\ new.protocol = p
      BY InstalledIs
    <3>2. HandleFor(Handle) # NewHandle
      BY <2>2, <3>1, InstallAssumption
    <3>3. HandleFor(Handle) = Handle
      BY <3>2 DEF HandleFor
    <3> QED
      BY <1>4, <2>7, <3>1, <3>3 DEF HasOn
  <2>9. ASSUME NEW i \in 1..done PROVE args[i].protocol # p
    <3>1. PutOn(i) \in db /\ PutOn(i).handle = Handle /\ PutOn(i).protocol = args[i].protocol
      BY <2>7, InstalledIs DEF PutOn
    <3> QED
      BY <1>4, <3>1 DEF HasOn
  <2>10. Differ(n)'
    BY <1>1, <2>1, <2>2, <2>9 DEF Installing, Differ
  <2>11. \A i \in 1..n : PutOn(i)' \notin db0
    BY <1>1, <2>2, <2>5, <2>6, <2>8 DEF Installing
  <2>12. {PutOn(i)' : i \in 1..n} = {PutOn(i) : i \in 1..done} \cup {new}
    BY <2>2, <2>5, <2>6
  <2>13. db' = db0 \cup {PutOn(i)' : i \in 1..n}
    BY <2>1, <2>7, <2>12
  <2>14. (refused \cup ((undone + 1)..done))' = 1..n
    BY <1>1, <2>1, <2>2
  <2> HIDE DEF new, p
  <2>15. Installing'
    BY <2>1, <2>4, <2>10, <2>11, <2>13, <2>14 DEF Installing
  <2> QED
    BY <1>1, <2>1, <2>3, <2>15 DEF InstallInv
<1> QED
  BY <1>2, <1>a, <1>3, <1>4

(* Nothing is on the address of a variable.                                *)
LEMMA NothingOnVariable ==
  ASSUME InstallTypeOK, db = db0, NEW p, NEW i
  PROVE  Installed(ReinstallHandle, p, i) \notin db
<1> SUFFICES ASSUME Installed(ReinstallHandle, p, i) \in db PROVE FALSE
  OBVIOUS
<1>1. db \in Databases
  BY DEF InstallTypeOK
<1>2. Installed(ReinstallHandle, p, i).handle # HandleVariable
  BY <1>1, InstallAssumption
<1> QED
  BY <1>2, InstalledIs DEF ReinstallHandle

(* The first interface that is to be replaced is not found.                *)
LEMMA ReinstallStep == InstallInv /\ ReinstallNext1 => InstallInv'
<1> SUFFICES ASSUME InstallInv, ReinstallNext1 PROVE InstallInv'
  OBVIOUS
<1> DEFINE a == args[done + 1]
<1>1. /\ installer = "reinstall" /\ installing = "call" /\ done < Len(args)
      /\ InstallTypeOK /\ Reinstalling
  BY DEF ReinstallNext1, InstallInv
<1>2. PICK r \in ReinstallInterface(ReinstallHandle, a.protocol, a.old, a.new) :
        IF r.status = "SUCCESS" THEN Called(r.db, Handle) ELSE CallFails(r.status)
  BY DEF ReinstallNext1
<1>3. Installed(ReinstallHandle, a.protocol, a.old) \notin db
  BY <1>1, NothingOnVariable DEF Reinstalling
<1>4. r.status # "SUCCESS"
  BY <1>3, ReinstallAnswers
<1> QED
  BY <1>1, <1>2, <1>4, FailStep

(* Undoing takes away one interface of those that were installed, or       *)
(* leaves it when that is refused.                                         *)
LEMMA UndoInstallStep ==
  ASSUME InstallInv, Undo1, installer = "install"
  PROVE  InstallInv'
<1>0. PICK u \in Nat : u = undone + 1
  BY DEF InstallInv, InstallTypeOK
<1>1. /\ installing = "undo" /\ undone < done /\ undone' = u
      /\ UNCHANGED <<installer, args, installing, done, Outcome, Handle, OldHandle, db0, tpl>>
  BY <1>0 DEF Undo1
<1>r. PICK r \in UninstallInterface(Handle, args[u].protocol, args[u].new) :
        /\ db' = r.db
        /\ refused' = IF r.status = "ACCESS_DENIED" THEN refused \cup {u} ELSE refused
  BY <1>0, <1>1 DEF Undo1, UndoHandle
<1>2. InstallTypeOK /\ InstallPhase /\ Installing
  BY <1>1 DEF InstallInv
<1> DEFINE left == refused \cup ((u + 1)..done)
<1>3. /\ u \in 1..done /\ done \in Nat /\ undone \in Nat /\ refused \subseteq 1..undone
      /\ refused \cup (u..done) = left \cup {u} /\ \A i \in left : i # u /\ i \in 1..done
  BY <1>0, <1>1, <1>2 DEF InstallTypeOK
<1>4. InstallTypeOK' /\ InstallPhase'
  <2>1. refused' \subseteq 1..u /\ u \in 0..done
    BY <1>0, <1>3, <1>r
  <2> QED
    BY <1>0, <1>1, <1>2, <2>1 DEF InstallTypeOK, InstallPhase
<1>5. (\A i : PutOn(i)' = PutOn(i)) /\ (OneHandle' <=> OneHandle)
      /\ (Differ(done)' <=> Differ(done))
  BY <1>1 DEF PutOn, OneHandle, Differ
<1>6. db = db0 \cup {PutOn(i) : i \in left \cup {u}}
  BY <1>0, <1>2, <1>3 DEF Installing
<1> HIDE DEF left
<1>7. \A i \in left : PutOn(i) # PutOn(u)
  <2>1. \A i \in left : args[i].protocol # args[u].protocol
    BY <1>2, <1>3 DEF Installing, Differ
  <2> QED
    BY <2>1, InstalledIs DEF PutOn
<1>8. PutOn(u) \notin db0
  BY <1>2, <1>3 DEF Installing
<1>9. \/ r.status = "ACCESS_DENIED" /\ r.db = db
      \/ r.status # "ACCESS_DENIED" /\ r.db = db \ {PutOn(u)}
  <2>1. PutOn(u) \in db
    BY <1>6
  <2> QED
    BY <2>1, UninstallAnswers DEF PutOn
<1>10. /\ (refused \cup ((undone + 1)..done))' = refused' \cup ((u + 1)..done)
       /\ (1..done)' = 1..done
  BY <1>1
<1>11. db' = db0 \cup {PutOn(i) : i \in refused' \cup ((u + 1)..done)}
  <2>1. CASE r.status = "ACCESS_DENIED" /\ r.db = db
    <3>1. refused' \cup ((u + 1)..done) = left \cup {u}
      BY <1>r, <2>1 DEF left
    <3> QED
      BY <1>6, <1>r, <2>1, <3>1
  <2>2. CASE r.status # "ACCESS_DENIED" /\ r.db = db \ {PutOn(u)}
    <3>1. refused' \cup ((u + 1)..done) = left
      BY <1>r, <2>2 DEF left
    <3>2. {PutOn(i) : i \in left \cup {u}} = {PutOn(i) : i \in left} \cup {PutOn(u)}
      OBVIOUS
    <3>3. (db0 \cup {PutOn(i) : i \in left} \cup {PutOn(u)}) \ {PutOn(u)}
            = db0 \cup {PutOn(i) : i \in left}
      BY <1>7, <1>8
    <3> QED
      BY <1>6, <1>r, <2>2, <3>1, <3>2, <3>3
  <2> QED
    BY <1>9, <2>1, <2>2
<1>12. Installing'
  BY <1>1, <1>2, <1>5, <1>10, <1>11 DEF Installing
<1> QED
  BY <1>1, <1>4, <1>12 DEF InstallInv

(* The level is raised in front of the first call.                         *)
LEMMA RaiseStep == InstallInv /\ RaiseTPL => InstallInv'
<1> SUFFICES ASSUME InstallInv, RaiseTPL PROVE InstallInv'
  OBVIOUS
<1>1. /\ installing = "begin" /\ installing' = "call"
      /\ tpl' = IF installer = "uninstall" THEN tpl ELSE "NOTIFY"
      /\ UNCHANGED <<installer, args, done, undone, refused, Outcome, Handle, OldHandle, db, db0>>
  BY DEF RaiseTPL
<1>2. (Installing' <=> Installing) /\ (Reinstalling' <=> Reinstalling)
  BY <1>1, SameInstalls
<1>3. InstallTypeOK' /\ InstallPhase'
  BY <1>1 DEF InstallInv, InstallTypeOK, InstallPhase
<1> QED
  BY <1>1, <1>2, <1>3 DEF InstallInv

(* Nothing is promised of LibUninstallProtocolInterfaces.                  *)
LEMMA UninstallStep == InstallInv /\ UninstallNext1 => InstallInv'
<1> SUFFICES ASSUME InstallInv, UninstallNext1 PROVE InstallInv'
  OBVIOUS
<1>1. /\ installer = "uninstall" /\ installing = "call" /\ done < Len(args)
      /\ done' = done + 1
      /\ UNCHANGED <<installer, args, installing, undone, refused, Outcome, db0, tpl>>
  BY DEF UninstallNext1, Called
<1> QED
  BY <1>1 DEF InstallInv, InstallTypeOK, InstallPhase

(* At the end all calls have succeeded, or the undoing of all of them has  *)
(* been asked for.                                                         *)
LEMMA RestoreStep == InstallInv /\ RestoreTPL => InstallInv'
<1> SUFFICES ASSUME InstallInv, RestoreTPL PROVE InstallInv'
  OBVIOUS
<1>1. /\ installing \in {"call", "undo"} /\ installing' = "done"
      /\ UNCHANGED <<installer, args, done, undone, refused, Outcome, OldHandle, db, db0>>
      /\ InstallTypeOK /\ InstallPhase
      /\ installer = "install" => Installing
      /\ installer = "reinstall" => Reinstalling
  BY DEF RestoreTPL, InstallInv
<1>2. InstallTypeOK' /\ InstallPhase'
  BY <1>1 DEF InstallTypeOK, InstallPhase
<1>3. CASE installing = "call"
  <2>0. /\ done = Len(args) /\ undone = 0 /\ Handle' = Handle /\ Outcome = "SUCCESS"
        /\ DOMAIN args = 1..Len(args) /\ refused \subseteq 1..undone /\ Len(args) \in Nat
    BY <1>1, <1>3 DEF RestoreTPL, InstallTypeOK, InstallPhase
  <2>1. /\ done = Len(args) /\ undone = 0 /\ Handle' = Handle /\ Outcome = "SUCCESS"
        /\ refused \cup ((undone + 1)..done) = DOMAIN args
    <3>1. refused = {} /\ undone + 1 = 1
      BY <2>0
    <3> QED
      BY <2>0, <3>1
  <2>2. installer = "install" =>
          db = db0 \cup {Installed(Handle, args[i].protocol, args[i].new) : i \in DOMAIN args}
    BY <1>1, <2>1 DEF Installing, PutOn
  <2>3. InstalledOrUndone'
    BY <1>1, <2>1, <2>2 DEF InstalledOrUndone
  <2>4. NothingReinstalled'
    BY <1>1, <2>1 DEF NothingReinstalled, Reinstalling
  <2> QED
    BY <1>1, <1>2, <2>3, <2>4 DEF InstallInv, AllOrNothing
<1>4. CASE installing = "undo"
  <2>1. /\ undone = done /\ Outcome # "SUCCESS" /\ done \in Nat /\ done < Len(args)
        /\ Handle' = IF installer = "install" THEN OldHandle ELSE Handle
        /\ refused \cup ((undone + 1)..done) = refused
        /\ \A i \in refused : done > 0
    BY <1>1, <1>4 DEF RestoreTPL, InstallTypeOK, InstallPhase
  <2>2. ASSUME installer = "install"
        PROVE  db = db0 \cup {Installed(HandleFor(OldHandle), args[i].protocol, args[i].new) :
                               i \in refused}
    <3>1. db = db0 \cup {PutOn(i) : i \in refused}
      BY <1>1, <2>1, <2>2 DEF Installing
    <3>2. \A i \in refused : Handle = HandleFor(OldHandle)
      BY <1>1, <2>1, <2>2
         DEF Installing, OneHandle, HandleFor, NoHandle, TheHandle, NewHandle
    <3> QED
      BY <3>1, <3>2 DEF PutOn
  <2>3. InstalledOrUndone'
    BY <1>1, <2>1, <2>2 DEF InstalledOrUndone, HandleFor
  <2>4. NothingReinstalled'
    BY <1>1, <2>1 DEF NothingReinstalled, Reinstalling, InstallTypeOK
  <2> QED
    BY <1>1, <1>2, <2>3, <2>4 DEF InstallInv, AllOrNothing
<1> QED
  BY <1>1, <1>3, <1>4

(* Every step keeps the invariant.                                         *)
LEMMA InstallInductive == InstallInv /\ [InstallNext]_installVars => InstallInv'
<1> SUFFICES ASSUME InstallInv, [InstallNext]_installVars PROVE InstallInv'
  OBVIOUS
<1>1. CASE Undo1
  <2>1. installing = "undo" /\ undone < done /\ undone' = undone + 1
        /\ UNCHANGED <<installer, args, installing, done, Outcome, Handle, OldHandle, db0, tpl>>
        /\ (refused' = refused \/ refused' = refused \cup {undone'})
    BY <1>1 DEF Undo1
  <2>2. CASE installer = "uninstall"
    <3>1. /\ done \in Nat /\ undone \in 0..done /\ refused \subseteq 1..undone
          /\ InstallTypeOK /\ InstallPhase
      BY DEF InstallInv, InstallTypeOK
    <3>a. PICK u \in Nat : u = undone'
      BY <2>1, <3>1
    <3>b. u \in 0..done /\ u \in 1..u /\ \A i \in 1..undone : i \in 1..u
      BY <2>1, <3>1, <3>a
    <3>2. undone' \in 0..done /\ refused' \subseteq 1..undone'
      BY <2>1, <3>1, <3>a, <3>b
    <3>3. InstallTypeOK' /\ InstallPhase'
      BY <2>1, <3>1, <3>2 DEF InstallTypeOK, InstallPhase
    <3> QED
      BY <2>1, <2>2, <3>3 DEF InstallInv
  <2>3. CASE installer = "reinstall"
    BY <2>1, <2>3 DEF InstallInv, InstallTypeOK, Reinstalling
  <2>4. installer \in {"install", "reinstall", "uninstall"}
    BY DEF InstallInv, InstallTypeOK
  <2> QED
    BY <1>1, <2>2, <2>3, <2>4, UndoInstallStep
<1>2. CASE UNCHANGED installVars
  <2>1. (Installing' <=> Installing) /\ (Reinstalling' <=> Reinstalling)
    BY <1>2, SameInstalls DEF installVars
  <2>a. (InstallTypeOK' <=> InstallTypeOK) /\ (InstallPhase' <=> InstallPhase)
    BY <1>2 DEF installVars, InstallTypeOK, InstallPhase
  <2>b. InstalledOrUndone' <=> InstalledOrUndone
    BY <1>2 DEF installVars, InstalledOrUndone, HandleFor
  <2>c. NothingReinstalled' <=> NothingReinstalled
    BY <1>2 DEF installVars, NothingReinstalled
  <2>2. (InstallTypeOK' <=> InstallTypeOK) /\ (InstallPhase' <=> InstallPhase)
        /\ (AllOrNothing' <=> AllOrNothing)
    BY <2>a, <2>b, <2>c DEF AllOrNothing
  <2> QED
    BY <1>2, <2>1, <2>2 DEF installVars, InstallInv
<1> QED
  BY <1>1, <1>2, RaiseStep, InstallStep, ReinstallStep, UninstallStep, RestoreStep DEF InstallNext

(* For any lists and any interfaces that are installed: whenever a         *)
(* notification can run, LibInstallProtocolInterfaces has done all of its  *)
(* list, or nothing of it is left but what the firmware refused to take    *)
(* back; and LibReinstallProtocolInterfaces, which passes the address of   *)
(* its caller's handle for the handle, has replaced nothing.               *)
THEOREM AllOrNothingHolds == InstallSpec => []AllOrNothing
<1>1. InstallInit => InstallInv
  BY InstallStart
<1>2. InstallInv /\ [InstallNext]_installVars => InstallInv'
  BY InstallInductive
<1>3. InstallInv => AllOrNothing
  BY DEF InstallInv, InstallPhase, InstallTypeOK, AllOrNothing, InstalledOrUndone,
         NothingReinstalled
<1> QED
  BY <1>1, <1>2, <1>3, PTL DEF InstallSpec

-----------------------------------------------------------------------------
(* GrowBuffer and its users.                                               *)

Inserting == task = "LibInsertToTailOfBootOrder"
Held == {Buffer} \ {NULL}

BootArguments ==
  [BootOption : Elements, OnlyInsertIfEmpty : BOOLEAN, NewBootOptionArray : Ids \cup {NULL},
   VarSize : Nat, listed : Seq(Elements)]

GrowTypes ==
  /\ task \in Readers /\ growing \in {"grow", "ask", "grown", "write", "scan", "done"}
  /\ Buffer \in Ids \cup {NULL} /\ BufferSize \in Nat \ {0}
  /\ DOMAIN pool \subseteq Ids /\ \A b \in DOMAIN pool : pool[b] \in Nat \ {0}
  /\ object \in Seq(Elements) /\ read \in Seq(Elements) /\ boot \in BootArguments

(* What is allocated, and what the firmware is told of it.                 *)
GrowBuffers ==
  /\ growing \in {"grow", "ask", "grown", "scan"} => DOMAIN pool = Held
  /\ growing = "ask" => Buffer # NULL /\ pool[Buffer] = BufferSize
  /\ growing = "write" =>
       /\ boot.NewBootOptionArray \in Ids \ {Buffer}
       /\ DOMAIN pool = Held \cup {boot.NewBootOptionArray}

(* An answer is what was read as a whole, and the boot order still is it.  *)
Answered ==
  /\ Buffer \in DOMAIN pool /\ pool[Buffer] >= BufferSize
  /\ Len(read) = BufferSize /\ read # <<>> /\ (Inserting => read = object)

GrowAnswers ==
  /\ growing \in {"grow", "grown", "write"} /\ Buffer # NULL /\ Status = "SUCCESS" => Answered
  /\ growing \in {"grown", "write"} => (Buffer # NULL <=> ~IsError(Status))
  /\ growing = "scan" => Buffer # NULL /\ Answered /\ ~Inserting

GrowBoot ==
  /\ Inserting /\ growing # "done" => object = boot.listed
  /\ growing = "write" =>
       /\ Inserting /\ boot.VarSize = (IF Buffer = NULL THEN 0 ELSE BufferSize) + 1
       /\ boot.OnlyInsertIfEmpty => Buffer = NULL

GrowInv ==
  /\ GrowTypes /\ GrowBuffers /\ GrowAnswers /\ GrowBoot
  /\ OnlyTheResultIsLeft /\ BootOrderExtended

(* There is a buffer besides any other.                                    *)
LEMMA FreshIs ==
  ASSUME NEW p, NEW b, DOMAIN p \subseteq {b}
  PROVE  Fresh(p) \in Ids /\ Fresh(p) \notin DOMAIN p
<1> DEFINE S == Ids \ DOMAIN p
<1>1. S # {} /\ S \subseteq Nat
  BY GrowAssumption
<1>2. \E x \in S : \A y \in S : x <= y
  BY <1>1, LeastNat
<1>3. Fresh(p) \in S
  BY <1>2 DEF Fresh, Min
<1> QED
  BY <1>3

(* What is allocated after one of the pools is freed.                      *)
LEMMA WithoutIs ==
  ASSUME NEW p, NEW b
  PROVE  /\ DOMAIN Without(p, b) = DOMAIN p \ {b}
         /\ \A c \in DOMAIN p \ {b} : Without(p, b)[c] = p[c]
BY DEF Without

(* What is read consists of elements.                                      *)
LEMMA ObjectsAre ==
  /\ \A o \in Objects : o \in Seq(Elements)
  /\ \A o \in Seq(Elements) : MapAfter(o) \subseteq Seq(Elements)
<1>1. \A o \in Objects : o \in Seq(Elements)
  BY GrowAssumption DEF Objects, BoundedSeq, SeqOf
<1>2. ASSUME NEW o \in Seq(Elements), NEW x \in MapAfter(o) PROVE x \in Seq(Elements)
  <2>1. \A e \in Elements : Append(o, e) \in Seq(Elements)
    OBVIOUS
  <2>2. Len(o) > 1 => Front(o) \in Seq(Elements)
    BY DEF Front
  <2>3. \/ x = o \/ \E e \in Elements : x = Append(o, e)
        \/ Len(o) > 1 /\ x = Front(o)
    BY <1>2 DEF MapAfter
  <2> QED
    BY <2>1, <2>2, <2>3
<1> QED
  BY <1>1, <1>2

(* Each function begins without a buffer.                                  *)
LEMMA GrowStart == GrowInit => GrowInv
<1> SUFFICES ASSUME GrowInit PROVE GrowInv
  OBVIOUS
<1>1. /\ task \in Readers /\ growing = "grow" /\ Status = "SUCCESS" /\ Buffer = NULL
      /\ BufferSize = FirstSize /\ read = <<>> /\ DOMAIN pool = {}
  BY DEF GrowInit
<1>2. object \in Seq(Elements)
  <2>1. object \in Objects
    BY DEF GrowInit, ObjectsOf
  <2> QED
    BY <2>1, ObjectsAre
<1>3. PICK n \in Elements :
        NoArray = [BootOption |-> n, OnlyInsertIfEmpty |-> FALSE,
                   NewBootOptionArray |-> NULL, VarSize |-> 0, listed |-> <<>>]
  BY GrowAssumption DEF NoArray
<1>4. boot \in BootArguments /\ boot.listed = object
  <2>1. PICK e \in Elements, b \in BOOLEAN : boot = BootCall(e, b, object)
    <3>1. NoArray.BootOption \in Elements
      BY <1>3
    <3>2. PICK option \in Elements, empty \in BOOLEAN :
            boot = IF task = "LibInsertToTailOfBootOrder" THEN BootCall(option, empty, object)
                   ELSE BootCall(NoArray.BootOption, FALSE, object)
      BY Zenon DEF GrowInit
    <3> QED
      BY <3>1, <3>2, Zenon
  <2>2. boot = [BootOption |-> e, OnlyInsertIfEmpty |-> b,
                NewBootOptionArray |-> NULL, VarSize |-> 0, listed |-> object]
    BY <1>3, <2>1 DEF BootCall
  <2> QED
    BY <1>2, <2>2 DEF BootArguments
<1>5. GrowTypes
  BY <1>1, <1>2, <1>4, GrowAssumption DEF GrowTypes
<1>6. GrowBuffers /\ GrowAnswers /\ GrowBoot
  BY <1>1, <1>4 DEF GrowBuffers, GrowAnswers, GrowBoot, Held
<1> QED
  BY <1>1, <1>5, <1>6 DEF GrowInv, OnlyTheResultIsLeft, BootOrderExtended

(* GrowBuffer: the old buffer is freed before another is allocated, and    *)
(* the loop ends with a buffer or with an error.                           *)
LEMMA GrowStep == GrowInv /\ Grow => GrowInv'
<1> SUFFICES ASSUME GrowInv, Grow PROVE GrowInv'
  OBVIOUS
<1>1. /\ growing = "grow" /\ GrowTypes /\ DOMAIN pool = Held /\ GrowAnswers /\ GrowBoot
      /\ UNCHANGED <<task, BufferSize, read, changes, boot>>
  BY DEF GrowInv, GrowBuffers, Grow, Allocated, NoMemory, Settled, Grown
<1>2. /\ DOMAIN Freed = {} /\ DOMAIN Freed \subseteq {Buffer}
  <2>1. DOMAIN Without(pool, Buffer) = DOMAIN pool \ {Buffer}
    BY WithoutIs
  <2> QED
    BY <1>1, <2>1 DEF Freed, Held
<1>3. object' \in Seq(Elements) /\ (Inserting => object' = object)
  <2>1. object' = object \/ object' \in MapAfter(object)
    BY DEF Grow
  <2>2. Inserting => task \notin MapReaders
    BY GrowAssumption DEF Inserting
  <2>3. Inserting => MapAfter(object) = {object}
    BY <2>2 DEF MapAfter
  <2> QED
    BY <1>1, <2>1, <2>3, ObjectsAre DEF GrowTypes
<1>4. (Inserting' <=> Inserting) /\ BootArguments' = BootArguments /\ Readers' = Readers
  BY <1>1 DEF Inserting, BootArguments, Readers
<1>5. CASE TooSmall /\ Allocated(Freed)
  <2> DEFINE new == Fresh(Freed)
  <2>1. new \in Ids
    BY <1>2, FreshIs
  <2>2. Buffer' = new /\ pool' = With(Freed, new, BufferSize) /\ growing' = "ask"
    BY <1>5 DEF Allocated, Grown
  <2> HIDE DEF new
  <2>3. DOMAIN pool' = {new} /\ pool'[new] = BufferSize /\ new # NULL
    <3>1. DOMAIN With(Freed, new, BufferSize) = DOMAIN Freed \cup {new}
          /\ With(Freed, new, BufferSize)[new] = BufferSize
      BY DEF With
    <3> QED
      BY <1>2, <2>1, <2>2, <3>1, GrowAssumption
  <2>4. GrowTypes' /\ GrowBuffers'
    BY <1>1, <1>3, <1>4, <2>1, <2>2, <2>3 DEF GrowTypes, GrowBuffers, Held
  <2> QED
    BY <1>1, <1>3, <1>4, <2>2, <2>4
       DEF GrowInv, GrowAnswers, GrowBoot, OnlyTheResultIsLeft, BootOrderExtended
<1>6. CASE TooSmall /\ NoMemory(Freed)
  <2>1. Buffer' = NULL /\ pool' = Freed /\ growing' = "grown" /\ Status' = "OUT_OF_RESOURCES"
    BY <1>6 DEF NoMemory, Grown
  <2>2. GrowTypes' /\ GrowBuffers'
    BY <1>1, <1>2, <1>3, <1>4, <2>1 DEF GrowTypes, GrowBuffers, Held
  <2> QED
    BY <1>1, <1>3, <1>4, <2>1, <2>2
       DEF GrowInv, GrowAnswers, GrowBoot, OnlyTheResultIsLeft, BootOrderExtended, IsError
<1>7. CASE ~TooSmall /\ UNCHANGED object /\ Settled
  <2>1. Buffer # NULL
    BY <1>1, <1>7 DEF TooSmall, GrowTypes
  <2>2. growing' = "grown" /\ Status' = Status
    BY <1>7 DEF Settled, Grown
  <2>3. CASE IsError(Status)
    <3>1. Buffer' = NULL /\ pool' = Freed
      BY <1>7, <2>3 DEF Settled, Grown
    <3>2. GrowTypes' /\ GrowBuffers'
      BY <1>1, <1>2, <1>3, <1>4, <2>2, <3>1 DEF GrowTypes, GrowBuffers, Held
    <3> QED
      BY <1>1, <1>3, <1>4, <2>2, <2>3, <3>1, <3>2
         DEF GrowInv, GrowAnswers, GrowBoot, OnlyTheResultIsLeft, BootOrderExtended, IsError
  <2>4. CASE ~IsError(Status)
    <3>1. Buffer' = Buffer /\ pool' = pool
      BY <1>7, <2>4 DEF Settled, Grown
    <3>2. GrowTypes' /\ GrowBuffers'
      BY <1>1, <1>3, <1>4, <2>2, <3>1 DEF GrowTypes, GrowBuffers, Held
    <3>3. Status = "SUCCESS" /\ Answered
      BY <1>1, <2>1, <2>4 DEF GrowAnswers, IsError
    <3>4. Answered'
      BY <1>1, <1>3, <1>4, <3>1, <3>3 DEF Answered
    <3>5. GrowAnswers'
      BY <1>1, <2>1, <2>2, <3>1, <3>3, <3>4 DEF GrowAnswers, IsError
    <3> QED
      BY <1>1, <1>3, <1>4, <2>2, <3>2, <3>5
         DEF GrowInv, GrowBoot, OnlyTheResultIsLeft, BootOrderExtended
  <2> QED
    BY <2>3, <2>4
<1> QED
  BY <1>5, <1>6, <1>7 DEF Grow

(* An answer is as long as the firmware says, and fits.                    *)
LEMMA AskStep == GrowInv /\ Ask => GrowInv'
<1> SUFFICES ASSUME GrowInv, Ask PROVE GrowInv'
  OBVIOUS
<1>1. /\ growing = "ask" /\ growing' = "grow" /\ GrowTypes /\ GrowBoot
      /\ UNCHANGED <<task, Buffer, pool, object, changes, boot>>
      /\ Buffer # NULL /\ pool[Buffer] = BufferSize /\ DOMAIN pool = Held
  BY DEF GrowInv, GrowBuffers, Ask
<1>2. (Inserting' <=> Inserting) /\ BootArguments' = BootArguments /\ Readers' = Readers
  BY <1>1 DEF Inserting, BootArguments, Readers
<1>3. Len(object) \in Nat
  BY <1>1 DEF GrowTypes
<1>4. /\ BufferSize' \in Nat \ {0} /\ read' \in Seq(Elements)
      /\ Status' = "SUCCESS" => /\ Len(object) <= BufferSize /\ BufferSize' = Len(object)
                                /\ read' = object /\ object # <<>>
  <2>1. CASE object = <<>> /\ Status' = "NOT_FOUND" /\ UNCHANGED <<BufferSize, read>>
    BY <1>1, <2>1 DEF GrowTypes
  <2>2. CASE Len(object) > BufferSize /\ Status' = "BUFFER_TOO_SMALL"
             /\ BufferSize' = Len(object) /\ UNCHANGED read
    BY <1>1, <1>3, <2>2 DEF GrowTypes
  <2>3. CASE object # <<>> /\ Len(object) <= BufferSize
             /\ Status' = "SUCCESS" /\ BufferSize' = Len(object) /\ read' = object
    BY <1>1, <1>3, <2>3 DEF GrowTypes
  <2>4. CASE Status' = "DEVICE_ERROR" /\ UNCHANGED <<BufferSize, read>>
    BY <1>1, <2>4 DEF GrowTypes
  <2> QED
    BY <2>1, <2>2, <2>3, <2>4 DEF Ask
<1>5. GrowTypes' /\ GrowBuffers'
  BY <1>1, <1>2, <1>4 DEF GrowTypes, GrowBuffers, Held
<1>6. Status' = "SUCCESS" => Answered'
  BY <1>1, <1>3, <1>4 DEF Answered, Held, GrowTypes
<1> QED
  BY <1>1, <1>2, <1>5, <1>6
     DEF GrowInv, GrowAnswers, GrowBoot, OnlyTheResultIsLeft, BootOrderExtended

(* What is read may change, but a variable does not.                       *)
LEMMA ChangeStep == GrowInv /\ Change => GrowInv'
<1> SUFFICES ASSUME GrowInv, Change PROVE GrowInv'
  OBVIOUS
<1>1. /\ growing \in {"grow", "ask", "scan"} /\ GrowTypes /\ GrowAnswers /\ GrowBoot /\ GrowBuffers
      /\ UNCHANGED <<task, growing, Status, Buffer, BufferSize, pool, read, boot>>
      /\ task \in MapReaders \cup HandleReaders
  BY DEF GrowInv, Change, GrowTypes
<1>2. ~Inserting /\ ~Inserting' /\ BootArguments' = BootArguments /\ Readers' = Readers
  BY <1>1, GrowAssumption DEF Inserting, BootArguments, Readers
<1>3. object' \in Seq(Elements)
  <2>1. \A e \in Elements : Append(object, e) \in Seq(Elements)
    BY <1>1 DEF GrowTypes
  <2>2. ASSUME NEW i \in DOMAIN object PROVE RemoveAt(object, i) \in Seq(Elements)
    <3>1. i \in 1..Len(object) /\ Len(object) \in Nat /\ object \in Seq(Elements)
      BY <1>1 DEF GrowTypes
    <3>2. /\ \A j \in 1..(i - 1) : object[j] \in Elements
          /\ \A j \in (i + 1)..Len(object) : object[j] \in Elements
      BY <3>1
    <3>3. SubSeq(object, 1, i - 1) \in Seq(Elements)
          /\ SubSeq(object, i + 1, Len(object)) \in Seq(Elements)
      BY <3>1, <3>2, SubSeqProperties
    <3> QED
      BY <3>3 DEF RemoveAt
  <2> QED
    BY <2>1, <2>2 DEF Change
<1>4. GrowTypes' /\ GrowBuffers'
  BY <1>1, <1>2, <1>3 DEF GrowTypes, GrowBuffers, Held
<1>5. GrowAnswers'
  BY <1>1, <1>2 DEF GrowAnswers, Answered
<1> QED
  BY <1>1, <1>2, <1>4, <1>5 DEF GrowInv, GrowBoot, OnlyTheResultIsLeft, BootOrderExtended

(* A function that is done leaves at most the buffer it returns.           *)
LEMMA ReturnStep == GrowInv /\ (ReturnBuffer \/ LibDeleteVariable) => GrowInv'
<1> SUFFICES ASSUME GrowInv, ReturnBuffer \/ LibDeleteVariable PROVE GrowInv'
  OBVIOUS
<1>1. /\ growing = "grown" /\ growing' = "done"
      /\ GrowTypes /\ GrowAnswers /\ GrowBuffers /\ DOMAIN pool = Held
      /\ UNCHANGED <<task, Buffer, BufferSize, read, changes, boot>>
  BY DEF GrowInv, GrowBuffers, ReturnBuffer, LibDeleteVariable, Ends
<1>2. (Inserting' <=> Inserting) /\ BootArguments' = BootArguments /\ Readers' = Readers
  BY <1>1 DEF Inserting, BootArguments, Readers
<1>3. ~Inserting
  BY GrowAssumption DEF ReturnBuffer, LibDeleteVariable, Inserting
<1>4. DOMAIN Without(pool, Buffer) = DOMAIN pool \ {Buffer}
      /\ \A c \in DOMAIN pool \ {Buffer} : Without(pool, Buffer)[c] = pool[c]
  BY WithoutIs
<1>5. object' \in Seq(Elements)
  <2>1. object' = object \/ object' = <<>>
    BY DEF ReturnBuffer, LibDeleteVariable
  <2> QED
    <3>1. object \in Seq(Elements) /\ <<>> \in Seq(Elements)
      BY <1>1 DEF GrowTypes
    <3> QED
      BY <2>1, <3>1
<1>6. pool' = pool \/ pool' = Without(pool, Buffer)
  BY DEF ReturnBuffer, LibDeleteVariable, Ends
<1>7. GrowTypes'
  BY <1>1, <1>2, <1>4, <1>5, <1>6 DEF GrowTypes
<1>8. OnlyTheResultIsLeft'
  <2>1. CASE ReturnBuffer
    BY <1>1, <2>1, GrowAssumption DEF OnlyTheResultIsLeft, ReturnBuffer, Ends, Held
  <2>2. CASE LibDeleteVariable
    <3>1. DOMAIN pool' = {}
      BY <1>1, <1>4, <2>2 DEF LibDeleteVariable, Ends, Held
    <3>2. task' \notin MapReaders \cup InfoReaders \cup {"LibGetVariable"}
          /\ task' # "LibInsertToTailOfBootOrder"
      BY <1>1, <2>2, GrowAssumption DEF LibDeleteVariable
    <3> QED
      BY <3>1, <3>2 DEF OnlyTheResultIsLeft
  <2> QED
    BY <2>1, <2>2
<1> QED
  BY <1>1, <1>2, <1>3, <1>7, <1>8
     DEF GrowInv, GrowBuffers, GrowAnswers, GrowBoot, BootOrderExtended, Inserting

(* A longer array is allocated besides the one that was read.              *)
LEMMA InsertStep == GrowInv /\ InsertToTail => GrowInv'
<1> SUFFICES ASSUME GrowInv, InsertToTail PROVE GrowInv'
  OBVIOUS
<1> DEFINE size == IF Buffer = NULL THEN 0 ELSE BufferSize
           new == Fresh(pool)
<1>1. /\ growing = "grown" /\ Inserting
      /\ GrowTypes /\ GrowAnswers /\ GrowBuffers /\ GrowBoot /\ DOMAIN pool = Held
      /\ UNCHANGED <<task, Buffer, BufferSize, read, object, changes>>
  BY DEF GrowInv, GrowBuffers, InsertToTail, Ends, Inserting
<1>2. (Inserting' <=> Inserting) /\ BootArguments' = BootArguments /\ Readers' = Readers
  BY <1>1 DEF Inserting, BootArguments, Readers
<1>3. DOMAIN Without(pool, Buffer) = DOMAIN pool \ {Buffer}
      /\ \A c \in DOMAIN pool \ {Buffer} : Without(pool, Buffer)[c] = pool[c]
  BY WithoutIs
<1>4. CASE /\ growing' = "done" /\ UNCHANGED boot
           /\ \/ Status' = "UNSUPPORTED" /\ pool' = Without(pool, Buffer)
              \/ Status' = "OUT_OF_RESOURCES" /\ pool' = pool
  <2>1. GrowTypes'
    BY <1>1, <1>2, <1>3, <1>4 DEF GrowTypes
  <2>2. OnlyTheResultIsLeft'
    <3>1. CASE Status' = "UNSUPPORTED" /\ pool' = Without(pool, Buffer)
      <4>1. DOMAIN pool' = {}
        BY <1>1, <1>3, <3>1 DEF Held
      <4> QED
        BY <1>1, <3>1, <4>1, GrowAssumption DEF OnlyTheResultIsLeft, Inserting
    <3>2. CASE Status' = "OUT_OF_RESOURCES" /\ pool' = pool
      BY <1>1, <3>2 DEF OnlyTheResultIsLeft, Inserting, Held
    <3> QED
      BY <1>4, <3>1, <3>2
  <2>3. BootOrderExtended'
    BY <1>1, <1>4 DEF BootOrderExtended, GrowBoot, IsError
  <2> QED
    BY <1>1, <1>4, <2>1, <2>2, <2>3 DEF GrowInv, GrowBuffers, GrowAnswers, GrowBoot
<1>5. CASE /\ ~(size # 0 /\ boot.OnlyInsertIfEmpty) /\ growing' = "write"
           /\ pool' = With(pool, new, size + 1)
           /\ boot' = [boot EXCEPT !.NewBootOptionArray = new, !.VarSize = size + 1]
           /\ UNCHANGED Status
  <2>1. new \in Ids /\ new \notin DOMAIN pool
    <3>1. DOMAIN pool \subseteq {Buffer}
      BY <1>1 DEF Held
    <3> QED
      BY <3>1, FreshIs
  <2> DEFINE total == size + 1
  <2>2. DOMAIN With(pool, new, total) = DOMAIN pool \cup {new}
        /\ With(pool, new, total)[new] = total
        /\ \A c \in DOMAIN pool \ {new} : With(pool, new, total)[c] = pool[c]
    <3> HIDE DEF total, new
    <3> QED
      BY DEF With
  <2>3. size + 1 \in Nat \ {0} /\ (size # 0 <=> Buffer # NULL)
    BY <1>1 DEF GrowTypes
  <2>4. total \in Nat \ {0} /\ (Buffer # NULL => ~boot.OnlyInsertIfEmpty)
        /\ total = (IF Buffer = NULL THEN 0 ELSE BufferSize) + 1
    BY <1>5, <2>3
  <2>5. pool' = With(pool, new, total)
        /\ boot' = [boot EXCEPT !.NewBootOptionArray = new, !.VarSize = total]
    BY <1>5
  <2> HIDE DEF total, size, new
  <2>6. boot' \in BootArguments /\ boot'.listed = boot.listed /\ boot'.NewBootOptionArray = new
        /\ boot'.VarSize = total /\ boot'.OnlyInsertIfEmpty = boot.OnlyInsertIfEmpty
    BY <1>1, <2>1, <2>4, <2>5 DEF GrowTypes, BootArguments
  <2>7. /\ DOMAIN pool' = DOMAIN pool \cup {new}
        /\ \A c \in DOMAIN pool' : pool'[c] \in Nat \ {0}
        /\ \A c \in DOMAIN pool : pool'[c] = pool[c]
    BY <1>1, <2>1, <2>2, <2>4, <2>5 DEF GrowTypes
  <2>8. GrowTypes'
    BY <1>1, <1>2, <1>5, <2>1, <2>6, <2>7 DEF GrowTypes
  <2>9. new # Buffer
    BY <1>1, <2>1, GrowAssumption DEF Held
  <2>10. GrowBuffers'
    BY <1>1, <1>5, <2>1, <2>6, <2>7, <2>9 DEF GrowBuffers, Held
  <2>11. GrowAnswers'
    BY <1>1, <1>2, <1>5, <2>7 DEF GrowAnswers, Answered
  <2>12. GrowBoot'
    BY <1>1, <1>2, <1>5, <2>4, <2>6 DEF GrowBoot
  <2> QED
    BY <1>5, <2>8, <2>10, <2>11, <2>12 DEF GrowInv, OnlyTheResultIsLeft, BootOrderExtended
<1> QED
  BY <1>4, <1>5 DEF InsertToTail, Ends

(* The boot order that is written is the one that was read with the option *)
(* behind it, and both arrays are freed.                                   *)
LEMMA WriteStep == GrowInv /\ WriteBootOrder => GrowInv'
<1> SUFFICES ASSUME GrowInv, WriteBootOrder PROVE GrowInv'
  OBVIOUS
<1> DEFINE rest == Without(pool, boot.NewBootOptionArray)
           left == Without(rest, Buffer)
           order == Append(SubSeq(read, 1, boot.VarSize - 1), boot.BootOption)
<1>1. /\ growing = "write" /\ growing' = "done" /\ Inserting
      /\ GrowTypes /\ GrowAnswers /\ GrowBuffers /\ GrowBoot
      /\ UNCHANGED <<task, Buffer, BufferSize, read, changes, boot>> /\ pool' = left
  BY DEF GrowInv, GrowBoot, WriteBootOrder, Ends
<1>2. \/ Status' = "SUCCESS" /\ object' = order
      \/ Status' = "WRITE_PROTECTED" /\ UNCHANGED object
  BY DEF WriteBootOrder, Ends, TailOf
<1>3. (Inserting' <=> Inserting) /\ BootArguments' = BootArguments /\ Readers' = Readers
  BY <1>1 DEF Inserting, BootArguments, Readers
<1>4. DOMAIN left = {}
  <2>1. DOMAIN rest = DOMAIN pool \ {boot.NewBootOptionArray}
    BY WithoutIs
  <2>2. DOMAIN left = DOMAIN rest \ {Buffer}
    BY WithoutIs
  <2> HIDE DEF left, rest
  <2> QED
    BY <1>1, <2>1, <2>2 DEF GrowBuffers, Held
<1> HIDE DEF left
<1>5. boot.BootOption \in Elements /\ boot.VarSize \in Nat /\ boot.listed \in Seq(Elements)
      /\ read \in Seq(Elements) /\ BufferSize \in Nat \ {0}
  BY <1>1 DEF GrowTypes, BootArguments
<1>6. /\ order \in Seq(Elements)
      /\ Buffer = NULL => order = <<boot.BootOption>> /\ order = Append(<<>>, boot.BootOption)
      /\ Buffer # NULL => order = Append(boot.listed, boot.BootOption)
                          /\ boot.OnlyInsertIfEmpty = FALSE
  <2>1. CASE Buffer = NULL
    <3>1. boot.VarSize - 1 = 0
      BY <1>1, <2>1 DEF GrowBoot
    <3>2. SubSeq(read, 1, boot.VarSize - 1) = <<>>
      BY <1>5, <3>1
    <3>3. Append(<<>>, boot.BootOption) = <<boot.BootOption>>
          /\ <<boot.BootOption>> \in Seq(Elements)
      BY <1>5
    <3>4. order = Append(<<>>, boot.BootOption)
      BY <3>2
    <3> HIDE DEF order
    <3> QED
      BY <2>1, <3>3, <3>4
  <2>2. CASE Buffer # NULL
    <3>1. Status = "SUCCESS" /\ Answered
      BY <1>1, <2>2 DEF GrowAnswers, IsError
    <3>2. boot.VarSize - 1 = Len(read) /\ read = boot.listed
      BY <1>1, <1>5, <2>2, <3>1 DEF GrowBoot, Answered
    <3>3. SubSeq(read, 1, boot.VarSize - 1) = read
      BY <1>5, <3>2, SubSeqFull
    <3>4. boot.OnlyInsertIfEmpty = FALSE
      BY <1>1, <2>2 DEF GrowBoot, GrowTypes, BootArguments
    <3>5. order = Append(boot.listed, boot.BootOption)
      BY <3>2, <3>3
    <3>6. Append(boot.listed, boot.BootOption) \in Seq(Elements)
      BY <1>5
    <3> HIDE DEF order
    <3> QED
      BY <2>2, <3>4, <3>5, <3>6
  <2> QED
    BY <2>1, <2>2
<1> HIDE DEF order
<1>7. GrowTypes'
  BY <1>1, <1>2, <1>3, <1>4, <1>6 DEF GrowTypes
<1>8. OnlyTheResultIsLeft'
  BY <1>1, <1>2, <1>4, GrowAssumption DEF OnlyTheResultIsLeft, Inserting
<1>9. object = boot.listed
  BY <1>1 DEF GrowBoot
<1>10. BootOrderExtended'
  <2>1. CASE Status' = "WRITE_PROTECTED" /\ UNCHANGED object
    BY <1>1, <1>9, <2>1 DEF BootOrderExtended, IsError
  <2>2. CASE Status' = "SUCCESS" /\ object' = order
    <3>1. \/ object' = Append(boot.listed, boot.BootOption)
             /\ (boot.OnlyInsertIfEmpty => boot.listed = <<>>)
          \/ boot.listed # <<>> /\ Buffer = NULL /\ object' = <<boot.BootOption>>
      BY <1>6, <2>2
    <3> QED
      BY <1>1, <2>2, <3>1 DEF BootOrderExtended, IsError
  <2> QED
    BY <1>2, <2>1, <2>2
<1> QED
  BY <1>1, <1>3, <1>7, <1>8, <1>10 DEF GrowInv, GrowBuffers, GrowAnswers, GrowBoot

(* Every step keeps the invariant.                                         *)
LEMMA GrowInductive == GrowInv /\ [GrowNext]_growVars => GrowInv'
<1> SUFFICES ASSUME GrowInv, [GrowNext]_growVars PROVE GrowInv'
  OBVIOUS
<1>1. CASE UNCHANGED growVars
  <2>1. /\ BootArguments' = BootArguments /\ Readers' = Readers /\ (Inserting' <=> Inserting)
        /\ Held' = Held /\ (Answered' <=> Answered)
    BY <1>1 DEF growVars, BootArguments, Readers, Inserting, Held, Answered
  <2>2. (GrowTypes /\ GrowBuffers)'
    BY <1>1, <2>1 DEF growVars, GrowInv, GrowTypes, GrowBuffers
  <2>3. (GrowAnswers /\ GrowBoot)'
    BY <1>1, <2>1 DEF growVars, GrowInv, GrowAnswers, GrowBoot
  <2>4. (OnlyTheResultIsLeft /\ BootOrderExtended)'
    BY <1>1 DEF growVars, GrowInv, OnlyTheResultIsLeft, BootOrderExtended
  <2> QED
    BY <2>2, <2>3, <2>4 DEF GrowInv
<1> QED
  BY <1>1, GrowStep, AskStep, ChangeStep, ReturnStep, InsertStep, WriteStep DEF GrowNext

(* What is kept implies what is promised.                                  *)
LEMMA GrowInvIsEnough == GrowInv => AnswersWhole
<1> SUFFICES ASSUME GrowInv PROVE AnswersWhole
  OBVIOUS
<1>1. GrowTypeOK
  BY DEF GrowInv, GrowTypes, GrowTypeOK, Range
<1>2. ToldTrueSize
  BY DEF GrowInv, GrowBuffers, Held, ToldTrueSize
<1>3. ReadAsAWhole
  BY DEF GrowInv, GrowAnswers, Answered, ReadAsAWhole, IsError
<1> QED
  BY <1>1, <1>2, <1>3 DEF GrowInv, AnswersWhole

(* For any lists, maps and variables and any changes of them in between:   *)
(* what GrowBuffer returns is one answer of the firmware as a whole, in a  *)
(* buffer it fits, no other buffer is left, and the boot order is only     *)
(* extended.                                                               *)
THEOREM AnswersWholeHolds == GrowSpec => []AnswersWhole
<1>1. GrowInit => GrowInv
  BY GrowStart
<1>2. GrowInv /\ [GrowNext]_growVars => GrowInv'
  BY GrowInductive
<1>3. GrowInv => AnswersWhole
  BY GrowInvIsEnough
<1> QED
  BY <1>1, <1>2, <1>3, PTL DEF GrowSpec

-----------------------------------------------------------------------------
(* The file that is read through a handle of its own (sread.c).            *)

ReadTypes ==
  /\ reading \in {"open", "volume", "walk", "walked", "load", "fill", "failed", "opened",
                  "read", "none"}
  /\ path \in Seq(NodeKinds) /\ length \in Nat
  /\ FilePath \in Nat /\ FilePathNode \in Nat /\ FileHandle \in Nat
  /\ unopened \in BOOLEAN
  /\ FHand \in [FreeBuffer : BOOLEAN, Source : BOOLEAN, SourceSize : Nat, FileHandle : Nat]
  /\ request \in [Offset : Nat, ReadSize : Nat]

(* Which file is open, and who knows of it.                                *)
ReadFiles ==
  /\ files = IF reading = "none" THEN {} ELSE {FileHandle} \ {NoFile}
  /\ reading \in {"open", "volume", "load", "fill", "failed"} => FileHandle = NoFile
  /\ reading # "none" =>
       FHand.FileHandle = IF reading \in {"opened", "read"} THEN FileHandle ELSE NoFile

(* The pools: the handle's own, and the copy of the file it has to free.   *)
ReadPools ==
  /\ reading \in {"open", "none"} => pools = {}
  /\ reading # "none" => ("Source" \in pools <=> FHand.FreeBuffer)
  /\ pools \subseteq {"FHand", "Source"}
  /\ FHand.Source => FHand.SourceSize = length

(* The path is the caller's as long as nothing was opened along it.        *)
ReadPath ==
  /\ reading \in {"open", "volume"} => FilePath = 1
  /\ reading \in {"walk", "walked"} /\ FileHandle = NoFile /\ ~unopened => FilePath = 1
  /\ LoadsUserPath

ReadInv ==
  /\ ReadTypes /\ ReadFiles /\ ReadPools /\ ReadPath /\ ReadsWhatIsAsked

(* The node behind the device is a node of the path, or the one behind it. *)
LEMMA BehindDeviceIsNode ==
  ASSUME path \in Seq(NodeKinds)
  PROVE  BehindDevice \in Nat \ {0}
<1> DEFINE T == {i \in 1..(Len(path) + 1) : AtEnd(i) \/ path[i] # "device"}
<1>1. Len(path) \in Nat /\ Len(path) + 1 \in T
  BY LenProperties DEF AtEnd
<1>2. T \subseteq Nat /\ T # {} /\ 0 \notin T
  BY <1>1
<1>3. \E x \in T : \A y \in T : x <= y
  BY <1>2, LeastNat
<1>4. BehindDevice = CHOOSE x \in T : \A y \in T : x <= y
  BY DEF BehindDevice, Min
<1>5. BehindDevice \in T
  BY <1>3, <1>4
<1> QED
  BY <1>2, <1>5

(* How many bytes of a copy in memory are there, while the end of what is  *)
(* asked for is a UINTN.                                                   *)
LEMMA CountInMemory ==
  ASSUME NEW offset \in Nat, NEW size \in Nat, NEW limit \in Nat, offset + size < 2^UintnBits
  PROVE  LET count == IF Uintn(offset + size) > limit THEN BytesLeft(offset, limit) ELSE size
         IN  /\ count \in Nat /\ count <= size
             /\ \A k \in 1..size : k <= count <=> offset + k <= limit
<1>1. Uintn(offset + size) = offset + size
  <2>1. PICK w \in Nat : w = 2^UintnBits /\ w > 0
    BY SimpleReadAssumption
  <2>2. PICK x \in Nat : x = offset + size
    OBVIOUS
  <2>3. x \in Int /\ 0 \in Int /\ 0 <= x /\ x < w /\ x = w * 0 + x
    BY <2>1, <2>2
  <2>4. x % w = x
    BY <2>1, <2>3, DivUnique
  <2> QED
    BY <2>1, <2>2, <2>4 DEF Uintn
<1>2. CASE offset + size <= limit
  BY <1>1, <1>2 DEF BytesLeft
<1>3. CASE ~(offset + size <= limit) /\ offset >= limit
  BY <1>1, <1>3 DEF BytesLeft
<1>4. CASE ~(offset + size <= limit) /\ ~(offset >= limit)
  <2>1. Uintn(offset + size) > limit
    BY <1>1, <1>4
  <2>2. limit - offset \in Nat /\ limit - offset <= size
        /\ \A k \in 1..size : k <= limit - offset <=> offset + k <= limit
    BY <1>4
  <2> QED
    BY <1>4, <2>1, <2>2 DEF BytesLeft
<1> QED
  BY <1>2, <1>3, <1>4

(* The larger of two numbers.                                              *)
LEMMA MaxOfTwo ==
  ASSUME NEW a \in Int, NEW b \in Int
  PROVE  Max({a, b}) = IF a >= b THEN a ELSE b
<1> DEFINE M == {a, b}
           m == IF a >= b THEN a ELSE b
<1>1. m \in M /\ m \in Int /\ \A y \in M : m >= y /\ (y >= m => y = m)
  OBVIOUS
<1>2. Max(M) = CHOOSE x \in M : \A y \in M : x >= y
  BY DEF Max
<1>3. Max(M) \in M /\ \A y \in M : Max(M) >= y
  BY <1>1, <1>2
<1> QED
  BY <1>1, <1>3

(* The smaller one.                                                        *)
LEMMA MinOfTwo ==
  ASSUME NEW a \in Int, NEW b \in Int
  PROVE  Min({a, b}) = IF a <= b THEN a ELSE b
<1> DEFINE M == {a, b}
           m == IF a <= b THEN a ELSE b
<1>1. m \in M /\ m \in Int /\ \A y \in M : m <= y /\ (y <= m => y = m)
  OBVIOUS
<1>2. Min(M) = CHOOSE x \in M : \A y \in M : x <= y
  BY DEF Min
<1>3. Min(M) \in M /\ \A y \in M : Min(M) <= y
  BY <1>1, <1>2
<1> QED
  BY <1>1, <1>3

(* And how many the firmware reads from a file.                            *)
LEMMA CountInFile ==
  ASSUME NEW offset \in Nat, NEW size \in Nat, NEW limit \in Nat
  PROVE  LET count == Min({size, Max({0, limit - offset})})
         IN  /\ count \in Nat /\ count <= size
             /\ \A k \in 1..size : k <= count <=> offset + k <= limit
<1>1. PICK left \in Nat : left = Max({0, limit - offset})
                         /\ left = IF limit >= offset THEN limit - offset ELSE 0
  <2>1. Max({0, limit - offset}) = IF 0 >= limit - offset THEN 0 ELSE limit - offset
    BY MaxOfTwo
  <2>2. Max({0, limit - offset}) = IF limit >= offset THEN limit - offset ELSE 0
    BY <2>1
  <2> QED
    BY <2>2
<1>2. PICK count \in Nat : count = Min({size, left})
                          /\ count = IF size <= left THEN size ELSE left
  <2>1. Min({size, left}) = IF size <= left THEN size ELSE left
    BY MinOfTwo
  <2> QED
    BY <2>1
<1>3. \A k \in 1..size : k <= left <=> offset + k <= limit
  BY <1>1
<1>4. \A k \in 1..size : k <= count <=> k <= left
  BY <1>2
<1> QED
  BY <1>1, <1>2, <1>3, <1>4

(* Before the call nothing is open.                                       *)
LEMMA ReadInvInit == ReadInit => ReadInv
<1> SUFFICES ASSUME ReadInit PROVE ReadInv
  OBVIOUS
<1>1. path \in Seq(NodeKinds)
  <2>1. \A S : \A x \in S : <<x>> \in Seq(S)
    OBVIOUS
  <2>2. "device" \in NodeKinds
    BY DEF NodeKinds
  <2> QED
    BY <2>1, <2>2, SimpleReadAssumption DEF ReadInit
<1>2. ReadTypes
  BY <1>1, SimpleReadAssumption DEF ReadInit, ReadTypes, NoFHand, NoRequest, NoFile
<1> QED
  BY <1>2 DEF ReadInit, ReadInv, ReadFiles, ReadPools, ReadPath, LoadsUserPath,
              ReadsWhatIsAsked, NoFHand, NoFile

(* What is read, in the next state.                                        *)
LEMMA ReadAnswer ==
  ASSUME ReadInv, ReadSimpleReadFile
  PROVE  /\ request' \in [Offset : Nat, ReadSize : Nat]
         /\ ReadsWhatIsAsked'
<1> USE SimpleReadAssumption
<1>1. PICK offset \in Offsets, size \in Offsets :
        LET end == Uintn(offset + size)
            limit == IF FHand.Source THEN FHand.SourceSize ELSE length
            count == IF FHand.Source
                     THEN IF end > limit THEN BytesLeft(offset, limit) ELSE size
                     ELSE Min({size, Max({0, limit - offset})})
        IN  /\ request' = [Offset |-> offset, ReadSize |-> size]
            /\ answer' = Bytes(offset, count)
  BY DEF ReadSimpleReadFile
<1> DEFINE count == IF FHand.Source
                    THEN IF Uintn(offset + size) > length THEN BytesLeft(offset, length) ELSE size
                    ELSE Min({size, Max({0, length - offset})})
<1>2. offset \in Nat /\ size \in Nat /\ length \in Nat /\ length' = length
      /\ FHand.Source \in BOOLEAN
  BY DEF ReadInv, ReadTypes, ReadSimpleReadFile
<1>3. (IF FHand.Source THEN FHand.SourceSize ELSE length) = length
  BY DEF ReadInv, ReadPools
<1>4. answer' = Bytes(offset, count) /\ request' = [Offset |-> offset, ReadSize |-> size]
  BY <1>1, <1>3
<1>5. ASSUME request'.Offset + request'.ReadSize < 2^UintnBits
      PROVE  LET asked == Bytes(offset, size)
             IN  /\ Len(answer') <= Len(asked)
                 /\ \A k \in DOMAIN asked :
                      IF k <= Len(answer') THEN answer'[k] = asked[k] /\ answer'[k] <= length
                      ELSE asked[k] > length
  <2>1. offset + size < 2^UintnBits
    BY <1>4, <1>5
  <2>2. count \in Nat /\ count <= size
        /\ \A k \in 1..size : k <= count <=> offset + k <= length
    <3>1. CASE FHand.Source
      BY <1>2, <2>1, <3>1, CountInMemory
    <3>2. CASE ~FHand.Source
      BY <1>2, <3>2, CountInFile
    <3> QED
      BY <3>1, <3>2
  <2> HIDE DEF count
  <2>3. answer' = [k \in 1..count |-> offset + k] /\ Len(answer') = count
    BY <1>4, <2>2 DEF Bytes
  <2>4. Len(Bytes(offset, size)) = size /\ Bytes(offset, size) = [k \in 1..size |-> offset + k]
        /\ DOMAIN Bytes(offset, size) = 1..size
    BY <1>2 DEF Bytes
  <2>5. ASSUME NEW k \in 1..size, k <= count
        PROVE  answer'[k] = Bytes(offset, size)[k] /\ answer'[k] <= length
    <3>1. k \in 1..count
      BY <1>2, <2>2, <2>5
    <3>2. answer'[k] = offset + k
      BY <2>3, <3>1
    <3>3. offset + k <= length
      BY <2>2, <2>5
    <3> QED
      BY <2>4, <3>2, <3>3
  <2>6. ASSUME NEW k \in 1..size, ~(k <= count)
        PROVE  Bytes(offset, size)[k] > length
    <3>1. ~(offset + k <= length)
      BY <2>2, <2>6
    <3> QED
      BY <1>2, <2>4, <3>1
  <2> QED
    BY <2>2, <2>3, <2>4, <2>5, <2>6
<1>6. ReadsWhatIsAsked'
  BY <1>2, <1>4, <1>5, Zenon DEF ReadsWhatIsAsked
<1> QED
  BY <1>2, <1>4, <1>6

(* An answer that stays as it is, stays right; what is not read, too.      *)
LEMMA ReadAnswerKept ==
  ASSUME ReadInv, reading' = "read" => UNCHANGED <<reading, request, answer, length>>
  PROVE  ReadsWhatIsAsked'
<1>1. CASE reading' = "read"
  BY <1>1 DEF ReadInv, ReadsWhatIsAsked
<1>2. CASE reading' # "read"
  BY <1>2 DEF ReadsWhatIsAsked
<1> QED
  BY <1>1, <1>2

(* And every step of opening, reading and closing keeps it.               *)
LEMMA ReadInvNext == ReadInv /\ [ReadNext]_readVars => ReadInv'
<1> SUFFICES ASSUME ReadInv, [ReadNext]_readVars PROVE ReadInv'
  OBVIOUS
<1> USE DEF ReadInv, ReadTypes, ReadFiles, ReadPools, ReadPath, LoadsUserPath,
            NoFile
<1>1. CASE OpenMemory
  <2>1. ReadsWhatIsAsked'
    BY <1>1, ReadAnswerKept DEF OpenMemory
  <2> QED
    BY <1>1, <2>1 DEF OpenMemory, NoFHand
<1>2. CASE OpenVolume
  <2>1. ReadsWhatIsAsked'
    BY <1>2, ReadAnswerKept DEF OpenVolume
  <2>2. BehindDevice \in Nat \ {0}
    BY BehindDeviceIsNode
  <2> QED
    BY <1>2, <2>1, <2>2 DEF OpenVolume
<1>3. CASE OpenNode
  <2>1. ReadsWhatIsAsked'
    BY <1>3, ReadAnswerKept DEF OpenNode
  <2>2. files = {FileHandle} \ {0} /\ FHand.FileHandle = 0
    BY <1>3 DEF OpenNode
  <2>3. ClosedBehind(FileHandle) = {}
    BY <2>2 DEF ClosedBehind
  <2>4. CASE path[FilePathNode] # "file" \/ Fails(OpenStatus)
    BY <1>3, <2>1, <2>4 DEF OpenNode
  <2>5. CASE ~(path[FilePathNode] # "file" \/ Fails(OpenStatus))
    <3>1. FilePathNode + 1 \in Nat /\ FilePathNode + 1 # 0
      OBVIOUS
    <3>2. CASE FileHandle' = FilePathNode + 1 /\ UNCHANGED unopened
               /\ files' = ClosedBehind(FileHandle) \cup {FilePathNode + 1}
      <4>1. files' = {FileHandle'} \ {0} /\ FileHandle' # 0
        BY <2>3, <3>1, <3>2
      <4> QED
        BY <1>3, <2>1, <2>2, <2>5, <3>1, <3>2, <4>1 DEF OpenNode
    <3>3. CASE FileHandle' = 0 /\ unopened' = TRUE /\ files' = ClosedBehind(FileHandle)
      BY <1>3, <2>1, <2>2, <2>3, <2>5, <3>1, <3>3 DEF OpenNode
    <3> QED
      BY <1>3, <2>5, <3>2, <3>3 DEF OpenNode
  <2> QED
    BY <2>4, <2>5
<1>4. CASE EndWalk
  <2>1. ReadsWhatIsAsked'
    BY <1>4, ReadAnswerKept DEF EndWalk
  <2> QED
    BY <1>4, <2>1 DEF EndWalk, Restored
<1>5. CASE LoadFile
  <2>1. ReadsWhatIsAsked'
    BY <1>5, ReadAnswerKept DEF LoadFile
  <2> QED
    BY <1>5, <2>1 DEF LoadFile
<1>6. CASE FillBuffer
  <2>1. ReadsWhatIsAsked'
    BY <1>6, ReadAnswerKept DEF FillBuffer
  <2> QED
    BY <1>6, <2>1 DEF FillBuffer
<1>7. CASE OpenFails
  <2>1. ReadsWhatIsAsked'
    BY <1>7, ReadAnswerKept DEF OpenFails
  <2> QED
    BY <1>7, <2>1 DEF OpenFails, FreedSource
<1>8. CASE ReadSimpleReadFile
  BY <1>8, ReadAnswer DEF ReadSimpleReadFile
<1>9. CASE CloseSimpleReadFile
  <2>1. ReadsWhatIsAsked'
    BY <1>9, ReadAnswerKept DEF CloseSimpleReadFile
  <2> QED
    BY <1>9, <2>1 DEF CloseSimpleReadFile, FreedSource
<1>10. CASE UNCHANGED readVars
  <2>1. ReadsWhatIsAsked'
    BY <1>10, ReadAnswerKept DEF readVars
  <2> QED
    BY <1>10, <2>1 DEF readVars
<1> QED
  BY <1>1, <1>2, <1>3, <1>4, <1>5, <1>6, <1>7, <1>8, <1>9, <1>10 DEF ReadNext

(* A file that is opened, read and closed again (sread.c): for all paths,  *)
(* sizes and requests the bytes are those asked for as far as the file     *)
(* has them, at most one file is open at any step, none is left and no     *)
(* pool either, and what is loaded in place of a file is the caller's path.*)
THEOREM FilesReadHolds == ReadSpec => []FilesRead
<1>1. ReadInv => FilesRead
  BY DEF ReadInv, ReadTypes, ReadFiles, ReadPools, ReadPath, FilesRead, FilesAndPools, NoFile
<1> QED
  BY <1>1, ReadInvInit, ReadInvNext, PTL DEF ReadSpec

-----------------------------------------------------------------------------
(* Waiting for events, and the line that is typed (event.c, console.c).    *)

(* What LineOf's recursive function is: the line after each key.           *)
IsLines(u, keys) ==
  u = [n \in 0..Len(keys) |-> IF n = 0 THEN <<>> ELSE TypedOn(u[n - 1], keys[n])]

(* The lines after each of the keys are the lines after the first of them, *)
(* and one more.                                                           *)
LEMMA OneMoreLine ==
  ASSUME NEW keys \in Seq(Keys), NEW k \in Keys, NEW u, IsLines(u, keys)
  PROVE  \E v : /\ IsLines(v, Append(keys, k))
                /\ v[Len(keys) + 1] = TypedOn(u[Len(keys)], k)
<1> DEFINE m == Len(keys)
           more == Append(keys, k)
           v == [n \in 0..(m + 1) |-> IF n = m + 1 THEN TypedOn(u[m], k) ELSE u[n]]
<1>1. m \in Nat /\ Len(more) = m + 1 /\ more[m + 1] = k
      /\ \A n \in 1..m : more[n] = keys[n]
  OBVIOUS
<1> HIDE DEF more
<1>2. ASSUME NEW n \in 0..(m + 1)
      PROVE  v[n] = IF n = 0 THEN <<>> ELSE TypedOn(v[n - 1], more[n])
  <2>1. CASE n = m + 1
    <3>1. v[n] = TypedOn(u[m], k) /\ n # 0 /\ n - 1 = m
      BY <1>1, <2>1
    <3>2. v[m] = u[m]
      BY <1>1
    <3> HIDE DEF v
    <3> QED
      BY <1>1, <2>1, <3>1, <3>2
  <2>2. CASE n # m + 1
    <3>1. v[n] = u[n] /\ n \in 0..m
      BY <1>1, <2>2
    <3>2. n # 0 => v[n - 1] = u[n - 1] /\ n \in 1..m
      BY <1>1, <2>2
    <3> HIDE DEF v
    <3>3. u[n] = IF n = 0 THEN <<>> ELSE TypedOn(u[n - 1], keys[n])
      BY <3>1 DEF IsLines
    <3> QED
      BY <1>1, <3>1, <3>2, <3>3
  <2> QED
    BY <2>1, <2>2
<1>3. v = [n \in 0..(m + 1) |-> v[n]] /\ v[m + 1] = TypedOn(u[m], k)
  BY <1>1
<1> HIDE DEF v
<1>4. v = [n \in 0..(m + 1) |-> IF n = 0 THEN <<>> ELSE TypedOn(v[n - 1], more[n])]
  BY <1>2, <1>3
<1>5. IsLines(v, more)
  BY <1>1, <1>4 DEF IsLines
<1> QED
  BY <1>3, <1>5, SMTT(30) DEF more

(* The recursion that edits a line has a solution.                         *)
LEMMA LinesExist ==
  ASSUME NEW keys \in Seq(Keys)
  PROVE  \E u : IsLines(u, keys)
<1> DEFINE T == {n \in Nat : \A s \in Seq(Keys) : Len(s) = n => \E u : IsLines(u, s)}
<1>1. 0 \in T
  <2>1. ASSUME NEW s \in Seq(Keys), Len(s) = 0 PROVE IsLines([n \in 0..0 |-> <<>>], s)
    BY <2>1 DEF IsLines
  <2> QED
    BY <2>1
<1>2. ASSUME NEW n \in Nat, n \in T PROVE n + 1 \in T
  <2>1. SUFFICES ASSUME NEW s \in Seq(Keys), Len(s) = n + 1 PROVE \E u : IsLines(u, s)
    OBVIOUS
  <2> DEFINE f == SubSeq(s, 1, n)
             k == s[n + 1]
  <2>2. f \in Seq(Keys) /\ Len(f) = n /\ k \in Keys
    BY <2>1
  <2>3. s = Append(f, k)
    <3>1. Append(f, k) \in Seq(Keys) /\ Len(Append(f, k)) = Len(s)
          /\ \A i \in 1..Len(s) : Append(f, k)[i] = s[i]
      BY <2>1, <2>2
    <3> HIDE DEF f, k
    <3> QED
      BY <3>1, SeqEqual
  <2> HIDE DEF f, k
  <2>4. PICK u : IsLines(u, f)
    BY <1>2, <2>2
  <2> QED
    BY <2>2, <2>3, <2>4, OneMoreLine
<1> HIDE DEF T
<1>3. Len(keys) \in T
  <2>1. Len(keys) \in Nat
    OBVIOUS
  <2> QED
    BY <1>1, <1>2, <2>1, AllNat
<1> QED
  BY <1>3 DEF T

(* Any solution gives the line.                                            *)
LEMMA LineIs ==
  ASSUME NEW keys \in Seq(Keys), NEW u, IsLines(u, keys)
  PROVE  LineOf(keys) = u[Len(keys)]
<1> DEFINE w == CHOOSE w : IsLines(w, keys)
<1>1. LineOf(keys) = w[Len(keys)]
  BY DEF LineOf, IsLines
<1>2. IsLines(w, keys)
  BY LinesExist
<1> HIDE DEF w
<1>3. Len(keys) \in Nat
  OBVIOUS
<1> DEFINE T == {n \in Nat : n <= Len(keys) => w[n] = u[n]}
<1>4. 0 \in T
  BY <1>2, <1>3 DEF IsLines
<1>5. ASSUME NEW n \in Nat, n \in T PROVE n + 1 \in T
  <2> SUFFICES ASSUME n + 1 <= Len(keys) PROVE w[n + 1] = u[n + 1]
    OBVIOUS
  <2>1. w[n] = u[n]
    BY <1>5, <1>3
  <2>2. n + 1 \in 0..Len(keys) /\ n + 1 # 0 /\ (n + 1) - 1 = n
    BY <1>3
  <2>3. w[n + 1] = TypedOn(w[n], keys[n + 1])
    BY <1>2, <2>2 DEF IsLines
  <2>4. u[n + 1] = TypedOn(u[n], keys[n + 1])
    BY <2>2 DEF IsLines
  <2> QED
    BY <2>1, <2>3, <2>4
<1> HIDE DEF T
<1>6. Len(keys) \in T
  BY <1>3, <1>4, <1>5, AllNat
<1> QED
  BY <1>1, <1>6 DEF T

(* One more key edits the line there is, and no key makes the empty line.  *)
LEMMA LineGrows ==
  ASSUME NEW keys \in Seq(Keys), NEW k \in Keys
  PROVE  LineOf(Append(keys, k)) = TypedOn(LineOf(keys), k)
<1>1. PICK u : IsLines(u, keys)
  BY LinesExist
<1>2. PICK v : IsLines(v, Append(keys, k)) /\ v[Len(keys) + 1] = TypedOn(u[Len(keys)], k)
  BY <1>1, OneMoreLine
<1>3. Append(keys, k) \in Seq(Keys) /\ Len(Append(keys, k)) = Len(keys) + 1
  OBVIOUS
<1>4. LineOf(Append(keys, k)) = v[Len(keys) + 1]
  BY <1>2, <1>3, LineIs
<1> QED
  BY <1>1, <1>2, <1>4, LineIs

(* No key, no line.                                                        *)
LEMMA NoLine == LineOf(<<>>) = <<>>
<1>1. <<>> \in Seq(Keys) /\ Len(<<>>) = 0
  OBVIOUS
<1>2. IsLines([n \in 0..0 |-> <<>>], <<>>)
  BY <1>1 DEF IsLines
<1> QED
  BY <1>1, <1>2, LineIs

-----------------------------------------------------------------------------
(* What the places of the buffer may hold.                                 *)
Chars == Keys \cup {ZeroChar, EventUnwritten}

EventTypes ==
  /\ waiter \in {"WaitForSingleEvent", "WaitForEventWithTimeout", "IInput"}
  /\ waiting \in {"call", "wait", "waited", "done"}
  /\ timer \in {"none", "set", "fired"}
  /\ signalled \in BOOLEAN
  /\ typed \in Seq(Keys) /\ history \in Seq(Keys)

(* The event is signalled while there is something to read, except from    *)
(* where waiting has consumed it to where the key is read; a caller of     *)
(* WaitForSingleEvent reads for itself.                                    *)
Signalled ==
  /\ waiting # "wait" => timer = "none"
  /\ waiting \in {"call", "wait", "done"} \/ WaitStatus # "SUCCESS" =>
       IF waiter = "WaitForSingleEvent"
       THEN waiting # "done" /\ typed # <<>> => signalled
       ELSE typed # <<>> <=> signalled

(* What IInput has put into the buffer, place by place.                    *)
LineInBuffer ==
  LET line == LineOf(history)
  IN  /\ StrLen \in Nat \ {0}
      /\ \E size \in Nat : size > StrLen /\ InStr \in [1..size -> Chars]
      /\ InLength \in Nat /\ InLength < StrLen
      /\ line \in Seq(Chars) /\ Len(line) = InLength
      /\ \A i \in 1..InLength : InStr[i] = line[i]
      /\ \A i \in DOMAIN InStr : i > StrLen => InStr[i] = EventUnwritten
      /\ waiting = "done" => InStr[InLength + 1] = ZeroChar

EventInv ==
  /\ EventTypes
  /\ Signalled
  /\ waiter = "IInput" => LineInBuffer

(* Nothing is typed at first.                                              *)
LEMMA EventStart == EventInit => EventInv
<1> SUFFICES ASSUME EventInit PROVE EventInv
  OBVIOUS
<1>1. EventTypes /\ Signalled
  <2>1. <<>> \in Seq(Keys)
    OBVIOUS
  <2>2. EventTypes
    BY <2>1 DEF EventInit, EventTypes
  <2> QED
    BY <2>2 DEF EventInit, Signalled
<1>2. ASSUME waiter = "IInput" PROVE LineInBuffer
  <2>1. PICK n \in StrLens : \A m \in StrLens : m <= n
    BY LibEventsAssumption
  <2>2. Max(StrLens) \in StrLens /\ \A m \in StrLens : Max(StrLens) >= m
    <3>1. \E x \in StrLens : \A m \in StrLens : x >= m
      BY <2>1, LibEventsAssumption
    <3> QED
      BY <3>1 DEF Max
  <2>3. StrLen \in StrLens /\ InLength = 0 /\ history = <<>> /\ waiting = "call"
        /\ InStr = [i \in 1..(Max(StrLens) + 1) |-> EventUnwritten]
    BY <1>2 DEF EventInit
  <2>4. PICK size \in Nat : size = Max(StrLens) + 1 /\ size > StrLen /\ StrLen \in Nat \ {0}
    <3>1. Max(StrLens) \in Nat \ {0} /\ StrLen \in Nat \ {0} /\ Max(StrLens) >= StrLen
      BY <2>2, <2>3, LibEventsAssumption
    <3>2. Max(StrLens) + 1 \in Nat /\ Max(StrLens) + 1 > StrLen
      BY <3>1
    <3> QED
      BY <3>1, <3>2
  <2>5. InStr \in [1..size -> Chars] /\ \A i \in DOMAIN InStr : InStr[i] = EventUnwritten
    BY <2>3, <2>4 DEF Chars
  <2>6. LineOf(history) = <<>> /\ <<>> \in Seq(Chars) /\ Len(<<>>) = 0
    BY <2>3, NoLine
  <2>7. InLength \in Nat /\ InLength < StrLen
    BY <2>3, <2>4
  <2>8. \A i \in 1..InLength : FALSE
    BY <2>3
  <2>9. \E w \in Nat : w > StrLen /\ InStr \in [1..w -> Chars]
    BY <2>4, <2>5
  <2>10. waiting # "done" /\ LineOf(history) \in Seq(Chars) /\ Len(LineOf(history)) = InLength
    BY <2>3, <2>6
  <2> QED
    BY <2>4, <2>5, <2>7, <2>8, <2>9, <2>10 DEF LineInBuffer
<1> QED
  BY <1>1, <1>2 DEF EventInv

(* What changes nothing of the line keeps it.                              *)
LEMMA LineStays ==
  ASSUME LineInBuffer, UNCHANGED <<history, InStr, InLength, StrLen>>,
         waiting' = "done" => waiting = "done"
  PROVE  LineInBuffer'
<1>1. LineOf(history)' = LineOf(history)
  BY DEF LineOf, TypedOn
<1> QED
  BY <1>1 DEF LineInBuffer

(* The line after a key, and after the failure to read one.                *)
LEMMA EditLineStep == EventInv /\ EditLine => EventInv'
<1> SUFFICES ASSUME EventInv, EditLine PROVE EventInv'
  OBVIOUS
<1>1. EventTypes /\ Signalled /\ LineInBuffer /\ waiter = "IInput" /\ waiter' = waiter
      /\ StrLen' = StrLen /\ timer' = timer /\ waiting = "waited" /\ WaitStatus' = WaitStatus
  BY DEF EventInv, EditLine
<1> DEFINE ends == [InStr EXCEPT ![InLength + 1] = ZeroChar]
           line == LineOf(history)
           k == Head(typed)
<1>2. PICK size \in Nat : size > StrLen /\ InStr \in [1..size -> Chars]
  BY <1>1 DEF LineInBuffer
<1>3. /\ StrLen \in Nat \ {0} /\ InLength \in Nat /\ InLength < StrLen
      /\ line \in Seq(Chars) /\ Len(line) = InLength
      /\ \A i \in 1..InLength : InStr[i] = line[i]
      /\ \A i \in 1..size : i > StrLen => InStr[i] = EventUnwritten
  BY <1>1, <1>2 DEF LineInBuffer
<1>4. InLength + 1 \in 1..size /\ ZeroChar \in Chars /\ Keys \subseteq Chars
  BY <1>2, <1>3 DEF Chars
<1>5. /\ ends \in [1..size -> Chars] /\ ends[InLength + 1] = ZeroChar
      /\ \A i \in 1..InLength : ends[i] = line[i]
      /\ \A i \in 1..size : i > StrLen => ends[i] = EventUnwritten
  BY <1>2, <1>3, <1>4
<1>6. \A h : LineOf(h)' = LineOf(h)
  BY <1>1 DEF LineOf, TypedOn
<1> HIDE DEF ends, line
<1>7. CASE ReadFails /\ Edited(ends, InLength, "done")
  <2>1. history' = history /\ InStr' = ends /\ InLength' = InLength /\ waiting' = "done"
        /\ typed' = <<>> /\ signalled' = FALSE
    BY <1>7 DEF ReadFails, Edited
  <2>2. LineOf(history)' = line
    BY <1>6, <2>1 DEF line
  <2>3. LineInBuffer'
    BY <1>1, <1>2, <1>3, <1>5, <2>1, <2>2 DEF LineInBuffer
  <2>4. EventTypes' /\ Signalled'
    <3>1. <<>> \in Seq(Keys)
      OBVIOUS
    <3> QED
      BY <1>1, <2>1, <3>1 DEF EventTypes, Signalled
  <2> QED
    BY <2>3, <2>4 DEF EventInv
<1>8. CASE /\ ReadKeyStroke
           /\ CASE Head(typed) = "CR" -> Edited(ends, InLength, "done")
                [] Head(typed) = "BS" -> Edited(InStr, Max({InLength - 1, 0}), "call")
                [] Head(typed) = "ESC" -> Edited(InStr, InLength, "call")
                [] OTHER ->
                     IF InLength < LastPlace(StrLen)
                     THEN Edited([InStr EXCEPT ![InLength + 1] = Head(typed),
                                               ![InLength + 2] = ZeroChar],
                                 InLength + 1, "call")
                     ELSE Edited(InStr, InLength, "call")
  <2>1. /\ typed # <<>> /\ typed' = Tail(typed) /\ history' = Append(history, k)
        /\ signalled' = (typed' # <<>>)
    BY <1>8 DEF ReadKeyStroke
  <2>2. k \in Keys /\ Tail(typed) \in Seq(Keys) /\ history \in Seq(Keys)
        /\ Append(history, k) \in Seq(Keys)
    BY <1>1, <2>1 DEF EventTypes
  <2>3. LineOf(history') = TypedOn(line, k)
    BY <2>1, <2>2, LineGrows DEF line
  <2>4. LineOf(history)' = TypedOn(line, k)
    BY <1>6, <2>3
  <2>5. waiting' \in {"call", "done"} => EventTypes' /\ Signalled'
    BY <1>1, <2>1, <2>2 DEF EventTypes, Signalled
  <2> HIDE DEF k
  <2>6. ASSUME NEW new \in Seq(Chars), TypedOn(line, k) = new,
               NEW str \in [1..size -> Chars], NEW len \in Nat, NEW where \in {"call", "done"},
               Edited(str, len, where), len < StrLen, Len(new) = len,
               \A i \in 1..len : str[i] = new[i],
               \A i \in 1..size : i > StrLen => str[i] = EventUnwritten,
               where = "done" => str[len + 1] = ZeroChar
        PROVE  EventInv'
    <3>1. InStr' = str /\ InLength' = len /\ waiting' = where
      BY <2>6 DEF Edited
    <3>2. LineInBuffer'
      BY <1>1, <1>2, <1>3, <2>4, <2>6, <3>1 DEF LineInBuffer
    <3> QED
      BY <2>5, <2>6, <3>1, <3>2 DEF EventInv
  <2>7. CASE k = "CR"
    <3>1. Edited(ends, InLength, "done")
      BY <1>8, <2>7 DEF k
    <3>2. TypedOn(line, k) = line
      BY <2>7 DEF TypedOn
    <3> QED
      BY <1>3, <1>5, <2>6, <3>1, <3>2
  <2>8. CASE k = "BS"
    <3>1. Edited(InStr, Max({InLength - 1, 0}), "call")
      BY <1>8, <2>8 DEF k
    <3>2. CASE InLength = 0
      <4>1. Max({InLength - 1, 0}) = 0
        BY <3>2, MaxOfTwo
      <4>2. line = <<>>
        BY <1>3, <3>2
      <4>3. TypedOn(line, k) = line
        BY <2>8, <4>2 DEF TypedOn
      <4> QED
        BY <1>2, <1>3, <2>6, <3>1, <3>2, <4>1, <4>3
    <3>3. CASE InLength # 0
      <4>1. PICK len \in Nat : len = InLength - 1 /\ Max({InLength - 1, 0}) = len
                             /\ len < StrLen /\ len < InLength
        <5>1. InLength - 1 \in Nat /\ InLength - 1 < StrLen /\ InLength - 1 < InLength
          BY <1>3, <3>3
        <5>2. Max({InLength - 1, 0}) = InLength - 1
          BY <5>1, MaxOfTwo
        <5> QED
          BY <5>1, <5>2
      <4>2. line # <<>>
        BY <1>3, <3>3
      <4>3. TypedOn(line, k) = SubSeq(line, 1, len)
        BY <1>3, <2>8, <4>1, <4>2 DEF TypedOn, Front
      <4>4. PICK new : new = SubSeq(line, 1, len)
        OBVIOUS
      <4>5. new \in Seq(Chars) /\ Len(new) = len /\ \A i \in 1..len : new[i] = line[i]
        BY <1>3, <4>1, <4>4
      <4>6. \A i \in 1..len : InStr[i] = new[i]
        BY <1>3, <4>1, <4>5
      <4> QED
        BY <1>2, <1>3, <2>6, <3>1, <4>1, <4>3, <4>4, <4>5, <4>6
    <3> QED
      BY <3>2, <3>3
  <2>9. CASE k = "ESC"
    <3>1. Edited(InStr, InLength, "call")
      BY <1>8, <2>9 DEF k
    <3>2. TypedOn(line, k) = line
      BY <2>9 DEF TypedOn
    <3> QED
      BY <1>2, <1>3, <2>6, <3>1, <3>2
  <2>10. CASE k \notin {"CR", "BS", "ESC"}
    <3>1. CASE InLength < LastPlace(StrLen)
      <4> DEFINE str == [InStr EXCEPT ![InLength + 1] = k, ![InLength + 2] = ZeroChar]
      <4>1. Edited(str, InLength + 1, "call")
        BY <1>8, <2>10, <3>1 DEF k
      <4>2. InLength + 1 < StrLen /\ InLength + 1 \in Nat /\ InLength + 2 \in 1..size
            /\ ~(InLength >= StrLen - 1)
        BY <1>2, <1>3, <3>1 DEF LastPlace
      <4>3. TypedOn(line, k) = Append(line, k)
        BY <1>3, <2>10, <4>2 DEF TypedOn
      <4>4. PICK new : new = Append(line, k)
        OBVIOUS
      <4>5. new \in Seq(Chars) /\ Len(new) = InLength + 1 /\ new[InLength + 1] = k
            /\ \A i \in 1..InLength : new[i] = line[i]
        BY <1>3, <1>4, <2>2, <4>4
      <4>6. /\ str \in [1..size -> Chars] /\ str[InLength + 1] = k
            /\ \A i \in 1..InLength : str[i] = InStr[i]
            /\ \A i \in 1..size : i > StrLen => str[i] = InStr[i]
        BY <1>2, <1>3, <1>4, <2>2, <4>2
      <4> HIDE DEF str
      <4>7. \A i \in 1..(InLength + 1) : str[i] = new[i]
        BY <1>3, <4>5, <4>6
      <4>8. \A i \in 1..size : i > StrLen => str[i] = EventUnwritten
        BY <1>3, <4>6
      <4>9. PICK len \in Nat : len = InLength + 1
        BY <1>3
      <4> QED
        BY <2>6, <4>1, <4>2, <4>3, <4>4, <4>5, <4>6, <4>7, <4>8, <4>9
    <3>2. CASE ~(InLength < LastPlace(StrLen))
      <4>1. Edited(InStr, InLength, "call")
        BY <1>8, <2>10, <3>2 DEF k
      <4>2. TypedOn(line, k) = line
        BY <1>3, <2>10, <3>2 DEF TypedOn, LastPlace
      <4> QED
        BY <1>2, <1>3, <2>6, <4>1, <4>2
    <3> QED
      BY <3>1, <3>2
  <2> QED
    BY <2>7, <2>8, <2>9, <2>10
<1> QED
  BY <1>7, <1>8 DEF EditLine, ends

(* Every other step leaves the line as it is.                              *)
LEMMA EventStep == EventInv /\ [EventNext]_eventVars => EventInv'
<1> SUFFICES ASSUME EventInv, [EventNext]_eventVars PROVE EventInv'
  OBVIOUS
<1> USE DEF EventInv, EventTypes, Signalled
<1>1. CASE Type
  <2>1. waiter = "IInput" => LineInBuffer'
    BY <1>1, LineStays DEF Type
  <2>2. PICK k \in Keys : typed' = Append(typed, k)
    BY <1>1 DEF Type
  <2>3. typed' # <<>> /\ typed' \in Seq(Keys)
    BY <2>2
  <2> QED
    BY <1>1, <2>1, <2>3 DEF Type
<1>2. CASE Expire
  <2>1. waiter = "IInput" => LineInBuffer'
    BY <1>2, LineStays DEF Expire
  <2> QED
    BY <1>2, <2>1 DEF Expire
<1>3. CASE BeginWait
  <2>1. waiter = "IInput" => LineInBuffer'
    BY <1>3, LineStays DEF BeginWait, Keeps
  <2> QED
    BY <1>3, <2>1 DEF BeginWait, Keeps
<1>4. CASE WaitForEvent
  <2>1. waiter = "IInput" => LineInBuffer'
    BY <1>4, LineStays DEF WaitForEvent, Keeps
  <2>2. CASE signalled
    <3>1. WaitStatus' = "SUCCESS" /\ signalled' = FALSE
      BY <1>4, <2>2 DEF WaitForEvent, TimedOut
    <3> QED
      BY <1>4, <2>1, <3>1 DEF WaitForEvent, Keeps
  <2>3. CASE ~signalled
    <3>1. WaitStatus' = "TIMEOUT" /\ signalled' = signalled /\ typed = <<>>
      BY <1>4, <2>3 DEF WaitForEvent, TimedOut
    <3> QED
      BY <1>4, <2>1, <2>3, <3>1 DEF WaitForEvent, Keeps
  <2> QED
    BY <2>2, <2>3
<1>5. CASE WaitReturns
  <2> QED
    BY <1>5 DEF WaitReturns, Keeps
<1>6. CASE KeyOrRound
  <2>1. CASE WaitStatus = "SUCCESS" /\ ReadKeyStroke /\ waiting' = "done"
    <3>1. typed' \in Seq(Keys) /\ history' \in Seq(Keys)
      BY <2>1 DEF ReadKeyStroke
    <3> QED
      BY <1>6, <2>1, <3>1 DEF KeyOrRound, ReadKeyStroke
  <2>2. CASE WaitStatus # "SUCCESS" /\ UNCHANGED <<typed, history, signalled>>
             /\ waiting' \in {"call", "done"}
    BY <1>6, <2>2 DEF KeyOrRound
  <2>3. CASE WaitStatus = "SUCCESS" /\ ReadFails /\ waiting' \in {"call", "done"}
    <3>1. <<>> \in Seq(Keys)
      OBVIOUS
    <3> QED
      BY <1>6, <2>3, <3>1 DEF KeyOrRound, ReadFails
  <2> QED
    BY <1>6, <2>1, <2>2, <2>3 DEF KeyOrRound
<1>7. CASE EditLine
  BY <1>7, EditLineStep
<1>8. CASE UNCHANGED eventVars
  <2>1. waiter = "IInput" => LineInBuffer'
    BY <1>8, LineStays DEF eventVars
  <2> QED
    BY <1>8, <2>1 DEF eventVars
<1> QED
  BY <1>1, <1>2, <1>3, <1>4, <1>5, <1>6, <1>7, <1>8 DEF EventNext

(* Waiting and typing (event.c, console.c): whatever is typed, and         *)
(* whenever timers fire, no signalled event is lost, and the line is what  *)
(* was typed with its corrections, in a buffer of any size.                *)
THEOREM InputKeptHolds == EventSpec => []InputKept
<1>1. EventInv => InputKept
  <2> SUFFICES ASSUME EventInv PROVE InputKept
    OBVIOUS
  <2>1. NoSignalLost
    BY DEF EventInv, EventTypes, Signalled, NoSignalLost
  <2>2. ASSUME waiter = "IInput" PROVE SubSeq(InStr, 1, InLength) = LineOf(history)
    <3> DEFINE line == LineOf(history)
    <3>1. PICK size \in Nat : size > StrLen /\ InStr \in [1..size -> Chars]
      BY <2>2 DEF EventInv, LineInBuffer
    <3>2. InLength \in 0..size /\ line \in Seq(Chars) /\ Len(line) = InLength
          /\ \A i \in 1..InLength : InStr[i] = line[i]
      BY <2>2, <3>1 DEF EventInv, LineInBuffer
    <3> HIDE DEF line
    <3>3. InStr \in Seq(Chars) /\ Len(InStr) = size
      BY <3>1
    <3>4. PICK s : s = SubSeq(InStr, 1, InLength)
      OBVIOUS
    <3>5. s \in Seq(Chars) /\ Len(s) = InLength /\ \A i \in 1..InLength : s[i] = InStr[i]
      BY <3>2, <3>3, <3>4
    <3>6. s = line
      BY <3>2, <3>5, SeqEqual
    <3> QED
      BY <3>4, <3>6 DEF line
  <2>3. LineAsTyped
    BY <2>2 DEF EventInv, LineInBuffer, LineAsTyped
  <2> QED
    BY <2>1, <2>3 DEF InputKept
<1> QED
  BY <1>1, EventStart, EventStep, PTL DEF EventSpec

-----------------------------------------------------------------------------
(* The scan over the handles that were read (hand.c).                      *)

(* What is left of the handles, one behind the other.                      *)
LeftStep(s, n, x) == IF s[n] = NULL THEN x ELSE Append(x, s[n])
IsLefts(u, s) ==
  u = [n \in 0..Len(s) |-> IF n = 0 THEN <<>> ELSE IF s[n] = NULL THEN u[n - 1]
                           ELSE Append(u[n - 1], s[n])]
Handles == Elements \cup {NULL}
Differs(s) == \A i, j \in DOMAIN s : s[i] = s[j] /\ s[i] # NULL => i = j

(* The handles m that are left of the first n.                             *)
LeftOf(m, s, n) ==
  /\ m \in Seq(Elements)
  /\ \A k \in 1..Len(m) : \E i \in 1..n : m[k] = s[i]
  /\ \A i \in 1..n : s[i] # NULL => \E k \in 1..Len(m) : m[k] = s[i]
  /\ \A k, l \in 1..Len(m), i, j \in 1..n : m[k] = s[i] /\ m[l] = s[j] => (k < l <=> i < j)

(* The definition of Left has a solution.                                  *)
LEMMA LeftsExist ==
  ASSUME NEW s \in Seq(Handles)
  PROVE  \E u : IsLefts(u, s) /\ u \in [0..Len(s) -> Seq(Elements)]
<1> DEFINE N == Len(s)
           S == Seq(Elements)
           step == [n \in 1..N |-> [x \in S |-> LeftStep(s, n, x)]]
<1>1. N \in Nat /\ \A n \in 1..N : s[n] \in Handles
  OBVIOUS
<1>2. <<>> \in S
  OBVIOUS
<1>3. step \in [1..N -> [S -> S]]
  <2>1. ASSUME NEW n \in 1..N, NEW x \in S
        PROVE  LeftStep(s, n, x) \in S
    <3>1. s[n] # NULL => s[n] \in Elements
      BY <1>1 DEF Handles
    <3> QED
      BY <3>1 DEF LeftStep
  <2> HIDE DEF S
  <2> QED
    BY <2>1
<1>4. ASSUME NEW n \in 1..N, NEW x \in S
      PROVE  step[n][x] = LeftStep(s, n, x)
  <2> HIDE DEF S
  <2> QED
    OBVIOUS
<1> HIDE DEF step
<1>5. PICK u : Recurs(u, N, S, <<>>, step)
  <2> HIDE DEF S, N
  <2> QED
    BY <1>1, <1>2, <1>3, RecursionExists
<1>6. u \in [0..N -> S] /\ u[0] = <<>> /\ \A n \in 1..N : u[n] = step[n][u[n - 1]]
  BY <1>5 DEF Recurs
<1>7. ASSUME NEW n \in 0..N
      PROVE  u[n] = IF n = 0 THEN <<>> ELSE IF s[n] = NULL THEN u[n - 1]
                    ELSE Append(u[n - 1], s[n])
  <2>1. CASE n # 0
    <3>1. n \in 1..N /\ n - 1 \in 0..N
      BY <1>1, <2>1
    <3>2. u[n - 1] \in S
      BY <1>6, <3>1
    <3> QED
      BY <1>4, <1>6, <2>1, <3>1, <3>2 DEF LeftStep
  <2> QED
    BY <1>6, <2>1
<1>8. u = [n \in 0..N |-> u[n]]
  BY <1>6
<1> HIDE DEF S
<1>9. IsLefts(u, s)
  BY <1>7, <1>8 DEF IsLefts
<1> QED
  BY <1>6, <1>9 DEF S

(* One more handle.                                                        *)
LEMMA LeftOneMore ==
  ASSUME NEW s \in Seq(Handles), Differs(s), NULL \notin Elements,
         NEW n \in 1..Len(s), NEW x, LeftOf(x, s, n - 1)
  PROVE  LeftOf(LeftStep(s, n, x), s, n)
<1> DEFINE y == LeftStep(s, n, x)
<1>1. /\ n \in Nat /\ n # 0 /\ Len(s) \in Nat /\ s[n] \in Handles /\ DOMAIN s = 1..Len(s)
      /\ x \in Seq(Elements) /\ Len(x) \in Nat
      /\ \A i \in 1..n : i \in 1..(n - 1) \/ i = n
      /\ 1..(n - 1) \subseteq 1..n
  BY DEF LeftOf
<1>2. CASE s[n] = NULL
  <2>1. y = x
    BY <1>2 DEF LeftStep
  <2>2. \A k \in 1..Len(x) : x[k] # s[n]
    BY <1>1, <1>2
  <2>3. \A k \in 1..Len(x) : \E i \in 1..n : x[k] = s[i]
    BY <1>1 DEF LeftOf
  <2>4. \A i \in 1..n : s[i] # NULL => \E k \in 1..Len(x) : x[k] = s[i]
    BY <1>1, <1>2 DEF LeftOf
  <2>5. \A k, l \in 1..Len(x), i, j \in 1..n : x[k] = s[i] /\ x[l] = s[j] => (k < l <=> i < j)
    <3>1. \A k \in 1..Len(x), i \in 1..n : x[k] = s[i] => i \in 1..(n - 1)
      BY <1>1, <2>2
    <3> QED
      BY <3>1 DEF LeftOf
  <2> QED
    BY <1>1, <2>1, <2>3, <2>4, <2>5 DEF LeftOf
<1>3. CASE s[n] # NULL
  <2>1. y = Append(x, s[n]) /\ s[n] \in Elements
    BY <1>1, <1>3 DEF LeftStep, Handles
  <2> DEFINE L == Len(x)
  <2>2. /\ y \in Seq(Elements) /\ Len(y) = L + 1 /\ y[L + 1] = s[n]
        /\ \A k \in 1..L : y[k] = x[k]
        /\ L \in Nat /\ \A k \in 1..(L + 1) : k \in 1..L \/ k = L + 1
    BY <1>1, <2>1
  <2> HIDE DEF y, L
  <2>3. \A k \in 1..L : \E i \in 1..(n - 1) : x[k] = s[i]
    BY DEF LeftOf, L
  <2>4. \A k \in 1..L : x[k] # s[n]
    <3>1. \A i \in 1..(n - 1) : s[i] = s[n] => i = n
      BY <1>1, <1>3 DEF Differs
    <3>2. n \notin 1..(n - 1)
      BY <1>1
    <3> QED
      BY <2>3, <3>1, <3>2
  <2>5. \A k \in 1..Len(y) : \E i \in 1..n : y[k] = s[i]
    BY <1>1, <2>2, <2>3
  <2>6. \A i \in 1..n : s[i] # NULL => \E k \in 1..Len(y) : y[k] = s[i]
    <3>1. \A i \in 1..(n - 1) : s[i] # NULL => \E k \in 1..L : x[k] = s[i]
      BY DEF LeftOf, L
    <3>2. L + 1 \in 1..Len(y) /\ 1..L \subseteq 1..Len(y)
      BY <2>2
    <3> QED
      BY <1>1, <2>2, <3>1, <3>2
  <2>7. ASSUME NEW k \in 1..Len(y), NEW l \in 1..Len(y), NEW i \in 1..n, NEW j \in 1..n,
               y[k] = s[i], y[l] = s[j]
        PROVE  k < l <=> i < j
    <3>1. ASSUME NEW a \in 1..Len(y), NEW b \in 1..n, y[a] = s[b]
          PROVE  \/ a = L + 1 /\ b = n
                 \/ a \in 1..L /\ b \in 1..(n - 1) /\ x[a] = s[b]
      <4>1. CASE a = L + 1
        <5>1. s[b] = s[n] /\ b \in DOMAIN s /\ n \in DOMAIN s
          BY <1>1, <2>2, <3>1, <4>1
        <5> QED
          BY <1>3, <4>1, <5>1 DEF Differs
      <4>2. CASE a # L + 1
        <5>1. a \in 1..L /\ x[a] = s[b]
          BY <2>2, <3>1, <4>2
        <5>2. b # n
          BY <2>4, <5>1
        <5> QED
          BY <1>1, <5>1, <5>2
      <4> QED
        BY <4>1, <4>2
    <3>2. \/ k = L + 1 /\ i = n
          \/ k \in 1..L /\ i \in 1..(n - 1) /\ x[k] = s[i]
      BY <2>7, <3>1
    <3>3. \/ l = L + 1 /\ j = n
          \/ l \in 1..L /\ j \in 1..(n - 1) /\ x[l] = s[j]
      BY <2>7, <3>1
    <3>4. CASE k \in 1..L /\ i \in 1..(n - 1) /\ x[k] = s[i]
               /\ l \in 1..L /\ j \in 1..(n - 1) /\ x[l] = s[j]
      BY <3>4 DEF LeftOf, L
    <3>5. CASE k = L + 1 /\ i = n
      BY <1>1, <2>2, <3>3, <3>5
    <3>6. CASE l = L + 1 /\ j = n
      BY <1>1, <2>2, <3>2, <3>6
    <3> QED
      BY <3>2, <3>3, <3>4, <3>5, <3>6
  <2>8. LeftOf(y, s, n)
    BY <2>2, <2>5, <2>6, <2>7 DEF LeftOf
  <2> QED
    BY <2>8 DEF y
<1> QED
  BY <1>2, <1>3

(* What Left returns.                                                      *)
LEMMA LeftIs ==
  ASSUME NEW s \in Seq(Handles), Differs(s), NULL \notin Elements
  PROVE  LeftOf(Left(s), s, Len(s))
<1> DEFINE u == CHOOSE v : IsLefts(v, s)
           T == {n \in 0..Len(s) : LeftOf(u[n], s, n)}
<1>1. IsLefts(u, s)
  BY LeftsExist
<1>2. Left(s) = u[Len(s)]
  BY DEF Left, IsLefts
<1> HIDE DEF u
<1>3. Len(s) \in Nat
  OBVIOUS
<1>4. u[0] = <<>> /\ \A n \in 1..Len(s) : u[n] = LeftStep(s, n, u[n - 1])
  <2>1. \A n \in 0..Len(s) : u[n] = IF n = 0 THEN <<>> ELSE IF s[n] = NULL THEN u[n - 1]
                                    ELSE Append(u[n - 1], s[n])
    BY <1>1 DEF IsLefts
  <2> QED
    BY <1>3, <2>1 DEF LeftStep
<1>5. 0 \in T
  <2>1. <<>> \in Seq(Elements) /\ Len(<<>>) = 0
    OBVIOUS
  <2>2. LeftOf(<<>>, s, 0)
    BY <2>1 DEF LeftOf
  <2> QED
    BY <1>3, <1>4, <2>2
<1>6. ASSUME NEW n \in 0..(Len(s) - 1), n \in T PROVE n + 1 \in T
  <2>1. n + 1 \in 1..Len(s) /\ (n + 1) - 1 = n /\ n + 1 \in 0..Len(s)
    BY <1>3
  <2>2. LeftOf(u[n], s, n)
    BY <1>6
  <2>3. PICK m \in 1..Len(s) : m = n + 1
    BY <2>1
  <2>4. LeftOf(LeftStep(s, m, u[m - 1]), s, m)
    BY <2>1, <2>2, <2>3, LeftOneMore
  <2> QED
    BY <1>4, <2>1, <2>3, <2>4
<1> HIDE DEF T
<1>7. \A n \in 0..Len(s) : n \in T
  BY <1>3, <1>5, <1>6, AllUpTo
<1>8. Len(s) \in T
  BY <1>3, <1>7
<1> QED
  BY <1>2, <1>8 DEF T

-----------------------------------------------------------------------------
(* The handles of an answer differ.                                        *)
HandlesDiffer == task \in HandleReaders => IsInjective(object) /\ IsInjective(read)

(* What is left of them while their device paths are looked at.            *)
Sifted ==
  /\ kept \in Seq(Handles) /\ Len(kept) = Len(read)
  /\ \A i \in 1..Len(read) : kept[i] \in {NULL, read[i]}
  /\ \A i \in Index..Len(read) : kept[i] = read[i]
  /\ \A i \in 1..(Index - 1) : read[i] \notin missed => (kept[i] # NULL <=> OnDisk(read[i]))

(* The path p is that of a disk with the signature.                        *)
WithDisk(p) ==
  /\ Len(p) > 1 /\ p[Len(p) - 1].kind = "hard drive" /\ p[Len(p) - 1].signed
  /\ ~(Len(p) > 2 /\ p[Len(p) - 2].kind = "hard drive")

(* Before and during the scan, and the result.                             *)
Scanning ==
  /\ Interface \in Handles /\ paths \in SomePaths
  /\ growing \notin {"scan", "done"} => Index = 1 /\ missed = {} /\ out = NoHandlesOut
  /\ growing # "done" /\ task = "LibLocateProtocol" => Interface = NULL
  /\ growing = "scan" =>
       /\ task \in HandleReaders /\ out = NoHandlesOut
       /\ task = "LibLocateProtocol" =>
            Index \in 1..Len(read) /\ missed = {read[j] : j \in 1..(Index - 1)}
       /\ task = "LibLocateHandleByDiskSignature" =>
            Index \in 1..(Len(read) + 1) /\ Sifted
  /\ growing = "done" => HandlesFound

HandleInv == GrowInv /\ HandlesDiffer /\ Scanning

(* The scan begins with nothing found.                                     *)
LEMMA ScanStart == GrowInit /\ ScanInit => HandleInv
<1> SUFFICES ASSUME GrowInit, ScanInit PROVE HandleInv
  OBVIOUS
<1>1. GrowInv
  BY GrowStart
<1>2. growing = "grow" /\ read = <<>> /\ object \in ObjectsOf(task)
  BY DEF GrowInit
<1>3. HandlesDiffer
  <2>1. IsInjective(<<>>)
    BY DEF IsInjective
  <2>2. task \in HandleReaders => IsInjective(object)
    BY <1>2 DEF ObjectsOf, Objects
  <2> QED
    BY <1>2, <2>1, <2>2 DEF HandlesDiffer
<1>4. Interface \in Handles /\ (task = "LibLocateProtocol" => Interface = NULL)
  BY DEF ScanInit, Handles
<1>5. Index = 1 /\ missed = {} /\ out = NoHandlesOut /\ paths \in SomePaths
  BY DEF ScanInit
<1>6. Scanning
  BY <1>2, <1>4, <1>5 DEF Scanning
<1> QED
  BY <1>1, <1>3, <1>6 DEF HandleInv

(* A path ends with its disk where the disk's node has the end behind it.  *)
LEMMA MatchIsOnDisk ==
  ASSUME NEW h \in Elements, paths \in SomePaths
  PROVE  Match(paths[h]) <=> OnDisk(h)
<1> DEFINE p == paths[h]
           L == Len(p)
<1>1. L \in Nat /\ \A i \in 1..L : p[i].kind = "end" <=> i = L
  BY ScanAssumption
<1> HIDE DEF p, L
<1>2. ASSUME NEW i \in 1..(L - 1), p[i + 1].kind = "end"
      PROVE  i = L - 1
  BY <1>1, <1>2
<1>3. ASSUME L > 1
      PROVE  L - 1 \in 1..(L - 1) /\ p[(L - 1) + 1].kind = "end"
  BY <1>1, <1>3
<1>4. PreviousIsDisk(p, L - 1) <=> L > 2 /\ p[L - 2].kind = "hard drive"
  <2>1. (L - 1) - 1 = L - 2 /\ (L - 1 > 1 <=> L > 2)
    BY <1>1
  <2> QED
    BY <2>1 DEF PreviousIsDisk
<1>5. OnDisk(h) <=> /\ L > 1 /\ p[L - 1].kind = "hard drive" /\ p[L - 1].signed
                    /\ ~PreviousIsDisk(p, L - 1)
  BY <1>4 DEF OnDisk, p, L
<1>6. Match(p) <=> \E i \in 1..(L - 1) :
        /\ p[i].kind = "hard drive" /\ p[i].signed /\ ~PreviousIsDisk(p, i)
        /\ p[i + 1].kind = "end"
  BY DEF Match, L
<1>7. ASSUME OnDisk(h) PROVE Match(p)
  BY <1>3, <1>5, <1>6, <1>7
<1>8. ASSUME Match(p) PROVE OnDisk(h)
  <2>1. PICK i \in 1..(L - 1) :
        /\ p[i].kind = "hard drive" /\ p[i].signed /\ ~PreviousIsDisk(p, i)
        /\ p[i + 1].kind = "end"
    BY <1>6, <1>8
  <2>2. i = L - 1
    BY <1>2, <2>1
  <2>3. L > 1
    BY <1>1, <2>2
  <2> QED
    BY <1>5, <2>1, <2>2, <2>3
<1> QED
  BY <1>7, <1>8 DEF p

(* The handles differ, whatever is asked and changes.                      *)
LEMMA DifferStep == GrowInv /\ HandlesDiffer /\ GrowNext => HandlesDiffer'
<1> SUFFICES ASSUME GrowInv, HandlesDiffer, GrowNext, task' \in HandleReaders
             PROVE  IsInjective(object') /\ IsInjective(read')
  BY DEF HandlesDiffer
<1>1. task' = task
  BY DEF GrowNext, Grow, Settled, Allocated, NoMemory, Grown, Ask, Change, ReturnBuffer,
         LibDeleteVariable, InsertToTail, WriteBootOrder, Ends
<1>2. IsInjective(object) /\ IsInjective(read) /\ GrowTypes
  BY <1>1 DEF HandlesDiffer, GrowInv
<1>3. CASE Grow
  <2>1. task \notin MapReaders
    BY <1>1, ScanAssumption
  <2>2. object' = object
    BY <1>3, <2>1 DEF Grow, MapAfter, Settled, Grown
  <2>3. read' = read
    BY <1>3 DEF Grow, Allocated, NoMemory, Settled, Grown
  <2> QED
    BY <1>2, <2>2, <2>3
<1>4. CASE Ask
  <2>1. object' = object /\ (read' = read \/ read' = object)
    BY <1>4 DEF Ask
  <2> QED
    BY <1>2, <2>1
<1>5. CASE Change
  <2>1. read' = read /\ object \in Seq(Elements)
    BY <1>2, <1>5 DEF Change, GrowTypes
  <2> DEFINE L == Len(object)
  <2>2. L \in Nat /\ DOMAIN object = 1..L
    BY <2>1
  <2>3. ASSUME NEW e \in Elements \ Range(object)
        PROVE  IsInjective(Append(object, e))
    <3> DEFINE o == Append(object, e)
    <3>1. DOMAIN o = 1..(L + 1) /\ o[L + 1] = e /\ \A i \in 1..L : o[i] = object[i]
      BY <2>1
    <3>2. \A i \in 1..L : object[i] # e
      BY <2>2 DEF Range
    <3> HIDE DEF o, L
    <3>3. \A i \in DOMAIN o : i \in 1..L \/ i = L + 1
      BY <2>2, <3>1
    <3> QED
      BY <1>2, <2>2, <3>1, <3>2, <3>3 DEF IsInjective, o
  <2>4. ASSUME NEW k \in DOMAIN object
        PROVE  IsInjective(RemoveAt(object, k))
    <3> DEFINE o == RemoveAt(object, k)
    <3>1. k \in 1..L
      BY <2>2
    <3>2. DOMAIN o = 1..(L - 1)
          /\ \A i \in 1..(L - 1) : o[i] = object[IF i < k THEN i ELSE i + 1]
      <4>1. /\ SubSeq(object, 1, k - 1) \in Seq(Elements) /\ Len(SubSeq(object, 1, k - 1)) = k - 1
            /\ \A i \in 1..(k - 1) : SubSeq(object, 1, k - 1)[i] = object[i]
        BY <2>1, <2>2, <3>1
      <4>2. /\ SubSeq(object, k + 1, L) \in Seq(Elements) /\ Len(SubSeq(object, k + 1, L)) = L - k
            /\ \A i \in 1..(L - k) : SubSeq(object, k + 1, L)[i] = object[i + k]
        BY <2>1, <2>2, <3>1
      <4> DEFINE a == SubSeq(object, 1, k - 1)
                 b == SubSeq(object, k + 1, L)
      <4> HIDE DEF a, b
      <4>3. /\ a \in Seq(Elements) /\ Len(a) = k - 1 /\ \A i \in 1..(k - 1) : a[i] = object[i]
            /\ b \in Seq(Elements) /\ Len(b) = L - k /\ \A i \in 1..(L - k) : b[i] = object[i + k]
        BY <4>1, <4>2 DEF a, b
      <4>4. o = a \o b
        BY DEF RemoveAt, a, b
      <4>5. Len(a \o b) = L - 1 /\ DOMAIN (a \o b) = 1..(L - 1)
            /\ \A i \in 1..(L - 1) : (a \o b)[i] = IF i < k THEN a[i] ELSE b[i - (k - 1)]
        <5>1. Len(a \o b) = Len(a) + Len(b) /\ DOMAIN (a \o b) = 1..(Len(a) + Len(b))
              /\ \A i \in 1..(Len(a) + Len(b)) :
                   (a \o b)[i] = IF i <= Len(a) THEN a[i] ELSE b[i - Len(a)]
          BY <4>3, ConcatProperties
        <5>2. Len(a) = k - 1 /\ Len(a) + Len(b) = L - 1 /\ k \in Nat
          BY <2>2, <3>1, <4>3
        <5>3. \A i \in 1..(L - 1) : i <= Len(a) <=> i < k
          BY <2>2, <5>2
        <5> QED
          BY <5>1, <5>2, <5>3
      <4>6. ASSUME NEW i \in 1..(L - 1)
            PROVE  (a \o b)[i] = object[IF i < k THEN i ELSE i + 1]
        <5>1. CASE i < k
          <6>1. i \in 1..(k - 1)
            BY <3>1, <5>1
          <6> QED
            BY <4>3, <4>5, <5>1, <6>1
        <5>2. CASE ~(i < k)
          <6>1. i - (k - 1) \in 1..(L - k) /\ (i - (k - 1)) + k = i + 1
            BY <2>2, <3>1, <5>2
          <6> QED
            BY <4>3, <4>5, <5>2, <6>1
        <5> QED
          BY <5>1, <5>2
      <4> HIDE DEF o
      <4> QED
        BY <4>4, <4>5, <4>6
    <3> HIDE DEF o
    <3>3. ASSUME NEW i \in 1..(L - 1), NEW j \in 1..(L - 1), o[i] = o[j]
          PROVE  i = j
      <4> DEFINE x == IF i < k THEN i ELSE i + 1
                 y == IF j < k THEN j ELSE j + 1
      <4>1. x \in 1..L /\ y \in 1..L /\ (x = y => i = j)
        BY <2>2, <3>1
      <4> HIDE DEF x, y
      <4>2. object[x] = object[y]
        BY <3>2, <3>3 DEF x, y
      <4> QED
        BY <1>2, <2>2, <4>1, <4>2 DEF IsInjective
    <3> QED
      BY <3>2, <3>3 DEF IsInjective, o
  <2> QED
    BY <1>2, <1>5, <2>1, <2>3, <2>4 DEF Change
<1>6. ~ReturnBuffer /\ ~LibDeleteVariable /\ ~InsertToTail
  <2>1. task \in HandleReaders
    BY <1>1
  <2> QED
    BY <2>1, ScanAssumption DEF ReturnBuffer, LibDeleteVariable, InsertToTail
<1>7. ~WriteBootOrder
  <2>1. growing = "write" => Inserting
    BY DEF GrowInv, GrowBoot
  <2> QED
    BY <1>1, <2>1, ScanAssumption DEF WriteBootOrder, Inserting
<1> QED
  BY <1>3, <1>4, <1>5, <1>6, <1>7 DEF GrowNext

(* A step of GrowBuffer and of the firmware leaves the scan alone.         *)
LEMMA ScanRests == HandleInv /\ GrowNext /\ UNCHANGED scanVars => HandleInv'
<1> SUFFICES ASSUME HandleInv, GrowNext, UNCHANGED scanVars PROVE HandleInv'
  OBVIOUS
<1>1. GrowInv' /\ HandlesDiffer'
  BY GrowInductive, DifferStep DEF HandleInv
<1>2. task' = task
  BY DEF GrowNext, Grow, Settled, Allocated, NoMemory, Grown, Ask, Change, ReturnBuffer,
         LibDeleteVariable, InsertToTail, WriteBootOrder, Ends
<1>3. UNCHANGED <<Interface, Index, kept, out, paths, missed>>
  BY DEF scanVars
<1>4. Scanning /\ (growing = "write" => Inserting)
  BY DEF HandleInv, GrowInv, GrowBoot
<1>5. /\ growing # "done" /\ (growing' = "scan" => growing = "scan" /\ read' = read)
      /\ growing' = "done" => task \notin HandleReaders
  <2>1. CASE Grow
    BY <2>1 DEF Grow, Settled, Allocated, NoMemory, Grown
  <2>2. CASE Ask
    BY <2>2 DEF Ask
  <2>3. CASE Change
    BY <2>3 DEF Change
  <2>4. CASE ReturnBuffer \/ LibDeleteVariable \/ InsertToTail
    <3>1. growing = "grown" /\ growing' \in {"done", "write"}
      BY <2>4 DEF ReturnBuffer, LibDeleteVariable, InsertToTail, Ends
    <3>2. task \notin HandleReaders
      BY <2>4, ScanAssumption DEF ReturnBuffer, LibDeleteVariable, InsertToTail
    <3> QED
      BY <3>1, <3>2
  <2>5. CASE WriteBootOrder
    <3>1. growing = "write" /\ growing' = "done" /\ Inserting
      BY <1>4, <2>5 DEF WriteBootOrder, Ends
    <3> QED
      BY <3>1, ScanAssumption DEF Inserting
  <2> QED
    BY <2>1, <2>2, <2>3, <2>4, <2>5 DEF GrowNext
<1>6. Handles' = Handles
  BY DEF Handles
<1>7. growing' = "done" => HandlesFound'
  BY <1>2, <1>5, ScanAssumption DEF HandlesFound, FirstInstance, DisksBySignature
<1>8. ASSUME growing' = "scan" PROVE Sifted' <=> Sifted
  <2>1. UNCHANGED <<Index, kept, paths, missed, read>>
    BY <1>3, <1>5, <1>8
  <2> QED
    BY <2>1 DEF Sifted, Handles, OnDisk
<1>9. /\ Interface' \in Handles' /\ paths' \in SomePaths
      /\ growing' \notin {"scan", "done"} => Index' = 1 /\ missed' = {} /\ out' = NoHandlesOut'
      /\ growing' # "done" /\ task' = "LibLocateProtocol" => Interface' = NULL
  <2>1. growing' \notin {"scan", "done"} => growing \notin {"scan", "done"}
    BY <1>5 DEF GrowNext, Grow, Settled, Allocated, NoMemory, Grown, Ask, Change, ReturnBuffer,
         LibDeleteVariable, InsertToTail, WriteBootOrder, Ends
  <2> QED
    BY <1>2, <1>3, <1>4, <1>5, <1>6, <2>1 DEF Scanning, NoHandlesOut
<1>10. growing' = "scan" =>
         /\ task' \in HandleReaders /\ out' = NoHandlesOut'
         /\ task' = "LibLocateProtocol" =>
              Index' \in 1..Len(read') /\ missed' = {read'[j] : j \in 1..(Index' - 1)}
         /\ task' = "LibLocateHandleByDiskSignature" =>
              Index' \in 1..(Len(read') + 1) /\ Sifted'
  BY <1>2, <1>3, <1>4, <1>5, <1>8 DEF Scanning, NoHandlesOut
<1> QED
  BY <1>1, <1>7, <1>9, <1>10 DEF HandleInv, Scanning

(* GrowInv is about a scan that has begun or is done.                      *)
LEMMA GrowAtScan ==
  ASSUME GrowInv, task \in HandleReaders,
         UNCHANGED <<task, Buffer, BufferSize, object, read, changes, boot>>,
         \/ growing' = "scan" /\ Buffer # NULL /\ pool' = pool /\ growing \in {"grown", "scan"}
            /\ (growing = "grown" => Status = "SUCCESS")
         \/ growing' = "done" /\ DOMAIN pool' \subseteq Ids
            /\ \A b \in DOMAIN pool' : pool'[b] \in Nat \ {0}
  PROVE  GrowInv'
<1>1. ~Inserting /\ ~Inserting' /\ BootArguments' = BootArguments /\ Readers' = Readers
  BY ScanAssumption DEF Inserting, BootArguments, Readers
<1>2. GrowTypes'
  BY <1>1 DEF GrowInv, GrowTypes
<1>3. GrowBuffers'
  BY DEF GrowInv, GrowBuffers, Held
<1>4. GrowAnswers'
  BY <1>1 DEF GrowInv, GrowAnswers, Answered
<1>5. GrowBoot' /\ OnlyTheResultIsLeft' /\ BootOrderExtended'
  BY <1>1, ScanAssumption DEF GrowBoot, OnlyTheResultIsLeft, BootOrderExtended, Inserting
<1> QED
  BY <1>2, <1>3, <1>4, <1>5 DEF GrowInv

(* No scan without a buffer.                                               *)
LEMMA StartScanStep == HandleInv /\ StartScan => HandleInv'
<1> SUFFICES ASSUME HandleInv, StartScan PROVE HandleInv'
  OBVIOUS
<1>1. /\ growing = "grown" /\ task \in HandleReaders
      /\ UNCHANGED <<Interface, Index, out, missed, paths>>
      /\ UNCHANGED <<task, Status, Buffer, BufferSize, pool, object, read, changes, boot>>
      /\ \/ Buffer = NULL /\ growing' = "done"
         \/ Buffer # NULL /\ growing' = "scan" /\ kept' = read
  BY DEF StartScan, Finds
<1>2. GrowInv /\ GrowTypes /\ DOMAIN pool = Held /\ HandlesDiffer /\ Scanning
      /\ (Buffer # NULL <=> ~IsError(Status)) /\ (Status = "SUCCESS" /\ Buffer # NULL => Answered)
  BY <1>1 DEF HandleInv, GrowInv, GrowBuffers, GrowAnswers
<1>3. /\ Index = 1 /\ missed = {} /\ out = NoHandlesOut /\ Interface \in Handles /\ paths \in SomePaths
      /\ task = "LibLocateProtocol" => Interface = NULL
  BY <1>1, <1>2 DEF Scanning
<1>4. GrowInv'
  BY <1>1, <1>2, GrowAtScan DEF GrowTypes, IsError
<1>5. HandlesDiffer'
  BY <1>1, <1>2 DEF HandlesDiffer
<1>6. CASE Buffer = NULL
  <2>1. DOMAIN pool' = {} /\ IsError(Status')
    BY <1>1, <1>2, <1>6 DEF Held
  <2>2. FirstInstance'
    BY <1>1, <1>3, <2>1 DEF FirstInstance
  <2>3. out' = NoHandlesOut /\ out'.block = NULL /\ out'.handles = <<>>
    BY <1>1, <1>3 DEF NoHandlesOut
  <2>4. DOMAIN out'.handles = {}
    BY <2>3
  <2>5. DisksBySignature'
    BY <2>1, <2>3, <2>4 DEF DisksBySignature
  <2>6. Scanning'
    BY <1>1, <1>3, <1>6, <2>2, <2>5 DEF Scanning, HandlesFound, Handles
  <2> QED
    BY <1>4, <1>5, <2>6 DEF HandleInv
<1>7. CASE Buffer # NULL
  <2>1. Answered /\ read \in Seq(Elements) /\ Len(read) \in Nat
    BY <1>2, <1>7 DEF IsError, GrowTypes
  <2>2. read # <<>> /\ Len(read) > 0
    BY <2>1 DEF Answered
  <2>3. missed' = {read'[j] : j \in 1..(Index' - 1)} /\ Index' \in 1..Len(read')
        /\ Index' \in 1..(Len(read') + 1)
    BY <1>1, <1>3, <2>1, <2>2
  <2>4. Sifted'
    <3>1. kept' \in Seq(Handles) /\ Len(kept') = Len(read')
      BY <1>1, <1>7, <2>1 DEF Handles
    <3>2. kept' = read /\ read' = read /\ Index' = 1 /\ Handles' = Handles
      BY <1>1, <1>3, <1>7 DEF Handles
    <3>3. 1..(Index' - 1) = {}
      BY <3>2
    <3> QED
      BY <3>1, <3>2, <3>3 DEF Sifted
  <2>5. growing' = "scan" /\ out' = NoHandlesOut' /\ Interface' \in Handles' /\ paths' \in SomePaths
        /\ task' \in HandleReaders /\ (task' = "LibLocateProtocol" => Interface' = NULL)
    BY <1>1, <1>3, <1>7 DEF Handles, NoHandlesOut
  <2>6. Scanning'
    BY <2>3, <2>4, <2>5 DEF Scanning
  <2> QED
    BY <1>4, <1>5, <2>6 DEF HandleInv
<1> QED
  BY <1>6, <1>7

(* The answers of HandleProtocol.                                          *)
LEMMA AnswersAre ==
  ASSUME NEW h, NEW ans \in HandleProtocol(h)
  PROVE  \/ ans[1] = "SUCCESS" /\ ans[2] = h
         \/ IsError(ans[1]) /\ ans[2] \in {NULL, Interface}
BY DEF HandleProtocol, IsError

(* LibLocateProtocol goes on to the next handle as long as none has it.    *)
LEMMA AskInterfaceStep == HandleInv /\ AskInterface => HandleInv'
<1> SUFFICES ASSUME HandleInv, AskInterface PROVE HandleInv'
  OBVIOUS
<1>1. PICK ans \in HandleProtocol(read[Index]) :
        /\ Scanned(read[Index], ans) /\ Status' = ans[1]
        /\ IF StopsAt(ans[1]) THEN growing' = "done" /\ pool' = Without(pool, Buffer)
           ELSE UNCHANGED <<growing, pool>>
  BY DEF AskInterface
<1>2. /\ growing = "scan" /\ task = "LibLocateProtocol" /\ task \in HandleReaders
      /\ UNCHANGED <<task, Buffer, BufferSize, object, read, changes, boot, kept>>
  BY ScanAssumption DEF AskInterface
<1>3. /\ GrowInv /\ GrowTypes /\ DOMAIN pool = Held /\ HandlesDiffer /\ Scanning /\ Buffer # NULL
  BY <1>2 DEF HandleInv, GrowInv, GrowBuffers, GrowAnswers
<1>4. /\ Index \in 1..Len(read) /\ missed = {read[j] : j \in 1..(Index - 1)} /\ Interface = NULL
      /\ out = NoHandlesOut /\ paths \in SomePaths
  BY <1>2, <1>3 DEF Scanning
<1>5. read \in Seq(Elements) /\ Len(read) \in Nat /\ read[Index] \in Elements /\ Index \in Nat
  BY <1>3, <1>4 DEF GrowTypes
<1>6. /\ DOMAIN Without(pool, Buffer) = {}
  <2>1. DOMAIN Without(pool, Buffer) = DOMAIN pool \ {Buffer}
    BY WithoutIs
  <2> QED
    BY <1>3, <2>1 DEF Held
<1>7. GrowInv'
  <2>1. CASE StopsAt(ans[1])
    BY <1>1, <1>2, <1>3, <1>6, <2>1, GrowAtScan
  <2>2. CASE ~StopsAt(ans[1])
    BY <1>1, <1>2, <1>3, <2>2, GrowAtScan
  <2> QED
    BY <2>1, <2>2
<1>8. HandlesDiffer'
  BY <1>2, <1>3 DEF HandlesDiffer
<1>9. /\ Interface' = ans[2] /\ Index' = Index + 1
      /\ missed' = IF IsError(ans[1]) THEN missed \cup {read[Index]} ELSE missed
      /\ UNCHANGED <<out, paths>> /\ Handles' = Handles /\ NoHandlesOut' = NoHandlesOut
  BY <1>1 DEF Scanned, Handles, NoHandlesOut
<1>10. CASE ~IsError(ans[1])
  <2>1. ans[1] = "SUCCESS" /\ Interface' = read[Index] /\ missed' = missed
    BY <1>1, <1>9, <1>10, AnswersAre
  <2>2. growing' = "done" /\ DOMAIN pool' = {} /\ Status' = "SUCCESS"
    BY <1>1, <1>6, <1>10, <2>1 DEF StopsAt
  <2>3. Index \in DOMAIN read' /\ Interface' = read'[Index]
        /\ missed' = {read'[j] : j \in 1..(Index - 1)}
    BY <1>2, <1>4, <1>5, <2>1
  <2>4. FirstInstance'
    BY <2>2, <2>3 DEF FirstInstance, IsError
  <2>5. DisksBySignature'
    BY <1>2 DEF DisksBySignature
  <2>6. Scanning'
    BY <1>4, <1>5, <1>9, <2>1, <2>2, <2>4, <2>5 DEF Scanning, HandlesFound, Handles
  <2> QED
    BY <1>7, <1>8, <2>6 DEF HandleInv
<1>11. CASE IsError(ans[1])
  <2>1. ans[2] \in {NULL, Interface}
    BY <1>1, <1>11, AnswersAre DEF IsError
  <2>2. Interface' = NULL /\ missed' = missed \cup {read[Index]}
    BY <1>4, <1>9, <1>11, <2>1
  <2>3. missed' = {read'[j] : j \in 1..(Index' - 1)}
    <3>1. Index' - 1 = Index /\ \A j \in 1..Index : j \in 1..(Index - 1) \/ j = Index
      BY <1>5, <1>9
    <3>2. Index \in 1..Index /\ 1..(Index - 1) \subseteq 1..Index
      BY <1>4, <1>5
    <3> QED
      BY <1>2, <1>4, <2>2, <3>1, <3>2
  <2>4. CASE Index = Len(read)
    <3>1. growing' = "done" /\ DOMAIN pool' = {} /\ IsError(Status')
      BY <1>1, <1>6, <1>11, <2>4 DEF StopsAt
    <3>2. FirstInstance'
      BY <2>2, <3>1 DEF FirstInstance
    <3>3. DisksBySignature'
      BY <1>2 DEF DisksBySignature
    <3>4. Scanning'
      BY <1>4, <1>9, <2>2, <3>1, <3>2, <3>3 DEF Scanning, HandlesFound, Handles
    <3> QED
      BY <1>7, <1>8, <3>4 DEF HandleInv
  <2>5. CASE Index # Len(read)
    <3>1. growing' = "scan"
      BY <1>1, <1>2, <1>11, <2>5 DEF StopsAt
    <3>2. Index' \in 1..Len(read')
      BY <1>2, <1>4, <1>5, <1>9, <2>5
    <3>3. task' = "LibLocateProtocol" /\ task' \in HandleReaders
      BY <1>2
    <3>4. Scanning'
      BY <1>4, <1>9, <2>2, <2>3, <3>1, <3>2, <3>3 DEF Scanning, Handles
    <3> QED
      BY <1>7, <1>8, <3>4 DEF HandleInv
  <2> QED
    BY <2>4, <2>5
<1> QED
  BY <1>10, <1>11

(* A handle stays if its path ends with the disk; a handle that is gone    *)
(* may be taken for the one before it.                                     *)
LEMMA AskDevicePathStep == HandleInv /\ AskDevicePath => HandleInv'
<1> SUFFICES ASSUME HandleInv, AskDevicePath PROVE HandleInv'
  OBVIOUS
<1> DEFINE n == Len(read)
<1>1. PICK ans \in HandleProtocol(read[Index]) :
        /\ Scanned(read[Index], ans)
        /\ kept' = IF ans[2] # NULL /\ Match(paths[ans[2]]) THEN kept
                   ELSE [kept EXCEPT ![Index] = NULL]
  BY DEF AskDevicePath
<1>2. /\ growing = "scan" /\ task = "LibLocateHandleByDiskSignature" /\ task \in HandleReaders
      /\ Index <= n
      /\ UNCHANGED <<task, growing, Status, Buffer, BufferSize, pool, object, read, changes, boot>>
  BY ScanAssumption DEF AskDevicePath
<1>3. GrowInv /\ GrowTypes /\ HandlesDiffer /\ Scanning /\ Buffer # NULL
  BY <1>2 DEF HandleInv, GrowInv, GrowAnswers
<1>4. /\ Index \in 1..(n + 1) /\ Sifted /\ Interface \in Handles /\ out = NoHandlesOut
      /\ paths \in SomePaths
  BY <1>2, <1>3 DEF Scanning
<1>5. read \in Seq(Elements) /\ n \in Nat /\ Index \in 1..n /\ read[Index] \in Elements
      /\ Index \in Nat
  BY <1>2, <1>3, <1>4 DEF GrowTypes
<1>6. GrowInv'
  BY <1>2, <1>3, GrowAtScan
<1>7. HandlesDiffer'
  BY <1>2, <1>3 DEF HandlesDiffer
<1>8. /\ Interface' = ans[2] /\ Index' = Index + 1
      /\ missed' = IF IsError(ans[1]) THEN missed \cup {read[Index]} ELSE missed
      /\ UNCHANGED <<out, paths>> /\ Handles' = Handles /\ NoHandlesOut' = NoHandlesOut
  BY <1>1 DEF Scanned, Handles, NoHandlesOut
<1>9. Interface' \in Handles
  BY <1>1, <1>4, <1>5, <1>8, AnswersAre DEF Handles
<1>10. Index' \in 1..(n + 1) /\ Index' - 1 = Index /\ (Index'..n) \subseteq (Index..n)
       /\ Index \notin Index'..n /\ \A i \in 1..Index : i \in 1..(Index - 1) \/ i = Index
  BY <1>5, <1>8
<1>11. /\ kept \in Seq(Handles) /\ Len(kept) = n /\ kept[Index] = read[Index]
       /\ \A i \in 1..n : kept[i] \in {NULL, read[i]}
       /\ \A i \in Index..n : kept[i] = read[i]
       /\ \A i \in 1..(Index - 1) : read[i] \notin missed => (kept[i] # NULL <=> OnDisk(read[i]))
  <2>1. Index \in Index..n
    BY <1>5
  <2> QED
    BY <1>4, <2>1 DEF Sifted
<1>12. /\ kept' \in Seq(Handles) /\ Len(kept') = n /\ kept'[Index] \in {NULL, kept[Index]}
       /\ \A i \in 1..n : i # Index => kept'[i] = kept[i]
  <2>1. NULL \in Handles /\ DOMAIN kept = 1..n
    BY <1>11 DEF Handles
  <2>2. CASE kept' = kept
    BY <1>11, <2>2
  <2>3. CASE kept' = [kept EXCEPT ![Index] = NULL]
    BY <1>5, <1>11, <2>1, <2>3
  <2> QED
    BY <1>1, <2>2, <2>3
<1>13. ASSUME read[Index] \notin missed'
       PROVE  kept'[Index] # NULL <=> OnDisk(read[Index])
  <2>1. ~IsError(ans[1])
    BY <1>8, <1>13
  <2>2. ans[2] = read[Index]
    BY <1>1, <2>1, AnswersAre
  <2>3. Match(paths[read[Index]]) <=> OnDisk(read[Index])
    BY <1>4, <1>5, MatchIsOnDisk
  <2>4. read[Index] # NULL
    BY <1>5, ScanAssumption
  <2>5. CASE OnDisk(read[Index])
    BY <1>1, <1>11, <2>2, <2>3, <2>4, <2>5
  <2>6. CASE ~OnDisk(read[Index])
    <3>1. kept' = [kept EXCEPT ![Index] = NULL]
      BY <1>1, <2>2, <2>3, <2>6
    <3>2. Index \in DOMAIN kept
      BY <1>5, <1>11
    <3> QED
      BY <2>6, <3>1, <3>2
  <2> QED
    BY <2>5, <2>6
<1>14. Sifted'
  <2>1. \A i \in 1..n : kept'[i] \in {NULL, read[i]}
    BY <1>11, <1>12
  <2>2. \A i \in Index'..n : kept'[i] = read[i]
    <3>1. Index'..n \subseteq 1..n
      BY <1>5, <1>8
    <3> QED
      BY <1>10, <1>11, <1>12, <3>1
  <2>3. ASSUME NEW i \in 1..Index, read[i] \notin missed'
        PROVE  kept'[i] # NULL <=> OnDisk(read[i])
    <3>1. CASE i = Index
      BY <1>13, <2>3, <3>1
    <3>2. CASE i # Index
      <4>1. i \in 1..(Index - 1) /\ i \in 1..n
        BY <1>5, <1>10, <3>2
      <4>2. read[i] \notin missed
        BY <1>8, <2>3
      <4> QED
        BY <1>11, <1>12, <3>2, <4>1, <4>2
    <3> QED
      BY <3>1, <3>2
  <2>4. \A i \in 1..(Index' - 1) : read[i] \notin missed' => (kept'[i] # NULL <=> OnDisk(read[i]))
    BY <1>10, <2>3
  <2>5. read' = read /\ paths' = paths
    BY <1>2, <1>8
  <2> QED
    <3>1. \A h : OnDisk(h) <=> WithDisk(paths[h])
      BY DEF OnDisk, WithDisk
    <3>2. /\ kept' \in Seq(Handles)' /\ Len(kept') = Len(read')
          /\ \A i \in 1..Len(read') : kept'[i] \in {NULL, read'[i]}
          /\ \A i \in Index'..Len(read') : kept'[i] = read'[i]
      BY <1>8, <1>12, <2>1, <2>2, <2>5
    <3>3. \A i \in 1..(Index' - 1) :
            read'[i] \notin missed' => (kept'[i] # NULL <=> WithDisk(paths'[read'[i]]))
      BY <2>4, <2>5, <3>1
    <3> QED
      BY <3>2, <3>3 DEF Sifted, OnDisk, WithDisk
<1>15. Scanning'
  <2>1. growing' = "scan" /\ task' = "LibLocateHandleByDiskSignature" /\ task' \in HandleReaders
        /\ out' = NoHandlesOut' /\ Interface' \in Handles' /\ paths' \in SomePaths
        /\ Index' \in 1..(Len(read') + 1)
    BY <1>2, <1>4, <1>8, <1>9, <1>10
  <2> QED
    BY <1>14, <2>1 DEF Scanning
<1> QED
  BY <1>6, <1>7, <1>15 DEF HandleInv

(* The handles that are left are listed, with a block of their number, or  *)
(* nothing is.                                                             *)
LEMMA ListMatchesStep == HandleInv /\ ListMatches => HandleInv'
<1> SUFFICES ASSUME HandleInv, ListMatches PROVE HandleInv'
  OBVIOUS
<1> DEFINE n == Len(read)
           m == Left(kept)
<1>1. /\ growing = "scan" /\ task = "LibLocateHandleByDiskSignature" /\ task \in HandleReaders
      /\ Index > n
      /\ UNCHANGED <<Interface, Index, kept, missed, paths>>
      /\ UNCHANGED <<task, Buffer, BufferSize, object, read, changes, boot>>
      /\ growing' = "done"
  BY ScanAssumption DEF ListMatches, Finds
<1>2. GrowInv /\ GrowTypes /\ DOMAIN pool = Held /\ HandlesDiffer /\ Scanning /\ Buffer # NULL
      /\ Buffer \in Ids /\ Held = {Buffer}
  BY <1>1 DEF HandleInv, GrowInv, GrowBuffers, GrowAnswers, GrowTypes, Held
<1>3. Index \in 1..(n + 1) /\ Sifted /\ Interface \in Handles /\ out = NoHandlesOut
      /\ paths \in SomePaths /\ read \in Seq(Elements) /\ n \in Nat /\ IsInjective(read)
  BY <1>1, <1>2 DEF Scanning, GrowTypes, HandlesDiffer
<1>4. /\ kept \in Seq(Handles) /\ Len(kept) = n /\ DOMAIN read = 1..n /\ DOMAIN kept = 1..n
      /\ \A i \in 1..n : kept[i] \in {NULL, read[i]}
      /\ \A i \in 1..n : read[i] # NULL
      /\ \A i \in 1..n : read[i] \notin missed => (kept[i] # NULL <=> OnDisk(read[i]))
  <2>1. 1..(Index - 1) = 1..n
    BY <1>1, <1>3
  <2>2. \A i \in 1..n : read[i] # NULL
    BY <1>3, ScanAssumption
  <2> QED
    BY <1>3, <2>1, <2>2 DEF Sifted
<1>5. Differs(kept)
  BY <1>3, <1>4 DEF Differs, IsInjective
<1>6. LeftOf(m, kept, n)
  BY <1>4, <1>5, LeftIs, ScanAssumption
<1> HIDE DEF m
<1>7. m \in Seq(Elements) /\ Len(m) \in Nat /\ DOMAIN m = 1..Len(m)
  BY <1>6 DEF LeftOf
<1>8. \A k \in 1..Len(m), i \in 1..n : m[k] = read[i] => kept[i] = read[i]
  <2> SUFFICES ASSUME NEW k \in 1..Len(m), NEW i \in 1..n, m[k] = read[i]
               PROVE  kept[i] = read[i]
    OBVIOUS
  <2>1. PICK j \in 1..n : m[k] = kept[j]
    BY <1>6 DEF LeftOf
  <2>2. m[k] # NULL
    BY <1>4, <2>1
  <2>3. read[j] = read[i]
    BY <1>4, <2>1, <2>2
  <2>4. i = j
    BY <1>3, <1>4, <2>3 DEF IsInjective
  <2> QED
    BY <1>4, <2>1, <2>4
<1>9. /\ \A k \in 1..Len(m) : \E i \in 1..n : m[k] = read[i]
      /\ \A k, l \in 1..Len(m), i, j \in 1..n :
           m[k] = read[i] /\ m[l] = read[j] => (k < l <=> i < j)
      /\ \A i \in 1..n :
           read[i] \notin missed => (OnDisk(read[i]) <=> \E k \in 1..Len(m) : m[k] = read[i])
  <2>1. ASSUME NEW k \in 1..Len(m) PROVE \E i \in 1..n : m[k] = read[i]
    <3>1. PICK j \in 1..n : m[k] = kept[j]
      BY <1>6 DEF LeftOf
    <3>2. m[k] # NULL
      <4>1. m[k] \in Elements
        BY <1>7
      <4> QED
        BY <4>1, ScanAssumption
    <3> QED
      BY <1>4, <3>1, <3>2
  <2>2. \A k, l \in 1..Len(m), i, j \in 1..n :
           m[k] = read[i] /\ m[l] = read[j] => (k < l <=> i < j)
    BY <1>6, <1>8 DEF LeftOf
  <2>3. ASSUME NEW i \in 1..n, read[i] \notin missed
        PROVE  OnDisk(read[i]) <=> \E k \in 1..Len(m) : m[k] = read[i]
    <3>1. ASSUME kept[i] # NULL PROVE \E k \in 1..Len(m) : m[k] = read[i]
      <4>1. kept[i] = read[i]
        BY <1>4, <3>1
      <4> QED
        BY <1>6, <3>1, <4>1 DEF LeftOf
    <3>2. ASSUME \E k \in 1..Len(m) : m[k] = read[i] PROVE kept[i] # NULL
      BY <1>4, <1>8, <3>2
    <3> QED
      BY <1>4, <2>3, <3>1, <3>2
  <2> QED
    BY <2>1, <2>2, <2>3
<1>10. HandlesDiffer' /\ FirstInstance'
  BY <1>1, <1>2 DEF HandlesDiffer, FirstInstance
<1> DEFINE left == Without(pool, Buffer)
<1>11. DOMAIN left = {}
  <2>1. DOMAIN left = DOMAIN pool \ {Buffer}
    BY WithoutIs
  <2> QED
    BY <1>2, <2>1
<1> HIDE DEF left
<1>12. CASE /\ UNCHANGED out /\ pool' = left
            /\ (m = <<>> /\ Status' = "SUCCESS") \/ Status' = "OUT_OF_RESOURCES"
  <2>1. GrowInv'
    BY <1>1, <1>2, <1>11, <1>12, GrowAtScan
  <2>2. out'.handles = <<>> /\ out'.block = NULL /\ DOMAIN out'.handles = {}
    BY <1>3, <1>12 DEF NoHandlesOut
  <2>3. DOMAIN pool' = {out'.block} \ {NULL}
    BY <1>11, <1>12, <2>2
  <2>4. ASSUME ~IsError(Status') PROVE \A i \in 1..n : read[i] \notin missed => ~OnDisk(read[i])
    <3>1. Len(m) = 0
      BY <1>7, <1>12, <2>4 DEF IsError
    <3> QED
      BY <1>9, <3>1
  <2>5. DisksBySignature'
    <3>1. read' = read /\ missed' = missed /\ paths' = paths
      BY <1>1
    <3> QED
      BY <1>4, <2>2, <2>3, <2>4, <3>1 DEF DisksBySignature, OnDisk
  <2>6. Scanning'
    BY <1>1, <1>3, <1>10, <2>5 DEF Scanning, HandlesFound, Handles
  <2> QED
    BY <1>10, <2>1, <2>6 DEF HandleInv
<1>13. CASE /\ m # <<>> /\ Status' = "SUCCESS"
            /\ pool' = Without(With(pool, Fresh(pool), Len(m)), Buffer)
            /\ out' = [handles |-> m, block |-> Fresh(pool)]
  <2> DEFINE b == Fresh(pool)
             w == With(pool, b, Len(m))
  <2>1. b \in Ids /\ b # Buffer /\ b # NULL
    BY <1>2, FreshIs, GrowAssumption
  <2> HIDE DEF b
  <2>2. DOMAIN pool' = {b} /\ pool'[b] = Len(m)
    <3>1. DOMAIN w = DOMAIN pool \cup {b} /\ w[b] = Len(m)
      BY DEF With
    <3> HIDE DEF w
    <3>2. pool' = Without(w, Buffer)
      BY <1>13 DEF b, w
    <3> QED
      BY <1>2, <2>1, <3>1, <3>2, WithoutIs DEF Without
  <2>3. Len(m) \in Nat \ {0}
    BY <1>7, <1>13
  <2>4. GrowInv'
    BY <1>1, <1>2, <2>1, <2>2, <2>3, GrowAtScan
  <2>5. out'.handles = m /\ out'.block = b /\ m # <<>>
    BY <1>13 DEF b
  <2>6. DisksBySignature'
    <3>1. read' = read /\ missed' = missed /\ paths' = paths
      BY <1>1
    <3>2. DOMAIN pool' = {out'.block} \ {NULL} /\ (out'.handles # <<>> <=> out'.block # NULL)
      BY <2>1, <2>2, <2>5
    <3> DEFINE Listed(o, l, mi, ps) ==
          /\ \A k \in DOMAIN o : \E i \in DOMAIN l : o[k] = l[i]
          /\ \A k1, k2 \in DOMAIN o, i, j \in DOMAIN l :
               o[k1] = l[i] /\ o[k2] = l[j] => (k1 < k2 <=> i < j)
          /\ \A i \in DOMAIN l :
               l[i] \notin mi => (WithDisk(ps[l[i]]) <=> \E k \in DOMAIN o : o[k] = l[i])
    <3>3. Listed(m, read, missed, paths)
      BY <1>4, <1>7, <1>9 DEF OnDisk, WithDisk
    <3> HIDE DEF Listed
    <3>4. Listed(out'.handles, read', missed', paths')
      BY <2>5, <3>1, <3>3
    <3> QED
      BY <3>2, <3>4 DEF DisksBySignature, OnDisk, WithDisk, Listed
  <2>7. Scanning'
    BY <1>1, <1>3, <1>10, <2>6 DEF Scanning, HandlesFound, Handles
  <2> QED
    BY <1>10, <2>4, <2>7 DEF HandleInv
<1>14. \/ m = <<>> /\ UNCHANGED out /\ pool' = left /\ Status' = "SUCCESS"
       \/ UNCHANGED out /\ pool' = left /\ Status' = "OUT_OF_RESOURCES"
       \/ /\ m # <<>> /\ Status' = "SUCCESS"
          /\ pool' = Without(With(pool, Fresh(pool), Len(m)), Buffer)
          /\ out' = [handles |-> m, block |-> Fresh(pool)]
  BY DEF ListMatches, Finds, m, left
<1> QED
  BY <1>12, <1>13, <1>14

(* What every step keeps.                                                  *)
LEMMA HandleInductive ==
  HandleInv /\ [HandleNext]_<<growVars, scanVars>> => HandleInv'
<1>1. ASSUME HandleInv, UNCHANGED <<growVars, scanVars>> PROVE HandleInv'
  <2>1. GrowInv'
    BY <1>1, GrowInductive DEF HandleInv
  <2>2. HandlesDiffer'
    BY <1>1 DEF HandleInv, HandlesDiffer, growVars
  <2>3. Scanning'
    <3>1. /\ UNCHANGED <<task, growing, Status, pool, read>>
          /\ UNCHANGED <<Interface, Index, kept, out, paths, missed>>
          /\ Handles' = Handles /\ NoHandlesOut' = NoHandlesOut
      BY <1>1 DEF growVars, scanVars, Handles, NoHandlesOut
    <3>2. Sifted' <=> Sifted
      BY <3>1 DEF Sifted, OnDisk
    <3>3. HandlesFound' <=> HandlesFound
      BY <3>1 DEF HandlesFound, FirstInstance, DisksBySignature, OnDisk
    <3> QED
      BY <1>1, <3>1, <3>2, <3>3 DEF HandleInv, Scanning
  <2> QED
    BY <2>1, <2>2, <2>3 DEF HandleInv
<1> QED
  BY <1>1, ScanRests, StartScanStep, AskInterfaceStep, AskDevicePathStep, ListMatchesStep
  DEF HandleNext, ScanNext

(* LibLocateProtocol returns the first handle that has the interface when  *)
(* it is asked, and LibLocateHandleByDiskSignature the disks of the        *)
(* signature, in the firmware's order and in a block of their own, however *)
(* many handles there are and whatever is removed meanwhile; only whether  *)
(* a handle is among them that has lost its path is left open.             *)
THEOREM HandlesFoundHolds == HandleSpec => []HandlesFound
<1>1. GrowInit /\ ScanInit => HandleInv
  BY ScanStart
<1>2. HandleInv /\ [HandleNext]_<<growVars, scanVars>> => HandleInv'
  BY HandleInductive
<1>3. HandleInv => HandlesFound
  BY DEF HandleInv, Scanning, HandlesFound, FirstInstance, DisksBySignature
<1> QED
  BY <1>1, <1>2, <1>3, PTL DEF HandleSpec

(* The scan keeps what GrowBuffer's answers promise.                       *)
THEOREM AnswersWholeInScan == HandleSpec => []AnswersWhole
<1>1. GrowInit /\ ScanInit => HandleInv
  BY ScanStart
<1>2. HandleInv /\ [HandleNext]_<<growVars, scanVars>> => HandleInv'
  BY HandleInductive
<1>3. HandleInv => AnswersWhole
  BY GrowInvIsEnough DEF HandleInv
<1> QED
  BY <1>1, <1>2, <1>3, PTL DEF HandleSpec

-----------------------------------------------------------------------------
(* A used partition that was compared is on the device, and neither end of *)
(* a later one is inside of it.                                            *)
Compared(j) ==
  Used(mbr[j]) =>
    /\ OnDevice(mbr[j])
    /\ \A k \in (j + 1)..Len(mbr) : Used(mbr[k]) => ~Overlaps(mbr[j], mbr[k])

MbrInv ==
  /\ mbr \in PartitionTables /\ LastBlock \in LastBlocks
  /\ checked \in 0..Len(mbr) /\ verdict \in {"none", "valid", "invalid"}
  /\ ValidMbr <=> \E j \in 1..checked : Used(mbr[j])
  /\ verdict # "invalid" => \A j \in 1..checked : Compared(j)
  /\ verdict = "valid" => checked = Len(mbr) /\ ValidMbr
  /\ verdict = "invalid" =>
       \/ checked = Len(mbr) /\ ~ValidMbr
       \/ \E j \in 1..Len(mbr) : ~Compared(j)

LEMMA MbrStart == MbrInit => MbrInv
BY MbrAssumption DEF MbrInit, MbrInv

LEMMA MbrInductive == MbrInv /\ [MbrNext]_mbrVars => MbrInv'
<1> SUFFICES ASSUME MbrInv, [MbrNext]_mbrVars PROVE MbrInv'
  OBVIOUS
<1> USE DEF MbrInv
<1>n. Len(mbr) \in Nat
  BY MbrAssumption
<1>1. CASE CheckPartition
  <2> DEFINE p == mbr[checked + 1]
             behind == {j \in (checked + 2)..Len(mbr) : Used(mbr[j])}
  <2>1. /\ checked' = checked + 1 /\ UNCHANGED <<mbr, LastBlock>>
        /\ verdict = "none" /\ checked + 1 \in 1..Len(mbr)
    BY <1>1, <1>n DEF CheckPartition
  <2>2. \A j : (Compared(j))' <=> Compared(j)
    BY <2>1 DEF Compared, Used, OnDevice, Overlaps, EndingLBA, Within
  <2>3. (\A j \in behind : ~Overlaps(p, mbr[j])) <=>
          \A k \in ((checked + 1) + 1)..Len(mbr) : Used(mbr[k]) => ~Overlaps(p, mbr[k])
    BY <1>n
  <2>4. Compared(checked + 1) <=>
          (Used(p) => OnDevice(p) /\ \A j \in behind : ~Overlaps(p, mbr[j]))
    BY <2>3 DEF Compared
  <2>5. \A j \in 1..(checked + 1) : j \in 1..checked \/ j = checked + 1
    BY <1>n
  <2>6. \/ ~Used(p) /\ UNCHANGED <<ValidMbr, verdict>>
        \/ /\ Used(p) /\ ValidMbr' = TRUE
           /\ verdict' = IF OnDevice(p) /\ \A j \in behind : ~Overlaps(p, mbr[j])
                         THEN verdict ELSE "invalid"
    BY <1>1 DEF CheckPartition
  <2>7. /\ verdict' \in {"none", "invalid"}
        /\ verdict' = "invalid" <=> ~Compared(checked + 1)
    BY <2>1, <2>4, <2>6
  <2>8. ValidMbr' <=> \E j \in 1..(checked + 1) : Used(mbr[j])
    <3>1. ValidMbr' <=> ValidMbr \/ Used(p)
      BY <2>6
    <3>2. 1..checked \subseteq 1..(checked + 1) /\ checked + 1 \in 1..(checked + 1)
      BY <1>n
    <3> QED
      BY <3>1, <3>2, <2>5
  <2>9. ValidMbr' <=> (\E j \in 1..checked : Used(mbr[j]))'
    BY <2>1, <2>8 DEF Used
  <2> QED
    BY <1>n, <2>1, <2>2, <2>5, <2>7, <2>9
<1>2. CASE MbrVerdict
  <2>1. \A j : (Compared(j))' <=> Compared(j)
    BY <1>2 DEF MbrVerdict, Compared, Used, OnDevice, Overlaps, EndingLBA, Within
  <2>2. ValidMbr <=> (\E j \in 1..checked : Used(mbr[j]))'
    BY <1>2 DEF MbrVerdict, Used
  <2> QED
    BY <1>2, <2>1, <2>2 DEF MbrVerdict
<1>3. CASE UNCHANGED mbrVars
  <2>1. \A j : (Compared(j))' <=> Compared(j)
    BY <1>3 DEF mbrVars, Compared, Used, OnDevice, Overlaps, EndingLBA, Within
  <2>2. ValidMbr' <=> (\E j \in 1..checked : Used(mbr[j]))'
    BY <1>3 DEF mbrVars, Used
  <2> QED
    BY <1>3, <2>1, <2>2 DEF mbrVars
<1> QED
  BY <1>1, <1>2, <1>3 DEF MbrNext

(* What the numbers of an entry are when its end is in their range.        *)
LEMMA FittingEntry ==
  ASSUME MbrInv, NEW j \in Partitions, Fits(mbr[j])
  PROVE  /\ mbr[j].StartingLBA \in Nat /\ EndingLBA(mbr[j]) \in Nat
         /\ mbr[j].StartingLBA <= EndingLBA(mbr[j])
         /\ Sectors(mbr[j]) = mbr[j].StartingLBA..EndingLBA(mbr[j])
         /\ Used(mbr[j]) /\ j \in 1..Len(mbr) /\ j \in Nat /\ Len(mbr) \in Nat
<1>1. PICK w \in Nat : w = 2^LbaBits /\ w > 0
  BY MbrAssumption
<1>2. /\ Len(mbr) \in Nat /\ j \in 1..Len(mbr) /\ Used(mbr[j])
      /\ mbr[j].StartingLBA \in 0..(w - 1) /\ mbr[j].SizeInLBA \in 0..(w - 1)
  BY <1>1, MbrAssumption DEF MbrInv, Partitions
<1> DEFINE s == mbr[j].StartingLBA
           n == mbr[j].SizeInLBA
           last == s + n - 1
<1>3. n # 0
  BY <1>2 DEF Used
<1>4. last < w
  BY <1>1 DEF Fits
<1>5. EndingLBA(mbr[j]) = last % w
  BY <1>1 DEF EndingLBA
<1>6. last \in Nat
  BY <1>2, <1>3
<1>7. last % w = last
  <2> HIDE DEF last
  <2> QED
    BY <1>1, <1>4, <1>6
<1>8. s \in Nat /\ s <= last
  BY <1>2, <1>3
<1>9. EndingLBA(mbr[j]) = last /\ Sectors(mbr[j]) = s..last
  BY <1>5, <1>7 DEF Sectors
<1> HIDE DEF last
<1> QED
  BY <1>2, <1>6, <1>8, <1>9

(* For any tables, devices and widths of a number: of a table that is      *)
(* accepted the partitions are apart, or a later one encloses an earlier   *)
(* one, and none is behind the device; a table is refused for a reason.    *)
THEOREM VerdictSoundHolds == MbrSpec => []VerdictSound
<1>1. ASSUME MbrInv, \A j \in Partitions : Fits(mbr[j]) PROVE VerdictSound
  <2> DEFINE S(j) == mbr[j].StartingLBA
             E(j) == EndingLBA(mbr[j])
             limit == IF LastBlock < MIN_MBR_DEVICE_SIZE THEN LastBlock
                      ELSE LastBlock + MBR_ERRATA_PAD
             onDevice == \A j \in Partitions : \A s \in Sectors(mbr[j]) : s <= limit
             apart == \A j, k \in Partitions :
                        j # k => Sectors(mbr[j]) \cap Sectors(mbr[k]) = {}
  <2>1. \A j \in Partitions :
          /\ S(j) \in Nat /\ E(j) \in Nat /\ S(j) <= E(j) /\ Sectors(mbr[j]) = S(j)..E(j)
          /\ Used(mbr[j]) /\ j \in 1..Len(mbr)
    BY <1>1, FittingEntry
  <2>2. /\ LastBlock \in Nat /\ MIN_MBR_DEVICE_SIZE \in Nat /\ MBR_ERRATA_PAD \in Nat
        /\ Len(mbr) \in Nat /\ DOMAIN mbr = 1..Len(mbr)
    BY <1>1, MbrAssumption DEF MbrInv
  <2>3. \A j \in Partitions : OnDevice(mbr[j]) <=> E(j) <= limit
    BY <2>1, <2>2 DEF OnDevice
  <2>4. \A j, k \in Partitions :
          Overlaps(mbr[j], mbr[k]) <=>
            S(k) \in S(j)..E(j) \/ E(k) \in S(j)..E(j)
    BY <2>1 DEF Overlaps, Within
  <2>5. \A j \in 1..Len(mbr) : Used(mbr[j]) <=> j \in Partitions
    BY <2>2 DEF Partitions
  <2>6. \A j \in Partitions : Compared(j) <=>
          OnDevice(mbr[j]) /\ \A k \in Partitions : j < k => ~Overlaps(mbr[j], mbr[k])
    <3> TAKE j \in Partitions
    <3>1. \A k : k \in (j + 1)..Len(mbr) /\ Used(mbr[k]) <=> k \in Partitions /\ j < k
      BY <2>1, <2>2, <2>5
    <3> QED
      BY <2>1, <3>1 DEF Compared
  <2> HIDE DEF S, E, limit
  <2>7. ASSUME verdict = "valid"
        PROVE  /\ Partitions # {} /\ onDevice
               /\ \A j, k \in Partitions :
                    j < k => \/ Sectors(mbr[j]) \cap Sectors(mbr[k]) = {}
                             \/ Sectors(mbr[j]) \subseteq Sectors(mbr[k])
    <3>1. \A j \in Partitions : Compared(j)
      BY <1>1, <2>1, <2>7 DEF MbrInv
    <3>2. Partitions # {}
      BY <1>1, <2>5, <2>7 DEF MbrInv
    <3>3. limit \in Nat
      BY <2>2 DEF limit
    <3>4. onDevice
      BY <2>1, <2>3, <2>6, <3>1, <3>3
    <3>5. ASSUME NEW j \in Partitions, NEW k \in Partitions, j < k
          PROVE  \/ Sectors(mbr[j]) \cap Sectors(mbr[k]) = {}
                 \/ Sectors(mbr[j]) \subseteq Sectors(mbr[k])
      <4>1. S(k) \notin S(j)..E(j) /\ E(k) \notin S(j)..E(j)
        BY <2>4, <2>6, <3>1, <3>5
      <4>2. /\ S(j) \in Nat /\ E(j) \in Nat /\ S(k) \in Nat /\ E(k) \in Nat
            /\ S(j) <= E(j) /\ S(k) <= E(k)
            /\ Sectors(mbr[j]) = S(j)..E(j) /\ Sectors(mbr[k]) = S(k)..E(k)
        BY <2>1
      <4> QED
        BY <4>1, <4>2
    <3> QED
      BY <3>2, <3>4, <3>5
  <2>8. ASSUME verdict = "invalid" PROVE Partitions = {} \/ ~onDevice \/ ~apart
    <3>1. CASE checked = Len(mbr) /\ ~ValidMbr
      BY <1>1, <2>1, <3>1 DEF MbrInv
    <3>2. ASSUME NEW j \in 1..Len(mbr), ~Compared(j) PROVE ~onDevice \/ ~apart
      <4>1. j \in Partitions
        BY <2>5, <3>2 DEF Compared
      <4>2. CASE ~OnDevice(mbr[j])
        <5>1. E(j) \in Sectors(mbr[j]) /\ ~(E(j) <= limit)
          BY <2>1, <2>3, <4>1, <4>2
        <5> QED
          BY <4>1, <5>1
      <4>3. ASSUME NEW k \in Partitions, j < k, Overlaps(mbr[j], mbr[k]) PROVE ~apart
        <5>1. \E s : s \in S(j)..E(j) /\ s \in S(k)..E(k)
          BY <2>1, <2>4, <4>1, <4>3
        <5>2. Sectors(mbr[j]) = S(j)..E(j) /\ Sectors(mbr[k]) = S(k)..E(k) /\ j # k
          BY <2>1, <4>1, <4>3
        <5> QED
          BY <4>1, <5>1, <5>2
      <4> QED
        BY <2>6, <3>2, <4>1, <4>2, <4>3
    <3> QED
      BY <1>1, <2>8, <3>1, <3>2 DEF MbrInv
  <2> QED
    BY <1>1, <2>7, <2>8 DEF VerdictSound, PartitionsApart, RefusedForAReason, limit, MbrInv
<1>2. MbrInv => VerdictSound
  BY <1>1 DEF VerdictSound, PartitionsApart, RefusedForAReason
<1> QED
  BY <1>2, MbrStart, MbrInductive, PTL DEF MbrSpec

-----------------------------------------------------------------------------
(* The place of the i-th word of the k-th entry.                           *)
PlaceOf(addr, words, k, i) == addr + TableAt + (k - 1) * words + (i - 1)

(* The word at addr + o, when the first n entries have been applied.       *)
Naming(n, t, o) == {k \in 1..n : t[k][2] = R_RISCV_RELATIVE /\ t[k][1] = o}
AppliedAt(n, addr, t) ==
  [a \in addr..(addr + ImageWords) |->
     IF Naming(n, t, a - addr) # {} THEN addr + t[Max(Naming(n, t, a - addr))][3]
     ELSE LoadedAt(addr, t)[a]]

Tag(t) == TagValue(dyn, t, 0)
Relocating(n) ==
  /\ relent = EntryWords(table)
  /\ memory = AppliedAt(n, ldbase, table)
  /\ rel = ldbase + TableAt + n * relent
  /\ relsz = Tag("RELASZ") - n * relent /\ relsz >= 0
  /\ relocating = "SUCCESS" => relsz = 0

RelocInv ==
  /\ ldbase \in LoadBases
  /\ \E image \in LinkedImages : dyn = image.dyn /\ table = image.table
  /\ relocating \in {"dyn", "apply", "SUCCESS", "LOAD_ERROR"}
  /\ relocating # "dyn" => relent = Tag("RELAENT")
  /\ relocating = "apply" => relent # 0
  /\ IF relocating = "apply" \/ (relocating = "SUCCESS" /\ relent # 0)
     THEN \E n \in 0..Len(table) : Relocating(n)
     ELSE memory = LoadedAt(ldbase, table)

LEMMA FewerRows ==
  ASSUME NEW j \in Nat, NEW k \in Nat, NEW a \in Nat
  PROVE  j <= k => j * a <= k * a
<1>1. SUFFICES ASSUME j <= k PROVE j * a <= k * a
  OBVIOUS
<1>2. PICK d \in Nat : k = j + d
  <2>1. k - j \in Nat /\ k = j + (k - j)
    BY <1>1
  <2> QED
    BY <2>1
<1>3. (j + d) * a = j * a + d * a
  OBVIOUS
<1>4. d * a >= 0 /\ d * a \in Nat /\ j * a \in Nat
  OBVIOUS
<1> QED
  BY <1>2, <1>3, <1>4

Tables == {image.table : image \in LinkedImages}

(* What the layout of the image is.                                        *)
LEMMA TableIs ==
  ASSUME NEW t \in Tables
  PROVE  /\ Len(t) \in Nat /\ DOMAIN t = 1..Len(t) /\ EntryWords(t) \in Nat \ {0}
         /\ TableAt \in Nat /\ ImageWords \in Nat
         /\ TableEnd(t) \in Nat /\ TableEnd(t) <= ImageWords + 1
         /\ TableEnd(t) = TableAt + Len(t) * EntryWords(t)
         /\ \A k \in 1..Len(t) :
              /\ t[k] \in [1..EntryWords(t) -> Int] /\ EntryWords(t) >= 3
              /\ t[k][1] \in (0..ImageWords) \ (TableAt..(TableEnd(t) - 1))
<1>0. PICK image \in LinkedImages : t = image.table
  BY DEF Tables
<1>1. Len(t) \in Nat /\ EntryWords(t) \in Nat \ {0} /\ TableAt \in Nat
  BY <1>0, RelocAssumption
<1>2. Len(t) * EntryWords(t) \in Nat
  BY <1>1
<1>3. TableEnd(t) \in Nat
  BY <1>1, <1>2 DEF TableEnd
<1> QED
  BY <1>0, <1>1, <1>3, RelocAssumption DEF TableEnd

LEMMA DynIs ==
  ASSUME NEW image \in LinkedImages
  PROVE  /\ TagValue(image.dyn, "RELA", NoTable) \in {TableAt, NoTable}
         /\ TagValue(image.dyn, "RELAENT", 0) \in {EntryWords(image.table), 0}
         /\ \E n \in 0..Len(image.table) :
              TagValue(image.dyn, "RELASZ", 0) = n * EntryWords(image.table)
         /\ image.table \in Tables
BY RelocAssumption DEF Tables

(* The word of an entry is where the entry was put.                        *)
IsLoaded(addr, t, k, i) ==
  LET a == PlaceOf(addr, EntryWords(t), k, i)
  IN  /\ a \in addr..(addr + ImageWords) /\ a - addr \in TableAt..(TableEnd(t) - 1)
      /\ LoadedAt(addr, t)[a] = t[k][i]

LEMMA LoadedWord ==
  ASSUME NEW t \in Tables, NEW addr \in Nat,
         NEW k \in 1..Len(t), NEW i \in 1..EntryWords(t)
  PROVE  IsLoaded(addr, t, k, i)
<1> DEFINE a == PlaceOf(addr, EntryWords(t), k, i)
<1>1. PICK w \in Nat \ {0} : w = EntryWords(t)
  BY TableIs
<1>2. /\ Len(t) \in Nat /\ TableAt \in Nat /\ ImageWords \in Nat /\ TableEnd(t) <= ImageWords + 1
      /\ TableEnd(t) = TableAt + Len(t) * w
  BY <1>1, TableIs
<1>3. PICK q \in Nat : q = k - 1
  BY <1>2
<1>4. PICK m \in Nat : m = q * w
  OBVIOUS
<1>5. (q + 1) * w = m + w
  BY <1>4
<1>6. PICK e \in Nat : e = Len(t) * w
  BY <1>2
<1>7. m + w <= e
  <2>1. q + 1 \in Nat /\ q + 1 <= Len(t)
    BY <1>2, <1>3
  <2>2. (q + 1) * w <= Len(t) * w
    BY <2>1, <1>2, FewerRows
  <2> QED
    BY <2>2, <1>5, <1>6
<1>8. PICK x \in Nat : x = m + (i - 1)
  BY <1>1
<1>9. a = addr + TableAt + x
  BY <1>1, <1>2, <1>3, <1>4, <1>8 DEF PlaceOf
<1>10. x <= e - 1
  BY <1>1, <1>7, <1>8
<1>11. x \div w = q /\ x % w = i - 1
  <2>1. i - 1 \in 0..(w - 1) /\ x = w * q + (i - 1) /\ x \in Int /\ q \in Int
    BY <1>1, <1>4, <1>8
  <2> QED
    BY <2>1, DivUnique
<1> HIDE DEF a
<1>12. a \in addr..(addr + ImageWords) /\ a - addr \in TableAt..(TableEnd(t) - 1)
       /\ a - addr - TableAt = x
  BY <1>2, <1>6, <1>9, <1>10
<1>13. (x \div w) + 1 = k /\ (x % w) + 1 = i
  BY <1>1, <1>2, <1>3, <1>11
<1>14. LoadedAt(addr, t)[a] = t[(x \div w) + 1][(x % w) + 1]
  BY <1>1, <1>12 DEF LoadedAt
<1>15. LoadedAt(addr, t)[a] = t[k][i]
  BY <1>13, <1>14, Zenon
<1> QED
  BY <1>12, <1>15 DEF IsLoaded, a

(* Nothing names a word of the table.                                      *)
LEMMA TableKept ==
  ASSUME NEW t \in Tables, NEW addr \in Nat, NEW n \in 0..Len(t),
         NEW k \in 1..Len(t), NEW i \in 1..EntryWords(t)
  PROVE  AppliedAt(n, addr, t)[PlaceOf(addr, EntryWords(t), k, i)] = t[k][i]
<1> DEFINE a == PlaceOf(addr, EntryWords(t), k, i)
<1>1. /\ a \in addr..(addr + ImageWords) /\ a - addr \in TableAt..(TableEnd(t) - 1)
      /\ LoadedAt(addr, t)[a] = t[k][i]
  <2>1. IsLoaded(addr, t, k, i)
    BY LoadedWord
  <2> QED
    BY <2>1 DEF IsLoaded
<1> HIDE DEF a
<1>2. Naming(n, t, a - addr) = {}
  <2>1. /\ \A j \in 1..Len(t) : t[j][1] \notin TableAt..(TableEnd(t) - 1)
        /\ Len(t) \in Nat
    BY TableIs
  <2>2. 1..n \subseteq 1..Len(t)
    BY <2>1
  <2> QED
    BY <1>1, <2>1, <2>2 DEF Naming
<1>3. AppliedAt(n, addr, t)[a] = t[k][i]
  BY <1>1, <1>2 DEF AppliedAt
<1> QED
  BY <1>3 DEF a

(* The entry that is applied next is the last that may name a word.        *)
LEMMA NamingNext ==
  ASSUME NEW n \in Nat, NEW t, NEW o
  PROVE  IF t[n + 1][2] = R_RISCV_RELATIVE /\ t[n + 1][1] = o
         THEN Naming(n + 1, t, o) # {} /\ Max(Naming(n + 1, t, o)) = n + 1
         ELSE Naming(n + 1, t, o) = Naming(n, t, o)
<1>1. \A k \in 1..(n + 1) : k \in 1..n \/ k = n + 1
  OBVIOUS
<1>2. 1..n \subseteq 1..(n + 1) /\ n + 1 \in 1..(n + 1)
  OBVIOUS
<1>3. CASE ~(t[n + 1][2] = R_RISCV_RELATIVE /\ t[n + 1][1] = o)
  BY <1>1, <1>2, <1>3 DEF Naming
<1>4. CASE t[n + 1][2] = R_RISCV_RELATIVE /\ t[n + 1][1] = o
  <2>1. n + 1 \in Naming(n + 1, t, o)
    BY <1>2, <1>4 DEF Naming
  <2>2. \A k \in Naming(n + 1, t, o) : k \in Nat /\ n + 1 >= k
    BY DEF Naming
  <2>3. Max(Naming(n + 1, t, o)) = n + 1
    <3> DEFINE M == Max(Naming(n + 1, t, o))
    <3>1. M \in Naming(n + 1, t, o) /\ \A k \in Naming(n + 1, t, o) : M >= k
      BY <2>1, <2>2 DEF Max
    <3>2. M >= n + 1 /\ n + 1 >= M /\ M \in Nat
      BY <2>1, <2>2, <3>1
    <3> QED
      BY <3>2
  <2> QED
    BY <1>4, <2>1, <2>3
<1> QED
  BY <1>3, <1>4

LEMMA RelocStart == RelocInit => RelocInv
BY DEF RelocInit, RelocInv

LEMMA NothingApplied ==
  ASSUME NEW t, NEW addr
  PROVE  AppliedAt(0, addr, t) = LoadedAt(addr, t)
<1>1. \A o : Naming(0, t, o) = {}
  BY DEF Naming
<1>2. AppliedAt(0, addr, t) = [a \in addr..(addr + ImageWords) |-> LoadedAt(addr, t)[a]]
  BY <1>1 DEF AppliedAt
<1> QED
  BY <1>2 DEF LoadedAt

LEMMA RelocatedImage ==
  ASSUME RelocInv
  PROVE  /\ table \in Tables
         /\ TagValue(dyn, "RELA", NoTable) \in {TableAt, NoTable}
         /\ Tag("RELAENT") \in {EntryWords(table), 0}
         /\ \E n \in 0..Len(table) : Tag("RELASZ") = n * EntryWords(table)
<1>1. PICK image \in LinkedImages : dyn = image.dyn /\ table = image.table
  BY DEF RelocInv
<1> QED
  BY <1>1, DynIs DEF Tag

LEMMA ApplyStep == RelocInv /\ Apply => RelocInv'
<1> SUFFICES ASSUME RelocInv, Apply PROVE RelocInv'
  OBVIOUS
<1>1. /\ table \in Tables
      /\ TagValue(dyn, "RELA", NoTable) \in {TableAt, NoTable}
      /\ Tag("RELAENT") \in {EntryWords(table), 0}
      /\ \E n \in 0..Len(table) : Tag("RELASZ") = n * EntryWords(table)
  BY RelocatedImage
<1>2. PICK n \in 0..Len(table) : Relocating(n)
  BY DEF RelocInv, Apply
<1>3. PICK w \in Nat \ {0} : w = EntryWords(table) /\ w = relent
  BY <1>1, <1>2, TableIs DEF Relocating
<1>4. PICK N \in 0..Len(table) : Tag("RELASZ") = N * w
  BY <1>1, <1>3, TableIs DEF Tag
<1>5. /\ Len(table) \in Nat /\ n \in Nat /\ N \in Nat /\ TableAt \in Nat /\ ImageWords \in Nat
      /\ ldbase \in Nat
  BY <1>1, TableIs, RelocAssumption DEF RelocInv
<1>6. PICK m \in Nat : m = n * w
  BY <1>5
<1>7. (n + 1) * w = m + w
  BY <1>5, <1>6
<1>8. n < N
  <2>1. SUFFICES ASSUME N <= n PROVE FALSE
    BY <1>5
  <2>2. N * w <= n * w /\ N * w \in Nat
    BY <1>5, <2>1, FewerRows
  <2>3. relsz = N * w - n * w /\ relsz > 0
    BY <1>2, <1>3, <1>4 DEF Relocating, Apply
  <2> QED
    BY <1>6, <2>2, <2>3
<1>9. (n + 1) * w <= N * w /\ N * w \in Nat
  BY <1>5, <1>8, FewerRows
<1>10. n + 1 \in 1..Len(table) /\ n + 1 \in 0..Len(table)
  BY <1>5, <1>8
<1>11. /\ rel = PlaceOf(ldbase, w, n + 1, 1) /\ rel + 1 = PlaceOf(ldbase, w, n + 1, 2)
       /\ rel + 2 = PlaceOf(ldbase, w, n + 1, 3)
  <2>1. rel = ldbase + TableAt + m
    BY <1>2, <1>3, <1>6 DEF Relocating
  <2>2. \A i \in 1..3 : PlaceOf(ldbase, w, n + 1, i) = ldbase + TableAt + m + (i - 1)
    <3>1. (n + 1) - 1 = n
      BY <1>5
    <3> QED
      BY <1>5, <1>6, <3>1 DEF PlaceOf
  <2> QED
    BY <1>5, <2>1, <2>2
<1> DEFINE e == table[n + 1]
<1>12. /\ 1 \in 1..w /\ 2 \in 1..w /\ 3 \in 1..w /\ e[1] \in 0..ImageWords
  <2>1. w >= 3 /\ e[1] \in 0..ImageWords
    BY <1>1, <1>3, <1>10, TableIs
  <2> QED
    BY <2>1
<1>13. memory[rel] = e[1] /\ memory[rel + 1] = e[2] /\ memory[rel + 2] = e[3]
  <2>1. \A i \in 1..w : AppliedAt(n, ldbase, table)[PlaceOf(ldbase, w, n + 1, i)] = e[i]
    <3> TAKE i \in 1..w
    <3>1. i \in 1..EntryWords(table) /\ n \in 0..Len(table) /\ w = EntryWords(table)
      BY <1>2, <1>3
    <3>2. AppliedAt(n, ldbase, table)[PlaceOf(ldbase, EntryWords(table), n + 1, i)] = table[n + 1][i]
      BY <1>1, <1>5, <1>10, <3>1, TableKept
    <3> QED
      BY <3>1, <3>2
  <2>2. memory = AppliedAt(n, ldbase, table)
    BY <1>2 DEF Relocating
  <2> QED
    BY <1>11, <1>12, <2>1, <2>2
<1>14. memory' = AppliedAt(n + 1, ldbase, table)
  <2> DEFINE dom == ldbase..(ldbase + ImageWords)
             hits(a) == e[2] = R_RISCV_RELATIVE /\ e[1] = a - ldbase
             old == AppliedAt(n, ldbase, table)
             new == AppliedAt(n + 1, ldbase, table)
  <2>1. memory = old
    BY <1>2 DEF Relocating
  <2>2. old = [a \in dom |-> old[a]] /\ new = [a \in dom |-> new[a]]
    BY DEF AppliedAt
  <2>3. memory' = IF e[2] = R_RISCV_RELATIVE
                  THEN [memory EXCEPT ![ldbase + e[1]] = ldbase + e[3]] ELSE memory
    BY <1>13 DEF Apply
  <2>4. \A a \in dom : new[a] = IF hits(a) THEN ldbase + e[3] ELSE old[a]
    <3> TAKE a \in dom
    <3>1. IF hits(a)
          THEN Naming(n + 1, table, a - ldbase) # {} /\ Max(Naming(n + 1, table, a - ldbase)) = n + 1
          ELSE Naming(n + 1, table, a - ldbase) = Naming(n, table, a - ldbase)
      BY <1>5, NamingNext
    <3> QED
      BY <3>1 DEF AppliedAt
  <2>5. \A a \in dom : a = ldbase + e[1] <=> e[1] = a - ldbase
    BY <1>5, <1>12
  <2> HIDE DEF old, new, e
  <2>6. memory' = [a \in dom |-> IF hits(a) THEN ldbase + e[3] ELSE old[a]]
    <3>1. CASE e[2] = R_RISCV_RELATIVE
      BY <2>1, <2>2, <2>3, <2>5, <3>1
    <3>2. CASE e[2] # R_RISCV_RELATIVE
      BY <2>1, <2>2, <2>3, <3>2
    <3> QED
      BY <3>1, <3>2
  <2>7. new = [a \in dom |-> IF hits(a) THEN ldbase + e[3] ELSE old[a]]
    BY <2>2, <2>4
  <2>8. memory' = new
    BY <2>6, <2>7
  <2> QED
    BY <2>8 DEF new
<1>15. Relocating(n + 1)'
  <2>1. UNCHANGED <<ldbase, dyn, table, relent, relocating>> /\ relocating = "apply"
    BY DEF Apply
  <2>2. rel' = rel + w /\ relsz' = relsz - w
    BY <1>3 DEF Apply, NextEntry
  <2>3. rel' = ldbase + TableAt + (n + 1) * w
    <3>1. rel = ldbase + TableAt + m
      BY <1>2, <1>3, <1>6 DEF Relocating
    <3> QED
      BY <1>3, <1>5, <1>7, <2>2, <3>1
  <2>4. relsz' = N * w - (n + 1) * w /\ relsz' >= 0
    <3>1. relsz = N * w - m
      BY <1>2, <1>3, <1>4, <1>6 DEF Relocating
    <3>2. N * w - (m + w) >= 0
      BY <1>7, <1>9
    <3> QED
      BY <1>3, <1>6, <1>7, <1>9, <2>2, <3>1, <3>2
  <2> QED
    BY <1>3, <1>4, <1>14, <2>1, <2>3, <2>4 DEF Relocating, Tag
<1> QED
  BY <1>10, <1>15 DEF RelocInv, Apply, Tag

LEMMA RelocInductive == RelocInv /\ [RelocNext]_relocVars => RelocInv'
<1> SUFFICES ASSUME RelocInv, [RelocNext]_relocVars PROVE RelocInv'
  OBVIOUS
<1>1. /\ table \in Tables
      /\ TagValue(dyn, "RELA", NoTable) \in {TableAt, NoTable}
      /\ Tag("RELAENT") \in {EntryWords(table), 0}
      /\ \E n \in 0..Len(table) : Tag("RELASZ") = n * EntryWords(table)
  BY RelocatedImage
<1>2. CASE ReadDyn
  <2>1. /\ UNCHANGED <<ldbase, dyn, table, memory>> /\ memory = LoadedAt(ldbase, table)
        /\ relent' = Tag("RELAENT") /\ relsz' = Tag("RELASZ")
        /\ relocating' \in {"apply", "SUCCESS", "LOAD_ERROR"}
        /\ relocating' = "SUCCESS" => relent' = 0
        /\ relocating' = "apply" => /\ TagValue(dyn, "RELA", NoTable) # NoTable /\ relent' # 0
                                    /\ rel' = TagValue(dyn, "RELA", NoTable) + ldbase
    BY <1>2 DEF ReadDyn, RelocInv, Tag
  <2>2. ASSUME relocating' = "apply" PROVE Relocating(0)' /\ 0 \in 0..Len(table)
    <3>1. ldbase \in Nat /\ TableAt \in Nat /\ relent' = EntryWords(table) /\ relent' \in Nat
          /\ Len(table) \in Nat
      BY <1>1, <2>1, <2>2, TableIs, RelocAssumption DEF RelocInv, Tag
    <3>2. PICK N \in 0..Len(table) : relsz' = N * EntryWords(table)
      BY <1>1, <2>1, TableIs DEF Tag
    <3>3. relsz' \in Nat
      BY <3>1, <3>2
    <3>4. rel' = ldbase + TableAt + 0 * relent'
      BY <1>1, <2>1, <2>2, <3>1, TableIs
    <3>5. relsz' = relsz' - 0 * relent'
      BY <3>1, <3>3
    <3>6. memory' = AppliedAt(0, ldbase, table)
      BY <1>1, <2>1, <3>1, NothingApplied
    <3> QED
      BY <2>1, <2>2, <3>1, <3>3, <3>4, <3>5, <3>6 DEF Relocating, Tag
  <2> QED
    BY <2>1, <2>2 DEF RelocInv, Tag
<1>3. CASE Apply
  BY <1>3, ApplyStep
<1>4. CASE Relocated
  <2>1. PICK n \in 0..Len(table) : Relocating(n)
    BY <1>4 DEF RelocInv, Relocated
  <2>2. relsz = 0
    <3>1. relsz \in Int
      <4>1. Tag("RELASZ") \in Int /\ relent \in Int /\ n \in Int
        <5>1. PICK N \in 0..Len(table) : Tag("RELASZ") = N * EntryWords(table)
          BY <1>1, TableIs DEF Tag
        <5> QED
          BY <1>1, <2>1, <5>1, TableIs DEF Relocating
      <4>2. n * relent \in Int
        BY <4>1
      <4> QED
        BY <2>1, <4>1, <4>2 DEF Relocating
    <3> QED
      BY <1>4, <2>1, <3>1 DEF Relocated, Relocating
  <2>3. Relocating(n)'
    BY <1>4, <2>1, <2>2 DEF Relocated, Relocating, Tag
  <2> QED
    BY <1>4, <2>1, <2>3 DEF Relocated, RelocInv, Tag
<1>5. CASE UNCHANGED relocVars
  BY <1>5 DEF relocVars, RelocInv, Relocating, Tag
<1> QED
  BY <1>2, <1>3, <1>4, <1>5 DEF RelocNext

(* For every image and wherever it is loaded: each word its table names is *)
(* moved by as much, once, and every other word is as it was loaded.       *)
THEOREM RelocatedWhereNamedHolds == RelocSpec => []RelocatedWhereNamed
<1>1. ASSUME RelocInv, relocating \in {"SUCCESS", "LOAD_ERROR"} PROVE RelocatedWhereNamed
  <2>1. /\ table \in Tables
        /\ \E n \in 0..Len(table) : Tag("RELASZ") = n * EntryWords(table)
    BY <1>1, RelocatedImage
  <2>2. CASE ~(relocating = "SUCCESS" /\ relent # 0)
    BY <1>1, <2>2 DEF RelocInv, RelocatedWhereNamed
  <2>3. CASE relocating = "SUCCESS" /\ relent # 0
    <3>1. PICK n \in 0..Len(table) : Relocating(n)
      BY <1>1, <2>3 DEF RelocInv
    <3>2. /\ Len(table) \in Nat /\ DOMAIN table = 1..Len(table) /\ relent \in Nat \ {0}
      BY <2>1, <3>1, TableIs DEF Relocating
    <3>3. TagValue(dyn, "RELASZ", 0) = n * relent
      <4>1. PICK N \in 0..Len(table) : Tag("RELASZ") = N * relent
        BY <2>1, <3>1, TableIs DEF Tag, Relocating
      <4>2. Tag("RELASZ") \in Int /\ n * relent \in Int
        BY <3>2, <4>1
      <4>3. Tag("RELASZ") - n * relent = 0
        BY <2>3, <3>1 DEF Relocating
      <4> QED
        BY <4>2, <4>3 DEF Tag
    <3>4. \A k \in 1..Len(table) : k * relent <= n * relent <=> k <= n
      <4> TAKE k \in 1..Len(table)
      <4>1. k \in Nat /\ n \in Nat
        BY <3>2
      <4>2. k <= n => k * relent <= n * relent
        BY <3>2, <4>1, FewerRows
      <4>3. ASSUME n < k PROVE ~(k * relent <= n * relent)
        <5>1. (n + 1) * relent <= k * relent
          BY <3>2, <4>1, <4>3, FewerRows
        <5>2. (n + 1) * relent = n * relent + relent /\ n * relent \in Nat /\ k * relent \in Nat
          BY <3>2, <4>1
        <5> QED
          BY <3>2, <5>1, <5>2
      <4> QED
        BY <4>1, <4>2, <4>3
    <3> DEFINE named(w) == {k \in DOMAIN table : /\ k * relent <= TagValue(dyn, "RELASZ", 0)
                                                 /\ table[k][2] = R_RISCV_RELATIVE
                                                 /\ table[k][1] = w - ldbase}
    <3>5. \A w : named(w) = Naming(n, table, w - ldbase)
      <4>1. \A k : k \in DOMAIN table /\ k * relent <= TagValue(dyn, "RELASZ", 0) <=> k \in 1..n
        BY <3>2, <3>3, <3>4
      <4> QED
        BY <4>1 DEF Naming
    <3> HIDE DEF named
    <3>6. DOMAIN memory = ldbase..(ldbase + ImageWords)
      BY <3>1 DEF Relocating, AppliedAt
    <3>7. \A w \in DOMAIN memory :
            memory[w] = IF named(w) # {} THEN ldbase + table[Max(named(w))][3]
                        ELSE LoadedAt(ldbase, table)[w]
      BY <3>1, <3>5, <3>6 DEF Relocating, AppliedAt
    <3> QED
      BY <2>3, <3>7 DEF RelocatedWhereNamed, named
  <2> QED
    BY <2>2, <2>3
<1>2. RelocInv => RelocatedWhereNamed
  BY <1>1 DEF RelocatedWhereNamed
<1> QED
  BY <1>2, RelocStart, RelocInductive, PTL DEF RelocSpec
-----------------------------------------------------------------------------
(* Texts: characters and numbers.                                          *)

(* The characters that are ever put.                                       *)
Glyphs ==
  STRING \cup {HexDigits[i] : i \in 1..16}
         \cup {"cr", "lf", " ", "0", ",", "-", "x", "(", "null", ")", "%", "?", "."}

(* The characters the print adds to the format and its arguments.          *)
LEMMA GlyphsAre ==
  /\ "cr" \in Glyphs /\ "lf" \in Glyphs /\ " " \in Glyphs /\ "0" \in Glyphs
  /\ "," \in Glyphs /\ "-" \in Glyphs /\ "x" \in Glyphs /\ "(" \in Glyphs
  /\ "null" \in Glyphs /\ ")" \in Glyphs /\ "%" \in Glyphs /\ "?" \in Glyphs
  /\ "." \in Glyphs
  /\ (\A c \in STRING : c \in Glyphs) /\ \A i \in 1..16 : HexDigits[i] \in Glyphs
  BY Zenon DEF Glyphs

(* Sequences that are put one behind the other are a sequence.             *)
LEMMA FlattenIs ==
  ASSUME NEW S, NEW ss \in Seq(Seq(S))
  PROVE  FlattenSeq(ss) \in Seq(S)
<1> DEFINE N == Len(ss)
           E(f, i) == IF i = 1 THEN ss[i] ELSE f[i - 1] \o ss[i]
           flatten == CHOOSE f : f = [i \in 1..N |-> E(f, i)]
<1>1. N \in Nat /\ \A i \in 1..N : ss[i] \in Seq(S)
  OBVIOUS
<1>2. CASE N = 0
  <2>1. ss = <<>>
    BY <1>2
  <2>2. FlattenSeq(ss) = ss
    BY <1>2 DEF FlattenSeq
  <2>3. <<>> \in Seq(S)
    OBVIOUS
  <2> QED
    BY <2>1, <2>2, <2>3, Zenon
<1>3. CASE N # 0
  <2>1. FlattenSeq(ss) = flatten[N]
    BY <1>3 DEF FlattenSeq
  <2>2. \E f : f = [i \in 1..N |-> E(f, i)] /\ \A i \in 1..N : f[i] \in Seq(S)
    <3> DEFINE step == [i \in 1..N |-> [t \in Seq(S) |-> t \o ss[i]]]
    <3>1. <<>> \in Seq(S)
      OBVIOUS
    <3>2. step \in [1..N -> [Seq(S) -> Seq(S)]]
      BY <1>1
    <3>3. PICK u : Recurs(u, N, Seq(S), <<>>, step)
      <4> HIDE DEF step, N
      <4> QED
        BY <1>1, <3>1, <3>2, RecursionExists
    <3>4. u \in [0..N -> Seq(S)] /\ u[0] = <<>> /\ \A i \in 1..N : u[i] = step[i][u[i - 1]]
      BY <3>3 DEF Recurs
    <3> DEFINE f == [i \in 1..N |-> u[i]]
    <3>5. ASSUME NEW i \in 1..N PROVE f[i] \in Seq(S) /\ f[i] = E(f, i)
      <4>1. i \in 0..N /\ i - 1 \in 0..N
        BY <1>1
      <4>2. u[i] \in Seq(S) /\ u[i - 1] \in Seq(S)
        BY <3>4, <4>1
      <4>3. u[i] = u[i - 1] \o ss[i]
        BY <3>4, <4>2
      <4>4. f[i] = u[i]
        OBVIOUS
      <4>5. CASE i = 1
        <5>1. i - 1 = 0
          BY <4>5
        <5>2. u[i] = <<>> \o ss[i]
          BY <3>4, <4>3, <5>1
        <5>3. <<>> \o ss[i] = ss[i]
          BY <1>1
        <5> QED
          BY <4>2, <4>4, <4>5, <5>2, <5>3
      <4>6. CASE i # 1
        <5>1. i - 1 \in 1..N
          BY <1>1, <4>6
        <5>2. f[i - 1] = u[i - 1]
          BY <5>1
        <5> QED
          BY <4>2, <4>3, <4>4, <4>6, <5>2
      <4> QED
        BY <4>5, <4>6
    <3>6. f = [i \in 1..N |-> E(f, i)]
      <4>1. \A i \in 1..N : f[i] = E(f, i)
        BY <3>5
      <4>2. \E h : h = f
        OBVIOUS
      <4>3. PICK h : h = f
        OBVIOUS
      <4>4. h = [i \in 1..N |-> h[i]] /\ \A i \in 1..N : h[i] = E(h, i)
        BY <4>1, <4>3
      <4>5. h = [i \in 1..N |-> E(h, i)]
        <5> HIDE DEF E, f, N
        <5> QED
          BY <4>4
      <4> QED
        BY <4>3, <4>5
    <3> HIDE DEF f
    <3> QED
      BY <3>5, <3>6
  <2>3. flatten = [i \in 1..N |-> E(flatten, i)]
    <3> HIDE DEF E, N
    <3> QED
      BY <2>2
  <2> HIDE DEF flatten
  <2> DEFINE T == {i \in 0..N : i = 0 \/ flatten[i] \in Seq(S)}
  <2>4. 0 \in T
    BY <1>1
  <2>5. ASSUME NEW i \in 0..(N - 1), i \in T PROVE i + 1 \in T
    <3>1. i + 1 \in 1..N /\ i + 1 \in 0..N /\ (i + 1) - 1 = i /\ (i + 1 = 1 <=> i = 0)
      BY <1>1
    <3>2. flatten[i + 1] = E(flatten, i + 1)
      <4> HIDE DEF E
      <4> QED
        BY <2>3, <3>1
    <3>3. ss[i + 1] \in Seq(S)
      BY <1>1, <3>1
    <3>4. i = 0 \/ flatten[i] \in Seq(S)
      BY <2>5
    <3>5. flatten[i + 1] \in Seq(S)
      BY <3>1, <3>2, <3>3, <3>4
    <3> QED
      BY <3>1, <3>5
  <2> HIDE DEF T
  <2>6. N \in T
    <3> HIDE DEF N
    <3>1. \A i \in 0..N : i \in T
      BY <1>1, <2>4, <2>5, AllUpTo
    <3> QED
      BY <1>1, <3>1
  <2> QED
    BY <1>3, <2>1, <2>6 DEF T
<1> QED
  BY <1>2, <1>3

(* Lines have characters as their characters.                              *)
LEMMA LinedIs ==
  ASSUME NEW text \in Seq(Glyphs)
  PROVE  Lined(text) \in Seq(Glyphs)
<1> DEFINE ss == [i \in DOMAIN text |-> IF text[i] = "lf" THEN <<"cr", "lf">> ELSE <<text[i]>>]
<1>1. <<"cr", "lf">> \in Seq(Glyphs)
  <2> DEFINE cr == "cr"
             lf == "lf"
  <2>1. cr \in Glyphs /\ lf \in Glyphs
    BY GlyphsAre, Zenon
  <2> HIDE DEF cr, lf
  <2>2. <<cr, lf>> \in Seq(Glyphs)
    BY <2>1
  <2> QED
    BY <2>2 DEF cr, lf
<1>2. \A i \in DOMAIN text : <<text[i]>> \in Seq(Glyphs)
  OBVIOUS
<1>3. \A i \in DOMAIN text : ss[i] \in Seq(Glyphs)
  BY <1>1, <1>2
<1>4. ss \in Seq(Seq(Glyphs))
  <2>1. DOMAIN text = 1..Len(text) /\ Len(text) \in Nat
    OBVIOUS
  <2> QED
    BY <1>3, <2>1
<1> HIDE DEF ss
<1>5. FlattenSeq(ss) \in Seq(Glyphs)
  BY <1>4, FlattenIs
<1> QED
  BY <1>5 DEF Lined, ss

(* So have digits in groups.                                               *)
LEMMA GroupedIs ==
  ASSUME NEW digits \in Seq(Glyphs)
  PROVE  Grouped(digits) \in Seq(Glyphs)
<1> DEFINE comma == ","
           ss == [i \in DOMAIN digits |->
                    IF i > 1 /\ (i - 1 - FirstGroup(Len(digits))) >= 0
                         /\ (i - 1 - FirstGroup(Len(digits))) % 3 = 0
                    THEN <<comma, digits[i]>> ELSE <<digits[i]>>]
<1>1. comma \in Glyphs
  BY GlyphsAre, Zenon
<1>2. Grouped(digits) = FlattenSeq(ss)
  BY DEF Grouped
<1> HIDE DEF comma
<1>3. \A i \in DOMAIN digits : <<digits[i]>> \in Seq(Glyphs) /\ <<comma, digits[i]>> \in Seq(Glyphs)
  BY <1>1
<1>4. \A i \in DOMAIN digits : ss[i] \in Seq(Glyphs)
  BY <1>3, Zenon
<1>5. ss \in Seq(Seq(Glyphs))
  <2>1. DOMAIN digits = 1..Len(digits) /\ Len(digits) \in Nat
    OBVIOUS
  <2>2. DOMAIN ss = 1..Len(digits) /\ ss = [i \in 1..Len(digits) |-> ss[i]]
    BY <2>1, Zenon
  <2> HIDE DEF ss
  <2> QED
    BY <1>4, <2>1, <2>2
<1> HIDE DEF ss
<1> QED
  BY <1>2, <1>5, FlattenIs
(* A digit is a character.                                                 *)
LEMMA HexIs == \A i \in 1..16 : HexDigits[i] \in Glyphs
  BY GlyphsAre, Zenon

(* The quotient of what is not below the radix is less than it, and the    *)
(* remainder a digit.                                                      *)
LEMMA QuotientIs ==
  ASSUME NEW m \in Nat, NEW radix \in Nat, radix >= 2, m >= radix
  PROVE  m \div radix \in Nat /\ m \div radix < m /\ m % radix \in 0..(radix - 1)
<1>1. PICK q \in Int, r \in Int : /\ q = m \div radix /\ r = m % radix /\ 0 <= r /\ r <= radix - 1
                                  /\ r = m - radix * q
  BY DivMod
<1>2. q >= 0
  <2>1. CASE q <= -1
    <3>1. radix * q <= radix * (-1)
      BY <2>1, SMTT(30)
    <3> QED
      BY <1>1, <3>1
  <2> QED
    BY <2>1
<1>3. q < m
  <2>1. radix * q >= 2 * q
    BY <1>2, SMTT(30)
  <2>2. radix * q <= m /\ 2 * q <= m
    BY <1>1, <2>1
  <2> QED
    BY <1>2, <2>2
<1> QED
  BY <1>1, <1>2, <1>3

(* The digits of a number are characters.                                  *)
LEMMA DigitsAre ==
  ASSUME NEW n \in Nat, NEW radix \in 2..16
  PROVE  DigitsOf(n, radix) \in Seq(Glyphs)
<1> DEFINE E(f, m) == IF m < radix THEN <<HexDigits[m + 1]>>
                      ELSE Append(f[m \div radix], HexDigits[(m % radix) + 1])
           digits == CHOOSE f : f = [m \in 0..n |-> E(f, m)]
           F == [0..n -> Seq(Glyphs)]
<1>1. radix \in Nat /\ radix >= 2 /\ radix <= 16
  OBVIOUS
<1>2. \A m \in Nat : m < radix => <<HexDigits[m + 1]>> \in Seq(Glyphs)
  <2>1. ASSUME NEW m \in Nat, m < radix PROVE <<HexDigits[m + 1]>> \in Seq(Glyphs)
    <3>1. m + 1 \in 1..16
      BY <1>1, <2>1
    <3>2. HexDigits[m + 1] \in Glyphs
      BY <3>1, HexIs
    <3> QED
      BY <3>2
  <2> QED
    BY <2>1
<1>3. \A m \in Nat : ~(m < radix) => /\ m \div radix \in Nat /\ m \div radix < m
                                     /\ HexDigits[(m % radix) + 1] \in Glyphs
  <2>1. ASSUME NEW m \in Nat, ~(m < radix)
        PROVE  m \div radix \in Nat /\ m \div radix < m /\ HexDigits[(m % radix) + 1] \in Glyphs
    <3>1. /\ m \div radix \in Nat /\ m \div radix < m /\ m % radix \in 0..(radix - 1)
      BY <1>1, <2>1, QuotientIs
    <3>2. (m % radix) + 1 \in 1..16
      BY <1>1, <3>1
    <3> QED
      BY <3>1, <3>2, HexIs
  <2> QED
    BY <2>1
<1>4. \A f, m : m \in Nat /\ (m < radix \/ f[m \div radix] \in Seq(Glyphs)) => E(f, m) \in Seq(Glyphs)
  <2>1. ASSUME NEW f, NEW m \in Nat, m < radix \/ f[m \div radix] \in Seq(Glyphs)
        PROVE  E(f, m) \in Seq(Glyphs)
    <3>1. CASE m < radix
      BY <1>2, <3>1
    <3>2. CASE ~(m < radix)
      <4>1. f[m \div radix] \in Seq(Glyphs) /\ HexDigits[(m % radix) + 1] \in Glyphs
        BY <1>3, <2>1, <3>2
      <4>2. Append(f[m \div radix], HexDigits[(m % radix) + 1]) \in Seq(Glyphs)
        BY <4>1
      <4> QED
        BY <3>2, <4>2
    <3> QED
      BY <3>1, <3>2
  <2> QED
    BY <2>1
<1>5. \A f, h, m : m \in Nat /\ (m < radix \/ f[m \div radix] = h[m \div radix]) => E(f, m) = E(h, m)
  OBVIOUS
<1>6. DigitsOf(n, radix) = digits[n]
  BY DEF DigitsOf
<1> HIDE DEF E
<1>7. \E f : f = [m \in 0..n |-> E(f, m)]
  <2> DEFINE step == [k \in 1..(n + 1) |-> [f \in F |-> [f EXCEPT ![k - 1] = E(f, k - 1)]]]
             s == [m \in 0..n |-> <<>>]
  <2>1. s \in F
    <3>1. <<>> \in Seq(Glyphs)
      OBVIOUS
    <3> QED
      BY <3>1
  <2>2. step \in [1..(n + 1) -> [F -> F]]
    <3>1. ASSUME NEW k \in 1..(n + 1), NEW f \in F
          PROVE  [f EXCEPT ![k - 1] = E(f, k - 1)] \in F
      <4>1. k - 1 \in Nat /\ k - 1 \in 0..n
        OBVIOUS
      <4>2. k - 1 < radix \/ f[(k - 1) \div radix] \in Seq(Glyphs)
        <5>1. ~(k - 1 < radix) => (k - 1) \div radix \in Nat /\ (k - 1) \div radix < k - 1
          BY <1>3, <4>1
        <5>2. ~(k - 1 < radix) => (k - 1) \div radix \in 0..n
          BY <4>1, <5>1
        <5> QED
          BY <5>2
      <4>3. E(f, k - 1) \in Seq(Glyphs)
        BY <1>4, <4>1, <4>2
      <4> QED
        BY <4>1, <4>3
    <3> HIDE DEF F
    <3> QED
      BY <3>1
  <2>3. PICK u : Recurs(u, n + 1, F, s, step)
    <3>1. n + 1 \in Nat
      OBVIOUS
    <3> HIDE DEF F, s, step
    <3> QED
      BY <2>1, <2>2, <3>1, RecursionExists
  <2>4. /\ u \in [0..(n + 1) -> F]
        /\ \A k \in 1..(n + 1) : u[k] = [u[k - 1] EXCEPT ![k - 1] = E(u[k - 1], k - 1)]
    <3>1. /\ u \in [0..(n + 1) -> F] /\ \A k \in 1..(n + 1) : u[k] = step[k][u[k - 1]]
      BY <2>3 DEF Recurs
    <3>2. ASSUME NEW k \in 1..(n + 1)
          PROVE  u[k] = [u[k - 1] EXCEPT ![k - 1] = E(u[k - 1], k - 1)]
      <4>1. k - 1 \in 0..(n + 1)
        OBVIOUS
      <4>2. u[k - 1] \in F
        BY <3>1, <4>1
      <4> HIDE DEF F
      <4> QED
        BY <3>1, <4>2
    <3> QED
      BY <3>1, <3>2
  <2> DEFINE Done(k) == \A m \in 0..n : m < k => u[k][m] = E(u[k], m)
             T == {k \in 0..(n + 1) : Done(k)}
  <2>5. 0 \in T
    OBVIOUS
  <2>6. ASSUME NEW k \in 0..n, k \in T PROVE k + 1 \in T
    <3>1. k + 1 \in 1..(n + 1) /\ k + 1 \in 0..(n + 1) /\ (k + 1) - 1 = k /\ k \in 0..(n + 1) /\ k \in Nat
      OBVIOUS
    <3>2. u[k + 1] = [u[k] EXCEPT ![k] = E(u[k], k)] /\ u[k] \in F
      <4> HIDE DEF F, T
      <4> QED
        BY <2>4, <3>1
    <3>3. u[k + 1][k] = E(u[k], k) /\ \A m \in 0..n : m # k => u[k + 1][m] = u[k][m]
      BY <3>2
    <3>4. ASSUME NEW m \in 0..n, m <= k PROVE E(u[k + 1], m) = E(u[k], m)
      <4>1. m < radix \/ u[k + 1][m \div radix] = u[k][m \div radix]
        <5>1. ~(m < radix) => m \div radix \in Nat /\ m \div radix < m
          BY <1>3
        <5>2. ~(m < radix) => m \div radix \in 0..n /\ m \div radix # k
          BY <3>1, <3>4, <5>1
        <5> QED
          BY <3>3, <5>2
      <4> QED
        BY <1>5, <4>1
    <3>5. Done(k)
      BY <2>6
    <3>6. ASSUME NEW m \in 0..n, m < k + 1 PROVE u[k + 1][m] = E(u[k + 1], m)
      <4>1. m <= k
        BY <3>1, <3>6
      <4>2. E(u[k + 1], m) = E(u[k], m)
        BY <3>4, <4>1
      <4>3. CASE m = k
        BY <3>3, <4>2, <4>3
      <4>4. CASE m # k
        <5>1. m < k
          BY <3>1, <4>1, <4>4
        <5>2. u[k][m] = E(u[k], m)
          BY <3>5, <5>1
        <5> QED
          BY <3>3, <4>2, <4>4, <5>2
      <4> QED
        BY <4>3, <4>4
    <3>7. Done(k + 1)
      BY <3>6
    <3> HIDE DEF Done
    <3> QED
      BY <3>1, <3>7
  <2>7. Done(n + 1) /\ u[n + 1] \in F
    <3>1. n + 1 \in Nat /\ n + 1 \in 0..(n + 1) /\ (n + 1) - 1 = n
      OBVIOUS
    <3> HIDE DEF T, F
    <3>2. \A k \in 0..(n + 1) : k \in T
      BY <2>5, <2>6, <3>1, AllUpTo
    <3> QED
      BY <2>4, <3>1, <3>2 DEF T
  <2>8. \A m \in 0..n : u[n + 1][m] = E(u[n + 1], m)
    <3>1. \A m \in 0..n : m < n + 1
      OBVIOUS
    <3> QED
      BY <2>7, <3>1
  <2>9. u[n + 1] = [m \in 0..n |-> E(u[n + 1], m)]
    <3>1. PICK h : h = u[n + 1]
      OBVIOUS
    <3>2. h \in F /\ \A m \in 0..n : h[m] = E(h, m)
      BY <2>7, <2>8, <3>1
    <3>3. h = [m \in 0..n |-> E(h, m)]
      BY <3>2
    <3> QED
      BY <3>1, <3>3
  <2> QED
    BY <2>9
<1>8. digits = [m \in 0..n |-> E(digits, m)]
  BY <1>7
<1> HIDE DEF digits
<1> DEFINE T == {k \in 0..(n + 1) : \A m \in 0..n : m < k => digits[m] \in Seq(Glyphs)}
<1>9. 0 \in T
  OBVIOUS
<1>10. ASSUME NEW k \in 0..n, k \in T PROVE k + 1 \in T
  <2>1. ASSUME NEW m \in 0..n, m < k + 1 PROVE digits[m] \in Seq(Glyphs)
    <3>1. m \in Nat /\ m <= k
      BY <2>1
    <3>2. m < radix \/ digits[m \div radix] \in Seq(Glyphs)
      <4>1. ~(m < radix) => m \div radix \in Nat /\ m \div radix < m
        BY <1>3, <3>1
      <4>2. ~(m < radix) => m \div radix \in 0..n /\ m \div radix < k
        BY <3>1, <4>1
      <4> QED
        BY <1>10, <4>2
    <3>3. digits[m] = E(digits, m)
      BY <1>8
    <3> QED
      BY <1>4, <3>1, <3>2, <3>3
  <2> QED
    BY <2>1
<1>11. n + 1 \in T
  <2>1. n + 1 \in Nat /\ n + 1 \in 0..(n + 1) /\ (n + 1) - 1 = n
    OBVIOUS
  <2> HIDE DEF T
  <2> QED
    BY <1>9, <1>10, <2>1, AllUpTo
<1> QED
  BY <1>6, <1>11

(* The rests are numbers.                                                  *)
LEMMA BitsAre ==
  ASSUME NEW n \in Int, NEW bits, 2^bits \in Nat \ {0}
  PROVE  IntoBits(n, bits) \in Nat
<1>1. PICK w \in Nat \ {0} : w = 2^bits
  OBVIOUS
<1>2. n % w \in 0..(w - 1)
  BY DivMod
<1> QED
  BY <1>1, <1>2 DEF IntoBits

(* A number in decimal digits is a text.                                   *)
LEMMA ValueIs ==
  ASSUME NEW v \in Int
  PROVE  ValueToString(v) \in Seq(Glyphs)
<1> DEFINE minus == "-"
           digits == DigitsOf(IF v < 0 THEN -v ELSE v, 10)
           grouped == IF Item.Comma /\ v # 0 THEN Grouped(digits) ELSE digits
<1>1. digits \in Seq(Glyphs)
  <2>1. (IF v < 0 THEN -v ELSE v) \in Nat /\ 10 \in 2..16
    OBVIOUS
  <2> QED
    BY <2>1, DigitsAre
<1>2. ValueToString(v) = IF v < 0 THEN <<minus>> \o grouped ELSE grouped
  BY DEF ValueToString
<1>3. minus \in Glyphs
  BY GlyphsAre, Zenon
<1> HIDE DEF digits, minus
<1>4. grouped \in Seq(Glyphs)
  BY <1>1, GroupedIs
<1> HIDE DEF grouped
<1>5. <<minus>> \o grouped \in Seq(Glyphs)
  BY <1>3, <1>4
<1> QED
  BY <1>2, <1>4, <1>5
-----------------------------------------------------------------------------
(* Where the text goes.                                                    *)

Attributes == {NoAttr, "mode", "normal", "highlight", "error"}
Cells == Glyphs \cup {"zero", NotPut} \cup (Glyphs \X Attributes)

SinkType ==
  [kind : {"console", "pool", "string"}, units : Nat, len : Nat, maxlen : Nat,
   str : Seq(Cells), lost : BOOLEAN]

(* What is on the console, in the string or in the pool when a text was    *)
(* sent there.                                                             *)
OnConsole(s, sent) ==
  /\ Len(s.str) = Len(sent)
  /\ \A i \in 1..Len(sent) : s.str[i][1] = sent[i]

InString(s, sent) ==
  /\ Len(s.str) = StringRoom /\ s.units < 2^Uint64Bits /\ s.maxlen = MaxLen(s.units)
  /\ s.len = IF Len(sent) <= s.maxlen THEN Len(sent) ELSE s.maxlen
  /\ \A i \in 1..StringRoom : i <= s.len => s.str[i] = sent[i]
  /\ \A i \in 1..StringRoom : i > s.units /\ s.units # 0 => s.str[i] = NotPut

(* What the pool holds is the end of what was sent.                        *)
Latest(s, sent) == \A i \in 1..s.len : s.str[i] = sent[Len(sent) - s.len + i]

InPool(s, sent) ==
  /\ Len(s.str) = s.maxlen /\ s.len <= Len(sent) /\ s.len <= s.maxlen
  /\ ~s.lost => s.len = Len(sent)
  /\ Latest(s, sent)
  /\ s.maxlen # 0 => s.len < s.maxlen /\ s.str[s.len + 1] = "zero"

Arrived(s, sent) ==
  /\ s.kind = "console" => OnConsole(s, sent)
  /\ s.kind = "string" => InString(s, sent)
  /\ s.kind = "pool" => InPool(s, sent)

(* A string that is not only a limit of nothing ends with a zero.          *)
Terminated(s) ==
  s.kind = "string" /\ s.units # 1 =>
    \A i \in 1..StringRoom : i = s.len + 1 => s.str[i] = "zero"

(* The limit of a string: one unit is left for the zero.                   *)
LEMMA MaxLenIs ==
  ASSUME NEW units \in Nat, units < 2^Uint64Bits
  PROVE  /\ MaxLen(units) \in Nat
         /\ units # 0 => MaxLen(units) = units - 1
         /\ units = 0 => MaxLen(units) # 0
<1>1. PICK w \in Nat : w = 2^Uint64Bits /\ w > 1
  <2>1. 2^Uint64Bits \in Nat \ {0, 1}
    BY PrintAssumption
  <2> QED
    BY <2>1
<1>b. w \in Nat /\ w > 0 /\ w - 1 \in Int
  BY <1>1
<1>2. CASE units # 0
  <2>1. PICK x \in Int, q \in Int : x = units - 1 /\ q = 0
    OBVIOUS
  <2>2. x = w * q + x /\ 0 <= x /\ x < w
    BY <1>1, <1>2, <2>1
  <2>3. x % w = x
    BY <1>b, <2>1, <2>2, DivUnique, Zenon
  <2> QED
    BY <1>1, <1>2, <2>1, <2>3 DEF MaxLen, IntoBits
<1>3. CASE units = 0
  <2>1. PICK x \in Int, q \in Int, r \in Int : x = units - 1 /\ q = -1 /\ r = w - 1
    BY <1>1
  <2>2. x = w * q + r /\ 0 <= r /\ r < w
    BY <1>1, <1>3, <2>1
  <2>3. x % w = r
    BY <1>b, <2>1, <2>2, DivUnique, Zenon
  <2> QED
    BY <1>1, <1>3, <2>1, <2>3 DEF MaxLen, IntoBits
<1> QED
  BY <1>2, <1>3

(* What _SPrint leaves: len is the new length, zero where the zero is.     *)
Appended(s, text, len, zero, t) ==
  /\ len = IF s.len + Len(text) <= s.maxlen THEN s.len + Len(text) ELSE s.maxlen
  /\ zero = IF len < s.maxlen THEN len + 1 ELSE IF s.maxlen # 0 THEN s.maxlen + 1 ELSE 0
  /\ t.kind = s.kind /\ t.units = s.units /\ t.maxlen = s.maxlen /\ t.lost = s.lost
  /\ t.len = len /\ Len(t.str) = Len(s.str)
  /\ \A i \in 1..Len(s.str) :
       t.str[i] = IF i = zero THEN "zero"
                  ELSE IF i > s.len /\ i <= len THEN text[i - s.len] ELSE s.str[i]

(* It does.                                                                *)
LEMMA SPrintIs ==
  ASSUME NEW s \in SinkType, NEW text \in Seq(Glyphs), s.len <= s.maxlen
  PROVE  \E len \in Nat, zero \in Nat, t \in SinkType :
           t = SPrint(s, text) /\ Appended(s, text, len, zero, t)
<1> DEFINE nul == "zero"
           len == s.len + SPrintLength(s, Len(text))
           zero == IF len < s.maxlen THEN len + 1 ELSE IF s.maxlen # 0 THEN s.maxlen + 1 ELSE 0
           cell(i) == IF i = zero THEN nul
                      ELSE IF i > s.len /\ i <= len THEN text[i - s.len] ELSE s.str[i]
           str == [i \in DOMAIN s.str |-> cell(i)]
           t == [s EXCEPT !.len = len, !.str = str]
<1>1. t = SPrint(s, text)
  BY DEF SPrint
<1>2. s.len \in Nat /\ s.maxlen \in Nat /\ Len(text) \in Nat
  BY DEF SinkType
<1>c. s.str \in Seq(Cells) /\ \A i \in 1..Len(text) : text[i] \in Glyphs
  BY DEF SinkType
<1>3. len = IF s.len + Len(text) <= s.maxlen THEN s.len + Len(text) ELSE s.maxlen
  BY <1>2 DEF SPrintLength
<1>a. len \in Nat /\ len <= s.len + Len(text)
  BY <1>2, <1>3
<1> HIDE DEF len
<1>b. zero \in Nat
  BY <1>2, <1>a
<1>5. nul \in Cells /\ \A c \in Glyphs : c \in Cells
  BY Zenon DEF Cells
<1> HIDE DEF nul, zero
<1>6. DOMAIN s.str = 1..Len(s.str) /\ Len(s.str) \in Nat /\ \A i \in 1..Len(s.str) : s.str[i] \in Cells
  BY <1>c
<1>7. ASSUME NEW i \in 1..Len(s.str) PROVE cell(i) \in Cells
  <2>1. i > s.len /\ i <= len => i - s.len \in 1..Len(text)
    <3>1. i \in Int
      OBVIOUS
    <3> QED
      BY <1>2, <1>a, <3>1
  <2> QED
    BY <1>c, <1>5, <1>6, <2>1
<1> HIDE DEF cell
<1>8. str \in Seq(Cells) /\ Len(str) = Len(s.str) /\ \A i \in 1..Len(s.str) : str[i] = cell(i)
  BY <1>6, <1>7
<1> HIDE DEF str
<1>9. /\ t \in SinkType /\ t.kind = s.kind /\ t.units = s.units /\ t.maxlen = s.maxlen
      /\ t.lost = s.lost /\ t.len = len /\ t.str = str
  BY <1>a, <1>8 DEF SinkType
<1>10. \A i \in 1..Len(s.str) :
         t.str[i] = IF i = zero THEN nul
                    ELSE IF i > s.len /\ i <= len THEN text[i - s.len] ELSE s.str[i]
  <2> HIDE DEF t
  <2> QED
    BY <1>8, <1>9 DEF cell
<1>11. zero = IF len < s.maxlen THEN len + 1 ELSE IF s.maxlen # 0 THEN s.maxlen + 1 ELSE 0
  BY DEF zero
<1>12. Len(t.str) = Len(s.str)
  BY <1>8, <1>9
<1> HIDE DEF t
<1>13. Appended(s, text, len, zero, t)
  BY <1>3, <1>9, <1>10, <1>11, <1>12, Zenon DEF Appended, nul
<1> QED
  BY <1>1, <1>a, <1>b, <1>9, <1>13, Zenon

(* What is sent to the string is there, as much as it has place for.       *)
LEMMA StringGets ==
  ASSUME NEW s \in SinkType, s.kind = "string", NEW text \in Seq(Glyphs),
         NEW sent \in Seq(Glyphs), InString(s, sent)
  PROVE  /\ SPrint(s, text) \in SinkType /\ SPrint(s, text).kind = s.kind
         /\ InString(SPrint(s, text), sent \o text) /\ Terminated(SPrint(s, text))
<1> DEFINE nul == "zero"
           unput == NotPut
           max == s.maxlen
           both == sent \o text
<1>a. /\ Len(s.str) = StringRoom /\ s.units < 2^Uint64Bits /\ max = MaxLen(s.units)
      /\ s.len = (IF Len(sent) <= max THEN Len(sent) ELSE max)
  BY DEF InString
<1>1. /\ Len(s.str) = StringRoom /\ s.units < 2^Uint64Bits /\ max = MaxLen(s.units)
      /\ s.len = (IF Len(sent) <= max THEN Len(sent) ELSE max)
      /\ (\A i \in 1..StringRoom : i <= s.len => s.str[i] = sent[i])
      /\ \A i \in 1..StringRoom : i > s.units /\ s.units # 0 => s.str[i] = unput
  BY DEF InString
<1>2. s.units \in Nat /\ s.len \in Nat /\ StringRoom \in Nat /\ Len(text) \in Nat /\ Len(sent) \in Nat
  BY PrintAssumption DEF SinkType
<1>3. max \in Nat /\ (s.units # 0 => max = s.units - 1) /\ (s.units = 0 => max # 0)
  BY <1>1, <1>2, MaxLenIs
<1>4. s.len <= max
  BY <1>1, <1>2, <1>3
<1>c. PICK len \in Nat, zero \in Nat, t \in SinkType :
        t = SPrint(s, text) /\ Appended(s, text, len, zero, t)
  BY <1>4, SPrintIs
<1>5. /\ t.kind = s.kind /\ t.units = s.units /\ t.maxlen = max /\ t.lost = s.lost
      /\ t.len = len /\ Len(t.str) = Len(s.str)
      /\ \A i \in 1..Len(s.str) :
           t.str[i] = IF i = zero THEN nul
                      ELSE IF i > s.len /\ i <= len THEN text[i - s.len] ELSE s.str[i]
  BY <1>c DEF Appended
<1>b. /\ len = IF s.len + Len(text) <= max THEN s.len + Len(text) ELSE max
      /\ zero = IF len < max THEN len + 1 ELSE IF max # 0 THEN max + 1 ELSE 0
      /\ len \in Nat /\ zero \in Nat
  BY <1>c DEF Appended
<1>6. /\ both \in Seq(Glyphs) /\ Len(both) = Len(sent) + Len(text)
      /\ \A i \in 1..(Len(sent) + Len(text)) :
           both[i] = IF i <= Len(sent) THEN sent[i] ELSE text[i - Len(sent)]
  BY ConcatProperties
<1> HIDE DEF nul, unput, max, both
<1>7. len = IF Len(both) <= max THEN Len(both) ELSE max
  <2>1. Len(both) = Len(sent) + Len(text)
    BY <1>6
  <2> QED
    BY <1>a, <1>2, <1>3, <1>b, <2>1
<1>8. /\ len <= max /\ len <= Len(sent) + Len(text)
      /\ zero > len \/ (zero = 0 /\ len = 0 /\ max = 0)
  <2>1. len <= max
    BY <1>2, <1>3, <1>b
  <2>2. s.len <= Len(sent)
    BY <1>a, <1>2, <1>3
  <2>3. len <= Len(sent) + Len(text)
    BY <1>2, <1>3, <1>b, <2>2
  <2>4. zero > len \/ (zero = 0 /\ len = 0 /\ max = 0)
    BY <1>3, <1>b, <2>1
  <2> QED
    BY <2>1, <2>3, <2>4
<1>9. ASSUME NEW i \in 1..StringRoom, i <= len PROVE t.str[i] = both[i]
  <2>1. i # zero /\ i \in 1..(Len(sent) + Len(text)) /\ i \in Nat
    BY <1>2, <1>8, <1>9
  <2>2. t.str[i] = IF i > s.len THEN text[i - s.len] ELSE s.str[i]
    BY <1>1, <1>5, <1>9, <2>1
  <2>3. i > s.len => s.len = Len(sent)
    BY <1>a, <1>2, <1>3, <1>b, <1>9
  <2>4. ~(i > s.len) => s.str[i] = sent[i] /\ i <= Len(sent)
    BY <1>1, <1>2, <1>3
  <2>5. both[i] = IF i <= Len(sent) THEN sent[i] ELSE text[i - Len(sent)]
    BY <1>6, <2>1
  <2>6. CASE i > s.len
    <3>1. ~(i <= Len(sent))
      BY <1>2, <2>1, <2>3, <2>6
    <3> QED
      BY <2>2, <2>3, <2>5, <2>6, <3>1, Zenon
  <2>7. CASE ~(i > s.len)
    BY <2>2, <2>4, <2>5, <2>7, Zenon
  <2> QED
    BY <2>6, <2>7
<1>10. ASSUME NEW i \in 1..StringRoom, i > s.units, s.units # 0 PROVE t.str[i] = unput
  <2>1. i # zero /\ i > len
    <3>1. i \in Nat /\ i > max + 1
      BY <1>2, <1>3, <1>10
    <3>2. zero <= max + 1 /\ len <= max
      BY <1>3, <1>b, <1>8
    <3> QED
      BY <1>3, <1>b, <3>1, <3>2
  <2>2. i <= s.len => i <= len
    BY <1>a, <1>2, <1>3, <1>b
  <2>3. t.str[i] = s.str[i]
    BY <1>a, <1>5, <2>1
  <2> QED
    BY <1>1, <1>10, <2>3
<1>11. ASSUME s.units # 1, NEW i \in 1..StringRoom, i = len + 1 PROVE t.str[i] = nul
  <2>1. max # 0
    BY <1>2, <1>3, <1>11
  <2>2. i = zero
    BY <1>2, <1>3, <1>b, <1>8, <1>11, <2>1
  <2> QED
    BY <1>1, <1>5, <2>2
<1>12. InString(t, both)
  BY <1>1, <1>5, <1>7, <1>9, <1>10 DEF InString, unput
<1>13. Terminated(t)
  BY <1>5, <1>11 DEF Terminated, nul
<1> QED
  BY <1>c, <1>5, <1>12, <1>13 DEF both
(* A pool with room gets the whole text and a zero.                        *)
LEMMA RoomGets ==
  ASSUME NEW s \in SinkType, NEW text \in Seq(Glyphs), NEW sent \in Seq(Glyphs),
         Len(s.str) = s.maxlen, s.len + Len(text) + 1 <= s.maxlen, s.len <= Len(sent),
         ~s.lost => s.len = Len(sent),
         Latest(s, sent)
  PROVE  /\ SPrint(s, text) \in SinkType /\ SPrint(s, text).kind = s.kind
         /\ InPool(SPrint(s, text), sent \o text)
<1> DEFINE nul == "zero"
           both == sent \o text
<1>1. /\ s.len \in Nat /\ s.maxlen \in Nat /\ Len(text) \in Nat /\ Len(sent) \in Nat
      /\ s.len <= s.maxlen /\ s.len + Len(text) <= s.maxlen /\ s.len + Len(text) < s.maxlen
  BY DEF SinkType
<1>2. PICK len \in Nat, zero \in Nat, t \in SinkType :
        t = SPrint(s, text) /\ Appended(s, text, len, zero, t)
  BY <1>1, SPrintIs
<1>3. /\ t.kind = s.kind /\ t.units = s.units /\ t.maxlen = s.maxlen /\ t.lost = s.lost
      /\ t.len = len /\ Len(t.str) = Len(s.str)
      /\ \A i \in 1..Len(s.str) :
           t.str[i] = IF i = zero THEN nul
                      ELSE IF i > s.len /\ i <= len THEN text[i - s.len] ELSE s.str[i]
  BY <1>2 DEF Appended
<1>4. len = s.len + Len(text) /\ zero = len + 1
  <2>1. /\ len = IF s.len + Len(text) <= s.maxlen THEN s.len + Len(text) ELSE s.maxlen
        /\ zero = IF len < s.maxlen THEN len + 1 ELSE IF s.maxlen # 0 THEN s.maxlen + 1 ELSE 0
    BY <1>2 DEF Appended
  <2> QED
    BY <1>1, <2>1
<1>5. /\ both \in Seq(Glyphs) /\ Len(both) = Len(sent) + Len(text)
      /\ \A i \in 1..(Len(sent) + Len(text)) :
           both[i] = IF i <= Len(sent) THEN sent[i] ELSE text[i - Len(sent)]
  BY ConcatProperties
<1>a. Len(both) = Len(sent) + Len(text)
  BY <1>5
<1> HIDE DEF nul, both
<1>6. ASSUME NEW i \in 1..len PROVE t.str[i] = both[Len(both) - len + i]
  <2>1. PICK k \in Int : k = Len(both) - len + i
    BY <1>1, <1>4, <1>a
  <2>2. k = Len(sent) - s.len + i /\ k \in 1..(Len(sent) + Len(text)) /\ i # zero /\ i \in 1..Len(s.str)
    <3>1. i \in Nat /\ i >= 1 /\ i <= s.len + Len(text)
      BY <1>1, <1>4
    <3>2. k = Len(sent) - s.len + i
      BY <1>1, <1>4, <1>a, <2>1, <3>1
    <3>3. k \in 1..(Len(sent) + Len(text))
      BY <1>1, <3>1, <3>2
    <3>4. i # zero /\ i \in 1..s.maxlen
      BY <1>1, <1>4, <3>1
    <3> QED
      BY <3>2, <3>3, <3>4
  <2>3. both[k] = IF k <= Len(sent) THEN sent[k] ELSE text[k - Len(sent)]
    BY <1>5, <2>2
  <2>4. t.str[i] = IF i > s.len THEN text[i - s.len] ELSE s.str[i]
    <3>1. i <= len
      BY <1>1
    <3> QED
      BY <1>3, <2>2, <3>1
  <2>5. CASE i > s.len
    <3>1. ~(k <= Len(sent)) /\ k - Len(sent) = i - s.len
      BY <1>1, <2>2, <2>5
    <3> QED
      BY <2>1, <2>3, <2>4, <2>5, <3>1
  <2>6. CASE ~(i > s.len)
    <3>1. k <= Len(sent) /\ i \in 1..s.len
      BY <1>1, <2>2, <2>6
    <3>2. s.str[i] = sent[k]
      BY <2>2, <3>1 DEF Latest
    <3> QED
      BY <2>1, <2>3, <2>4, <2>6, <3>1, <3>2
  <2> QED
    BY <2>5, <2>6
<1>7. t.str[len + 1] = nul
  <2>1. len + 1 \in 1..Len(s.str)
    BY <1>1, <1>4
  <2> QED
    BY <1>3, <1>4, <2>1
<1>8. /\ Len(t.str) = t.maxlen /\ t.len <= Len(both) /\ t.len <= t.maxlen /\ t.len < t.maxlen
      /\ ~t.lost => t.len = Len(both)
  <2>1. ~t.lost => s.len = Len(sent)
    BY <1>3
  <2>2. t.len = s.len + Len(text) /\ t.maxlen = s.maxlen /\ Len(t.str) = s.maxlen
    BY <1>3, <1>4
  <2>3. t.len <= Len(both) /\ t.len < t.maxlen /\ t.len <= t.maxlen
    BY <1>1, <1>a, <2>2
  <2>4. ~t.lost => t.len = Len(both)
    BY <1>1, <1>a, <2>1, <2>2
  <2> QED
    BY <2>2, <2>3, <2>4
<1>9. InPool(t, both)
  <2>1. Latest(t, both)
    BY <1>3, <1>6 DEF Latest
  <2>2. t.str[t.len + 1] = "zero"
    BY <1>3, <1>7 DEF nul
  <2> QED
    BY <1>8, <2>1, <2>2, Zenon DEF InPool
<1> QED
  BY <1>2, <1>3, <1>9 DEF both

(* A pool that could not grow has nothing.                                 *)
LEMMA LostIs ==
  ASSUME NEW s \in SinkType, NEW text \in Seq(Glyphs), NEW sent \in Seq(Glyphs),
         s.str = <<>>, s.len = 0, s.maxlen = 0, s.lost
  PROVE  /\ SPrint(s, text) \in SinkType /\ SPrint(s, text).kind = s.kind
         /\ InPool(SPrint(s, text), sent \o text)
<1>0. s.len <= s.maxlen
  OBVIOUS
<1>1. PICK len \in Nat, zero \in Nat, t \in SinkType :
        t = SPrint(s, text) /\ Appended(s, text, len, zero, t)
  BY <1>0, SPrintIs
<1>2. /\ t.kind = s.kind /\ t.maxlen = 0 /\ t.lost /\ t.len = len /\ Len(t.str) = 0
      /\ len = IF 0 + Len(text) <= 0 THEN 0 + Len(text) ELSE 0
  <2>1. Len(s.str) = 0
    OBVIOUS
  <2> QED
    BY <1>1, <2>1 DEF Appended
<1>3. len = 0
  <2>1. Len(text) \in Nat
    OBVIOUS
  <2> QED
    BY <1>2, <2>1
<1>4. Len(sent \o text) \in Nat
  OBVIOUS
<1>5. InPool(t, sent \o text)
  <2>1. t.len <= Len(sent \o text) /\ t.len <= t.maxlen /\ Len(t.str) = t.maxlen
    BY <1>2, <1>3, <1>4
  <2>2. Latest(t, sent \o text)
    <3>1. \A i \in 1..t.len : FALSE
      BY <1>2, <1>3
    <3> QED
      BY <3>1 DEF Latest
  <2> QED
    BY <1>2, <2>1, <2>2, Zenon DEF InPool
<1> QED
  BY <1>1, <1>2, <1>5

(* What is sent to the pool is there, or what was sent since it was lost.  *)
LEMMA PoolGets ==
  ASSUME NEW s \in SinkType, NEW text \in Seq(Glyphs), NEW sent \in Seq(Glyphs),
         InPool(s, sent), NEW t \in PoolPrint(s, text)
  PROVE  t \in SinkType /\ t.kind = s.kind /\ InPool(t, sent \o text)
<1> DEFINE unput == NotPut
           M == PoolNeeds(s, text) + PRINT_STRING_LEN
           str == [i \in 1..M |-> IF i <= s.len THEN s.str[i] ELSE unput]
           grown == [s EXCEPT !.maxlen = M, !.str = str]
           freed == [s EXCEPT !.str = <<>>, !.len = 0, !.maxlen = 0, !.lost = TRUE]
<1>1. \/ PoolNeeds(s, text) > s.maxlen /\ (t = SPrint(grown, text) \/ t = SPrint(freed, text))
      \/ ~(PoolNeeds(s, text) > s.maxlen) /\ t = SPrint(s, text)
  BY DEF PoolPrint
<1>2. /\ s.len \in Nat /\ s.maxlen \in Nat /\ Len(text) \in Nat /\ Len(sent) \in Nat
      /\ PRINT_STRING_LEN \in Nat /\ PoolNeeds(s, text) = s.len + Len(text) + 1
  BY PrintAssumption DEF SinkType, PoolNeeds
<1>3. /\ Len(s.str) = s.maxlen /\ s.len <= Len(sent) /\ s.len <= s.maxlen
      /\ ~s.lost => s.len = Len(sent)
  BY DEF InPool
<1>4. Latest(s, sent)
  BY DEF InPool
<1>5. CASE ~(PoolNeeds(s, text) > s.maxlen) /\ t = SPrint(s, text)
  <2>1. s.len + Len(text) + 1 <= s.maxlen
    BY <1>2, <1>5
  <2> HIDE DEF grown, freed
  <2> QED
    BY <1>3, <1>4, <1>5, <2>1, RoomGets
<1>6. M \in Nat /\ s.len + Len(text) + 1 <= M /\ s.len <= M
  <2>1. PICK n \in Nat : n = PoolNeeds(s, text) /\ n = s.len + Len(text) + 1
    BY <1>2
  <2>2. M = n + PRINT_STRING_LEN
    BY <2>1
  <2> HIDE DEF M
  <2> QED
    BY <1>2, <2>1, <2>2
<1> HIDE DEF M
<1>7. CASE t = SPrint(grown, text)
  <2>1. unput \in Cells
    BY Zenon DEF Cells
  <2> HIDE DEF unput
  <2>2. \A i \in 1..Len(s.str) : s.str[i] \in Cells
    BY DEF SinkType
  <2>3. ASSUME NEW i \in 1..M, i <= s.len PROVE s.str[i] \in Cells
    <3>1. i \in 1..Len(s.str)
      BY <1>2, <1>3, <2>3
    <3> QED
      BY <2>2, <3>1
  <2>4. str \in Seq(Cells) /\ Len(str) = M /\ \A i \in 1..M : i <= s.len => str[i] = s.str[i]
    <3>1. \A i \in 1..M : (IF i <= s.len THEN s.str[i] ELSE unput) \in Cells
      BY <2>1, <2>3
    <3>2. str \in [1..M -> Cells] /\ \A i \in 1..M : i <= s.len => str[i] = s.str[i]
      BY <3>1
    <3>a. str = [i \in 1..M |-> str[i]] /\ \A i \in 1..M : str[i] \in Cells
      BY <3>1
    <3>b. M \in Nat
      BY <1>6
    <3> HIDE DEF str
    <3>3. str \in Seq(Cells)
      BY <3>a, <3>b
    <3>4. Len(str) = M
      BY <1>6, <3>2
    <3> QED
      BY <3>2, <3>3, <3>4
  <2> HIDE DEF str
  <2>5. /\ grown \in SinkType /\ grown.kind = s.kind /\ grown.len = s.len /\ grown.maxlen = M
        /\ grown.lost = s.lost /\ grown.str = str
    BY <1>6, <2>4 DEF SinkType
  <2> HIDE DEF grown
  <2>6. ASSUME NEW i \in 1..s.len PROVE str[i] = sent[Len(sent) - s.len + i]
    <3>1. i \in 1..M /\ i <= s.len
      BY <1>2, <1>6
    <3> QED
      BY <1>4, <2>4, <3>1 DEF Latest
  <2>7. Latest(grown, sent)
    BY <2>5, <2>6, Zenon DEF Latest
  <2>8. /\ Len(grown.str) = grown.maxlen /\ grown.len + Len(text) + 1 <= grown.maxlen
        /\ grown.len <= Len(sent) /\ (~grown.lost => grown.len = Len(sent))
    BY <1>3, <1>6, <2>4, <2>5
  <2>9. /\ SPrint(grown, text) \in SinkType /\ SPrint(grown, text).kind = grown.kind
        /\ InPool(SPrint(grown, text), sent \o text)
    BY <2>5, <2>7, <2>8, RoomGets
  <2> QED
    BY <1>7, <2>5, <2>9
<1>8. CASE t = SPrint(freed, text)
  <2>1. <<>> \in Seq(Cells)
    OBVIOUS
  <2>2. /\ freed \in SinkType /\ freed.kind = s.kind /\ freed.len = 0 /\ freed.maxlen = 0
        /\ freed.lost /\ freed.str = <<>>
    BY <2>1 DEF SinkType
  <2> HIDE DEF freed
  <2>3. /\ SPrint(freed, text) \in SinkType /\ SPrint(freed, text).kind = freed.kind
        /\ InPool(SPrint(freed, text), sent \o text)
    BY <2>2, LostIs
  <2> QED
    BY <1>8, <2>2, <2>3
<1> QED
  BY <1>1, <1>5, <1>7, <1>8

(* So is what is sent to the console.                                      *)
LEMMA ConsoleGets ==
  ASSUME NEW s \in SinkType, NEW text \in Seq(Glyphs), NEW sent \in Seq(Glyphs),
         OnConsole(s, sent), NEW a \in Attributes,
         NEW t, t = [s EXCEPT !.str = s.str \o [i \in DOMAIN text |-> <<text[i], a>>]]
  PROVE  t \in SinkType /\ t.kind = s.kind /\ OnConsole(t, sent \o text)
<1> DEFINE more == [i \in DOMAIN text |-> <<text[i], a>>]
           str == s.str \o more
           both == sent \o text
<1>1. DOMAIN text = 1..Len(text) /\ Len(text) \in Nat /\ \A i \in 1..Len(text) : text[i] \in Glyphs
  OBVIOUS
<1>2. \A i \in 1..Len(text) : <<text[i], a>> \in Cells
  BY <1>1 DEF Cells
<1>3. more \in Seq(Cells) /\ Len(more) = Len(text) /\ \A i \in 1..Len(text) : more[i] = <<text[i], a>>
  BY <1>1, <1>2
<1> HIDE DEF more
<1>4. s.str \in Seq(Cells) /\ Len(s.str) = Len(sent) /\ Len(sent) \in Nat
      /\ \A i \in 1..Len(sent) : s.str[i][1] = sent[i]
  BY DEF SinkType, OnConsole
<1>5. /\ str \in Seq(Cells) /\ Len(str) = Len(s.str) + Len(more)
      /\ \A i \in 1..(Len(s.str) + Len(more)) :
           str[i] = IF i <= Len(s.str) THEN s.str[i] ELSE more[i - Len(s.str)]
  <2>1. s.str \in Seq(Cells) /\ more \in Seq(Cells)
    BY <1>3, <1>4
  <2>2. PICK x \in Seq(Cells), y \in Seq(Cells) : x = s.str /\ y = more
    BY <2>1
  <2> QED
    BY <2>2, ConcatProperties
<1>6. /\ both \in Seq(Glyphs) /\ Len(both) = Len(sent) + Len(text)
      /\ \A i \in 1..(Len(sent) + Len(text)) :
           both[i] = IF i <= Len(sent) THEN sent[i] ELSE text[i - Len(sent)]
  BY ConcatProperties
<1> HIDE DEF both
<1>7. t \in SinkType /\ t.kind = s.kind /\ t.str = str
  <2> HIDE DEF str
  <2>1. t = [s EXCEPT !.str = str]
    BY DEF str, more
  <2> QED
    BY <1>5, <2>1 DEF SinkType
<1> HIDE DEF str
<1>8. Len(str) = Len(both)
  BY <1>3, <1>4, <1>5, <1>6
<1>9. ASSUME NEW i \in 1..Len(both) PROVE str[i][1] = both[i]
  <2>1. i \in 1..(Len(sent) + Len(text)) /\ i \in 1..(Len(s.str) + Len(more))
    BY <1>3, <1>4, <1>6
  <2>2. CASE i <= Len(sent)
    <3>1. i \in 1..Len(sent) /\ i <= Len(s.str)
      BY <1>4, <2>2
    <3>2. str[i] = s.str[i] /\ both[i] = sent[i]
      BY <1>5, <1>6, <2>1, <2>2, <3>1
    <3> QED
      BY <1>4, <3>1, <3>2
  <2>3. CASE ~(i <= Len(sent))
    <3>1. i - Len(sent) \in 1..Len(text) /\ ~(i <= Len(s.str)) /\ i - Len(s.str) = i - Len(sent)
      BY <1>1, <1>4, <2>1, <2>3
    <3>2. str[i] = more[i - Len(sent)] /\ both[i] = text[i - Len(sent)]
      BY <1>5, <1>6, <2>1, <2>3, <3>1
    <3>3. more[i - Len(sent)] = <<text[i - Len(sent)], a>>
      BY <1>3, <3>1
    <3> QED
      BY <3>2, <3>3
  <2> QED
    BY <2>2, <2>3
<1>10. OnConsole(t, both)
  BY <1>7, <1>8, <1>9 DEF OnConsole
<1> QED
  BY <1>7, <1>10 DEF both

(* Wherever the text goes, it arrives.                                     *)
LEMMA OutputArrives ==
  ASSUME NEW s \in SinkType, NEW text \in Seq(Glyphs), NEW sent \in Seq(Glyphs),
         Arrived(s, sent), Attr \in Attributes, NEW t \in OutputTo(s, text)
  PROVE  t \in SinkType /\ t.kind = s.kind /\ Arrived(t, sent \o text) /\ Terminated(t)
<1> DEFINE more == [i \in DOMAIN text |-> <<text[i], Attr>>]
           c == [s EXCEPT !.str = s.str \o more]
<1>1. s.kind \in {"console", "pool", "string"}
  BY DEF SinkType
<1>2. CASE s.kind = "console"
  <2>1. t = c
    BY <1>2 DEF OutputTo
  <2>2. OnConsole(s, sent)
    BY <1>2 DEF Arrived
  <2>3. t \in SinkType /\ t.kind = s.kind /\ OnConsole(t, sent \o text)
    <3> DEFINE a == Attr
               d == [s EXCEPT !.str = s.str \o [i \in DOMAIN text |-> <<text[i], a>>]]
    <3>1. t = d /\ a \in Attributes
      BY <2>1
    <3> HIDE DEF a
    <3>2. t = [s EXCEPT !.str = s.str \o [i \in DOMAIN text |-> <<text[i], a>>]]
      BY <3>1
    <3> HIDE DEF d
    <3> QED
      BY <2>2, <3>1, <3>2, ConsoleGets
  <2> QED
    BY <1>2, <2>3 DEF Arrived, Terminated
<1> HIDE DEF c
<1>3. CASE s.kind = "string"
  <2>1. t = SPrint(s, text)
    BY <1>3 DEF OutputTo
  <2>2. InString(s, sent)
    BY <1>3 DEF Arrived
  <2>3. t \in SinkType /\ t.kind = s.kind /\ InString(t, sent \o text) /\ Terminated(t)
    BY <1>3, <2>1, <2>2, StringGets
  <2> QED
    BY <1>3, <2>3 DEF Arrived
<1>4. CASE s.kind = "pool"
  <2>1. t \in PoolPrint(s, text)
    BY <1>4 DEF OutputTo
  <2>2. InPool(s, sent)
    BY <1>4 DEF Arrived
  <2>3. t \in SinkType /\ t.kind = s.kind /\ InPool(t, sent \o text)
    BY <2>1, <2>2, PoolGets
  <2> QED
    BY <1>4, <2>3 DEF Arrived, Terminated
<1> QED
  BY <1>1, <1>2, <1>3, <1>4
-----------------------------------------------------------------------------
(* The print.                                                              *)

Words == [number : Int, text : Seq(STRING)]
Phases == {"text", "item", "print", "restore", "done"}

ItemType ==
  [FieldWidth : Nat, Width : Nat, parse : {"Width", "FieldWidth"}, Pad : Glyphs,
   PadBefore : BOOLEAN, Comma : BOOLEAN, Long : BOOLEAN, text : Seq(Glyphs)]

Reading ==
  /\ efmt \in Seq(STRING) /\ eargs \in Seq(Words) /\ index \in Nat \ {0}
  /\ Item \in ItemType /\ queue \in Seq(Glyphs)

(* What was put is what was sent and what the buffer holds.                *)
Sending ==
  /\ pending \in Seq(Glyphs) /\ all \in Seq(Glyphs) /\ sink \in SinkType
  /\ \E sent \in Seq(Glyphs) : all = sent \o pending /\ Arrived(sink, sent)

(* Between items the attribute is the one that lasts; in an item, the one  *)
(* that lasts is kept in RestoreAttr if it is not set, unless a field has  *)
(* had two.  Only the console has attributes.                              *)
AttributeKept ==
  /\ Attr \in Attributes /\ RestoreAttr \in Attributes
  /\ sink.kind = "console" => Attr # NoAttr
  /\ sink.kind # "console" => Attr = NoAttr /\ RestoreAttr = NoAttr
  /\ phase \in {"text", "done"} => Attr = base \/ twice
  /\ phase \in {"item", "print", "restore"} =>
       (base = IF RestoreAttr = NoAttr THEN Attr ELSE RestoreAttr) \/ twice

(* What is read of the format.  Inside a directive the character before    *)
(* the next one does not end it.                                           *)
InFormat ==
  /\ StopsAtEnd
  /\ phase = "item" => index \in 2..(Len(efmt) + 1) /\ efmt[index - 1] \in OpenEnds

PrintInv ==
  /\ Reading /\ Sending /\ AttributeKept /\ InFormat /\ phase \in Phases
  /\ phase = "done" => queue = <<>> /\ pending = <<>> /\ Terminated(sink)

(* Where the place in the format is the same.                              *)
LEMMA PlaceStays ==
  ASSUME PrintInv, efmt' = efmt, index' = index, sink'.kind = sink.kind,
         phase' = "item" => phase = "item"
  PROVE  InFormat'
<1>1. OpenEnds' = OpenEnds
  BY Zenon DEF OpenEnds
<1>2. InFormat
  BY DEF PrintInv
<1> QED
  BY <1>1, <1>2 DEF InFormat, StopsAtEnd

(* Where a character is read that does not end the directive it is in.     *)
LEMMA PlaceMoves ==
  ASSUME PrintInv, NEW p, Ready(p), efmt' = efmt, index' = index + 1, sink'.kind = sink.kind,
         phase' = "item" => efmt[index] \in OpenEnds
  PROVE  InFormat'
<1>1. OpenEnds' = OpenEnds
  BY Zenon DEF OpenEnds
<1>2. index <= Len(efmt) /\ efmt \in Seq(STRING) /\ index \in Nat \ {0}
  BY DEF Ready, PrintInv, Reading
<1>3. PICK n \in Nat, m \in Nat \ {0} : n = Len(efmt) /\ m = index
  BY <1>2
<1>4. m + 1 \in 2..(n + 1) /\ (m + 1) - 1 = m /\ ~(m + 1 > n + 1)
  BY <1>2, <1>3
<1> QED
  BY <1>1, <1>3, <1>4 DEF InFormat, StopsAtEnd

(* Where another format begins.                                            *)
LEMMA PlaceBegins ==
  ASSUME efmt' \in Seq(STRING), index' = 1, phase' # "item"
  PROVE  InFormat'
<1>1. Len(efmt') \in Nat
  OBVIOUS
<1> QED
  BY <1>1 DEF InFormat, StopsAtEnd

(* A number for the widths, the highest of them where there is none.       *)
LEMMA NewItemIs == NewItem \in ItemType
<1>1. Unset \in Nat /\ 0 \in Nat
  <2>1. PICK w \in Nat : w = 2^Uint64Bits /\ w # 0
    <3>1. 2^Uint64Bits \in Nat \ {0, 1}
      BY PrintAssumption
    <3> QED
      BY <3>1
  <2> QED
    BY <2>1 DEF Unset
<1>2. " " \in Glyphs
  BY GlyphsAre, Zenon
<1>3. <<>> \in Seq(Glyphs)
  OBVIOUS
<1> DEFINE space == " "
           u == Unset
<1>4. space \in Glyphs /\ u \in Nat
  BY <1>1, <1>2, Zenon
<1>5. NewItem = [FieldWidth |-> u, Width |-> 0, parse |-> "Width", Pad |-> space,
                 PadBefore |-> TRUE, Comma |-> FALSE, Long |-> FALSE, text |-> <<>>]
  BY DEF NewItem
<1> HIDE DEF space, u
<1> QED
  BY <1>3, <1>4, <1>5 DEF ItemType

(* The first state.                                                        *)
LEMMA PrintStart == ASSUME EfiPrintInit PROVE PrintInv
<1>1. Reading
  <2>1. PICK f \in EfiFormats : efmt = f[1] /\ eargs = f[2]
    BY DEF EfiPrintInit
  <2>2. f \in Seq(STRING) \X Seq(Words)
    BY <2>1, PrintAssumption DEF Words
  <2>3. index = 1 /\ Item = NewItem /\ queue = <<>>
    BY DEF EfiPrintInit
  <2>4. efmt \in Seq(STRING) /\ eargs \in Seq(Words)
    BY <2>1, <2>2
  <2>5. <<>> \in Seq(Glyphs) /\ 1 \in Nat \ {0}
    OBVIOUS
  <2> QED
    BY <2>3, <2>4, <2>5, NewItemIs DEF Reading
<1>2. PICK s \in Sinks : \E u \in (IF s = "string" THEN StrUnits ELSE {0}) :
        sink = [kind |-> s, units |-> u, len |-> 0,
                maxlen |-> IF s = "string" THEN MaxLen(u) ELSE 0,
                str |-> IF s = "string" THEN [i \in 1..StringRoom |-> NotPut] ELSE <<>>,
                lost |-> FALSE]
  BY DEF EfiPrintInit
<1>3. PICK u \in (IF s = "string" THEN StrUnits ELSE {0}) :
        sink = [kind |-> s, units |-> u, len |-> 0,
                maxlen |-> IF s = "string" THEN MaxLen(u) ELSE 0,
                str |-> IF s = "string" THEN [i \in 1..StringRoom |-> NotPut] ELSE <<>>,
                lost |-> FALSE]
  BY <1>2
<1> DEFINE max == IF s = "string" THEN MaxLen(u) ELSE 0
           str == IF s = "string" THEN [i \in 1..StringRoom |-> NotPut] ELSE <<>>
<1>4. s \in {"console", "pool", "string"} /\ StringRoom \in Nat
  BY PrintAssumption
<1>5. u \in Nat /\ u < 2^Uint64Bits
  <2>1. PICK w \in Nat : w = 2^Uint64Bits /\ w > 1 /\ StrUnits \subseteq 0..(w - 1)
    <3>1. 2^Uint64Bits \in Nat \ {0, 1} /\ StrUnits \subseteq 0..(2^Uint64Bits - 1)
      BY PrintAssumption
    <3> QED
      BY <3>1
  <2>2. u = 0 \/ u \in StrUnits
    BY <1>3
  <2> QED
    BY <2>1, <2>2
<1>6. max \in Nat
  BY <1>5, MaxLenIs
<1>7. str \in Seq(Cells) /\ (s # "string" => str = <<>> /\ Len(str) = 0)
      /\ (s = "string" => Len(str) = StringRoom /\ \A i \in 1..StringRoom : str[i] = NotPut)
  <2> DEFINE unput == NotPut
  <2>1. unput \in Cells
    BY Zenon DEF Cells
  <2> HIDE DEF unput
  <2>2. <<>> \in Seq(Cells) /\ Len(<<>>) = 0
    OBVIOUS
  <2>3. PICK z : z = [i \in 1..StringRoom |-> unput]
    OBVIOUS
  <2>4. z \in Seq(Cells) /\ Len(z) = StringRoom /\ \A i \in 1..StringRoom : z[i] = unput
    <3>1. z = [i \in 1..StringRoom |-> z[i]] /\ \A i \in 1..StringRoom : z[i] = unput
      BY <2>3
    <3>2. \A i \in 1..StringRoom : z[i] \in Cells
      BY <2>1, <3>1
    <3>3. z \in Seq(Cells) /\ Len(z) = StringRoom
      BY <1>4, <3>1, <3>2
    <3> QED
      BY <3>1, <3>3
  <2> QED
    BY <2>2, <2>3, <2>4 DEF unput
<1>8. sink = [kind |-> s, units |-> u, len |-> 0, maxlen |-> max, str |-> str, lost |-> FALSE]
  BY <1>3
<1>9. (s = "string" => max = MaxLen(u)) /\ (s # "string" => max = 0)
  OBVIOUS
<1> HIDE DEF max, str
<1>10. /\ sink \in SinkType /\ sink.kind = s /\ sink.units = u /\ sink.len = 0 /\ sink.maxlen = max
       /\ sink.str = str /\ sink.lost = FALSE
  BY <1>4, <1>5, <1>6, <1>7, <1>8 DEF SinkType
<1>11. pending = <<>> /\ all = <<>> /\ phase = "text"
  BY DEF EfiPrintInit
<1>12. Arrived(sink, <<>>)
  <2>1. Len(<<>>) = 0 /\ <<>> \in Seq(Glyphs)
    OBVIOUS
  <2>2. PICK e \in Seq(Glyphs) : e = <<>> /\ Len(e) = 0
    BY <2>1, Zenon
  <2>3. s = "console" => OnConsole(sink, e)
    BY <1>7, <1>10, <2>2 DEF OnConsole
  <2>4. s = "string" => InString(sink, e)
    BY <1>4, <1>5, <1>6, <1>7, <1>9, <1>10, <2>2 DEF InString
  <2>5. s = "pool" => InPool(sink, e)
    <3>1. Latest(sink, e)
      BY <1>10 DEF Latest
    <3> QED
      BY <1>7, <1>9, <1>10, <2>2, <3>1 DEF InPool
  <2> QED
    BY <1>10, <2>2, <2>3, <2>4, <2>5 DEF Arrived
<1>13. Sending
  <2>1. <<>> \in Seq(Glyphs) /\ <<>> = <<>> \o <<>>
    OBVIOUS
  <2> QED
    BY <1>10, <1>11, <1>12, <2>1 DEF Sending
<1>14. AttributeKept
  <2>1. Attr = Attribute("mode") /\ base = Attr /\ RestoreAttr = NoAttr
    BY DEF EfiPrintInit
  <2>2. "mode" \in Attributes /\ NoAttr \in Attributes /\ "mode" # NoAttr
    BY DEF Attributes, NoAttr
  <2>3. Attr = IF sink.kind = "console" THEN "mode" ELSE NoAttr
    BY <2>1 DEF Attribute
  <2> QED
    BY <1>11, <2>1, <2>2, <2>3 DEF AttributeKept
<1>15. InFormat
  <2>1. index = 1 /\ Len(efmt) \in Nat
    BY <1>1 DEF EfiPrintInit, Reading
  <2> QED
    BY <1>11, <2>1 DEF InFormat, StopsAtEnd
<1> QED
  BY <1>1, <1>11, <1>13, <1>14, <1>15 DEF PrintInv, Phases

(* PFLUSH sends what the buffer holds.                                     *)
LEMMA Flushed ==
  ASSUME PrintInv, PFLUSH, all' = all
  PROVE  Sending' /\ sink'.kind = sink.kind /\ Terminated(sink)' /\ pending' = <<>>
<1>1. sink' \in OutputTo(sink, pending) /\ pending' = <<>>
  BY DEF PFLUSH
<1>2. pending \in Seq(Glyphs) /\ all \in Seq(Glyphs) /\ sink \in SinkType /\ Attr \in Attributes
  BY DEF PrintInv, Sending, AttributeKept
<1>3. PICK sent \in Seq(Glyphs) : all = sent \o pending /\ Arrived(sink, sent)
  BY DEF PrintInv, Sending
<1>4. sink' \in SinkType /\ sink'.kind = sink.kind /\ Arrived(sink', all) /\ Terminated(sink')
  BY <1>1, <1>2, <1>3, OutputArrives
<1>5. all' = all \o <<>> /\ <<>> \in Seq(Glyphs)
  BY <1>2
<1>6. Arrived(sink, all)' /\ Terminated(sink)'
  BY <1>4
<1>7. Sending'
  BY <1>1, <1>2, <1>4, <1>5 DEF Sending
<1> QED
  BY <1>1, <1>4, <1>7

(* What is appended to the end is appended to the whole.                   *)
LEMMA AppendBehind ==
  ASSUME NEW a \in Seq(Glyphs), NEW b \in Seq(Glyphs), NEW g \in Glyphs
  PROVE  Append(a \o b, g) = a \o Append(b, g)
<1>1. a \o b \in Seq(Glyphs)
  BY ConcatProperties
<1>2. Append(a \o b, g) = (a \o b) \o <<g>> /\ Append(b, g) = b \o <<g>>
  BY <1>1, AppendIsConcat
<1>3. <<g>> \in Seq(Glyphs)
  OBVIOUS
<1>4. (a \o b) \o <<g>> = a \o (b \o <<g>>)
  BY <1>3, ConcatAssociative
<1> QED
  BY <1>2, <1>4, Zenon

(* A character is put into the buffer, which is sent when it is full.      *)
LEMMA PutStep == ASSUME PrintInv, PPUTC PROVE PrintInv'
<1> DEFINE c == Head(queue)
           more == Append(pending, c)
<1>1. /\ queue # <<>> /\ queue' = Tail(queue) /\ all' = Append(all, c)
      /\ UNCHANGED <<efmt, eargs, index, phase, Item, value, Attr, RestoreAttr, base, twice, prints>>
      /\ \/ sink' \in OutputTo(sink, more) /\ pending' = <<>>
         \/ pending' = more /\ sink' = sink
  BY DEF PPUTC
<1>2. /\ queue \in Seq(Glyphs) /\ pending \in Seq(Glyphs) /\ all \in Seq(Glyphs)
      /\ sink \in SinkType /\ Attr \in Attributes
  BY DEF PrintInv, Reading, Sending, AttributeKept
<1>3. c \in Glyphs /\ queue' \in Seq(Glyphs)
  BY <1>1, <1>2
<1> HIDE DEF c
<1>4. PICK sent \in Seq(Glyphs) : all = sent \o pending /\ Arrived(sink, sent)
  BY DEF PrintInv, Sending
<1>5. more \in Seq(Glyphs) /\ all' \in Seq(Glyphs) /\ all' = sent \o more
  <2>1. Append(sent \o pending, c) = sent \o Append(pending, c)
    <3>1. sent \in Seq(Glyphs) /\ pending \in Seq(Glyphs) /\ c \in Glyphs
      BY <1>2, <1>3
    <3> QED
      BY <3>1, AppendBehind
  <2> QED
    BY <1>1, <1>2, <1>3, <1>4, <2>1
<1> HIDE DEF more
<1>6. Sending' /\ sink'.kind = sink.kind
  <2>1. CASE sink' \in OutputTo(sink, more) /\ pending' = <<>>
    <3>1. sink' \in SinkType /\ sink'.kind = sink.kind /\ Arrived(sink', sent \o more)
      BY <1>2, <1>4, <1>5, <2>1, OutputArrives
    <3>2. all' = all' \o <<>> /\ <<>> \in Seq(Glyphs)
      BY <1>5
    <3>3. Arrived(sink', all')
      BY <1>5, <3>1
    <3> QED
      BY <1>5, <2>1, <3>1, <3>2, <3>3 DEF Sending
  <2>2. CASE pending' = more /\ sink' = sink
    <3>1. Arrived(sink', sent)
      BY <1>4, <2>2
    <3> QED
      BY <1>2, <1>5, <2>2, <3>1 DEF Sending
  <2> QED
    BY <1>1, <2>1, <2>2
<1>7. Reading'
  BY <1>1, <1>3 DEF PrintInv, Reading
<1>8. AttributeKept'
  BY <1>1, <1>6 DEF PrintInv, AttributeKept
<1>9. phase' \in Phases /\ phase' # "done"
  BY <1>1 DEF PrintInv
<1>10. InFormat'
  BY <1>1, <1>6, PlaceStays
<1> QED
  BY <1>6, <1>7, <1>8, <1>9, <1>10 DEF PrintInv
(* A character that is read.                                               *)
LEMMA ReadyIs ==
  ASSUME PrintInv, NEW p, Ready(p)
  PROVE  /\ phase = p /\ queue = <<>> /\ index \in 1..Len(efmt) /\ index + 1 \in Nat \ {0}
         /\ efmt[index] \in STRING /\ efmt[index] \in Glyphs
<1>1. phase = p /\ queue = <<>> /\ index <= Len(efmt)
  BY DEF Ready
<1>2. efmt \in Seq(STRING) /\ index \in Nat \ {0}
  BY DEF PrintInv, Reading
<1>3. index \in 1..Len(efmt) /\ index + 1 \in Nat \ {0}
  BY <1>1, <1>2
<1>4. efmt[index] \in STRING
  BY <1>2, <1>3
<1>5. efmt[index] \in Glyphs
  BY <1>4, GlyphsAre, Zenon
<1> QED
  BY <1>1, <1>3, <1>4, <1>5, Zenon

(* Where nothing is sent, what was sent is the same.                       *)
LEMMA NothingSent ==
  ASSUME PrintInv, UNCHANGED <<pending, all, sink>>
  PROVE  Sending' /\ sink' = sink
<1>1. pending' = pending /\ all' = all /\ sink' = sink
  OBVIOUS
<1>2. /\ pending \in Seq(Glyphs) /\ all \in Seq(Glyphs) /\ sink \in SinkType
      /\ \E sent \in Seq(Glyphs) : all = sent \o pending /\ Arrived(sink, sent)
  BY DEF PrintInv, Sending
<1>3. PICK sent \in Seq(Glyphs) : all = sent \o pending /\ Arrived(sink, sent)
  BY <1>2
<1>4. all' = sent \o pending' /\ Arrived(sink, sent)'
  BY <1>1, <1>3
<1> QED
  BY <1>1, <1>2, <1>4 DEF Sending

(* A character of the text.                                                *)
LEMMA PlainStep == ASSUME PrintInv, PlainChar PROVE PrintInv'
<1> DEFINE c == efmt[index]
<1>1. /\ Ready("text") /\ index' = index + 1
      /\ UNCHANGED <<efmt, eargs, value, Attr, base, twice, pending, all, sink, prints>>
      /\ \/ /\ phase' = "item" /\ c = "%" /\ Item' = NewItem
            /\ RestoreAttr' = NoAttr /\ queue' = queue
         \/ queue' = Lined(<<c>>) /\ UNCHANGED <<phase, Item, RestoreAttr>>
  BY DEF PlainChar, Same
<1>2. phase = "text" /\ queue = <<>> /\ index + 1 \in Nat \ {0} /\ c \in Glyphs
  BY <1>1, ReadyIs
<1> HIDE DEF c
<1>3. /\ efmt \in Seq(STRING) /\ eargs \in Seq(Words) /\ Item \in ItemType /\ queue \in Seq(Glyphs)
  BY DEF PrintInv, Reading
<1>4. Lined(<<c>>) \in Seq(Glyphs)
  <2>1. <<c>> \in Seq(Glyphs)
    BY <1>2
  <2> QED
    BY <2>1, LinedIs
<1>5. Reading'
  BY <1>1, <1>2, <1>3, <1>4, NewItemIs DEF Reading
<1>6. Sending' /\ sink' = sink
  BY <1>1, NothingSent
<1>7. AttributeKept'
  <2>1. AttributeKept /\ NoAttr \in Attributes
    BY DEF PrintInv, Attributes
  <2>2. /\ phase' \in {"item", "text"} /\ Attr' = Attr /\ base' = base /\ twice' = twice
        /\ (Attr = base \/ twice)
    BY <1>1, <1>2, <2>1 DEF AttributeKept
  <2>3. CASE phase' = "item" /\ RestoreAttr' = NoAttr
    BY <1>6, <2>1, <2>2, <2>3 DEF AttributeKept
  <2>4. CASE phase' = phase /\ RestoreAttr' = RestoreAttr
    BY <1>2, <1>6, <2>1, <2>2, <2>4 DEF AttributeKept
  <2> QED
    BY <1>1, <2>3, <2>4
<1>8. phase' \in Phases /\ phase' # "done"
  BY <1>1, <1>2 DEF Phases
<1>9. InFormat'
  <2>1. c = "%" => efmt[index] \in OpenEnds
    BY Zenon DEF OpenEnds, c
  <2>2. phase' = "item" => c = "%"
    BY <1>1, <1>2
  <2> QED
    BY <1>1, <1>6, <2>1, <2>2, PlaceMoves
<1> QED
  BY <1>5, <1>6, <1>7, <1>8, <1>9 DEF PrintInv

(* A step within an item keeps the attributes.                             *)
LEMMA AttributeStays ==
  ASSUME PrintInv, phase \in {"item", "print", "restore"},
         phase' \in {"item", "print", "restore"},
         UNCHANGED <<Attr, RestoreAttr, base, twice>>, sink'.kind = sink.kind
  PROVE  AttributeKept'
<1>1. AttributeKept
  BY DEF PrintInv
<1> QED
  BY <1>1 DEF AttributeKept

(* The width that a number sets.                                           *)
LEMMA ItemSet ==
  ASSUME NEW item \in ItemType, NEW n \in Nat
  PROVE  [item EXCEPT ![item.parse] = n] \in ItemType
<1>1. item.parse \in {"Width", "FieldWidth"}
  BY DEF ItemType
<1>2. CASE item.parse = "Width"
  <2>1. [item EXCEPT ![item.parse] = n] = [item EXCEPT !.Width = n]
    BY <1>2
  <2> QED
    BY <2>1 DEF ItemType
<1>3. CASE item.parse = "FieldWidth"
  <2>1. [item EXCEPT ![item.parse] = n] = [item EXCEPT !.FieldWidth = n]
    BY <1>3
  <2> QED
    BY <2>1 DEF ItemType
<1> QED
  BY <1>1, <1>2, <1>3

(* A flag or a width.                                                      *)
LEMMA FlagStep == ASSUME PrintInv, ItemFlag PROVE PrintInv'
<1>1. Ready("item") /\ index' = index + 1 /\ efmt' = efmt /\ all' = all
  <2>1. Ready("item") /\ Same /\ index' = index + 1
    BY Zenon DEF ItemFlag
  <2> QED
    BY <2>1 DEF Same
<1>2. phase = "item" /\ queue = <<>> /\ index + 1 \in Nat \ {0}
  BY <1>1, ReadyIs
<1>3. /\ efmt \in Seq(STRING) /\ eargs \in Seq(Words) /\ Item \in ItemType /\ queue \in Seq(Glyphs)
  BY DEF PrintInv, Reading
<1> DEFINE nought == "0"
<1>4. nought \in Glyphs
  BY GlyphsAre, Zenon
<1>5. PICK item : SetsItem(item) /\ item \in ItemType /\ eargs' \in Seq(Words)
  <2>1. CASE eargs' = eargs /\ SetsItem([Item EXCEPT !.Comma = TRUE])
    <3>1. [Item EXCEPT !.Comma = TRUE] \in ItemType
      BY <1>3 DEF ItemType
    <3> QED
      BY <1>3, <2>1, <3>1
  <2>2. CASE eargs' = eargs /\ SetsItem([Item EXCEPT !.PadBefore = FALSE])
    <3>1. [Item EXCEPT !.PadBefore = FALSE] \in ItemType
      BY <1>3 DEF ItemType
    <3> QED
      BY <1>3, <2>2, <3>1
  <2>3. CASE eargs' = eargs /\ SetsItem([Item EXCEPT !.parse = "FieldWidth"])
    <3>1. [Item EXCEPT !.parse = "FieldWidth"] \in ItemType
      BY <1>3 DEF ItemType
    <3> QED
      BY <1>3, <2>3, <3>1
  <2>4. CASE eargs' = eargs /\ SetsItem([Item EXCEPT !.Pad = nought])
    <3>1. [Item EXCEPT !.Pad = nought] \in ItemType
      <4> HIDE DEF nought
      <4> QED
        BY <1>3, <1>4 DEF ItemType
    <3> QED
      BY <1>3, <2>4, <3>1
  <2>5. CASE eargs' = eargs /\ SetsItem([Item EXCEPT !.Long = TRUE])
    <3>1. [Item EXCEPT !.Long = TRUE] \in ItemType
      BY <1>3 DEF ItemType
    <3> QED
      BY <1>3, <2>5, <3>1
  <2>6. CASE /\ efmt[index] \in DOMAIN WidthOf \ {"0"} /\ eargs' = eargs
             /\ SetsItem([Item EXCEPT ![Item.parse] = WidthOf[efmt[index]]])
    <3>1. WidthOf[efmt[index]] \in Nat
      BY <2>6, PrintAssumption
    <3>2. [Item EXCEPT ![Item.parse] = WidthOf[efmt[index]]] \in ItemType
      BY <1>3, <3>1, ItemSet
    <3> QED
      BY <1>3, <2>6, <3>2
  <2>7. CASE /\ HasArgument /\ eargs' = Tail(eargs)
             /\ SetsItem([Item EXCEPT ![Item.parse] = IntoBits(Head(eargs).number, Uint64Bits)])
    <3>1. Head(eargs) \in Words /\ eargs' \in Seq(Words)
      BY <1>3, <2>7 DEF HasArgument
    <3>2. Head(eargs).number \in Int
      BY <3>1 DEF Words
    <3>3. 2^Uint64Bits \in Nat \ {0}
      BY PrintAssumption
    <3>4. IntoBits(Head(eargs).number, Uint64Bits) \in Nat
      BY <3>2, <3>3, BitsAre
    <3>5. [Item EXCEPT ![Item.parse] = IntoBits(Head(eargs).number, Uint64Bits)] \in ItemType
      BY <1>3, <3>4, ItemSet
    <3> QED
      BY <2>7, <3>1, <3>5
  <2> QED
    BY <2>1, <2>2, <2>3, <2>4, <2>5, <2>6, <2>7, Zenon DEF ItemFlag
<1>6. /\ Item' = item
      /\ UNCHANGED <<phase, Attr, RestoreAttr, base, twice, queue, pending, sink>>
  BY <1>5 DEF SetsItem
<1>7. Reading'
  BY <1>1, <1>2, <1>3, <1>5, <1>6 DEF Reading
<1>8. Sending' /\ sink' = sink
  BY <1>1, <1>6, NothingSent
<1>9. AttributeKept'
  BY <1>2, <1>6, <1>8, AttributeStays
<1>10. phase' \in Phases /\ phase' # "done"
  BY <1>2, <1>6 DEF Phases
<1>11. InFormat'
  <2>1. efmt[index] \in {",", "-", ".", "0", "l", "*"} \cup DOMAIN WidthOf
    BY Zenon DEF ItemFlag
  <2>2. efmt[index] \in OpenEnds
    BY <2>1, Zenon DEF OpenEnds
  <2> QED
    BY <1>1, <1>8, <2>2, PlaceMoves
<1> QED
  BY <1>7, <1>8, <1>9, <1>10, <1>11 DEF PrintInv
(* The attributes are such.                                                *)
LEMMA ColoursAre ==
  /\ \A c \in DOMAIN Colours : Colours[c] \in Attributes /\ Colours[c] # NoAttr
  /\ \A c \in DOMAIN Lasting : Lasting[c] \in Attributes /\ Lasting[c] # NoAttr
<1>1. \A a \in {"normal", "highlight", "error"} : a \in Attributes /\ a # NoAttr
  BY DEF Attributes, NoAttr
<1>2. ASSUME NEW c \in DOMAIN Colours PROVE Colours[c] \in {"normal", "highlight", "error"}
  BY DEF Colours
<1>3. ASSUME NEW c \in DOMAIN Lasting PROVE Lasting[c] \in {"normal", "highlight", "error"}
  BY DEF Lasting
<1> QED
  BY <1>1, <1>2, <1>3

(* An attribute, for the field or from here on.                            *)
LEMMA AttrStep == ASSUME PrintInv, ItemAttr PROVE PrintInv'
<1> DEFINE c == efmt[index]
<1>1. /\ Ready("item") /\ index' = index + 1
      /\ UNCHANGED <<efmt, eargs, Item, value, queue, all, prints>>
  <2>1. /\ Ready("item") /\ Same /\ index' = index + 1
        /\ UNCHANGED <<eargs, Item, value, queue>>
    BY Zenon DEF ItemAttr
  <2> QED
    BY <2>1 DEF Same
<1>2. phase = "item" /\ queue = <<>> /\ index + 1 \in Nat \ {0}
  BY <1>1, ReadyIs
<1>3. /\ efmt \in Seq(STRING) /\ eargs \in Seq(Words) /\ Item \in ItemType /\ queue \in Seq(Glyphs)
  BY DEF PrintInv, Reading
<1>4. Reading'
  BY <1>1, <1>2, <1>3 DEF Reading
<1>5. /\ AttributeKept /\ Attr \in Attributes /\ RestoreAttr \in Attributes /\ NoAttr \in Attributes
      /\ (sink.kind = "console" => Attr # NoAttr)
      /\ (sink.kind # "console" => Attr = NoAttr /\ RestoreAttr = NoAttr)
      /\ (base = IF RestoreAttr = NoAttr THEN Attr ELSE RestoreAttr) \/ twice
  BY <1>2 DEF PrintInv, AttributeKept, Attributes
<1>6. CASE /\ c \in DOMAIN Colours /\ PSETATTR(Attribute(Colours[c]))
           /\ RestoreAttr' = SavedAttr(Colours[c])
           /\ twice' = (twice \/ RestoreAttr # NoAttr)
           /\ UNCHANGED <<phase, base>>
  <2>1. PFLUSH /\ Attr' = Attribute(Colours[c]) /\ RestoreAttr' = Attr /\ phase' = "item"
        /\ base' = base
    BY <1>2, <1>6 DEF PSETATTR, SavedAttr
  <2>2. Sending' /\ sink'.kind = sink.kind
    BY <1>1, <2>1, Flushed
  <2>3. Colours[c] \in Attributes /\ Colours[c] # NoAttr
    BY <1>6, ColoursAre
  <2>4. /\ (sink.kind = "console" => Attr' = Colours[c])
        /\ (sink.kind # "console" => Attr' = NoAttr)
    BY <2>1 DEF Attribute
  <2>5. AttributeKept'
    <3>1. sink.kind = "console" => (base' = RestoreAttr' \/ twice') /\ RestoreAttr' # NoAttr
      <4>1. CASE RestoreAttr # NoAttr
        BY <1>5, <1>6, <2>1, <4>1
      <4>2. CASE RestoreAttr = NoAttr
        BY <1>5, <1>6, <2>1, <4>2
      <4> QED
        BY <4>1, <4>2
    <3>2. sink.kind # "console" => (base' = NoAttr \/ twice') /\ RestoreAttr' = NoAttr
      BY <1>5, <1>6, <2>1
    <3> QED
      BY <1>5, <2>1, <2>2, <2>3, <2>4, <3>1, <3>2 DEF AttributeKept
  <2>6. InFormat'
    <3>1. c \in OpenEnds
      BY <1>6, Zenon DEF OpenEnds
    <3> QED
      BY <1>1, <2>2, <3>1, PlaceMoves
  <2> QED
    BY <1>4, <2>1, <2>2, <2>5, <2>6 DEF PrintInv, Phases
<1>7. CASE /\ c \in DOMAIN Lasting /\ sink.kind = "console"
           /\ PSETATTR(Lasting[c]) /\ RestoreAttr' = NoAttr
           /\ base' = Lasting[c] /\ twice' = FALSE /\ phase' = "text"
  <2>1. PFLUSH /\ Attr' = Lasting[c] /\ base' = Attr' /\ RestoreAttr' = NoAttr /\ phase' = "text"
    BY <1>7 DEF PSETATTR
  <2>2. Sending' /\ sink'.kind = "console"
    BY <1>1, <1>7, <2>1, Flushed
  <2>3. Lasting[c] \in Attributes /\ Lasting[c] # NoAttr
    BY <1>7, ColoursAre
  <2>4. AttributeKept'
    BY <1>5, <2>1, <2>2, <2>3 DEF AttributeKept
  <2>5. InFormat'
    BY <1>1, <1>7, <2>1, <2>2, PlaceMoves
  <2> QED
    BY <1>4, <2>1, <2>2, <2>4, <2>5 DEF PrintInv, Phases
<1>8. CASE /\ c \in DOMAIN Lasting /\ sink.kind # "console"
           /\ UNCHANGED <<phase, Attr, RestoreAttr, base, twice, pending, sink>>
  <2>1. Sending' /\ sink' = sink
    BY <1>1, <1>8, NothingSent
  <2>2. AttributeKept'
    BY <1>2, <1>8, <2>1, AttributeStays
  <2>3. InFormat'
    <3>1. c \in OpenEnds
      BY <1>8, Zenon DEF OpenEnds
    <3> QED
      BY <1>1, <2>1, <3>1, PlaceMoves
  <2> QED
    BY <1>2, <1>4, <1>8, <2>1, <2>2, <2>3 DEF PrintInv, Phases
<1> QED
  BY <1>6, <1>7, <1>8, Zenon DEF ItemAttr

(* A text is taken for an item.                                            *)
LEMMA TakesStep ==
  ASSUME PrintInv, Ready("item"), efmt' = efmt, all' = all, index' = index + 1,
         eargs' \in Seq(Words), NEW item \in ItemType, NEW text \in Seq(Glyphs),
         Takes(text, item)
  PROVE  PrintInv'
<1>1. /\ Item' = [item EXCEPT !.text = text] /\ phase' = "print"
      /\ UNCHANGED <<Attr, RestoreAttr, base, twice, queue, pending, sink>>
  BY DEF Takes
<1>2. phase = "item" /\ queue = <<>> /\ index + 1 \in Nat \ {0}
  BY ReadyIs
<1>3. efmt \in Seq(STRING) /\ queue \in Seq(Glyphs)
  BY DEF PrintInv, Reading
<1>4. Item' \in ItemType
  BY <1>1 DEF ItemType
<1>5. Reading'
  BY <1>1, <1>2, <1>3, <1>4 DEF Reading
<1>6. Sending' /\ sink' = sink
  BY <1>1, NothingSent
<1>7. AttributeKept'
  BY <1>1, <1>2, <1>6, AttributeStays
<1>8. InFormat'
  BY <1>1, <1>6, PlaceMoves
<1> QED
  BY <1>1, <1>5, <1>6, <1>7, <1>8 DEF PrintInv, Phases

(* The value of a number is one.                                           *)
LEMMA SignedIs ==
  ASSUME NEW n \in Int, NEW bits, 2^bits \in Nat \ {0}
  PROVE  SignedOf(n, bits) \in Int
<1>1. PICK x \in Nat, w \in Nat : x = IntoBits(n, bits) /\ w = 2^bits
  BY BitsAre
<1> QED
  BY <1>1 DEF SignedOf

(* A number.                                                               *)
LEMMA NumberStep == ASSUME PrintInv, NumberItem PROVE PrintInv'
<1> DEFINE c == efmt[index]
           n == Head(eargs).number
           fraction == Head(eargs).text
           point == "."
           nought == "0"
           ex == "x"
<1>1. /\ Ready("item") /\ index' = index + 1 /\ efmt' = efmt /\ all' = all
  <2>1. /\ Ready("item") /\ Same /\ index' = index + 1
    BY Zenon DEF NumberItem
  <2> QED
    BY <2>1 DEF Same
<1>2. /\ c \in {"d", "u", "f", "x", "X", "p"} /\ HasArgument /\ eargs' = Tail(eargs)
      /\ value' = CASE c = "d" -> SignedOf(n, ItemBits)
                    [] c = "u" -> SignedOf(IntoBits(n, ItemBits), Uint64Bits)
                    [] c = "f" -> SignedOf(n, Uint64Bits)
                    [] OTHER -> IntoBits(n, ItemBits)
      /\ CASE c \in {"d", "u"} -> Takes(ValueToString(value'), Item)
           [] c = "f" -> Takes(FloatToString(value', fraction), Item)
           [] c = "x" -> Takes(DigitsOf(value', 16), Item)
           [] c = "X" -> Takes(DigitsOf(value', 16),
                               [Item EXCEPT !.Width = IF Item.Long THEN 16 ELSE 8, !.Pad = nought])
           [] c = "p" -> Takes(<<nought, ex>> \o DigitsOf(value', 16),
                               [Item EXCEPT !.Width = 0, !.Pad = nought])
  BY Zenon DEF NumberItem
<1>3. eargs \in Seq(Words) /\ Item \in ItemType
  BY DEF PrintInv, Reading
<1>4. n \in Int /\ eargs' \in Seq(Words)
  <2>1. Head(eargs) \in Words /\ Tail(eargs) \in Seq(Words)
    BY <1>2, <1>3 DEF HasArgument
  <2> QED
    BY <1>2, <2>1 DEF Words
<1>5. 2^ItemBits \in Nat \ {0} /\ 2^Uint64Bits \in Nat \ {0}
  BY PrintAssumption DEF ItemBits
<1>b. fraction \in Seq(Glyphs)
  <2>1. Head(eargs) \in Words
    BY <1>2, <1>3 DEF HasArgument
  <2>2. PICK t \in Seq(STRING) : t = fraction
    BY <2>1 DEF Words
  <2>3. t = [i \in 1..Len(t) |-> t[i]] /\ Len(t) \in Nat /\ \A i \in 1..Len(t) : t[i] \in STRING
    OBVIOUS
  <2>4. \A i \in 1..Len(t) : t[i] \in Glyphs
    BY <2>3, GlyphsAre, Zenon
  <2>5. t \in Seq(Glyphs)
    BY <2>3, <2>4
  <2> QED
    BY <2>2, <2>5
<1> HIDE DEF n, fraction
<1>6. /\ SignedOf(n, ItemBits) \in Int /\ IntoBits(n, ItemBits) \in Nat
      /\ SignedOf(IntoBits(n, ItemBits), Uint64Bits) \in Int
      /\ SignedOf(n, Uint64Bits) \in Int
  <2>1. SignedOf(n, ItemBits) \in Int
    BY <1>4, <1>5, SignedIs
  <2>2. IntoBits(n, ItemBits) \in Nat
    BY <1>4, <1>5, BitsAre
  <2>3. PICK m \in Int : m = IntoBits(n, ItemBits)
    BY <2>2
  <2>4. SignedOf(m, Uint64Bits) \in Int /\ SignedOf(n, Uint64Bits) \in Int
    BY <1>4, <1>5, <2>3, SignedIs
  <2> QED
    BY <2>1, <2>2, <2>3, <2>4
<1>7. nought \in Glyphs /\ ex \in Glyphs /\ point \in Glyphs
  BY GlyphsAre, Zenon
<1> HIDE DEF nought, ex, c, point
<1>8. PICK v \in Int : v = value' /\ (c \notin {"d", "u", "f"} => v \in Nat)
  <2>1. CASE c = "d"
    BY <1>2, <1>6, <2>1
  <2>2. CASE c = "u"
    BY <1>2, <1>6, <2>2
  <2>3. CASE c = "f"
    BY <1>2, <1>6, <2>3
  <2>4. CASE c \notin {"d", "u", "f"}
    BY <1>2, <1>6, <2>4
  <2> QED
    BY <2>1, <2>2, <2>3, <2>4
<1>9. \E text \in Seq(Glyphs), item \in ItemType : Takes(text, item)
  <2>1. CASE c \in {"d", "u"}
    <3>1. Takes(ValueToString(v), Item)
      BY <1>2, <1>8, <2>1
    <3> QED
      BY <1>3, <1>8, <3>1, ValueIs
  <2>6. CASE c = "f"
    <3>1. Takes(FloatToString(v, fraction), Item)
      BY <1>2, <1>8, <2>6
    <3>2. ValueToString(v) \in Seq(Glyphs)
      BY <1>3, <1>8, ValueIs
    <3>3. <<point>> \in Seq(Glyphs) /\ FloatToString(v, fraction) = ValueToString(v) \o <<point>> \o fraction
      BY <1>7 DEF FloatToString, point
    <3>4. FloatToString(v, fraction) \in Seq(Glyphs)
      BY <1>b, <3>2, <3>3
    <3> QED
      BY <1>3, <3>1, <3>4
  <2>2. c \notin {"d", "u", "f"} => DigitsOf(v, 16) \in Seq(Glyphs)
    <3>1. 16 \in 2..16
      OBVIOUS
    <3> QED
      BY <1>8, <3>1, DigitsAre
  <2>3. CASE c = "x"
    <3>1. Takes(DigitsOf(v, 16), Item) /\ DigitsOf(v, 16) \in Seq(Glyphs)
      BY <1>2, <1>8, <2>2, <2>3
    <3> QED
      BY <1>3, <3>1
  <2>4. CASE c = "X"
    <3>1. /\ Takes(DigitsOf(v, 16),
                   [Item EXCEPT !.Width = IF Item.Long THEN 16 ELSE 8, !.Pad = nought])
          /\ DigitsOf(v, 16) \in Seq(Glyphs)
      BY <1>2, <1>8, <2>2, <2>4
    <3>2. [Item EXCEPT !.Width = IF Item.Long THEN 16 ELSE 8, !.Pad = nought] \in ItemType
      BY <1>3, <1>7 DEF ItemType
    <3> QED
      BY <3>1, <3>2
  <2>5. CASE c = "p"
    <3>1. /\ Takes(<<nought, ex>> \o DigitsOf(v, 16),
                   [Item EXCEPT !.Width = 0, !.Pad = nought])
          /\ DigitsOf(v, 16) \in Seq(Glyphs)
      BY <1>2, <1>8, <2>2, <2>5
    <3>2. [Item EXCEPT !.Width = 0, !.Pad = nought] \in ItemType
      BY <1>3, <1>7 DEF ItemType
    <3>3. <<nought, ex>> \in Seq(Glyphs)
      BY <1>7
    <3>4. <<nought, ex>> \o DigitsOf(v, 16) \in Seq(Glyphs)
      BY <3>1, <3>3
    <3> QED
      BY <3>1, <3>2, <3>4
  <2> QED
    BY <1>2, <2>1, <2>3, <2>4, <2>5, <2>6
<1> QED
  BY <1>1, <1>4, <1>9, TakesStep
(* A text.                                                                 *)
LEMMA TextStep == ASSUME PrintInv, TextItem PROVE PrintInv'
<1> DEFINE open == "("
           null == "null"
           close == ")"
           percent == "%"
           query == "?"
<1>1. /\ Ready("item") /\ index' = index + 1 /\ efmt' = efmt /\ all' = all
  <2>1. /\ Ready("item") /\ Same /\ index' = index + 1
    BY Zenon DEF TextItem
  <2> QED
    BY <2>1 DEF Same
<1>2. eargs \in Seq(Words) /\ Item \in ItemType
  BY DEF PrintInv, Reading
<1>3. /\ open \in Glyphs /\ null \in Glyphs /\ close \in Glyphs /\ percent \in Glyphs
      /\ query \in Glyphs /\ (\A c \in STRING : c \in Glyphs)
  BY GlyphsAre, Zenon
<1> DEFINE none == <<open, null, close>>
           passed(t) == IF t = <<"NULL">> THEN none ELSE t
<1>4. \/ HasArgument /\ eargs' = Tail(eargs) /\ Takes(passed(Head(eargs).text), Item)
      \/ eargs' = eargs /\ Takes(<<percent>>, Item)
      \/ eargs' = eargs /\ Takes(<<query>>, Item)
  BY DEF TextItem
<1> HIDE DEF open, null, close, percent, query
<1>5. none \in Seq(Glyphs) /\ <<percent>> \in Seq(Glyphs) /\ <<query>> \in Seq(Glyphs)
  BY <1>3
<1> HIDE DEF none
<1>6. eargs' \in Seq(Words) /\ \E text \in Seq(Glyphs) : Takes(text, Item)
  <2>1. CASE HasArgument /\ eargs' = Tail(eargs) /\ Takes(passed(Head(eargs).text), Item)
    <3>1. Head(eargs) \in Words /\ Tail(eargs) \in Seq(Words)
      BY <1>2, <2>1 DEF HasArgument
    <3>2. PICK t \in Seq(STRING) : t = Head(eargs).text
      BY <3>1 DEF Words
    <3>a. t = [i \in 1..Len(t) |-> t[i]] /\ Len(t) \in Nat /\ \A i \in 1..Len(t) : t[i] \in STRING
      OBVIOUS
    <3>b. \A i \in 1..Len(t) : t[i] \in Glyphs
      BY <1>3, <3>a, Zenon
    <3>3. t \in Seq(Glyphs)
      BY <3>a, <3>b
    <3>4. passed(t) \in Seq(Glyphs)
      BY <1>5, <3>3
    <3> QED
      BY <2>1, <3>1, <3>2, <3>4
  <2>2. CASE eargs' = eargs /\ Takes(<<percent>>, Item)
    BY <1>2, <1>5, <2>2
  <2>3. CASE eargs' = eargs /\ Takes(<<query>>, Item)
    BY <1>2, <1>5, <2>3
  <2> QED
    BY <1>4, <2>1, <2>2, <2>3
<1> QED
  BY <1>1, <1>2, <1>6, TakesStep

(* What is put into the field is a text.                                   *)
LEMMA PitemStep == ASSUME PrintInv, PITEM PROVE PrintInv'
<1> DEFINE len == IF Item.FieldWidth = Unset THEN Len(Item.text)
                  ELSE Min({Len(Item.text), Item.FieldWidth})
           field == IF Item.FieldWidth = Unset THEN len ELSE Item.FieldWidth
           width == Max({len, Item.Width})
           pads == Pads(width - len)
           cut == SubSeq(Item.text, 1, len)
           text == pads \o cut
           space == Spaces(Over(field, width))
           whole == IF Item.PadBefore THEN space \o text ELSE text \o space
<1>1. /\ phase = "print" /\ queue = <<>> /\ queue' = Lined(whole) /\ phase' = "restore"
      /\ UNCHANGED <<efmt, eargs, index, Item, value, Attr, RestoreAttr, base, twice, pending,
                     all, sink, prints>>
  BY DEF PITEM
<1>2. Item \in ItemType /\ efmt \in Seq(STRING) /\ eargs \in Seq(Words) /\ index \in Nat \ {0}
  BY DEF PrintInv, Reading
<1>3. /\ Item.text \in Seq(Glyphs) /\ Item.FieldWidth \in Nat /\ Item.Width \in Nat
      /\ Item.Pad \in Glyphs /\ Len(Item.text) \in Nat
  BY <1>2 DEF ItemType
<1>4. len \in Nat /\ len <= Len(Item.text)
  BY <1>3, MinOfTwo
<1> HIDE DEF len
<1>5. field \in Nat
  BY <1>3, <1>4
<1> HIDE DEF field
<1>6. width \in Nat /\ width >= len
  BY <1>3, <1>4, MaxOfTwo
<1> HIDE DEF width
<1>7. pads \in Seq(Glyphs)
  <2>1. PICK k \in Nat : k = width - len
    BY <1>4, <1>6
  <2>2. PICK z : z = [i \in 1..k |-> Item.Pad]
    OBVIOUS
  <2>3. z = [i \in 1..k |-> z[i]] /\ \A i \in 1..k : z[i] \in Glyphs
    BY <1>3, <2>2
  <2>4. z \in Seq(Glyphs)
    BY <2>3
  <2> QED
    BY <2>1, <2>2, <2>4 DEF Pads
<1> HIDE DEF pads
<1>8. space \in Seq(Glyphs)
  <2> DEFINE blank == " "
  <2>0. blank \in Glyphs
    BY GlyphsAre, Zenon
  <2>1. PICK d \in Int : d = field - width
    BY <1>5, <1>6
  <2>2. PICK k \in Nat : k = Over(field, width)
    <3>1. Max({d, 0}) = Max({0, d})
      BY Zenon
    <3>2. Max({0, d}) \in Nat
      BY MaxOfTwo
    <3>3. Over(field, width) = Max({d, 0})
      BY <2>1 DEF Over
    <3> QED
      BY <3>1, <3>2, <3>3
  <2>a. Spaces(k) = [i \in 1..k |-> blank]
    BY Zenon DEF Spaces
  <2> HIDE DEF blank
  <2>3. PICK z : z = [i \in 1..k |-> blank]
    OBVIOUS
  <2>4. space = z
    BY <2>2, <2>3, <2>a, Zenon
  <2> HIDE DEF space
  <2>5. z = [i \in 1..k |-> z[i]] /\ \A i \in 1..k : z[i] \in Glyphs
    BY <2>0, <2>3
  <2>6. z \in Seq(Glyphs)
    BY <2>5
  <2> QED
    BY <2>4, <2>6
<1> HIDE DEF space
<1>9. cut \in Seq(Glyphs)
  <2>1. \A i \in 1..len : Item.text[i] \in Glyphs
    <3>1. ASSUME NEW i \in 1..len PROVE Item.text[i] \in Glyphs
      <4>1. i \in 1..Len(Item.text)
        BY <1>3, <1>4
      <4> QED
        BY <1>3, <4>1
    <3> QED
      BY <3>1
  <2> QED
    BY <1>3, <1>4, <2>1
<1> HIDE DEF cut
<1>10. text \in Seq(Glyphs)
  BY <1>7, <1>9
<1> HIDE DEF text
<1>11. whole \in Seq(Glyphs)
  BY <1>8, <1>10
<1> HIDE DEF whole
<1>12. Lined(whole) \in Seq(Glyphs)
  BY <1>11, LinedIs
<1>13. Reading'
  BY <1>1, <1>2, <1>12 DEF Reading
<1>14. Sending' /\ sink' = sink
  BY <1>1, NothingSent
<1>15. AttributeKept'
  BY <1>1, <1>14, AttributeStays
<1>16. InFormat'
  BY <1>1, <1>14, PlaceStays
<1> QED
  BY <1>1, <1>13, <1>14, <1>15, <1>16 DEF PrintInv, Phases

(* The NUL ends a directive that waits for its field.                      *)
LEMMA ItemEndsStep == ASSUME PrintInv, ItemEnds PROVE PrintInv'
<1>1. /\ phase = "item" /\ queue = <<>> /\ index = Len(efmt) + 1
      /\ index' = index + 1 /\ phase' = "restore"
      /\ UNCHANGED <<efmt, eargs, Item, value, Attr, RestoreAttr, base, twice, queue, pending,
                     all, sink, prints>>
  BY DEF ItemEnds
<1>2. efmt \in Seq(STRING) /\ Reading /\ InFormat
  BY DEF PrintInv, Reading
<1>3. PICK n \in Nat : n = Len(efmt)
  BY <1>2
<1>4. index = n + 1 /\ index' \in Nat \ {0} /\ index - 1 = n
  BY <1>1, <1>3
<1>5. n # 0 /\ efmt[n] \in OpenEnds
  BY <1>1, <1>2, <1>3, <1>4 DEF InFormat
<1>6. Reading'
  BY <1>1, <1>2, <1>4 DEF Reading
<1>7. Sending' /\ sink' = sink
  BY <1>1, NothingSent
<1>8. AttributeKept'
  BY <1>1, <1>7, AttributeStays
<1>9. InFormat'
  <2>1. OpenEnds' = OpenEnds
    BY <1>1 DEF OpenEnds
  <2>2. efmt # <<>> /\ Last(efmt) = efmt[n]
    BY <1>2, <1>3, <1>5 DEF Last
  <2> QED
    BY <1>1, <1>5, <2>1, <2>2 DEF InFormat, StopsAtEnd
<1> QED
  BY <1>1, <1>6, <1>7, <1>8, <1>9 DEF PrintInv, Phases

(* The attribute of before the field.                                      *)
LEMMA RestoreAttrStep == ASSUME PrintInv, Restore PROVE PrintInv'
<1>1. /\ phase = "restore" /\ phase' = "text" /\ RestoreAttr' = NoAttr
      /\ UNCHANGED <<efmt, eargs, index, Item, value, base, twice, queue, all, prints>>
      /\ \/ RestoreAttr # NoAttr /\ PSETATTR(RestoreAttr)
         \/ RestoreAttr = NoAttr /\ UNCHANGED <<Attr, pending, sink>>
  BY DEF Restore
<1>2. /\ AttributeKept /\ Attr \in Attributes /\ RestoreAttr \in Attributes /\ NoAttr \in Attributes
      /\ (sink.kind = "console" => Attr # NoAttr)
      /\ (sink.kind # "console" => Attr = NoAttr /\ RestoreAttr = NoAttr)
      /\ (base = IF RestoreAttr = NoAttr THEN Attr ELSE RestoreAttr) \/ twice
  BY <1>1 DEF PrintInv, AttributeKept, Attributes
<1>3. Reading'
  BY <1>1 DEF PrintInv, Reading
<1>4. CASE RestoreAttr # NoAttr /\ PSETATTR(RestoreAttr)
  <2>1. PFLUSH /\ Attr' = RestoreAttr
    BY <1>4 DEF PSETATTR
  <2>2. Sending' /\ sink'.kind = sink.kind
    BY <1>1, <2>1, Flushed
  <2>3. AttributeKept'
    BY <1>1, <1>2, <1>4, <2>1, <2>2 DEF AttributeKept
  <2>4. InFormat'
    BY <1>1, <2>2, PlaceStays
  <2> QED
    BY <1>1, <1>3, <2>2, <2>3, <2>4 DEF PrintInv, Phases
<1>5. CASE RestoreAttr = NoAttr /\ UNCHANGED <<Attr, pending, sink>>
  <2>1. Sending' /\ sink' = sink
    BY <1>1, <1>5, NothingSent
  <2>2. AttributeKept'
    BY <1>1, <1>2, <1>5, <2>1 DEF AttributeKept
  <2>3. InFormat'
    BY <1>1, <2>1, PlaceStays
  <2> QED
    BY <1>1, <1>3, <2>1, <2>2, <2>3 DEF PrintInv, Phases
<1> QED
  BY <1>1, <1>4, <1>5

(* What lies behind the NUL is taken for a format.                         *)
LEMMA ReadOnStep == ASSUME PrintInv, ReadOn PROVE PrintInv'
<1>1. /\ phase = "text" /\ phase' = "text" /\ index' = 1
      /\ UNCHANGED <<Item, value, Attr, RestoreAttr, base, twice, queue, pending, all, sink>>
      /\ \E f \in BehindFormats : efmt' = f[1] /\ eargs' = eargs \o f[2]
  BY DEF ReadOn
<1>2. PICK f \in BehindFormats : efmt' = f[1] /\ eargs' = eargs \o f[2]
  BY <1>1
<1>3. f \in Seq(STRING) \X Seq(Words)
  BY <1>2, PrintAssumption DEF Words
<1>4. efmt' \in Seq(STRING) /\ eargs' \in Seq(Words) /\ 1 \in Nat \ {0}
  <2>1. f[2] \in Seq(Words) /\ eargs \in Seq(Words)
    BY <1>3 DEF PrintInv, Reading
  <2>2. eargs \o f[2] \in Seq(Words)
    BY <2>1, ConcatProperties
  <2> QED
    BY <1>2, <1>3, <2>2
<1>5. Reading'
  BY <1>1, <1>4 DEF PrintInv, Reading
<1>6. Sending' /\ sink' = sink
  BY <1>1, NothingSent
<1>7. AttributeKept'
  <2>1. AttributeKept
    BY DEF PrintInv
  <2> QED
    BY <1>1, <1>6, <2>1 DEF AttributeKept
<1>8. InFormat'
  BY <1>1, <1>4, PlaceBegins
<1> QED
  BY <1>1, <1>5, <1>6, <1>7, <1>8 DEF PrintInv, Phases

(* The end of the format.                                                  *)
LEMMA DoneStep == ASSUME PrintInv, PrintDone PROVE PrintInv'
<1>1. /\ phase = "text" /\ queue = <<>> /\ phase' = "done" /\ PFLUSH
      /\ UNCHANGED <<efmt, eargs, index, Item, value, Attr, RestoreAttr, base, twice, queue, all,
                     prints>>
  BY DEF PrintDone
<1>2. Sending' /\ sink'.kind = sink.kind /\ Terminated(sink)' /\ pending' = <<>>
  BY <1>1, Flushed
<1>3. Reading'
  BY <1>1 DEF PrintInv, Reading
<1>4. AttributeKept'
  <2>1. AttributeKept
    BY DEF PrintInv
  <2> QED
    BY <1>1, <1>2, <2>1 DEF AttributeKept
<1>5. InFormat'
  BY <1>1, <1>2, PlaceStays
<1> QED
  BY <1>1, <1>2, <1>3, <1>4, <1>5 DEF PrintInv, Phases

(* Another text.                                                           *)
LEMMA CatStep == ASSUME PrintInv, CatPrint PROVE PrintInv'
<1>1. /\ phase = "done" /\ phase' = "text" /\ index' = 1
      /\ UNCHANGED <<Item, value, Attr, RestoreAttr, base, twice, queue, pending, all, sink>>
      /\ \E f \in EfiFormats : efmt' = f[1] /\ eargs' = f[2]
  BY DEF CatPrint
<1>2. PICK f \in EfiFormats : efmt' = f[1] /\ eargs' = f[2]
  BY <1>1
<1>3. f \in Seq(STRING) \X Seq(Words)
  BY <1>2, PrintAssumption DEF Words
<1>4. efmt' \in Seq(STRING) /\ eargs' \in Seq(Words) /\ 1 \in Nat \ {0}
  BY <1>2, <1>3
<1>5. Reading'
  BY <1>1, <1>4 DEF PrintInv, Reading
<1>6. Sending' /\ sink' = sink
  BY <1>1, NothingSent
<1>7. AttributeKept'
  <2>1. AttributeKept
    BY DEF PrintInv
  <2> QED
    BY <1>1, <1>6, <2>1 DEF AttributeKept
<1>8. InFormat'
  BY <1>1, <1>4, PlaceBegins
<1> QED
  BY <1>1, <1>5, <1>6, <1>7, <1>8 DEF PrintInv, Phases
(* No step breaks the invariant.                                           *)
LEMMA PrintInductive ==
  ASSUME PrintInv, [EfiPrintNext]_efiPrintVars PROVE PrintInv'
<1>1. CASE EfiPrintNext
  <2>1. CASE PPUTC
    BY <2>1, PutStep
  <2>2. CASE PlainChar
    BY <2>2, PlainStep
  <2>3. CASE ItemFlag
    BY <2>3, FlagStep
  <2>4. CASE ItemAttr
    BY <2>4, AttrStep
  <2>5. CASE NumberItem
    BY <2>5, NumberStep
  <2>6. CASE TextItem
    BY <2>6, TextStep
  <2>7. CASE PITEM
    BY <2>7, PitemStep
  <2>8. CASE Restore
    BY <2>8, RestoreAttrStep
  <2>9. CASE PrintDone
    BY <2>9, DoneStep
  <2>10. CASE CatPrint
    BY <2>10, CatStep
  <2>11. CASE ItemEnds
    BY <2>11, ItemEndsStep
  <2>12. CASE ReadOn
    BY <2>12, ReadOnStep
  <2> QED
    BY <1>1, <2>1, <2>2, <2>3, <2>4, <2>5, <2>6, <2>7, <2>8, <2>9, <2>10, <2>11, <2>12
       DEF EfiPrintNext
<1>2. CASE UNCHANGED efiPrintVars
  <2>1. /\ UNCHANGED <<efmt, eargs, index, phase, Item, Attr, RestoreAttr, base, twice, queue>>
        /\ UNCHANGED <<pending, all, sink>>
    BY <1>2 DEF efiPrintVars
  <2>2. Sending' /\ sink' = sink
    BY <2>1, NothingSent
  <2>3. Reading' /\ AttributeKept'
    BY <2>1, <2>2 DEF PrintInv, Reading, AttributeKept
  <2>4. Terminated(sink) => Terminated(sink)'
    BY <2>2
  <2>5. (phase \in Phases)' /\ (phase = "done" => queue = <<>> /\ pending = <<>> /\ Terminated(sink))'
    BY <2>1, <2>4 DEF PrintInv
  <2>6. InFormat'
    BY <2>1, <2>2, PlaceStays
  <2> QED
    BY <2>2, <2>3, <2>5, <2>6 DEF PrintInv
<1> QED
  BY <1>1, <1>2

(* The end of a text is a suffix of it.                                    *)
LEMMA EndIsSuffix ==
  ASSUME NEW S, NEW R, NEW text \in Seq(R), NEW whole \in Seq(S), Len(text) <= Len(whole),
         \A i \in 1..Len(text) : text[i] = whole[Len(whole) - Len(text) + i]
  PROVE  IsSuffix(text, whole)
<1> DEFINE n == Len(text)
           m == Len(whole)
           r == Reverse(text)
           w == Reverse(whole)
<1>1. n \in Nat /\ m \in Nat /\ n <= m
  OBVIOUS
<1>a. \A i \in 1..n : text[i] = whole[m - n + i]
  OBVIOUS
<1>2. /\ r \in Seq(R) /\ Len(r) = n /\ \A i \in 1..n : r[i] = text[(n - i) + 1]
  <2>1. PICK z : z = [i \in 1..n |-> text[(n - i) + 1]]
    OBVIOUS
  <2>2. \A i \in 1..n : text[(n - i) + 1] \in R
    <3>1. ASSUME NEW i \in 1..n PROVE text[(n - i) + 1] \in R
      <4>1. (n - i) + 1 \in 1..n
        BY <1>1
      <4> QED
        BY <4>1
    <3> QED
      BY <3>1
  <2>3. z \in Seq(R) /\ Len(z) = n /\ \A i \in 1..n : z[i] = text[(n - i) + 1]
    BY <1>1, <2>1, <2>2
  <2> QED
    BY <2>1, <2>3 DEF Reverse
<1>3. /\ w \in Seq(S) /\ Len(w) = m /\ \A i \in 1..m : w[i] = whole[(m - i) + 1]
  <2>1. PICK z : z = [i \in 1..m |-> whole[(m - i) + 1]]
    OBVIOUS
  <2>2. \A i \in 1..m : whole[(m - i) + 1] \in S
    <3>1. ASSUME NEW i \in 1..m PROVE whole[(m - i) + 1] \in S
      <4>1. (m - i) + 1 \in 1..m
        BY <1>1
      <4> QED
        BY <4>1
    <3> QED
      BY <3>1
  <2>3. z \in Seq(S) /\ Len(z) = m /\ \A i \in 1..m : z[i] = whole[(m - i) + 1]
    BY <1>1, <2>1, <2>2
  <2> QED
    BY <2>1, <2>3 DEF Reverse
<1>4. ASSUME NEW i \in 1..n PROVE r[i] = w[i]
  <2>a. (n - i) + 1 \in 1..n
    BY <1>1
  <2>1. PICK k \in 1..n : k = (n - i) + 1
    BY <2>a, Zenon
  <2>2. i \in 1..m /\ m - n + k = (m - i) + 1
    BY <1>1, <2>1
  <2>3. r[i] = text[k] /\ w[i] = whole[(m - i) + 1]
    BY <1>2, <1>3, <2>1, <2>2
  <2>4. text[k] = whole[(m - i) + 1]
    BY <1>a, <2>2
  <2> QED
    BY <2>3, <2>4
<1> HIDE DEF n, m, r, w
<1>5. SubSeq(r, 1, n) = SubSeq(w, 1, n)
  <2>1. SubSeq(r, 1, n) = [i \in 1..n |-> r[i]]
    BY <1>1, <1>2
  <2>2. SubSeq(w, 1, n) = [i \in 1..n |-> w[i]]
    BY <1>1, <1>3
  <2> QED
    BY <1>4, <2>1, <2>2
<1>6. IsPrefix(r, w)
  BY <1>1, <1>2, <1>3, <1>5 DEF IsPrefix
<1> QED
  BY <1>6 DEF IsSuffix, r, w

(* When all was sent, all arrived.                                         *)
LEMMA PrintSound == ASSUME PrintInv PROVE PrintArrives
<1>1. FieldAttribute
  <2>1. phase \in {"text", "done"} => Attr = base \/ twice
    BY DEF PrintInv, AttributeKept
  <2> QED
    BY <2>1 DEF FieldAttribute
<1>2. ASSUME phase = "done" PROVE Arrived(sink, all) /\ Terminated(sink)
  <2>1. pending = <<>> /\ Terminated(sink)
    BY <1>2 DEF PrintInv
  <2>2. PICK sent \in Seq(Glyphs) : all = sent \o pending /\ Arrived(sink, sent)
    BY DEF PrintInv, Sending
  <2>3. all = sent
    BY <2>1, <2>2
  <2> QED
    BY <2>1, <2>2, <2>3
<1>3. sink \in SinkType /\ all \in Seq(Glyphs)
  BY DEF PrintInv, Sending
<1>4. /\ sink.kind \in {"console", "string", "pool"} /\ sink.str \in Seq(Cells)
      /\ sink.len \in Nat /\ sink.maxlen \in Nat /\ sink.units \in Nat
      /\ Len(all) \in Nat /\ Len(sink.str) \in Nat /\ DOMAIN sink.str = 1..Len(sink.str)
  BY <1>3 DEF SinkType
<1>5. ASSUME phase = "done", sink.kind = "console"
      PROVE  [i \in DOMAIN sink.str |-> sink.str[i][1]] = all
  <2>1. Len(sink.str) = Len(all) /\ \A i \in 1..Len(all) : sink.str[i][1] = all[i]
    BY <1>2, <1>5 DEF Arrived, OnConsole
  <2>2. all = [i \in 1..Len(all) |-> all[i]]
    BY <1>3
  <2> QED
    BY <1>4, <2>1, <2>2
<1>6. ASSUME phase = "done", sink.kind = "string"
      PROVE  /\ sink.len = Min({Len(all), sink.maxlen})
             /\ \A i \in DOMAIN sink.str :
                  /\ i <= sink.len => sink.str[i] = all[i]
                  /\ i = sink.len + 1 /\ sink.units # 1 => sink.str[i] = "zero"
                  /\ i > sink.units /\ sink.units # 0 => sink.str[i] = NotPut
  <2>1. InString(sink, all) /\ Terminated(sink)
    BY <1>2, <1>6 DEF Arrived
  <2>2. /\ Len(sink.str) = StringRoom
        /\ sink.len = (IF Len(all) <= sink.maxlen THEN Len(all) ELSE sink.maxlen)
        /\ (\A i \in 1..StringRoom : i <= sink.len => sink.str[i] = all[i])
        /\ \A i \in 1..StringRoom : i > sink.units /\ sink.units # 0 => sink.str[i] = NotPut
    BY <2>1 DEF InString
  <2>3. sink.units # 1 => \A i \in 1..StringRoom : i = sink.len + 1 => sink.str[i] = "zero"
    BY <1>6, <2>1 DEF Terminated
  <2>4. sink.len = Min({Len(all), sink.maxlen})
    BY <1>4, <2>2, MinOfTwo
  <2> QED
    BY <1>4, <2>2, <2>3, <2>4, Zenon
<1>7. ASSUME phase = "done", sink.kind = "pool"
      PROVE  /\ sink.len <= Len(sink.str)
             /\ IF sink.lost THEN IsSuffix(SubSeq(sink.str, 1, sink.len), all)
                             ELSE SubSeq(sink.str, 1, sink.len) = all
             /\ sink.str # <<>> => sink.str[sink.len + 1] = "zero"
  <2>1. /\ Len(sink.str) = sink.maxlen /\ sink.len <= Len(all) /\ sink.len <= sink.maxlen
        /\ (~sink.lost => sink.len = Len(all)) /\ Latest(sink, all)
        /\ (sink.maxlen # 0 => sink.len < sink.maxlen /\ sink.str[sink.len + 1] = "zero")
    BY <1>2, <1>7 DEF Arrived, InPool
  <2>2. \A i \in 1..sink.len : sink.str[i] = all[Len(all) - sink.len + i]
    BY <2>1 DEF Latest
  <2>3. PICK text : text = SubSeq(sink.str, 1, sink.len)
    OBVIOUS
  <2>4. PICK n \in Nat, str \in Seq(Cells) : n = sink.len /\ str = sink.str
    BY <1>4
  <2>5. n <= Len(str)
    BY <1>4, <2>1, <2>4
  <2>6. /\ text \in Seq(Cells) /\ Len(text) = n /\ text = [i \in 1..n |-> text[i]]
        /\ \A i \in 1..n : text[i] = str[i]
    <3>1. text = SubSeq(str, 1, n)
      BY <2>3, <2>4
    <3> QED
      BY <2>4, <2>5, <3>1
  <2>7. n <= Len(all) /\ \A i \in 1..n : text[i] = all[Len(all) - n + i]
    BY <2>1, <2>2, <2>4, <2>6
  <2>8. IsSuffix(text, all)
    BY <1>3, <2>6, <2>7, EndIsSuffix
  <2>9. ~sink.lost => text = all
    <3>1. ASSUME ~sink.lost PROVE text = all
      <4>1. n = Len(all)
        BY <2>1, <2>4, <3>1
      <4>2. \A i \in 1..n : Len(all) - n + i = i
        BY <1>4, <4>1
      <4>3. \A i \in 1..n : text[i] = all[i]
        BY <2>7, <4>2
      <4>4. all = [i \in 1..n |-> all[i]]
        BY <1>3, <4>1
      <4> QED
        BY <2>6, <4>3, <4>4
    <3> QED
      BY <3>1
  <2>10. sink.str # <<>> => sink.maxlen # 0
    BY <1>4, <2>1
  <2> QED
    BY <2>1, <2>3, <2>8, <2>9, <2>10, Zenon
<1>8. TextArrives
  BY <1>4, <1>5, <1>6, <1>7 DEF TextArrives
<1>9. StopsAtEnd
  BY DEF PrintInv, InFormat
<1> QED
  BY <1>1, <1>8, <1>9 DEF PrintArrives

(* For every format and whatever lies behind it: what is put arrives where *)
(* it is printed to, on the console all of it, in UnicodeVSPrint's buffer  *)
(* what has a place, with a zero behind it, and nothing beyond the size    *)
(* that was passed, in a pool all of it, or what came after the last       *)
(* allocation that failed (PFLUSH, _SPrint, _PoolPrint).  A field that was *)
(* given one attribute ends with the one from before it (PSETATTR); that   *)
(* of a field that was given two may stay on.  And only a format that ends *)
(* inside a directive is read behind its NUL (_Print).                     *)
THEOREM PrintArrivesHolds == EfiPrintSpec => []PrintArrives
<1>1. EfiPrintInit => PrintInv
  BY PrintStart
<1>2. PrintInv /\ [EfiPrintNext]_efiPrintVars => PrintInv'
  BY PrintInductive
<1>3. PrintInv => PrintArrives
  BY PrintSound
<1> QED
  BY <1>1, <1>2, <1>3, PTL DEF EfiPrintSpec
=============================================================================
