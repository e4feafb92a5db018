------------------------------ MODULE MCGnuEfi ------------------------------
(***************************************************************************)
(* The parts of the gnu-efi library, each in behaviours of its own: the    *)
(* first state says which of them runs, the others rest.                   *)
(***************************************************************************)
EXTENDS LibHandles, LibProtocols, LibEvents, SimpleRead, Mbr, DevicePath,
        EfiPrint, ShellArgs, LibLock, MetaMatch, SelfRelocation, Smbios

VARIABLE user

handleVars == <<growVars, scanVars>>
smallVars == <<lockVars, matchVars, relocVars, smbiosVars>>
gnuVars ==
  <<user, handleVars, installVars, eventVars, readVars, mbrVars, pathVars,
    efiPrintVars, shellVars, smallVars>>

-----------------------------------------------------------------------------
Disk(s) == [kind |-> "hard drive", signed |-> s]
Bus == [kind |-> "other", signed |-> FALSE]
Final == [kind |-> "end", signed |-> FALSE]

(* A disk, a partition of it, a disk of another signature, and no path.    *)
HandlePaths ==
  {[h \in Elements |-> CASE h = 11 -> <<Bus, Disk(TRUE), Final>>
                         [] h = 12 -> <<Disk(TRUE), Bus, Final>>
                         [] h = 13 -> <<Disk(TRUE), Final>>],
   [h \in Elements |-> CASE h = 11 -> <<>>
                         [] h = 12 -> <<Disk(TRUE), Disk(TRUE), Final>>
                         [] h = 13 -> <<Disk(FALSE), Final>>]}

-----------------------------------------------------------------------------
Arg(p, n) == [protocol |-> p, old |-> "old", new |-> n]
SmallInstalls == BoundedSeq({Arg(p, "new") : p \in {"P", "Q", "R"}}, 3)
SmallReinstalls == BoundedSeq({Arg(p, n) : p \in {"P", "Q", "R"}, n \in {"old", "new"}}, 3)

(* All, some and none of them there, and one of another handle.            *)
SmallDatabases ==
  {{Installed(TheHandle, p, "old") : p \in ps} :
     ps \in {{}, {"P"}, {"R"}, {"P", "Q"}, {"P", "Q", "R"}}}
  \cup {{Installed(NewHandle + 1, "P", "old")}}

-----------------------------------------------------------------------------
FilePaths == {<<"device">> \o s : s \in BoundedSeq({"device", "file", "other"}, 3)}

-----------------------------------------------------------------------------
Record(os, start, n) == [OSIndicator |-> os, StartingLBA |-> start, SizeInLBA |-> n]
Records ==
  {Record(0, 2, 2), Record(1, 3, 0)}
  \cup {Record(1, start, n) : start \in {0, 2, 3, 7}, n \in {1, 2, 4, 9}}
SmallTables == [1..3 -> Records]

-----------------------------------------------------------------------------
Node(s, n) == [name |-> s, length |-> n]
SomeNodes == {Node("a", 6), Node("b", 12)}
SomeTails ==
  {<<Node("a", 6), End>>, <<Node("c", 20), Node("b", 12), End>>,
   <<Node("a", 6), EndInstance, Node("b", 12), End>>, <<End>>}

-----------------------------------------------------------------------------
SomeWidths == [text \in {"3", "6", "12"} |-> CHOOSE n \in 0..12 : ToString(n) = text]
Letters == <<"a", "b", "c", "d", "e">>

Word(n) == [number |-> n, text |-> <<>>]
PointerTo(s) == [number |-> 0, text |-> s]

ItemFormats ==
  {<<<<"%">> \o fl \o w \o <<c>>, <<Word(n)>>>> :
     fl \in {<<>>, <<",">>, <<"l", ",">>}, w \in {<<>>, <<"6">>},
     c \in {"d", "u", "X", "p"}, n \in {0, 200, -5, 1999, -1000}}
  \cup
  {<<<<"%">> \o fl \o w \o p \o <<"s">>, <<PointerTo(s)>>>> :
     fl \in {<<>>, <<"-">>, <<"h">>, <<"0">>}, w \in {<<>>, <<"6">>},
     p \in {<<>>, <<".", "3">>, <<".", "12">>}, s \in {Letters, <<"NULL">>}}

(* Several items, newlines and attributes, and short ones to append.       *)
MixedItems ==
  {<<<<"a", "lf", "%", "h", "s", "b", "%", "H", "unknown", "%", "e", "d">>,
     <<PointerTo(Letters), Word(5)>>>>,
   <<<<"%", "*", ".", "*", "a", "%", "%", "%", "unknown">>,
     <<Word(6), Word(3), PointerTo(Letters)>>>>,
   <<<<"%", "n", "D", "%", "N", "%", "E", "a">>, <<PointerTo(<<"a", "lf", "b">>)>>>>,
   <<<<"%", "e", "h", "x", "%", "n", "e", "H", "unknown">>, <<Word(11)>>>>,
   <<<<>>, <<>>>>, <<<<"b">>, <<>>>>, <<<<"a", "lf", "c">>, <<>>>>}

Float(n, digits) == [number |-> n, text |-> digits]
FloatFormats ==
  {<<<<"%">> \o fl \o <<"6", "f">>, <<Float(n, <<"2", "5">>)>>>> :
     fl \in {<<>>, <<",">>}, n \in {0, 1999, -1000}}

(* Formats that end inside a directive, and what may lie behind them.      *)
OpenFormats ==
  {<<<<"%">>, <<>>>>, <<<<"a", "%", "6">>, <<>>>>, <<<<"%", "*">>, <<Word(6)>>>>,
   <<<<"a", "%", "e">>, <<>>>>, <<<<"%", "e", "h", "l">>, <<>>>>}
  \cup {<<<<"a", "%", c>>, <<>>>> : c \in {"N", "H", "E"}}
SmallBehind == {<<<<>>, <<>>>>, <<<<"b">>, <<>>>>, <<<<"%", "d">>, <<Word(7)>>>>}

SmallEfiFormats == ItemFormats \cup MixedItems \cup FloatFormats \cup OpenFormats

SmallLoadOptions == BoundedSeq({"a", Nul, Blank}, 5)

-----------------------------------------------------------------------------
TwoLevels == [l \in {"L1", "L2", "L3"} |-> IF l = "L3" THEN 16 ELSE 8]

-----------------------------------------------------------------------------
(* The letters a to d; a range upwards, one downwards, and both in a set.  *)
Letter(c) == [kind |-> "char", char |-> c]
SetOf(s) == [kind |-> "set", of |-> s]
SomeItems ==
  {Letter(97), [kind |-> "star"], [kind |-> "any"],
   SetOf(<<<<97>>, <<98>>>>), SetOf(<<<<97, 98>>>>), SetOf(<<<<99, 97>>>>),
   SetOf(<<<<100>>, <<97, 98>>>>),
   [kind |-> "unclosed", of |-> <<97, 98>>]}
ItemSeqs == BoundedSeq(SomeItems, 3)
BehindNothingOrStar == {<<>>, <<Star>>}
ShortStrings == BoundedSeq({97, 98, 99}, 3)

-----------------------------------------------------------------------------
Tag(t, v) == [tag |-> t, val |-> v]
DynEnd == Tag("NULL", 0)
(* Two entries of three or of four words, the tags in any order, and all   *)
(* that can be missing of them.                                            *)
Dyns(size) ==
  {Append(s, DynEnd) :
     s \in UNION {SetToSeqs({t \in {Tag("RELA", 4), Tag("RELASZ", 2 * size),
                                    Tag("RELAENT", size), Tag("NEEDED", 9)} :
                             t.tag \notin absent}) :
                   absent \in SUBSET {"RELA", "RELASZ", "RELAENT"}}}
Entries(size) ==
  {<<o, t, a>> \o [i \in 1..(size - 3) |-> 0] : o \in {1, 2, 13}, t \in {0, 3}, a \in {5, 6}}
SmallImages ==
  UNION {{[dyn |-> d, table |-> <<e, f>>] :
            d \in Dyns(size), e \in Entries(size), f \in Entries(size)} : size \in {3, 4}}

-----------------------------------------------------------------------------
SomeStructures ==
  {[type |-> t, pad |-> p, serial |-> n, strings |-> s] :
     t \in {0, 1}, p \in {0, 2}, n \in {0, 1, 2},
     s \in {<<>>, <<<<97>>>>, <<<<97>>, <<98, 99>>>>}}
SmallSmbios == BoundedSeq(SomeStructures, 2) \ {<<>>}

-----------------------------------------------------------------------------
RestHandles ==
  /\ task = "LibMemoryMap" /\ growing = "done" /\ Status = "SUCCESS"
  /\ Buffer = NULL /\ BufferSize = FirstSize /\ pool = [b \in {} |-> 0]
  /\ object = <<>> /\ read = <<>> /\ changes = 0 /\ boot = NoArray
  /\ Interface = NULL /\ Index = 1 /\ kept = <<>> /\ out = NoHandlesOut /\ missed = {}
  /\ paths = [h \in Elements |-> <<>>]
RestInstall ==
  /\ installer = "none" /\ args = <<>> /\ installing = "begin" /\ done = 0 /\ undone = 0
  /\ refused = {}
  /\ Outcome = "SUCCESS" /\ Handle = NoHandle /\ OldHandle = NoHandle
  /\ db = {} /\ db0 = {} /\ tpl = "APPLICATION"
RestEvents ==
  /\ waiter = "none" /\ waiting = "done" /\ Timeout = FALSE /\ timer = "none"
  /\ signalled = FALSE /\ typed = <<>> /\ history = <<>> /\ WaitStatus = "SUCCESS"
  /\ Key = NoKey /\ InStr = <<>> /\ InLength = 0 /\ StrLen = 1 /\ ticks = 0
RestRead ==
  /\ reading = "none" /\ source = FALSE /\ path = <<>> /\ FilePath = 1 /\ FilePathNode = 1
  /\ FileHandle = NoFile /\ unopened = FALSE /\ FHand = NoFHand /\ OpenStatus = "SUCCESS"
  /\ files = {} /\ pools = {} /\ length = 0 /\ request = NoRequest /\ answer = <<>>
RestMbr ==
  /\ mbr = <<>> /\ LastBlock = 0 /\ checked = 0 /\ ValidMbr = FALSE /\ verdict = "none"
RestPath ==
  /\ devPath = <<End>> /\ block = HeaderSize /\ meant = <<<<>>>> /\ shape = "packed"

RestEfiPrint ==
  /\ efmt = <<>> /\ eargs = <<>> /\ index = 1 /\ phase = "rest" /\ Item = NewItem
  /\ value = 0 /\ Attr = NoAttr /\ RestoreAttr = NoAttr /\ base = NoAttr /\ twice = FALSE
  /\ queue = <<>> /\ pending = <<>> /\ all = <<>> /\ prints = MaxPrints
  /\ sink = [kind |-> "console", units |-> 0, len |-> 0, maxlen |-> 0, str |-> <<>>,
             lost |-> FALSE]

RestMatch == items = <<>> /\ String = <<>> /\ Pattern = <<EndChar>> /\ matched = "unasked"
RestReloc ==
  /\ ldbase = 0 /\ dyn = <<>> /\ table = <<>> /\ memory = <<>>
  /\ rel = NoTable /\ relsz = 0 /\ relent = 0 /\ relocating = "dyn"
RestSmbios ==
  /\ structures = <<>> /\ TableLength = 0 /\ raw = 1 /\ walks = 0
  /\ serial = NoString /\ walking = "rest"
RestSmall == InitializeLock /\ RestMatch /\ RestReloc /\ RestSmbios
RestLarge ==
  /\ RestHandles /\ RestInstall /\ RestEvents /\ RestRead /\ RestMbr
  /\ RestPath /\ RestEfiPrint /\ ShellInit

SmallInit ==
  \/ user = "lock" /\ RestSmall
  \/ user = "match" /\ MatchInit /\ InitializeLock /\ RestReloc /\ RestSmbios
  \/ user = "reloc" /\ RelocInit /\ InitializeLock /\ RestMatch /\ RestSmbios
  \/ user = "smbios" /\ SmbiosInit /\ InitializeLock /\ RestMatch /\ RestReloc

GnuInit ==
  \/ RestLarge /\ SmallInit
  \/ /\ user = "handles" /\ GrowInit /\ ScanInit
     /\ RestInstall /\ RestEvents /\ RestRead /\ RestMbr
     /\ RestPath /\ RestEfiPrint /\ ShellInit /\ RestSmall
  \/ /\ user = "install" /\ InstallInit
     /\ RestHandles /\ RestEvents /\ RestRead /\ RestMbr
     /\ RestPath /\ RestEfiPrint /\ ShellInit /\ RestSmall
  \/ /\ user = "events" /\ EventInit
     /\ RestHandles /\ RestInstall /\ RestRead /\ RestMbr
     /\ RestPath /\ RestEfiPrint /\ ShellInit /\ RestSmall
  \/ /\ user = "read" /\ ReadInit
     /\ RestHandles /\ RestInstall /\ RestEvents /\ RestMbr
     /\ RestPath /\ RestEfiPrint /\ ShellInit /\ RestSmall
  \/ /\ user = "mbr" /\ MbrInit
     /\ RestHandles /\ RestInstall /\ RestEvents /\ RestRead
     /\ RestPath /\ RestEfiPrint /\ ShellInit /\ RestSmall
  \/ /\ user = "path" /\ PathInit
     /\ RestHandles /\ RestInstall /\ RestEvents /\ RestRead
     /\ RestMbr /\ RestEfiPrint /\ ShellInit /\ RestSmall
  \/ /\ user = "print" /\ EfiPrintInit
     /\ RestHandles /\ RestInstall /\ RestEvents /\ RestRead
     /\ RestMbr /\ RestPath /\ ShellInit /\ RestSmall
  \/ /\ user = "shell" /\ ShellInit
     /\ RestHandles /\ RestInstall /\ RestEvents /\ RestRead
     /\ RestMbr /\ RestPath /\ RestEfiPrint /\ RestSmall

SmallNext ==
  \/ user = "lock" /\ LockNext /\ UNCHANGED <<matchVars, relocVars, smbiosVars>>
  \/ user = "match" /\ MatchNext /\ UNCHANGED <<lockVars, relocVars, smbiosVars>>
  \/ user = "reloc" /\ RelocNext /\ UNCHANGED <<lockVars, matchVars, smbiosVars>>
  \/ user = "smbios" /\ SmbiosNext /\ UNCHANGED <<lockVars, matchVars, relocVars>>

OnlyHandles ==
  UNCHANGED <<user, installVars, eventVars, readVars, mbrVars, pathVars, efiPrintVars, shellVars,
              smallVars>>

GnuNext ==
  \/ /\ SmallNext
     /\ UNCHANGED <<user, handleVars, installVars, eventVars, readVars, mbrVars,
                    pathVars, efiPrintVars, shellVars>>
  \/ user = "handles" /\ OnlyHandles /\ HandleNext
  \/ /\ user = "install" /\ InstallNext
     /\ UNCHANGED <<user, handleVars, eventVars, readVars, mbrVars,
                    pathVars, efiPrintVars, shellVars, smallVars>>
  \/ /\ user = "events" /\ EventNext
     /\ UNCHANGED <<user, handleVars, installVars, readVars, mbrVars,
                    pathVars, efiPrintVars, shellVars, smallVars>>
  \/ /\ user = "read" /\ ReadNext
     /\ UNCHANGED <<user, handleVars, installVars, eventVars, mbrVars,
                    pathVars, efiPrintVars, shellVars, smallVars>>
  \/ /\ user = "mbr" /\ MbrNext
     /\ UNCHANGED <<user, handleVars, installVars, eventVars, readVars,
                    pathVars, efiPrintVars, shellVars, smallVars>>
  \/ /\ user = "path" /\ PathNext
     /\ UNCHANGED <<user, handleVars, installVars, eventVars, readVars,
                    mbrVars, efiPrintVars, shellVars, smallVars>>
  \/ /\ user = "print" /\ EfiPrintNext
     /\ UNCHANGED <<user, handleVars, installVars, eventVars, readVars,
                    mbrVars, pathVars, shellVars, smallVars>>
  \/ /\ user = "shell" /\ ShellNext
     /\ UNCHANGED <<user, handleVars, installVars, eventVars, readVars,
                    mbrVars, pathVars, efiPrintVars, smallVars>>

(* GrowBuffer and the service go on: nothing else is waited for.           *)
Asking == user = "handles" /\ OnlyHandles /\ (Grow \/ Ask) /\ UNCHANGED scanVars

GnuSpec == GnuInit /\ [][GnuNext]_gnuVars /\ WF_gnuVars(Asking)

(* Device paths are those that are meant, a pattern of MetaMatch matches   *)
(* the strings it spells, the arguments GetShellArgcArgv finds join to the *)
(* load options, the serial number is the string its structure names, and  *)
(* a number that is printed reads back.                                    *)
PathsAndTextsAsMeant ==
  /\ PathsSound
  /\ MatchesAsMeant
  /\ JoinsToOptions
  /\ SerialOfSystem
  /\ NumberReadsBack
=============================================================================
