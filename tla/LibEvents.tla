------------------------------ MODULE LibEvents ------------------------------
(***************************************************************************)
(* Waiting (lib/event.c) and what waits: WaitForSingleEvent, with its      *)
(* timer, WaitForEventWithTimeout, and the line editor IInput              *)
(* (lib/console.c).  A key makes the event signalled; the firmware checks  *)
(* the events of a list in order and consumes the one it finds.            *)
(***************************************************************************)
EXTENDS Integers, SequencesExt, FiniteSetsExt

CONSTANTS
  Keys,           (* what may be typed: characters, "BS", "CR", "ESC"      *)
  StrLens,        (* sizes of the buffer of IInput                         *)
  MaxKeys,        (* bound: keys that are typed                            *)
  MaxTicks        (* bound: rounds of WaitForEventWithTimeout              *)

(* A buffer has room for the zero, and one of the sizes is the largest.    *)
ASSUME LibEventsAssumption ==
  /\ StrLens \subseteq Nat \ {0}
  /\ \E n \in StrLens : \A m \in StrLens : m <= n

VARIABLES
  waiter,         (* the function                                          *)
  waiting,        (* where it is                                           *)
  Timeout,        (* whether it is not zero                                *)
  timer,          (* TimerEvent: "none", "set" or "fired"                  *)
  signalled,      (* Event                                                 *)
  typed,          (* keys that are not read yet                            *)
  history,        (* all keys that have been read                          *)
  WaitStatus, Key,
  InStr, InLength, StrLen,
  ticks

eventVars ==
  <<waiter, waiting, Timeout, timer, signalled, typed, history, WaitStatus, Key,
    InStr, InLength, StrLen, ticks>>

NoKey == "none"
TimeoutKey == "timeout"
ZeroChar == "0"
EventUnwritten == "?"

EventInit ==
  /\ waiter \in {"WaitForSingleEvent", "WaitForEventWithTimeout", "IInput"}
  /\ Timeout \in IF waiter = "IInput" THEN {FALSE} ELSE BOOLEAN
  /\ StrLen \in IF waiter = "IInput" THEN StrLens ELSE {1}
  /\ waiting = "call" /\ timer = "none" /\ signalled = FALSE
  /\ typed = <<>> /\ history = <<>> /\ WaitStatus = "SUCCESS" /\ Key = NoKey
  /\ InStr = [i \in 1..(Max(StrLens) + 1) |-> EventUnwritten] /\ InLength = 0 /\ ticks = 0

(* The user and the clock.                                                 *)
Type ==
  /\ Len(history) + Len(typed) < MaxKeys
  /\ \E k \in Keys : typed' = Append(typed, k)
  /\ signalled' = TRUE
  /\ UNCHANGED <<waiter, waiting, Timeout, timer, history, WaitStatus, Key,
                 InStr, InLength, StrLen, ticks>>
Expire ==
  /\ timer = "set" /\ timer' = "fired"
  /\ UNCHANGED <<waiter, waiting, Timeout, signalled, typed, history, WaitStatus, Key,
                 InStr, InLength, StrLen, ticks>>

-----------------------------------------------------------------------------
Keeps == UNCHANGED <<waiter, Timeout, typed, history, Key, InStr, InLength, StrLen>>

(* WaitForEventWithTimeout waits for a second, IInput without an end.      *)
HasTimeout == waiter = "WaitForEventWithTimeout" \/ (waiter = "WaitForSingleEvent" /\ Timeout)

BeginWait ==
  /\ waiting = "call" /\ Keeps /\ UNCHANGED signalled
  /\ waiter = "WaitForEventWithTimeout" => ticks < MaxTicks
  /\ ticks' = IF waiter = "WaitForEventWithTimeout" THEN ticks + 1 ELSE ticks
  /\ \/ waiting' = "wait" /\ timer' = (IF HasTimeout THEN "set" ELSE "none")
        /\ UNCHANGED WaitStatus
     \/ /\ HasTimeout /\ WaitStatus' = "OUT_OF_RESOURCES"
        /\ waiting' = "waited" /\ UNCHANGED timer

TimedOut_Any(index) == timer = "fired"   \* mutation: a timer that fired decides
TimedOut(index) == index = 1

WaitForEvent ==
  /\ waiting = "wait" /\ (signalled \/ timer = "fired")
  /\ LET index == IF signalled THEN 0 ELSE 1
     IN  /\ signalled' = IF index = 0 THEN FALSE ELSE signalled
         /\ WaitStatus' = IF TimedOut(index) THEN "TIMEOUT" ELSE "SUCCESS"
  /\ timer' = "none" /\ waiting' = "waited"
  /\ Keeps /\ UNCHANGED ticks

WaitReturns ==
  /\ waiter = "WaitForSingleEvent" /\ waiting = "waited" /\ waiting' = "done"
  /\ Keeps /\ UNCHANGED <<timer, signalled, WaitStatus, ticks>>

-----------------------------------------------------------------------------
ReadKeyStroke ==
  /\ typed # <<>> /\ typed' = Tail(typed) /\ history' = Append(history, Head(typed))
  /\ signalled' = (Tail(typed) # <<>>)
(* A device error loses what was typed.                                    *)
ReadFails == typed' = <<>> /\ signalled' = FALSE /\ UNCHANGED history

(* The time that is left is printed and never taken down.                  *)
KeyOrRound ==
  /\ waiter = "WaitForEventWithTimeout" /\ waiting = "waited"
  /\ UNCHANGED <<waiter, Timeout, timer, WaitStatus, InStr, InLength, StrLen, ticks>>
  /\ \/ /\ WaitStatus = "SUCCESS" /\ ReadKeyStroke
        /\ Key' = Head(typed) /\ waiting' = "done"
     \/ /\ \/ WaitStatus # "SUCCESS" /\ UNCHANGED <<typed, history, signalled>>
           \/ WaitStatus = "SUCCESS" /\ ReadFails
        /\ IF Timeout THEN waiting' = "call" /\ UNCHANGED Key
           ELSE waiting' = "done" /\ Key' = TimeoutKey

LastPlace(len) == len - 1

Edited(str, length, where) ==
  /\ InStr' = str /\ InLength' = length /\ waiting' = where

(* A character is followed by a zero at once.                              *)
EditLine ==
  /\ waiter = "IInput" /\ waiting = "waited"
  /\ UNCHANGED <<waiter, Timeout, timer, WaitStatus, Key, StrLen, ticks>>
  /\ LET ends == [InStr EXCEPT ![InLength + 1] = ZeroChar]
     IN  \/ ReadFails /\ Edited(ends, InLength, "done")
         \/ /\ ReadKeyStroke
            /\ CASE Head(typed) = "CR" -> Edited(ends, InLength, "done")
                 [] Head(typed) = "BS" -> Edited(InStr, Max({InLength - 1, 0}), "call")
                 [] Head(typed) = "ESC" -> Edited(InStr, InLength, "call")
                 [] OTHER ->
                      IF InLength < LastPlace(StrLen)
                      THEN Edited([InStr EXCEPT ![InLength + 1] = Head(typed),
                                                ![InLength + 2] = ZeroChar],
                                  InLength + 1, "call")
                      ELSE Edited(InStr, InLength, "call")

EventNext ==
  Type \/ Expire \/ BeginWait \/ WaitForEvent \/ WaitReturns \/ KeyOrRound \/ EditLine

EventSpec == EventInit /\ [][EventNext]_eventVars

-----------------------------------------------------------------------------
(* A timeout racing a key loses nothing: a timeout is reported only with   *)
(* the event still to come, every key is read or leaves its event          *)
(* signalled, and no timer is left behind.                                 *)
NoSignalLost ==
  /\ waiting \in {"call", "done"} => timer = "none"
  /\ waiting \in {"call", "wait", "done"} /\ waiter # "WaitForSingleEvent"
       => (typed # <<>> <=> signalled)
  /\ waiting = "waited" /\ WaitStatus = "TIMEOUT" /\ typed # <<>> => signalled

(* The line is the keys with the backspaces applied, those that found no   *)
(* place left out, within the caller's buffer.                             *)
TypedOn(line, k) ==
  IF k = "BS" THEN IF line = <<>> THEN line ELSE Front(line)
  ELSE IF k \in {"CR", "ESC"} \/ Len(line) >= StrLen - 1 THEN line
  ELSE Append(line, k)
LineOf(keys) ==
  LET upTo[n \in 0..Len(keys)] == IF n = 0 THEN <<>> ELSE TypedOn(upTo[n - 1], keys[n])
  IN  upTo[Len(keys)]
LineAsTyped ==
  waiter = "IInput" =>
    /\ \A i \in DOMAIN InStr : i > StrLen => InStr[i] = EventUnwritten
    /\ SubSeq(InStr, 1, InLength) = LineOf(history)
    /\ waiting = "done" => InStr[InLength + 1] = ZeroChar

(* Waiting with a timer loses no event that was signalled, and Input gives *)
(* the line that was typed, with what was deleted left out.                *)
InputKept ==
  /\ NoSignalLost
  /\ LineAsTyped
=============================================================================
