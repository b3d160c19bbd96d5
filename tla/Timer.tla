------------------------------- MODULE Timer -------------------------------
(***************************************************************************)
(* The system timer's 64-bit counter, read as two words while it runs, and *)
(* differences and waits computed from it: src/src/kernel/timer.c.  A word *)
(* has Word values, 2^32 in the code.                                      *)
(***************************************************************************)
EXTENDS Integers

CONSTANTS Word,
          MaxWait    \* the longest systemtimer_wait
ASSUME TimerAssumption == Word \in Nat \ {0} /\ MaxWait \in Nat

Wide == Word * Word

\* Mutant of Difference: without the counter's wrap.
DifferencePlain(t1, t2) == t2 - t1

\* timer_difference
Difference(t1, t2) == IF t1 > t2 THEN t2 + ((Wide - 1) - t1 + 1) ELSE t2 - t1

VARIABLES counter,   \* the timer's value; it stops short of its wrap
          reader,    \* what the reader does next: "out", "low", "again", "wait"
          high, low, \* its local variables, the words it has read
          until,     \* the value systemtimer_wait waits for, -1 until it has one
          since, waited  \* history: the counter when the call began; what it was told to wait

tvars == <<counter, reader, high, low, until, since, waited>>

TInit == /\ counter = 0
         /\ reader = "out" /\ high = 0 /\ low = 0 /\ until = -1
         /\ since = counter /\ waited = 0

Runs == /\ counter < Wide - 1
        /\ counter' = counter + 1
        /\ UNCHANGED <<reader, high, low, until, since, waited>>

TimerHi == counter \div Word
TimerLo == counter % Word

\* systemtimer_gettime_64 is called, by systemtimer_wait for n.
GetTime(n) == /\ reader = "out"
              /\ since' = counter /\ waited' = n /\ until' = -1
              /\ high' = TimerHi /\ low' = 0
              /\ reader' = "low"
              /\ UNCHANGED counter

ReadLow == /\ reader = "low"
           /\ low' = TimerLo
           /\ reader' = "again"
           /\ UNCHANGED <<counter, high, until, since, waited>>

\* Mutant of Together: the high word is not read again.
NotReread == TRUE

Together == high = TimerHi

\* The two words belong together,
TimeRead == high * Word + low
TimeHere == reader = "again" /\ Together

\* or the high word changed and the loop begins again.
ReadAgain == /\ reader = "again" /\ ~Together
             /\ high' = TimerHi /\ low' = 0
             /\ reader' = "low"
             /\ UNCHANGED <<counter, until, since, waited>>

ReaderOut == reader' = "out" /\ high' = 0 /\ low' = 0 /\ until' = -1 /\ waited' = 0 /\ UNCHANGED counter

\* systemtimer_gettime_64 returns to a caller of its own,
Returns == TimeHere /\ waited = 0 /\ ReaderOut /\ since' = counter

\* for the first time to systemtimer_wait, which adds the time to wait,
WaitBegins == /\ TimeHere /\ waited # 0 /\ until = -1
              /\ until' = (TimeRead + waited) % Wide
              /\ high' = TimerHi /\ low' = 0
              /\ reader' = "low"
              /\ UNCHANGED <<counter, since, waited>>

\* and again: the time has come,
WaitEnds == TimeHere /\ until # -1 /\ TimeRead >= until /\ ReaderOut /\ since' = counter

\* or has not.
WaitGoesOn == /\ TimeHere /\ until # -1 /\ TimeRead < until
              /\ high' = TimerHi /\ low' = 0
              /\ reader' = "low"
              /\ UNCHANGED <<counter, until, since, waited>>

TNext == \/ Runs \/ ReadLow \/ ReadAgain \/ Returns \/ WaitBegins \/ WaitEnds \/ WaitGoesOn
         \/ \E n \in 0 .. MaxWait : GetTime(n)

TSpec == TInit /\ [][TNext]_tvars

---------------------------------------------------------------------------
(* Properties. *)

\* The difference between the counter's value and the one that it will have,
\* or will have wrapped to, d ticks later is d.
DifferenceRight == \A d \in 0 .. Wide - 1 : Difference(counter, (counter + d) % Wide) = d

\* A time that is read is one the counter had during the call, a wait ends when
\* the time it was called with is over, unless its sum wrapped, and the
\* difference of two times is the time between them.
TimeRight ==
  /\ [][/\ Returns \/ WaitBegins => since <= TimeRead /\ TimeRead <= counter
        /\ WaitEnds /\ until >= waited => counter - since >= waited]_tvars
  /\ []DifferenceRight
=============================================================================
