------------------------------- MODULE RwsMutex -------------------------------
(***************************************************************************)
(* The readers-writers spin lock of rwsmutex.hpp: WriterLock and           *)
(* ReaderLock on the three counters and the flag of one RwsMutex.  Every   *)
(* atomic operation is an action of its own, a spinning loop is a guard.   *)
(*                                                                         *)
(* A thread takes the lock as a reader or as a writer, any number of       *)
(* times.  WriterLock keeps a `stage` for a destructor that runs before    *)
(* the lock is taken; no step of the constructor throws, so it always is 2.*)
(*                                                                         *)
(* Its names differ from those of TaskPool, so that ThreadProofs can       *)
(* extend both.                                                            *)
(***************************************************************************)
EXTENDS Naturals, FiniteSets

CONSTANT Threads

ASSUME ThreadsAssumption == IsFiniteSet(Threads)

VARIABLES ww,           \* writers waiting for readers
          w,            \* writers waiting to write, or writing
          r,            \* readers that have joined
          f,            \* writing now
          pc,           \* pc[t]: where thread t is
          existing      \* history: the readers there when writer t announced
                        \* itself that have not finished since

lockVars == <<ww, w, r, f, pc, existing>>

Before == {"announced", "seen", "counted"}      \* a writer in its cohort
Past   == {"counted", "spinning", "writing", "cleared"}
Entered == {"joined", "reading"}
Places == {"idle", "passed"} \cup Before \cup Past \cup Entered

Inside(places) == {t \in Threads : pc[t] \in places}

LockTypeOK ==
  /\ ww \in Nat /\ w \in Nat /\ r \in Nat
  /\ f \in BOOLEAN
  /\ pc \in [Threads -> Places]
  /\ existing \in [Threads -> SUBSET Threads]

LockInit ==
  /\ ww = 0 /\ w = 0 /\ r = 0
  /\ f = FALSE
  /\ pc = [t \in Threads |-> "idle"]
  /\ existing = [t \in Threads |-> {}]

Moves(t, from, to) == pc[t] = from /\ pc' = [pc EXCEPT ![t] = to]

-----------------------------------------------------------------------------
(* WriterLock *)

\* ++mx.ww: from now on no reader passes the check for waiting writers.
Announce(t) ==
  /\ Moves(t, "idle", "announced")
  /\ ww' = ww + 1
  /\ existing' = [existing EXCEPT ![t] = Inside(Entered)]
  /\ UNCHANGED <<w, r, f>>

\* Mutant: a writer does not wait for the readers.
MutantSeeNoReaders(t) ==
  /\ Moves(t, "announced", "seen")
  /\ UNCHANGED <<ww, w, r, f, existing>>

\* while (mx.r)
SeeNoReaders(t) ==
  /\ Moves(t, "announced", "seen")
  /\ r = 0
  /\ UNCHANGED <<ww, w, r, f, existing>>

\* ++mx.w
Count(t) ==
  /\ Moves(t, "seen", "counted")
  /\ w' = w + 1
  /\ UNCHANGED <<ww, r, f, existing>>

\* --mx.ww: readers may pass again.
LeaveCohort(t) ==
  /\ Moves(t, "counted", "spinning")
  /\ ww' = ww - 1
  /\ UNCHANGED <<w, r, f, existing>>

\* Mutant: the flag is read and set in two steps, so that two writers get it.
MutantAcquire(t) ==
  /\ Moves(t, "spinning", "writing")
  /\ f' = TRUE
  /\ UNCHANGED <<ww, w, r, existing>>

\* while (mx.f.test_and_set())
Acquire(t) ==
  /\ Moves(t, "spinning", "writing")
  /\ ~f
  /\ f' = TRUE
  /\ UNCHANGED <<ww, w, r, existing>>

\* The destructor lets the next writer in, ...
Clear(t) ==
  /\ Moves(t, "writing", "cleared")
  /\ f' = FALSE
  /\ UNCHANGED <<ww, w, r, existing>>

\* Mutant: the destructor takes itself for a writer that never got the lock.
MutantDepart(t) ==
  /\ Moves(t, "cleared", "idle")
  /\ ww' = ww - 1
  /\ UNCHANGED <<w, r, f, existing>>

\* ... and then the readers.
Depart(t) ==
  /\ Moves(t, "cleared", "idle")
  /\ w' = w - 1
  /\ UNCHANGED <<ww, r, f, existing>>

-----------------------------------------------------------------------------
(* ReaderLock *)

\* Mutant: a reader does not look for waiting writers.
MutantSeeNoWriters(t) ==
  /\ Moves(t, "idle", "passed")
  /\ UNCHANGED <<ww, w, r, f, existing>>

\* while (mx.ww)
SeeNoWriters(t) ==
  /\ Moves(t, "idle", "passed")
  /\ ww = 0
  /\ UNCHANGED <<ww, w, r, f, existing>>

\* ++mx.r
Join(t) ==
  /\ Moves(t, "passed", "joined")
  /\ r' = r + 1
  /\ UNCHANGED <<ww, w, f, existing>>

\* while (mx.w)
StartReading(t) ==
  /\ Moves(t, "joined", "reading")
  /\ w = 0
  /\ UNCHANGED <<ww, w, r, f, existing>>

\* The destructor: --mx.r
StopReading(t) ==
  /\ Moves(t, "reading", "idle")
  /\ r' = r - 1
  /\ existing' = [s \in Threads |-> existing[s] \ {t}]
  /\ UNCHANGED <<ww, w, f>>

\* What a thread that wants the lock, or has it, does next.
Continue(t) ==
  \/ SeeNoReaders(t) \/ Count(t) \/ LeaveCohort(t) \/ Acquire(t) \/ Clear(t)
  \/ Depart(t) \/ Join(t) \/ StartReading(t) \/ StopReading(t)

LockNext == \E t \in Threads : Announce(t) \/ SeeNoWriters(t) \/ Continue(t)

LockSpec == LockInit /\ [][LockNext]_lockVars

\* Every thread keeps running: it spins, and its critical sections end.
FairLockSpec == LockSpec /\ \A t \in Threads : WF_lockVars(Continue(t))

-----------------------------------------------------------------------------
(* Properties *)

\* Two writers are never in the critical section at once (WriterLock).
WritersExclude == Cardinality(Inside({"writing"})) <= 1

\* Nothing leaks from the counters, whichever way the constructors and the
\* destructors of readers and writers interleave: the lock is free again when
\* nobody uses it.
CountersExact ==
  /\ ww = Cardinality(Inside(Before))
  /\ w = Cardinality(Inside(Past))
  /\ r = Cardinality(Inside(Entered))
  /\ f <=> Inside({"writing"}) # {}

\* "Begin writer cohort by blocking new readers from joining while we wait for
\* existing readers to finish" (WriterLock): a writer writes only when every
\* reader that had joined before it came has finished.
ExistingReadersFinish ==
  \A t \in Threads : pc[t] = "writing" => existing[t] = {}

\* A reader that has joined gets to read: the writers that are ahead of it come to
\* an end, since no other follows as long as the reader is counted (ReaderLock).
JoinedReads == \A t \in Threads : pc[t] = "joined" ~> pc[t] = "reading"

\* A writer that has announced itself is not held off by readers that keep coming
\* (WriterLock).
AnnouncedCounts == \A t \in Threads : pc[t] = "announced" ~> pc[t] = "counted"

\* "readers and writers are locked; begin critical section" (WriterLock): nobody
\* reads while a thread writes.  The code violates it: a reader that passed the
\* check for waiting writers joins after the writer has looked for readers, and
\* looks for writers before the writer is counted.
WritersExcludeReaders == Inside({"writing"}) = {} \/ Inside({"reading"}) = {}

===============================================================================
