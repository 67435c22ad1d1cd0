--------------------------- MODULE Logging_proofs ---------------------------
(***************************************************************************)
(* What Logging promises of the log file, for every set of threads, every  *)
(* length of a stack trace and any number of records and crashes.          *)
(***************************************************************************)
EXTENDS Logging, TLAPS

USE DEF files, log, threads, Signals

Elements(s) == {s[n] : n \in DOMAIN s}
Buffered == Elements(buffer)
Records == Threads \X (Nat \ {0})
Newest(t) == <<t, logs[t]>>   \* the record a thread has begun last

Inside == {"write", "writing", "flush", "flushing", "return"}

(***************************************************************************)
(* The types, those of the histories included, and what the program        *)
(* counter says of the counters: inside the macro a record has been begun, *)
(* and in a handler a line of the trace is still to be logged.             *)
(***************************************************************************)
CrashRecords == [thread : Threads, in : {"sink", "code"}, after : Nat]
TypeInv ==
  /\ process \in {"starting", "running", "exited", "killed"}
  /\ g_sink \in BOOLEAN
  /\ handler \in [Signals -> {"default", "print"}]
  /\ mutex_ \in Threads \cup {Free}
  /\ pc \in [Threads -> Inside \cup {"code", "error"}]
  /\ handling \in [Threads -> SUBSET Signals]
  /\ left \in [Threads -> 0..TraceLines]
  /\ logs \in [Threads -> Nat]
  /\ buffer \in Seq(Records) /\ disk \in Seq(Records)
  /\ crashes \in Seq(CrashRecords) /\ Len(crashes) <= MaxCrashes
  /\ \A t \in Threads : pc[t] \in Inside => /\ logs[t] > 0
                                            /\ handling[t] # {} => left[t] > 0

(***************************************************************************)
(* Before LogInit returns nothing runs.  A signal whose handler was        *)
(* entered has its default again, so a handler that returns ends the       *)
(* process; until the first crash every signal of a process with a log is  *)
(* handled.                                                                *)
(***************************************************************************)
HandlerInv ==
  /\ process = "starting" => crashes = << >> /\ ~g_sink
  /\ crashes = << >> => \A t \in Threads : handling[t] = {}
  /\ \A t \in Threads : \A s \in handling[t] : handler[s] = "default"
  /\ process # "starting" /\ g_sink /\ crashes = << >> => handler = Handled

(***************************************************************************)
(* Where a record is: a thread that flushes has its own in the buffer or,  *)
(* when another thread flushed first, on disk already.  A process that is  *)
(* killed loses the buffer.                                                *)
(***************************************************************************)
RecordInv ==
  /\ returned \subseteq OnDisk
  /\ \A t \in Threads : pc[t] = "return" => Newest(t) \in OnDisk
  /\ process # "killed" =>
       \A t \in Threads : pc[t] \in {"flush", "flushing"} => Newest(t) \in Buffered \cup OnDisk

(***************************************************************************)
(* The one crash of a process: only its thread is in a handler, it has     *)
(* begun a record for every line it no longer has to log and, inside the   *)
(* macro, for the next one; the former are on disk.                        *)
(***************************************************************************)
Line(c, n) == <<c.thread, c.after + n>>
Traced(c) ==
  LET t == c.thread
      done == TraceLines - left[t]
  IN  /\ handling[t] # {}
      /\ \A u \in Threads : u # t => handling[u] = {}
      /\ pc[t] = "code" => logs[t] = c.after + done
      /\ pc[t] \in Inside => logs[t] = c.after + done + 1
      /\ \A n \in 1..done : Line(c, n) \in OnDisk

TraceInv ==
  Len(crashes) = 1 /\ g_sink =>
    /\ process = "running" => Traced(crashes[1])
    /\ process = "killed" => Trace(crashes[1]) \subseteq OnDisk

LogInv == TypeInv /\ HandlerInv /\ RecordInv /\ TraceInv

-----------------------------------------------------------------------------
(* The elements of a sequence that grows.                                    *)
LEMMA ElementsOfAppend ==
  ASSUME NEW S, NEW s \in Seq(S), NEW e \in S
  PROVE  Append(s, e) \in Seq(S) /\ Elements(Append(s, e)) = Elements(s) \cup {e}
<1> DEFINE a == Append(s, e)
<1>1. /\ a \in Seq(S) /\ Len(a) = Len(s) + 1 /\ Len(s) \in Nat
      /\ DOMAIN a = 1..Len(a) /\ DOMAIN s = 1..Len(s)
      /\ \A n \in 1..Len(s) : a[n] = s[n]
      /\ a[Len(s) + 1] = e
  OBVIOUS
<1> HIDE DEF a
<1>2. Elements(a) = Elements(s) \cup {e}
  BY <1>1 DEF Elements
<1> QED BY <1>1, <1>2 DEF a

LEMMA ElementsOfConcat ==
  ASSUME NEW S, NEW s \in Seq(S), NEW r \in Seq(S)
  PROVE  s \o r \in Seq(S) /\ Elements(s \o r) = Elements(s) \cup Elements(r)
<1> DEFINE a == s \o r
<1>1. /\ a \in Seq(S) /\ Len(a) = Len(s) + Len(r) /\ Len(s) \in Nat /\ Len(r) \in Nat
      /\ DOMAIN a = 1..Len(a) /\ DOMAIN s = 1..Len(s) /\ DOMAIN r = 1..Len(r)
      /\ \A n \in 1..Len(s) : a[n] = s[n]
      /\ \A n \in 1..Len(r) : a[Len(s) + n] = r[n]
  OBVIOUS
<1> HIDE DEF a
<1>2. \A n \in 1..Len(a) : n \in 1..Len(s) \/ n - Len(s) \in 1..Len(r)
  BY <1>1
<1>3. \A n \in 1..Len(a) : a[n] \in {s[m] : m \in 1..Len(s)} \cup {r[m] : m \in 1..Len(r)}
  <2> TAKE n \in 1..Len(a)
  <2>1. CASE n \in 1..Len(s)
    BY <1>1, <2>1
  <2>2. CASE n - Len(s) \in 1..Len(r)
    <3>1. a[Len(s) + (n - Len(s))] = r[n - Len(s)] /\ Len(s) + (n - Len(s)) = n
      BY <1>1, <2>2
    <3> QED BY <2>2, <3>1
  <2> QED BY <1>2, <2>1, <2>2
<1>4. \A n \in 1..Len(s) : s[n] = a[n] /\ n \in 1..Len(a)
  BY <1>1
<1>5. \A n \in 1..Len(r) : r[n] = a[Len(s) + n] /\ Len(s) + n \in 1..Len(a)
  BY <1>1
<1> DEFINE A == {a[n] : n \in 1..Len(a)}
           B == {s[n] : n \in 1..Len(s)}
           C == {r[n] : n \in 1..Len(r)}
<1>6. A \subseteq B \cup C
  BY <1>3
<1>7. B \subseteq A
  BY <1>4
<1>8. C \subseteq A
  BY <1>5
<1>9. A = B \cup C
  BY <1>6, <1>7, <1>8
<1> QED BY <1>1, <1>9 DEF Elements, a

(* Flushing puts on disk what is in the buffer, and keeps what was there.    *)
LEMMA FlushedIsOnDisk ==
  ASSUME buffer \in Seq(Records), disk \in Seq(Records), disk' = disk \o buffer
  PROVE  disk' \in Seq(Records) /\ OnDisk' = OnDisk \cup Buffered
<1>1. /\ disk \o buffer \in Seq(Records)
      /\ Elements(disk \o buffer) = Elements(disk) \cup Elements(buffer)
  BY ElementsOfConcat
<1>2. OnDisk = Elements(disk) /\ OnDisk' = Elements(disk')
  BY DEF OnDisk, Elements
<1> QED BY <1>1, <1>2 DEF Buffered

LEMMA WrittenIsBuffered ==
  ASSUME buffer \in Seq(Records), NEW r \in Records, buffer' = Append(buffer, r)
  PROVE  buffer' \in Seq(Records) /\ Buffered' = Buffered \cup {r}
<1>1. /\ Append(buffer, r) \in Seq(Records)
      /\ Elements(Append(buffer, r)) = Elements(buffer) \cup {r}
  BY ElementsOfAppend
<1> QED BY <1>1 DEF Buffered

(* The invariant has all of TypeOK. *)
LEMMA TypeInvIsTypeOK == TypeInv => TypeOK
<1> SUFFICES ASSUME TypeInv PROVE TypeOK
  OBVIOUS
<1>1. \A q \in Seq(Records) : \A r \in {q[n] : n \in DOMAIN q} : r \in Records
  OBVIOUS
<1>2. \A r \in {buffer[n] : n \in DOMAIN buffer} \cup {disk[n] : n \in DOMAIN disk} :
        r \in Threads \X (Nat \ {0})
  BY <1>1 DEF TypeInv, Records
<1> QED BY <1>2 DEF TypeInv, TypeOK, Inside

(* A crash is handled, or it kills the process.                              *)
LEMMA CrashCases ==
  ASSUME NEW t, NEW s, Crash(t, s)
  PROVE  Handle(t, s) \/ Die
BY DEF Crash

(* A crash is the last of the recorded ones.                                 *)
LEMMA CrashIsRecorded ==
  ASSUME TypeInv, NEW t \in Threads, NEW s, Crash(t, s)
  PROVE  /\ crashes' \in Seq(CrashRecords)
         /\ Len(crashes') = Len(crashes) + 1 /\ Len(crashes) \in Nat
         /\ Len(crashes') <= MaxCrashes
         /\ crashes'[Len(crashes')] = [thread |-> t, in |-> Where(t), after |-> logs[t]]
         /\ \A n \in 1..Len(crashes) : crashes'[n] = crashes[n]
<1> DEFINE c == [thread |-> t, in |-> Where(t), after |-> logs[t]]
<1>1. Len(crashes) < MaxCrashes /\ crashes' = Append(crashes, c)
  BY DEF Crash
<1>2. c \in CrashRecords
  BY DEF Where, TypeInv, CrashRecords
<1> HIDE DEF c
<1>3. crashes \in Seq(CrashRecords) /\ MaxCrashes \in Nat
  BY LogBounds DEF TypeInv
<1>4. /\ crashes' \in Seq(CrashRecords)
      /\ Len(crashes') = Len(crashes) + 1 /\ Len(crashes) \in Nat
      /\ crashes'[Len(crashes')] = c
      /\ \A n \in 1..Len(crashes) : crashes'[n] = crashes[n]
  BY <1>1, <1>2, <1>3
<1> QED BY <1>1, <1>3, <1>4 DEF c

(* A handler that returns does not find itself installed.                    *)
LEMMA ReturnKills ==
  ASSUME HandlerInv, NEW t \in Threads, HandlerReturns(t)
  PROVE  Die /\ UNCHANGED crashes /\ left[t] = 0 /\ pc[t] = "code" /\ handling[t] # {}
BY DEF HandlerReturns, HandlerInv

-----------------------------------------------------------------------------
LEMMA TypeStep == TypeInv /\ HandlerInv /\ [Next]_vars => TypeInv'
<1> SUFFICES ASSUME TypeInv, HandlerInv, [Next]_vars PROVE TypeInv'
  OBVIOUS
<1> USE LogBounds, FreeAssumption DEF TypeInv, Inside
<1>1. CASE LogInit
  BY <1>1 DEF LogInit, Handled
<1>2. ASSUME NEW t \in Threads, process = "running",
             Log(t) \/ Acquire(t) \/ LogReturns(t), process' = process
      PROVE  TypeInv'
  <2>1. CASE Log(t)
    BY <1>2, <2>1 DEF Log, Go
  <2>2. CASE Acquire(t)
    BY <1>2, <2>2 DEF Acquire, Go
  <2>3. CASE LogReturns(t)
    <3>1. left' \in [Threads -> 0..TraceLines]
      <4>1. /\ pc[t] = "return"
            /\ left' = [left EXCEPT ![t] = IF handling[t] = {} THEN 0 ELSE @ - 1]
        BY <2>3 DEF LogReturns, Go
      <4>0. left[t] \in 0..TraceLines /\ (handling[t] # {} => left[t] > 0)
        BY <4>1
      <4>2. handling[t] # {} => left[t] - 1 \in 0..TraceLines
        BY <4>0
      <4> DEFINE rest == IF handling[t] = {} THEN 0 ELSE left[t] - 1
      <4>3. rest \in 0..TraceLines /\ left' = [left EXCEPT ![t] = rest]
        BY <4>1, <4>2
      <4> HIDE DEF rest
      <4> QED BY <4>3
    <3> QED BY <1>2, <2>3, <3>1 DEF LogReturns, Go
  <2> QED BY <1>2, <2>1, <2>2, <2>3
<1>3. ASSUME NEW t \in Threads, process = "running", Write(t), process' = process
      PROVE  TypeInv'
  <2>1. /\ pc[t] = "writing" /\ pc' = [pc EXCEPT ![t] = "flush"] /\ mutex_' = Free
        /\ buffer' = Append(buffer, <<t, logs[t]>>)
        /\ UNCHANGED <<log, handling, left, logs, disk, returned, crashes>>
    BY <1>3 DEF Write, Go, AfterWrite
  <2>2. <<t, logs[t]>> \in Records
    BY <2>1 DEF Records
  <2>3. buffer' \in Seq(Records)
    BY <2>1, <2>2, WrittenIsBuffered
  <2> QED BY <1>3, <2>1, <2>3
<1>4. ASSUME NEW t \in Threads, process = "running",
             (Flush(t) /\ process' = process) \/ WriteFails(t)
      PROVE  TypeInv'
  <2>1. /\ pc[t] \in Inside
        /\ \/ pc' = [pc EXCEPT ![t] = "return"] /\ process' = "running"
           \/ pc' = [pc EXCEPT ![t] = "error"] /\ process' = "exited"
        /\ disk' = disk \o buffer /\ buffer' = << >> /\ mutex_' = Free
        /\ UNCHANGED <<log, handling, left, logs, returned, crashes>>
    BY <1>4 DEF Flush, WriteFails, Leave, Go
  <2>2. buffer' \in Seq(Records) /\ disk' \in Seq(Records)
    BY <2>1, FlushedIsOnDisk
  <2> QED BY <2>1, <2>2
<1>5. ASSUME NEW t \in Threads, HandlerReturns(t)
      PROVE  TypeInv'
  <2>1. Die /\ UNCHANGED crashes
    BY <1>5, ReturnKills
  <2> QED BY <2>1 DEF Die
<1>6. ASSUME NEW t \in Threads, NEW s \in Signals, Crash(t, s)
      PROVE  TypeInv'
  <2>1. crashes' \in Seq(CrashRecords) /\ Len(crashes') <= MaxCrashes
    BY <1>6, CrashIsRecorded
  <2>2. CASE Handle(t, s)
    BY <2>1, <2>2 DEF Handle
  <2>3. CASE Die
    BY <2>1, <2>3 DEF Die
  <2> QED BY <1>6, <2>2, <2>3, CrashCases
<1>7. CASE UNCHANGED vars
  BY <1>7 DEF vars
<1>9. ASSUME NEW t \in Threads, Exit(t)
      PROVE  TypeInv'
  <2>1. /\ process' = "exited" /\ disk' = disk \o buffer /\ buffer' = << >>
        /\ UNCHANGED <<log, mutex_, pc, handling, left, logs, returned, crashes>>
    BY <1>9 DEF Exit, Leave
  <2>2. buffer' \in Seq(Records) /\ disk' \in Seq(Records)
    BY <2>1, FlushedIsOnDisk
  <2> QED BY <2>1, <2>2
<1>8. ASSUME NEW t \in Threads, Step(t)
      PROVE  TypeInv'
  <2> HIDE DEF TypeInv
  <2> QED BY <1>2, <1>3, <1>4, <1>5, <1>8 DEF Step
<1> QED
  <2> HIDE DEF TypeInv
  <2> QED BY <1>1, <1>6, <1>7, <1>8, <1>9 DEF Next

LEMMA HandlerStep == TypeInv /\ HandlerInv /\ [Next]_vars => HandlerInv'
<1> SUFFICES ASSUME TypeInv, HandlerInv, [Next]_vars PROVE HandlerInv'
  OBVIOUS
<1> USE DEF HandlerInv
<1>1. CASE LogInit
  BY <1>1 DEF LogInit
<1>2. ASSUME NEW t \in Threads, process = "running",
             \/ Log(t) \/ Acquire(t) \/ LogReturns(t) \/ Write(t) \/ Flush(t)
             \/ WriteFails(t) \/ Exit(t),
             process' \in {"running", "exited"}
      PROVE  HandlerInv'
  <2>1. UNCHANGED <<log, handling, crashes>>
    BY <1>2 DEF Log, Acquire, LogReturns, Write, Flush, WriteFails, Exit
  <2> QED BY <1>2, <2>1
<1>3. ASSUME NEW t \in Threads, process = "running", HandlerReturns(t)
      PROVE  HandlerInv'
  <2>1. Die /\ UNCHANGED crashes
    BY <1>3, ReturnKills
  <2> QED BY <1>3, <2>1 DEF Die
<1>4. ASSUME NEW t \in Threads, NEW s \in Signals, process = "running", Crash(t, s)
      PROVE  HandlerInv'
  <2>1. crashes' # << >>
    <3>1. Len(crashes') = Len(crashes) + 1 /\ Len(crashes) \in Nat
      BY <1>4, CrashIsRecorded
    <3> QED BY <3>1
  <2>2. CASE Handle(t, s)
    <3>1. \A u \in Threads : \A r \in handling[u]' : handler[r]' = "default"
      BY <2>2 DEF Handle, TypeInv
    <3> QED BY <1>4, <2>1, <2>2, <3>1 DEF Handle
  <2>3. CASE Die
    BY <1>4, <2>1, <2>3 DEF Die
  <2> QED BY <1>4, <2>2, <2>3, CrashCases
<1>5. CASE UNCHANGED vars
  BY <1>5 DEF vars
<1>6. ASSUME NEW t \in Threads, Step(t)
      PROVE  HandlerInv'
  BY <1>2, <1>3, <1>6 DEF Step, WriteFails, Leave
<1>7. ASSUME NEW t \in Threads, process = "running", Exit(t)
      PROVE  HandlerInv'
  BY <1>2, <1>7 DEF Exit, Leave
<1> QED
  BY <1>1, <1>4, <1>5, <1>6, <1>7 DEF Next

-----------------------------------------------------------------------------
LEMMA RecordStep == TypeInv /\ HandlerInv /\ RecordInv /\ [Next]_vars => RecordInv'
<1> SUFFICES ASSUME TypeInv, HandlerInv, RecordInv, [Next]_vars PROVE RecordInv'
  OBVIOUS
<1> USE DEF RecordInv, Newest
<1>p. pc \in [Threads -> Inside \cup {"code", "error"}] /\ logs \in [Threads -> Nat]
  BY DEF TypeInv
<1>s. UNCHANGED buffer => Buffered' = Buffered
  BY DEF Buffered
<1>d. UNCHANGED disk => OnDisk' = OnDisk
  BY DEF OnDisk
<1>1. CASE LogInit
  BY <1>1, <1>s, <1>d DEF LogInit
<1>2. ASSUME NEW t \in Threads, process = "running", process' = process
      PROVE  /\ Log(t) => RecordInv'
             /\ Acquire(t) => RecordInv'
             /\ LogReturns(t) => RecordInv'
  <2>1. CASE Log(t)
    <3>1. /\ pc' = [pc EXCEPT ![t] = "write"] /\ logs' = [logs EXCEPT ![t] = @ + 1]
          /\ UNCHANGED <<buffer, disk, returned>>
      BY <2>1 DEF Log, Go
    <3> QED BY <1>2, <1>p, <1>s, <1>d, <3>1
  <2>2. CASE Acquire(t)
    <3>1. /\ UNCHANGED <<logs, buffer, disk, returned>>
          /\ \/ pc[t] = "write" /\ pc' = [pc EXCEPT ![t] = "writing"]
             \/ pc[t] = "flush" /\ pc' = [pc EXCEPT ![t] = "flushing"]
      BY <2>2 DEF Acquire, Go
    <3> QED BY <1>2, <1>p, <1>s, <1>d, <3>1
  <2>3. CASE LogReturns(t)
    <3>1. /\ UNCHANGED <<logs, buffer, disk>>
          /\ pc[t] = "return" /\ pc' = [pc EXCEPT ![t] = "code"]
          /\ returned' = returned \cup {Newest(t)}
      BY <2>3 DEF LogReturns, Go
    <3> QED BY <1>2, <1>p, <1>s, <1>d, <3>1
  <2> QED BY <2>1, <2>2, <2>3
<1>3. ASSUME NEW t \in Threads, process = "running", Write(t), process' = process
      PROVE  RecordInv'
  <2>1. /\ pc[t] = "writing" /\ pc' = [pc EXCEPT ![t] = "flush"]
        /\ buffer' = Append(buffer, Newest(t))
        /\ UNCHANGED <<logs, disk, returned>>
    BY <1>3 DEF Write, Go, AfterWrite
  <2>2. Newest(t) \in Records /\ buffer \in Seq(Records)
    BY <2>1 DEF Records, TypeInv, Inside
  <2>3. Buffered' = Buffered \cup {Newest(t)}
    BY <2>1, <2>2, WrittenIsBuffered
  <2> QED BY <1>3, <1>p, <1>d, <2>1, <2>3
<1>4. ASSUME NEW t \in Threads, process = "running",
             (Flush(t) /\ process' = process) \/ WriteFails(t) \/ Exit(t)
      PROVE  RecordInv'
  <2>1. /\ process' # "killed"
        /\ \/ pc[t] = "flushing" /\ pc' = [pc EXCEPT ![t] = "return"]
           \/ pc' = [pc EXCEPT ![t] = "error"]
           \/ UNCHANGED pc
        /\ disk' = disk \o buffer
        /\ UNCHANGED <<logs, returned>>
    BY <1>4 DEF Flush, WriteFails, Exit, Leave, Go
  <2>2. OnDisk' = OnDisk \cup Buffered
    BY <2>1, FlushedIsOnDisk DEF TypeInv
  <2> QED BY <1>4, <1>p, <2>1, <2>2
<1>5. ASSUME Die
      PROVE  RecordInv'
  BY <1>5, <1>d DEF Die
<1>6. ASSUME NEW t \in Threads, NEW s \in Signals, Handle(t, s)
      PROVE  RecordInv'
  <2>1. pc' = [pc EXCEPT ![t] = "code"] /\ UNCHANGED <<process, logs, buffer, disk, returned>>
    BY <1>6 DEF Handle
  <2> QED BY <1>p, <1>s, <1>d, <2>1
<1>7. CASE UNCHANGED vars
  BY <1>7, <1>s, <1>d DEF vars
<1> HIDE DEF RecordInv
<1>8. ASSUME NEW t \in Threads, Step(t)
      PROVE  RecordInv'
  BY <1>2, <1>3, <1>4, <1>5, <1>8, ReturnKills DEF Step
<1> QED
  BY <1>1, <1>4, <1>5, <1>6, <1>7, <1>8, CrashCases DEF Next

-----------------------------------------------------------------------------
(***************************************************************************)
(* A step of the logging keeps what the trace of the one crash has on      *)
(* disk: another thread is not in a handler, and the thread that crashed   *)
(* logs line after line.                                                   *)
(***************************************************************************)
LEMMA TracedStep ==
  ASSUME TypeInv, RecordInv, NEW c \in CrashRecords, Traced(c), NEW u \in Threads,
         Log(u) \/ Acquire(u) \/ Write(u) \/ Flush(u) \/ LogReturns(u)
  PROVE  Traced(c)'
<1> USE DEF Traced
<1> DEFINE t == c.thread
           done == TraceLines - left[t]
<1>t. /\ pc \in [Threads -> Inside \cup {"code", "error"}] /\ logs \in [Threads -> Nat]
      /\ left \in [Threads -> 0..TraceLines] /\ handling \in [Threads -> SUBSET Signals]
      /\ TraceLines \in Nat /\ t \in Threads /\ c.after \in Nat
  BY LogBounds DEF TypeInv, CrashRecords
<1>d. OnDisk \subseteq OnDisk'
  <2>1. CASE Flush(u)
    BY <2>1, FlushedIsOnDisk DEF Flush, TypeInv
  <2>2. CASE UNCHANGED disk
    BY <2>2 DEF OnDisk
  <2> QED BY <2>1, <2>2 DEF Log, Acquire, Write, LogReturns
<1>h. UNCHANGED handling
  BY DEF Log, Acquire, Write, Flush, LogReturns
<1>1. CASE u # t
  <2>1. pc'[t] = pc[t] /\ left'[t] = left[t] /\ logs'[t] = logs[t]
    BY <1>t, <1>1 DEF Log, Acquire, Write, Flush, LogReturns, Go
  <2> QED BY <1>d, <1>h, <2>1
<1>2. CASE u = t /\ Log(u)
  <2>1. /\ pc[t] = "code" /\ pc'[t] = "write" /\ logs'[t] = logs[t] + 1
        /\ left' = left
    BY <1>t, <1>2 DEF Log, Go
  <2>2. logs'[t] = c.after + done + 1
    BY <1>t, <2>1
  <2> QED BY <1>d, <1>h, <2>1, <2>2
<1>3. CASE u = t /\ (Acquire(u) \/ Write(u) \/ Flush(u))
  <2>1. /\ pc[t] \in Inside /\ pc'[t] \in Inside \ {"code"}
        /\ logs' = logs /\ left' = left
    BY <1>t, <1>3 DEF Acquire, Write, Flush, Go, AfterWrite, Inside
  <2>2. pc'[t] # "code"
    BY <2>1 DEF Inside
  <2> QED BY <1>d, <1>h, <2>1, <2>2
<1>4. CASE u = t /\ LogReturns(u)
  <2>1. /\ pc[t] = "return" /\ pc'[t] = "code" /\ logs' = logs /\ disk' = disk
        /\ left'[t] = left[t] - 1
    BY <1>t, <1>4 DEF LogReturns, Go
  <2>2. left[t] \in 1..TraceLines /\ pc[t] \in Inside
    <3>1. pc[t] \in Inside
      BY <2>1 DEF Inside
    <3>2. left[t] > 0 /\ left[t] \in 0..TraceLines
      BY <1>t, <3>1 DEF TypeInv
    <3> QED BY <1>t, <3>1, <3>2
  <2>3. logs[t] = c.after + done + 1 /\ TraceLines - left'[t] = done + 1
    BY <1>t, <2>1, <2>2
  <2>4. Line(c, done + 1) \in OnDisk
    <3>1. Newest(t) \in OnDisk
      BY <1>t, <2>1 DEF RecordInv
    <3> QED BY <1>t, <2>2, <2>3, <3>1 DEF Line, Newest
  <2>5. \A n \in 1..(done + 1) : Line(c, n) \in OnDisk
    BY <1>t, <2>2, <2>4
  <2>6. "code" \notin Inside
    BY DEF Inside
  <2> HIDE DEF Line
  <2> QED BY <1>d, <1>h, <1>t, <2>1, <2>2, <2>3, <2>5, <2>6
<1> QED
  BY <1>1, <1>2, <1>3, <1>4

LEMMA TraceStep == TypeInv /\ HandlerInv /\ RecordInv /\ TraceInv /\ [Next]_vars => TraceInv'
<1> SUFFICES ASSUME TypeInv, HandlerInv, RecordInv, TraceInv, [Next]_vars,
                    Len(crashes') = 1, g_sink'
             PROVE  /\ process' = "running" => Traced(crashes[1])'
                    /\ process' = "killed" => Trace(crashes[1])' \subseteq OnDisk'
  BY DEF TraceInv
<1>0. UNCHANGED crashes => crashes[1] \in CrashRecords /\ crashes # << >>
  <2>1. crashes \in Seq(CrashRecords)
    BY DEF TypeInv
  <2>2. CASE UNCHANGED crashes
    <3>1. Len(crashes) = 1
      BY <2>2
    <3> QED BY <2>1, <3>1
  <2> QED BY <2>2
<1>1. CASE UNCHANGED <<process, g_sink, handling, left, logs, pc, disk, crashes>>
  BY <1>1 DEF TraceInv, Traced, Trace, OnDisk
<1>2. ~LogInit
  BY <1>0 DEF LogInit, HandlerInv
<1>3. ASSUME NEW u \in Threads, process = "running", process' = process,
             Log(u) \/ Acquire(u) \/ Write(u) \/ Flush(u) \/ LogReturns(u)
      PROVE  Traced(crashes[1])'
  <2>1. UNCHANGED <<crashes, g_sink>>
    BY <1>3 DEF Log, Acquire, Write, Flush, LogReturns
  <2>2. PICK c \in CrashRecords : c = crashes[1]
    BY <1>0, <2>1
  <2>3. Traced(c)'
    <3>1. Traced(c)
      BY <1>3, <2>1, <2>2 DEF TraceInv
    <3> QED BY <1>3, <3>1, TracedStep
  <2>4. crashes'[1] = c
    BY <2>1, <2>2
  <2> QED BY <2>3, <2>4 DEF Traced
<1>4. ASSUME NEW u \in Threads, process = "running", HandlerReturns(u)
      PROVE  process' = "killed" /\ Trace(crashes[1])' \subseteq OnDisk'
  <2>1. Die /\ UNCHANGED crashes /\ left[u] = 0 /\ pc[u] = "code" /\ handling[u] # {}
    BY <1>4, ReturnKills
  <2>2. PICK c \in CrashRecords : c = crashes[1]
    BY <1>0, <2>1
  <2>3. Traced(c)
    BY <1>4, <2>1, <2>2 DEF TraceInv, Die
  <2>4. c.thread = u
    BY <2>1, <2>3 DEF Traced
  <2>5. \A n \in 1..TraceLines : Line(c, n) \in OnDisk
    BY <2>1, <2>3, <2>4, LogBounds DEF Traced
  <2>6. Trace(c) \subseteq OnDisk
    BY <2>5 DEF Trace, Line
  <2> QED BY <2>1, <2>2, <2>6 DEF Die, Trace, OnDisk
<1>5. ASSUME NEW u \in Threads, NEW s \in Signals, process = "running", Crash(u, s)
      PROVE  process' = "running" /\ Traced(crashes[1])'
  <2>1. /\ Len(crashes') = Len(crashes) + 1 /\ Len(crashes) \in Nat
        /\ crashes'[Len(crashes')] = [thread |-> u, in |-> Where(u), after |-> logs[u]]
    BY <1>5, CrashIsRecorded
  <2>2. crashes = << >> /\ crashes'[1] = [thread |-> u, in |-> Where(u), after |-> logs[u]]
    <3>0. crashes \in Seq(CrashRecords)
      BY DEF TypeInv
    <3>1. Len(crashes) = 0
      <4>1. \A l \in Nat : 1 = l + 1 => l = 0
        OBVIOUS
      <4> QED BY <2>1, <4>1
    <3>2. crashes = << >>
      BY <3>0, <3>1
    <3> QED BY <2>1, <3>2
  <2>3. Handle(u, s)
    <3>1. g_sink
      BY <1>5, CrashCases DEF Handle, Die
    <3>2. handler[s] = "print"
      BY <1>5, <2>2, <3>1 DEF HandlerInv, Handled
    <3> QED BY <1>5, <3>2 DEF Crash
  <2>4. /\ handling'[u] # {} /\ \A v \in Threads : v # u => handling'[v] = {}
        /\ left'[u] = TraceLines /\ pc'[u] = "code" /\ logs' = logs /\ process' = process
    BY <2>2, <2>3 DEF Handle, TypeInv, HandlerInv
  <2>5. logs[u] \in Nat /\ TraceLines \in Nat /\ "code" \notin Inside
    BY LogBounds DEF TypeInv, Inside
  <2>6. PICK c : c = crashes'[1]
    OBVIOUS
  <2>7. Traced(c)'
    <3>1. c.thread = u /\ c.after = logs[u]
      BY <2>2, <2>6
    <3> QED BY <2>4, <2>5, <3>1 DEF Traced
  <2> QED BY <1>5, <2>4, <2>6, <2>7 DEF Traced
<1>6. ASSUME NEW t \in Threads, Step(t)
      PROVE  /\ process' = "running" => Traced(crashes[1])'
             /\ process' = "killed" => Trace(crashes[1])' \subseteq OnDisk'
  BY <1>3, <1>4, <1>6 DEF Step, WriteFails, Leave
<1>7. ASSUME NEW t \in Threads, Exit(t)
      PROVE  process' = "exited"
  BY <1>7 DEF Exit, Leave
<1> QED
  BY <1>1, <1>2, <1>5, <1>6, <1>7 DEF Next, vars

-----------------------------------------------------------------------------
LEMMA LogInvAlways == Spec => []LogInv
<1>1. Init => LogInv
  <2> SUFFICES ASSUME Init PROVE LogInv
    OBVIOUS
  <2>1. << >> \in Seq(Records) /\ << >> \in Seq(CrashRecords) /\ Len(<< >>) = 0
    OBVIOUS
  <2>2. TypeInv
    <3>1. /\ buffer \in Seq(Records) /\ disk \in Seq(Records)
          /\ crashes \in Seq(CrashRecords) /\ Len(crashes) = 0
      BY <2>1 DEF Init
    <3>2. /\ pc \in [Threads -> {"code"}] /\ handling \in [Threads -> {{}}]
          /\ left \in [Threads -> {0}] /\ logs \in [Threads -> {0}]
          /\ handler \in [Signals -> {"default"}]
      BY DEF Init
    <3>3. 0 \in 0..TraceLines /\ 0 <= MaxCrashes /\ "code" \notin Inside
      BY LogBounds DEF Inside
    <3> QED BY <3>1, <3>2, <3>3 DEF Init, TypeInv
  <2>3. HandlerInv /\ RecordInv
    BY DEF Init, HandlerInv, RecordInv
  <2>4. TraceInv
    BY <2>1 DEF Init, TraceInv
  <2> QED BY <2>2, <2>3, <2>4 DEF LogInv
<1>2. LogInv /\ [Next]_vars => LogInv'
  BY TypeStep, HandlerStep, RecordStep, TraceStep DEF LogInv
<1> QED
  BY <1>1, <1>2, PTL DEF Spec

(* What a macro that has returned logged is in the file whatever happens     *)
(* later, and a process that dies of its only crash has its whole stack      *)
(* trace there.                                                              *)
THEOREM LogAlwaysSurvives == Spec => []LogSurvives
<1>1. LogInv => LogSurvives
  <2> SUFFICES ASSUME LogInv PROVE LogSurvives
    OBVIOUS
  <2>1. TypeOK /\ returned \subseteq OnDisk
    BY TypeInvIsTypeOK DEF LogInv, RecordInv
  <2>2. ASSUME process = "killed", g_sink, Len(crashes) = 1, NEW c \in Crashes
        PROVE  Trace(c) \subseteq OnDisk
    <3>1. c = crashes[1]
      BY <2>2 DEF Crashes, LogInv, TypeInv
    <3> QED BY <2>2, <3>1 DEF LogInv, TraceInv
  <2> QED BY <2>1, <2>2 DEF LogSurvives
<1> QED
  BY <1>1, LogInvAlways, PTL
=============================================================================
