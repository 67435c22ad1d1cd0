------------------------------ MODULE Logging ------------------------------
(***************************************************************************)
(* log/logging.cpp and the macros of logging.h: LogInit, threads that log, *)
(* and SystemErrorHandler, which runs in the thread that crashed, at       *)
(* whatever point that was, and logs as well.                              *)
(*                                                                         *)
(* The sink is spdlog's: a record is written under the sink's mutex and    *)
(* flushed under it again.  The mutex is not recursive.                    *)
(***************************************************************************)
EXTENDS Naturals, Sequences, FiniteSets

CONSTANTS
  Threads,
  TraceLines,  \* lines of a stack trace
  MaxLogs,     \* bound on the records a thread logs
  MaxCrashes   \* bound on the crashes

ASSUME LogBounds == TraceLines \in Nat \ {0} /\ MaxLogs \in Nat /\ MaxCrashes \in Nat

Signals == {"SIGSEGV", "SIGABRT"}
Free == "free"
ASSUME FreeAssumption == Free \notin Threads

VARIABLES
  process,     \* "starting" until LogInit returns, "running", "exited" by exit or main's end,
               \* or "killed"
  g_sink,      \* the logger is there
  handler,     \* of each signal: "default" or SystemErrorHandler, "print"
  mutex_,      \* of the sink
  pc,          \* of each thread: "code", or a step of the sink
  handling,    \* of each thread: the signals whose handlers are on its stack
  left,        \* of each thread: lines of the trace it has still to log
  logs,        \* of each thread: the records it has begun
  buffer, disk,  \* records written, and records flushed
  returned,    \* history: the records whose macro has returned
  crashes      \* history: which thread crashed, where, and after how many records

files == <<buffer, disk>>
log == <<g_sink, handler>>
vars == <<process, log, mutex_, pc, handling, left, logs, files, returned, crashes>>

Init ==
  /\ process = "starting"
  /\ g_sink = FALSE
  /\ handler = [s \in Signals |-> "default"]
  /\ mutex_ = Free
  /\ pc = [t \in Threads |-> "code"]
  /\ handling = [t \in Threads |-> {}]
  /\ left = [t \in Threads |-> 0]
  /\ logs = [t \in Threads |-> 0]
  /\ buffer = <<>> /\ disk = <<>>
  /\ returned = {}
  /\ crashes = <<>>

threads == <<mutex_, pc, handling, left, logs, files, returned, crashes>>
Go(t, from, to) == pc[t] = from /\ pc' = [pc EXCEPT ![t] = to]

Handled == [s \in Signals |-> "print"]

(***************************************************************************)
(* Not called, or with level "off"; a file that cannot be opened, which    *)
(* leaves g_sink as it was, LogFini dropping spdlog's own registry only;   *)
(* or all there.                                                           *)
(***************************************************************************)
LogInit ==
  /\ process = "starting"
  /\ process' = "running"
  /\ \/ UNCHANGED log
     \/ g_sink' = TRUE /\ handler' = Handled
  /\ UNCHANGED threads

(***************************************************************************)
(* The macro: GetSink, and nothing happens without a logger.  A thread is  *)
(* in its own code or, while there is a trace to log, in the handler.      *)
(***************************************************************************)
Log(t) ==
  /\ Go(t, "code", "write")
  /\ g_sink
  /\ IF handling[t] = {} THEN logs[t] < MaxLogs ELSE left[t] > 0
  /\ logs' = [logs EXCEPT ![t] = @ + 1]
  /\ UNCHANGED <<log, mutex_, handling, left, files, returned, crashes>>

Acquire(t) ==
  /\ mutex_ = Free
  /\ mutex_' = t
  /\ \/ Go(t, "write", "writing")
     \/ Go(t, "flush", "flushing")
  /\ UNCHANGED <<log, handling, left, logs, files, returned, crashes>>

\* BUG: flush_on(err): what is not an error stays in the buffer.
AfterWriteErr(t) == IF handling[t] = {} THEN "return" ELSE "flush"

(* flush_on(trace): every record is flushed.                                *)
AfterWrite(t) == "flush"

Write(t) ==
  /\ mutex_ = t
  /\ Go(t, "writing", AfterWrite(t))
  /\ buffer' = Append(buffer, <<t, logs[t]>>)
  /\ mutex_' = Free
  /\ UNCHANGED <<log, handling, left, logs, disk, returned, crashes>>

Flush(t) ==
  /\ mutex_ = t
  /\ Go(t, "flushing", "return")
  /\ disk' = disk \o buffer
  /\ buffer' = <<>>
  /\ mutex_' = Free
  /\ UNCHANGED <<log, handling, left, logs, returned, crashes>>

(* The process is left by exit or at main's end: with g_sink the file goes, *)
(* and closing it writes what was buffered, whoever has the mutex.          *)
Leave ==
  /\ process' = "exited"
  /\ disk' = disk \o buffer
  /\ buffer' = <<>>

(* An exception of fwrite unlocks the mutex and gets to the error handler,  *)
(* which leaves the process.                                                *)
WriteFails(t) ==
  /\ pc[t] = "writing" /\ mutex_ = t
  /\ Leave
  /\ mutex_' = Free
  /\ pc' = [pc EXCEPT ![t] = "error"]
  /\ UNCHANGED <<log, handling, left, logs, returned, crashes>>

LogReturns(t) ==
  /\ Go(t, "return", "code")
  /\ returned' = returned \cup {<<t, logs[t]>>}
  /\ left' = [left EXCEPT ![t] = IF handling[t] = {} THEN 0 ELSE @ - 1]
  /\ UNCHANGED <<log, mutex_, handling, logs, files, crashes>>

Die ==
  /\ process' = "killed"
  /\ buffer' = <<>>
  /\ UNCHANGED <<log, mutex_, pc, handling, left, logs, disk, returned>>

\* BUG: the handler stays installed and, having logged one trace, is entered for ever.
HandleForEver(t, s) ==
  /\ handling' = [handling EXCEPT ![t] = @ \cup {s}]
  /\ left' = [left EXCEPT ![t] = IF handling[t] = {} THEN TraceLines ELSE 0]
  /\ pc' = [pc EXCEPT ![t] = "code"]
  /\ UNCHANGED <<process, log, mutex_, logs, files, returned>>

(***************************************************************************)
(* SystemErrorHandler begins: the signal gets its default again, and the   *)
(* trace is taken.  The mutex stays with whom it is.                       *)
(***************************************************************************)
Handle(t, s) ==
  /\ handling' = [handling EXCEPT ![t] = @ \cup {s}]
  /\ handler' = [handler EXCEPT ![s] = "default"]
  /\ left' = [left EXCEPT ![t] = TraceLines]
  /\ pc' = [pc EXCEPT ![t] = "code"]
  /\ UNCHANGED <<process, g_sink, mutex_, logs, files, returned>>

Where(t) == IF mutex_ = t THEN "sink" ELSE "code"

Crash(t, s) ==
  /\ Len(crashes) < MaxCrashes
  /\ pc[t] \in {"code", "writing", "flushing"}
  /\ crashes' = Append(crashes, [thread |-> t, in |-> Where(t), after |-> logs[t]])
  /\ IF handler[s] = "print" THEN Handle(t, s) ELSE Die

(* The handler returns: the instruction that crashed runs again, or abort   *)
(* goes on and raises the signal once more.                                 *)
HandlerReturns(t) ==
  /\ pc[t] = "code" /\ handling[t] # {}
  /\ left[t] = 0
  /\ \E s \in handling[t] : IF handler[s] = "print" THEN Handle(t, s) ELSE Die
  /\ UNCHANGED crashes

(* A thread ends the program, at any place of its own code.                 *)
Exit(t) ==
  /\ pc[t] = "code" /\ handling[t] = {}
  /\ Leave
  /\ UNCHANGED <<log, mutex_, pc, handling, left, logs, returned, crashes>>

Step(t) ==
  /\ process = "running"
  /\ \/ WriteFails(t)
     \/ HandlerReturns(t)
     \/ /\ \/ Log(t) \/ Acquire(t) \/ Write(t) \/ Flush(t) \/ LogReturns(t)
        /\ UNCHANGED process

Next ==
  \/ LogInit
  \/ \E t \in Threads : Step(t)
  \/ \E t \in Threads : process = "running" /\ Exit(t)
  \/ \E t \in Threads, s \in Signals : process = "running" /\ Crash(t, s)

(***************************************************************************)
(* A running thread is scheduled again and again.  Nobody must log, crash  *)
(* or end the program: those that log do so MaxLogs times at most, and     *)
(* then a handler gets the mutex.                                          *)
(***************************************************************************)
Spec == Init /\ [][Next]_vars /\ \A t \in Threads : WF_vars(Step(t))

-----------------------------------------------------------------------------
(* The variables have the values the declarations promise.                   *)
TypeOK ==
  /\ process \in {"starting", "running", "exited", "killed"}
  /\ g_sink \in BOOLEAN
  /\ handler \in [Signals -> {"default", "print"}]
  /\ mutex_ \in Threads \cup {Free}
  /\ pc \in [Threads -> {"code", "write", "writing", "flush", "flushing", "return", "error"}]
  /\ handling \in [Threads -> SUBSET Signals]
  /\ left \in [Threads -> 0..TraceLines]
  /\ \A r \in {buffer[n] : n \in DOMAIN buffer} \cup {disk[n] : n \in DOMAIN disk} :
       r \in Threads \X (Nat \ {0})
  /\ Len(crashes) <= MaxCrashes

Crashes == {crashes[n] : n \in DOMAIN crashes}
OnDisk == {disk[n] : n \in DOMAIN disk}
Trace(c) == {<<c.thread, c.after + n>> : n \in 1..TraceLines}

(* What was logged outlives the process: a record whose macro has returned   *)
(* is in the file whatever happens afterwards, and a process that dies of    *)
(* its only crash has its whole stack trace there, if the log was; a second  *)
(* crash may cut the trace of a first.                                       *)
LogSurvives ==
  /\ TypeOK
  /\ returned \subseteq OnDisk
  /\ process = "killed" /\ g_sink /\ Len(crashes) = 1 =>
       \A c \in Crashes : Trace(c) \subseteq OnDisk

(* A crash outside the sink ends the process, unless another thread crashes  *)
(* inside it.                                                                *)
SinkLost == \E c \in Crashes : c.in = "sink"
CrashEnds == (crashes # <<>> /\ ~SinkLost) ~> (process # "running" \/ SinkLost)

(* logging.cpp says where it installs the handler that the call stack is     *)
(* printed when the program crashes: the trace of a crash gets into the      *)
(* file, unless the program is left before, or crashes again.  It does not   *)
(* if the crash is inside the sink: its mutex belongs to the thread that     *)
(* crashed, and the handler, in the same thread, waits for it.               *)
CrashIsPrinted ==
  (g_sink /\ Len(crashes) = 1) ~>
    ((\A c \in Crashes : Trace(c) \subseteq OnDisk) \/ process = "exited" \/ Len(crashes) > 1)
=============================================================================
