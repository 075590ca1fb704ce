---------------------------- MODULE StartProcess ----------------------------
(***************************************************************************)
(* StartAsyncProcess(): a worker thread starts a child, copies its output  *)
(* to the log and waits for it; the owner may call Terminate() at any      *)
(* time.  The child writes to two pipes of bounded size, may close them    *)
(* long before it exits, and does nothing else that matters here.          *)
(***************************************************************************)
EXTENDS Integers, Sequences

CONSTANTS Capacity,    \* what a pipe holds before the child has to wait
          MaxOutput,   \* lines a child writes at most
          ExitCodes    \* of a child that exits by itself

Streams == {"out", "err"}

VARIABLES script,        \* the lines the child has still to write, by stream
          child,         \* "none", "writing", "silent" (closed its pipes), "exited", "killed"
          exitCode,      \* of a child that exited by itself, or of a wait that threw
          pipe,          \* lines in the pipes
          logged,        \* lines copied to the log, by stream
          wpc,           \* where the worker is
          myChild,       \* my_child is set
          was_terminated,
          future,        \* "pending", "threw", or the result
          tpc            \* where Terminate() is

vars == <<script, child, exitCode, pipe, logged, wpc, myChild, was_terminated, future, tpc>>

Init ==
    /\ script = << >> /\ child = "none" /\ exitCode = 0
    /\ pipe = [s \in Streams |-> 0] /\ logged = << >>
    /\ wpc = "start" /\ myChild = FALSE /\ was_terminated = FALSE
    /\ future = "pending" /\ tpc = "idle"

-----------------------------------------------------------------------------
(***************************************************************************)
(* The child                                                               *)
(***************************************************************************)
ChildWrites ==
    /\ child = "writing" /\ script # << >>
    /\ pipe[Head(script)] < Capacity
    /\ pipe' = [pipe EXCEPT ![Head(script)] = @ + 1]
    /\ script' = Tail(script)
    /\ UNCHANGED <<child, exitCode, logged, wpc, myChild, was_terminated, future, tpc>>

ChildCloses ==
    /\ child = "writing" /\ script = << >>
    /\ child' = "silent"
    /\ UNCHANGED <<script, exitCode, pipe, logged, wpc, myChild, was_terminated, future, tpc>>

ChildExits ==
    /\ child = "silent" \/ (child = "writing" /\ script = << >>)
    /\ child' = "exited" /\ exitCode' \in ExitCodes
    /\ UNCHANGED <<script, pipe, logged, wpc, myChild, was_terminated, future, tpc>>

-----------------------------------------------------------------------------
(***************************************************************************)
(* The worker: CreateChildProcess() with the waiter of StartProcess()      *)
(***************************************************************************)

\* A child that cannot be started throws into the future.
Create ==
    /\ wpc = "start"
    /\ \/ /\ wpc' = "out" /\ child' = "writing"
          /\ script' \in UNION {[1 .. n -> Streams] : n \in 0 .. MaxOutput}
          /\ UNCHANGED future
       \/ /\ wpc' = "done" /\ future' = "threw"
          /\ UNCHANGED <<child, script>>
    /\ UNCHANGED <<exitCode, pipe, logged, myChild, was_terminated, tpc>>

\* copy(): one stream to its end, then the other; WHLogSink logs line by line.
Copy(s, after) ==
    /\ wpc = s
    /\ IF pipe[s] > 0
       THEN /\ pipe' = [pipe EXCEPT ![s] = @ - 1]
            /\ logged' = Append(logged, s)
            /\ UNCHANGED wpc
       ELSE /\ child # "writing"
            /\ wpc' = after
            /\ UNCHANGED <<pipe, logged>>
    /\ UNCHANGED <<script, child, exitCode, myChild, was_terminated, future, tpc>>
CopyOutput == Copy("out", "err") \/ Copy("err", "waiter")

\* Only now does the object know its child.
SetChild ==
    /\ wpc = "waiter"
    /\ myChild' = TRUE /\ wpc' = "wait"
    /\ UNCHANGED <<script, child, exitCode, pipe, logged, was_terminated, future, tpc>>

\* Mutant of Wait: only a child that exits by itself is noticed.
WaitMissesKill ==
    /\ wpc = "wait" /\ child = "exited"
    /\ myChild' = FALSE /\ wpc' = "return"
    /\ UNCHANGED <<script, child, exitCode, pipe, logged, was_terminated, future, tpc>>

EXIT_FAILURE == 1

\* A child that terminate() has reaped is not there to wait for: wait() may throw then,
\* and the worker takes that for a failure.
Wait ==
    /\ wpc = "wait" /\ child \in {"exited", "killed"}
    /\ \/ UNCHANGED exitCode
       \/ was_terminated /\ exitCode' = EXIT_FAILURE
    /\ myChild' = FALSE /\ wpc' = "return"
    /\ UNCHANGED <<script, child, pipe, logged, was_terminated, future, tpc>>

\* Mutant of Return: the exit code alone decides.
ReturnExitCode ==
    /\ wpc = "return"
    /\ future' = IF exitCode # 0 THEN "failed" ELSE "ok"
    /\ wpc' = "done"
    /\ UNCHANGED <<script, child, exitCode, pipe, logged, myChild, was_terminated, tpc>>

\* The child object dies with the return.
Return ==
    /\ wpc = "return"
    /\ future' = IF was_terminated \/ exitCode # 0 THEN "failed" ELSE "ok"
    /\ wpc' = "done"
    /\ UNCHANGED <<script, child, exitCode, pipe, logged, myChild, was_terminated, tpc>>

Worker == Create \/ CopyOutput \/ SetChild \/ Wait \/ Return

-----------------------------------------------------------------------------
(***************************************************************************)
(* Terminate(), without a lock: its look at my_child and what it does with *)
(* it are apart.  If the worker has moved on meanwhile, the reference left *)
(* in my_child is to a child that was waited for, or is gone (undefined).  *)
(***************************************************************************)
Terminate ==
    /\ tpc = "idle" /\ myChild
    /\ tpc' = "found"
    /\ UNCHANGED <<script, child, exitCode, pipe, logged, wpc, myChild, was_terminated, future>>

SetTerminated ==
    /\ tpc = "found"
    /\ was_terminated' = TRUE /\ tpc' = "kill"
    /\ UNCHANGED <<script, child, exitCode, pipe, logged, wpc, myChild, future>>

Kill ==
    /\ tpc = "kill"
    /\ tpc' = IF wpc = "done" THEN "undefined" ELSE "idle"
    /\ child' = IF wpc # "done" /\ child = "silent" THEN "killed" ELSE child
    /\ UNCHANGED <<script, exitCode, pipe, logged, wpc, myChild, was_terminated, future>>

Owner == Terminate \/ SetTerminated \/ Kill

Next ==
    /\ tpc # "undefined"
    /\ ChildWrites \/ ChildCloses \/ ChildExits \/ Worker \/ Owner

-----------------------------------------------------------------------------
(***************************************************************************)
(* Properties                                                              *)
(***************************************************************************)
Lines(s, lines) == Len(SelectSeq(lines, LAMBDA x : x = s))

\* A result of success is the child's own: it exited by itself with 0, not by a late
\* Terminate(), and all it wrote is in the log, its output in front of its errors.
SuccessIsTheChilds ==
    future = "ok" =>
        /\ child = "exited" /\ exitCode = 0 /\ script = << >>
        /\ \A s \in Streams : pipe[s] = 0
        /\ \A i, j \in DOMAIN logged : i < j /\ logged[i] = "err" => logged[j] = "err"

\* Terminate() reaches no child that still writes: my_child is set when both streams
\* have ended.  It only ever ends children that closed their output and stayed.
TerminateIsLate == tpc # "idle" => script = << >> /\ child # "writing"

\* The process is over once the child is, unless the child fills the pipe of its errors
\* while the worker waits for the end of its output: then they wait for each other.
Stuck == wpc = "out" /\ script # << >> /\ Head(script) = "err" /\ pipe["err"] = Capacity
EndsUnlessStuck == wpc = "out" ~> (future # "pending" \/ Stuck \/ tpc = "undefined")
=============================================================================
