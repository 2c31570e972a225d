------------------------------ MODULE ExThread ------------------------------
(***************************************************************************)
(* The thread class of src/library/basic/exthread.cpp: one exthread        *)
(* object, the thread that owns it and calls run(), quit() and join(), and *)
(* the threads that pthread_create starts for it.                          *)
(*                                                                         *)
(* _id and _status are written by the started thread and read by the owner *)
(* with no lock, so each of their loads and stores is a step of its own.   *)
(* threadFunc() and quitRequested() are those of the subclass Mule: loop   *)
(* until _stopped, which quitRequested() sets and nothing ever clears.     *)
(***************************************************************************)
EXTENDS Integers

CONSTANTS
    MaxRuns,        \* bound: the calls of run()
    ReturnsByItself \* threadFunc() may also return unasked, as the unit tests' does

ASSUME RunsAssumption == MaxRuns \in Nat /\ ReturnsByItself \in BOOLEAN

VARIABLES
    id, status, tid,    \* _id, _status, _tid
    stopped,            \* Mule::_stopped
    opc,                \* the owner: the call it is in, and where
    wpc,                \* the started threads: where each of them is
    runs,               \* the calls of run() so far
    heard               \* history: the threads alive when a quit() began

vars == <<id, status, tid, stopped, opc, wpc, runs, heard>>

Threads == 1 .. MaxRuns     \* the pthread_t values handed out
NoTid == 0
StaleTid == -1              \* what a failed pthread_create may leave in _tid
NoId == -1
Pid == 1                    \* getpid()

Statuses == {"READY", "STARTING", "RUNNING", "FINISHING"}
InFunc == {"test", "body"}
Stoppable == InFunc \cup {"setRunning"}      \* has an id, and will test _stopped
Ended == {"unborn", "exited", "joined"}

Alive(t) == wpc[t] \notin {"unborn", "joined"}

Init ==
    /\ id = NoId /\ status = "READY" /\ tid = NoTid
    /\ stopped = FALSE
    /\ opc = "idle"
    /\ wpc = [t \in Threads |-> "unborn"]
    /\ runs = 0 /\ heard = {}

-----------------------------------------------------------------------------
(* The owner.                                                              *)

\* Nobody runs an object again before the thread it started is joined.
MayRun == opc = "idle" /\ runs < MaxRuns
              /\ \A t \in Threads : wpc[t] \in {"unborn", "joined"}

\* run(): pthread_create starts a thread ...
RunCreate ==
    /\ MayRun
    /\ runs' = runs + 1
    /\ tid' = runs'
    /\ wpc' = [wpc EXCEPT ![runs'] = "initThread"]
    /\ opc' = "usleep"
    /\ UNCHANGED <<id, status, stopped, heard>>

\* ... or fails, with the contents of _tid left undefined.
RunFail ==
    /\ MayRun
    /\ runs' = runs + 1
    /\ status' = "READY"
    /\ tid' \in {tid, StaleTid}
    /\ UNCHANGED <<id, stopped, opc, wpc, heard>>

\* usleep(10000): ten milliseconds pass, whatever the started thread has done.
RunReturn ==
    /\ opc = "usleep"
    /\ opc' = "idle"
    /\ UNCHANGED <<id, status, tid, stopped, wpc, runs, heard>>

\* quit(): isAlive() loads _status, and _id if that is not RUNNING.
QuitStatus ==
    /\ opc = "idle"
    /\ opc' = IF status = "RUNNING" THEN "quitRequested" ELSE "quitId"
    /\ heard' = heard \cup {t \in Threads : wpc[t] \in Stoppable}
    /\ UNCHANGED <<id, status, tid, stopped, wpc, runs>>

QuitIdInverted ==
    /\ opc = "quitId"
    /\ opc' = IF id # NoId THEN "idle" ELSE "quitRequested"
    /\ UNCHANGED <<id, status, tid, stopped, wpc, runs, heard>>
QuitId ==
    /\ opc = "quitId"
    /\ opc' = IF id # NoId THEN "quitRequested" ELSE "idle"
    /\ UNCHANGED <<id, status, tid, stopped, wpc, runs, heard>>

QuitRequested ==
    /\ opc = "quitRequested"
    /\ stopped' = TRUE
    /\ opc' = "idle"
    /\ UNCHANGED <<id, status, tid, wpc, runs, heard>>

\* join(): if (!_tid) return; a stale _tid is answered with ESRCH.
JoinCall ==
    /\ opc = "idle" /\ tid # NoTid
    /\ opc' = "join"
    /\ UNCHANGED <<id, status, tid, stopped, wpc, runs, heard>>

JoinReturn ==
    /\ opc = "join"
    /\ tid \in Threads => wpc[tid] = "exited"
    /\ wpc' = [t \in Threads |-> IF t = tid THEN "joined" ELSE wpc[t]]
    /\ tid' = NoTid
    /\ opc' = "idle"
    /\ UNCHANGED <<id, status, stopped, runs, heard>>

-----------------------------------------------------------------------------
(* The started thread: _coreThreadFunc().                                  *)

InitThread(t) ==
    /\ wpc[t] = "initThread"
    /\ id' = Pid
    /\ wpc' = [wpc EXCEPT ![t] = "setRunning"]
    /\ UNCHANGED <<status, tid, stopped, opc, runs, heard>>

\* runThread(): started() does nothing in any subclass.
SetRunning(t) ==
    /\ wpc[t] = "setRunning"
    /\ status' = "RUNNING"
    /\ wpc' = [wpc EXCEPT ![t] = "test"]
    /\ UNCHANGED <<id, tid, stopped, opc, runs, heard>>

\* threadFunc(): while (!_stopped) { ... }
TestStopped(t) ==
    /\ wpc[t] = "test"
    /\ wpc' = [wpc EXCEPT ![t] = IF stopped THEN "setFinishing" ELSE "body"]
    /\ UNCHANGED <<id, status, tid, stopped, opc, runs, heard>>

Body(t) ==
    /\ wpc[t] = "body"
    /\ \E to \in {"test"} \cup (IF ReturnsByItself THEN {"setFinishing"} ELSE {}) :
           wpc' = [wpc EXCEPT ![t] = to]
    /\ UNCHANGED <<id, status, tid, stopped, opc, runs, heard>>

\* finished() does nothing in any subclass.
SetFinishing(t) ==
    /\ wpc[t] = "setFinishing"
    /\ status' = "FINISHING"
    /\ wpc' = [wpc EXCEPT ![t] = "setReady"]
    /\ UNCHANGED <<id, tid, stopped, opc, runs, heard>>

\* cleanupThread()
SetReady(t) ==
    /\ wpc[t] = "setReady"
    /\ status' = "READY"
    /\ wpc' = [wpc EXCEPT ![t] = "clearId"]
    /\ UNCHANGED <<id, tid, stopped, opc, runs, heard>>

ClearIdSkipped(t) ==
    /\ wpc[t] = "clearId"
    /\ wpc' = [wpc EXCEPT ![t] = "exited"]
    /\ UNCHANGED <<id, status, tid, stopped, opc, runs, heard>>
ClearId(t) ==
    /\ wpc[t] = "clearId"
    /\ id' = NoId
    /\ wpc' = [wpc EXCEPT ![t] = "exited"]
    /\ UNCHANGED <<status, tid, stopped, opc, runs, heard>>

-----------------------------------------------------------------------------
InCall == \/ RunReturn \/ QuitId \/ QuitRequested \/ JoinReturn
Owner == RunCreate \/ RunFail \/ QuitStatus \/ JoinCall \/ InCall

Worker(t) == \/ InitThread(t) \/ SetRunning(t) \/ TestStopped(t) \/ Body(t)
             \/ SetFinishing(t) \/ SetReady(t) \/ ClearId(t)

Next == Owner \/ \E t \in Threads : Worker(t)

\* The system runs every started thread, and the owner inside its calls; when
\* the owner makes a call is up to it.
Spec == /\ Init /\ [][Next]_vars
        /\ WF_vars(InCall) /\ \A t \in Threads : WF_vars(Worker(t))

-----------------------------------------------------------------------------
(* Properties                                                              *)

\* Every variable holds a value of its type.
TypeOK ==
    /\ id \in {NoId, Pid} /\ status \in Statuses
    /\ tid \in Threads \cup {NoTid, StaleTid}
    /\ stopped \in BOOLEAN
    /\ opc \in {"idle", "usleep", "quitId", "quitRequested", "join"}
    /\ wpc \in [Threads -> InFunc \cup Ended \cup
                {"initThread", "setRunning", "setFinishing", "setReady", "clearId"}]
    /\ runs \in 0 .. MaxRuns /\ heard \subseteq Threads

\* A quit() that begins after initThread() is never lost: although isAlive()
\* looks at two variables at two moments, it answers false only when
\* threadFunc() has been left in between.
QuitHeard == opc = "idle" =>
    \A t \in heard : stopped \/ wpc[t] \notin Stoppable

\* The handle and what isAlive() reads belong to the same thread.  While a thread
\* lives, exited and not joined included, _tid is its handle, so that join() waits
\* for that one and for none twice; and once no thread is left to write them (each
\* has left cleanupThread()), _id and _status make isAlive() answer false, so that
\* a quit() asks nobody.  Nothing is said of _stopped, which stays set, nor of _tid
\* where no thread lives: a failed run() may leave a stale handle in it.
SeesItsThread ==
    /\ \A t \in Threads : Alive(t) => tid = t
    /\ (\A t \in Threads : wpc[t] \in Ended) => (id = NoId /\ status # "RUNNING")

\* quit() then join(): if the thread had got past initThread() when quit() was
\* called, join() returns.
QuitThenJoinReturns == \A t \in Threads :
    (opc = "join" /\ tid = t /\ t \in heard) ~> wpc[t] = "joined"
=============================================================================
