--------------------------- MODULE ExThreadProofs ---------------------------
(***************************************************************************)
(* Proofs about the thread class, for any number of runs: the type         *)
(* invariant, that a quit() is never lost once the thread has an id, and   *)
(* that the handle and what isAlive() reads are those of the one thread.   *)
(*                                                                         *)
(* The owner reads _status and _id at two moments, so QuitHeard does not   *)
(* follow from itself.  ThreadInv ties both variables to the place of the  *)
(* one thread alive (OneAlive); from it an id that is absent says that no  *)
(* thread is in threadFunc() or before it, whatever _status was.           *)
(***************************************************************************)
EXTENDS ExThread, TLAPS

\* No thread is started while another is not joined.
OneAlive ==
    /\ \A s, t \in Threads : Alive(s) /\ Alive(t) => s = t
    /\ \A t \in Threads : t > runs => wpc[t] = "unborn"

\* What _id and _status say of the thread alive, and of none.
ThreadInv ==
    /\ \A t \in Threads :
        /\ wpc[t] \in {"initThread", "exited"} => id = NoId
        /\ wpc[t] \in Stoppable \cup {"setFinishing", "setReady", "clearId"} => id = Pid
        /\ wpc[t] \in {"initThread", "setRunning", "clearId", "exited"} => status = "READY"
        /\ wpc[t] \in InFunc \cup {"setFinishing"} => status = "RUNNING"
        /\ wpc[t] = "setReady" => status = "FINISHING"
    /\ (\A t \in Threads : ~Alive(t)) => id = NoId /\ status = "READY"

\* Outside quit() every thread that had to hear of it has, or will not loop again.
HeardInv ==
    /\ \A t \in heard : wpc[t] \notin {"unborn", "initThread"}
    /\ opc \notin {"quitId", "quitRequested"} =>
           \A t \in heard : stopped \/ wpc[t] \notin Stoppable

Inv == TypeOK /\ OneAlive /\ ThreadInv /\ HeardInv

-----------------------------------------------------------------------------

\* The initial state satisfies the invariant.
LEMMA InitInv == Init => Inv
<1> SUFFICES ASSUME Init PROVE Inv
    OBVIOUS
<1> USE RunsAssumption DEF Init, Threads, NoTid, NoId, InFunc, Ended, Stoppable
<1>1. TypeOK
    <2>1. runs \in 0 .. MaxRuns BY SMT
    <2>2. wpc \in [Threads -> {"unborn"}] OBVIOUS
    <2> QED BY <2>1, <2>2 DEF TypeOK, Statuses
<1>2. OneAlive BY DEF OneAlive, Alive
<1>3. ThreadInv BY DEF ThreadInv
<1>4. HeardInv BY DEF HeardInv
<1> QED BY <1>1, <1>2, <1>3, <1>4 DEF Inv

\* Each step of the owner and of the started thread keeps the types.
LEMMA TypeStep == TypeOK /\ [Next]_vars => TypeOK'
<1> SUFFICES ASSUME TypeOK, [Next]_vars PROVE TypeOK'
    OBVIOUS
<1> USE RunsAssumption DEF TypeOK, Threads, NoTid, StaleTid, NoId, Pid, Statuses, InFunc, Ended,
        Stoppable
<1>1. CASE RunCreate
    <2>1. runs' \in 1 .. MaxRuns
        BY <1>1 DEF RunCreate, MayRun
    <2> QED BY <1>1, <2>1 DEF RunCreate
<1>2. CASE RunFail
    <2>1. runs' \in 1 .. MaxRuns
        BY <1>2 DEF RunFail, MayRun
    <2> QED BY <1>2, <2>1 DEF RunFail
<1>3. CASE RunReturn BY <1>3 DEF RunReturn
<1>4. CASE QuitStatus BY <1>4 DEF QuitStatus
<1>5. CASE QuitId BY <1>5 DEF QuitId
<1>6. CASE QuitRequested BY <1>6 DEF QuitRequested
<1>7. CASE JoinCall BY <1>7 DEF JoinCall
<1>8. CASE JoinReturn BY <1>8 DEF JoinReturn
<1>9. ASSUME NEW t \in Threads, Worker(t) PROVE TypeOK'
    BY <1>9 DEF Worker, InitThread, SetRunning, TestStopped, Body, SetFinishing, SetReady,
       ClearId
<1>10. CASE UNCHANGED vars BY <1>10 DEF vars
<1> QED BY <1>1, <1>2, <1>3, <1>4, <1>5, <1>6, <1>7, <1>8, <1>9, <1>10 DEF Next, Owner, InCall

\* run() starts a thread only when none is alive, and join() buries the one it waited for.
LEMMA OneAliveStep == TypeOK /\ OneAlive /\ [Next]_vars => OneAlive'
<1> SUFFICES ASSUME TypeOK, OneAlive, [Next]_vars PROVE OneAlive'
    OBVIOUS
<1> USE RunsAssumption DEF TypeOK, OneAlive, Alive, Threads
<1>1. CASE RunCreate
    <2>1. runs' = runs + 1 /\ \A t \in Threads : wpc'[t] = IF t = runs' THEN "initThread" ELSE wpc[t]
        BY <1>1 DEF RunCreate, MayRun
    <2>2. \A t \in Threads : wpc[t] \in {"unborn", "joined"}
        BY <1>1 DEF RunCreate, MayRun
    <2> QED BY <2>1, <2>2
<1>2. CASE RunFail BY <1>2 DEF RunFail
<1>3. CASE RunReturn \/ QuitStatus \/ QuitId \/ QuitRequested \/ JoinCall
    BY <1>3 DEF RunReturn, QuitStatus, QuitId, QuitRequested, JoinCall
<1>4. CASE JoinReturn
    <2>1. \A t \in Threads : wpc'[t] = IF t = tid THEN "joined" ELSE wpc[t]
        BY <1>4 DEF JoinReturn
    <2>2. \A t \in Threads : t = tid => wpc[t] = "exited"
        BY <1>4 DEF JoinReturn
    <2> QED BY <1>4, <2>1, <2>2 DEF JoinReturn
<1>5. ASSUME NEW t \in Threads, Worker(t) PROVE OneAlive'
    <2>1. wpc[t] \notin {"unborn", "joined"} /\ runs' = runs
        BY <1>5 DEF Worker, InitThread, SetRunning, TestStopped, Body, SetFinishing, SetReady,
           ClearId, InFunc
    <2>2. \A s \in Threads : s # t => wpc'[s] = wpc[s]
        BY <1>5 DEF Worker, InitThread, SetRunning, TestStopped, Body, SetFinishing, SetReady,
           ClearId
    <2> QED BY <2>1, <2>2
<1>6. CASE UNCHANGED vars BY <1>6 DEF vars
<1> QED BY <1>1, <1>2, <1>3, <1>4, <1>5, <1>6 DEF Next, Owner, InCall

\* _id and _status follow the thread alive through its life.
LEMMA ThreadStep == Inv /\ [Next]_vars => ThreadInv'
<1> SUFFICES ASSUME Inv, [Next]_vars PROVE ThreadInv'
    OBVIOUS
<1> USE RunsAssumption DEF Inv, TypeOK, OneAlive, ThreadInv, Alive, Threads, Stoppable, InFunc,
        NoId, Pid
<1>1. CASE RunCreate
    <2>1. runs' \in Threads /\ \A t \in Threads : wpc'[t] = IF t = runs' THEN "initThread" ELSE wpc[t]
        BY <1>1 DEF RunCreate, MayRun
    <2>2. \A t \in Threads : wpc[t] \in {"unborn", "joined"}
        BY <1>1 DEF RunCreate, MayRun
    <2>3. id' = id /\ status' = status
        BY <1>1 DEF RunCreate
    <2> QED BY <2>1, <2>2, <2>3
<1>2. CASE RunFail
    <2>1. \A t \in Threads : wpc[t] \in {"unborn", "joined"}
        BY <1>2 DEF RunFail, MayRun
    <2>2. id' = id /\ status' = "READY" /\ wpc' = wpc
        BY <1>2 DEF RunFail
    <2> QED BY <2>1, <2>2
<1>3. CASE RunReturn \/ QuitStatus \/ QuitId \/ QuitRequested \/ JoinCall
    BY <1>3 DEF RunReturn, QuitStatus, QuitId, QuitRequested, JoinCall
<1>4. CASE JoinReturn
    <2>1. \A t \in Threads : wpc'[t] = IF t = tid THEN "joined" ELSE wpc[t]
        BY <1>4 DEF JoinReturn
    <2>2. \A t \in Threads : t = tid => wpc[t] = "exited"
        BY <1>4 DEF JoinReturn
    <2>3. id' = id /\ status' = status
        BY <1>4 DEF JoinReturn
    <2> QED BY <2>1, <2>2, <2>3
<1>5. ASSUME NEW t \in Threads, Worker(t) PROVE ThreadInv'
    <2>1. Alive(t) /\ \A s \in Threads : s # t => ~Alive(s) /\ wpc'[s] = wpc[s]
        BY <1>5 DEF Worker, InitThread, SetRunning, TestStopped, Body, SetFinishing, SetReady,
           ClearId
    <2>2. CASE InitThread(t) BY <2>1, <2>2 DEF InitThread
    <2>3. CASE SetRunning(t) BY <2>1, <2>3 DEF SetRunning
    <2>4. CASE TestStopped(t) BY <2>1, <2>4 DEF TestStopped
    <2>5. CASE Body(t) BY <2>1, <2>5 DEF Body
    <2>6. CASE SetFinishing(t) BY <2>1, <2>6 DEF SetFinishing
    <2>7. CASE SetReady(t) BY <2>1, <2>7 DEF SetReady
    <2>8. CASE ClearId(t) BY <2>1, <2>8 DEF ClearId
    <2> QED BY <1>5, <2>2, <2>3, <2>4, <2>5, <2>6, <2>7, <2>8 DEF Worker
<1>6. CASE UNCHANGED vars BY <1>6 DEF vars
<1> QED BY <1>1, <1>2, <1>3, <1>4, <1>5, <1>6 DEF Next, Owner, InCall

\* A quit() that found no id found no thread that could still hear it.
LEMMA HeardStep == Inv /\ [Next]_vars => HeardInv'
<1> SUFFICES ASSUME Inv, [Next]_vars PROVE HeardInv'
    OBVIOUS
<1> USE RunsAssumption DEF Inv, TypeOK, HeardInv, Threads, Stoppable, InFunc
<1>1. CASE RunCreate
    <2>1. \A t \in Threads : t # runs + 1 => wpc'[t] = wpc[t]
        BY <1>1 DEF RunCreate
    <2>2. runs + 1 \notin heard
        BY DEF OneAlive
    <2> QED BY <1>1, <2>1, <2>2 DEF RunCreate, MayRun
<1>2. CASE RunFail BY <1>2 DEF RunFail, MayRun
<1>3. CASE RunReturn BY <1>3 DEF RunReturn
<1>4. CASE QuitStatus BY <1>4 DEF QuitStatus
<1>5. CASE QuitId
    <2>1. CASE id = NoId
        <3>1. \A t \in Threads : wpc[t] \notin Stoppable
            BY <2>1 DEF ThreadInv, NoId, Pid
        <3> QED BY <1>5, <3>1 DEF QuitId
    <2>2. CASE id # NoId
        BY <1>5, <2>2 DEF QuitId
    <2> QED BY <2>1, <2>2
<1>6. CASE QuitRequested BY <1>6 DEF QuitRequested
<1>7. CASE JoinCall BY <1>7 DEF JoinCall
<1>8. CASE JoinReturn BY <1>8 DEF JoinReturn
<1>9. ASSUME NEW t \in Threads, Worker(t) PROVE HeardInv'
    <2>1. heard' = heard /\ opc' = opc /\ stopped' = stopped
        BY <1>9 DEF Worker, InitThread, SetRunning, TestStopped, Body, SetFinishing, SetReady,
           ClearId
    <2>2. \A s \in Threads : s # t => wpc'[s] = wpc[s]
        BY <1>9 DEF Worker, InitThread, SetRunning, TestStopped, Body, SetFinishing, SetReady,
           ClearId
    <2>3. wpc[t] # "unborn" /\ wpc'[t] \notin {"unborn", "initThread"}
        BY <1>9 DEF Worker, InitThread, SetRunning, TestStopped, Body, SetFinishing, SetReady,
           ClearId
    <2>4. wpc'[t] \in Stoppable => wpc[t] \in Stoppable \cup {"initThread"}
        BY <1>9 DEF Worker, InitThread, SetRunning, TestStopped, Body, SetFinishing, SetReady,
           ClearId
    <2> QED BY <2>1, <2>2, <2>3, <2>4
<1>10. CASE UNCHANGED vars BY <1>10 DEF vars
<1> QED BY <1>1, <1>2, <1>3, <1>4, <1>5, <1>6, <1>7, <1>8, <1>9, <1>10 DEF Next, Owner, InCall

\* The inductive invariant of the thread class.
THEOREM InvTheorem == Spec => []Inv
<1>1. Inv /\ [Next]_vars => Inv'
    BY TypeStep, OneAliveStep, ThreadStep, HeardStep DEF Inv
<1> QED BY InitInv, <1>1, PTL DEF Spec

\* Every variable of exthread and of its threads keeps its type.
THEOREM TypeCorrect == Spec => []TypeOK
<1>1. Inv => TypeOK
    BY DEF Inv
<1> QED BY InvTheorem, <1>1, PTL

\* A quit() that begins when the thread is past initThread() is never lost,
\* although isAlive() reads two unlocked variables one after the other.
THEOREM QuitHeardTheorem == Spec => []QuitHeard
<1>1. Inv => QuitHeard
    BY DEF Inv, HeardInv, QuitHeard
<1> QED BY InvTheorem, <1>1, PTL

\* The handle of the thread alive: _tid names it until join() has returned.
HandleKept ==
    /\ \A t \in Threads : Alive(t) => tid = t
    /\ opc = "join" => tid # NoTid

LEMMA HandleStep == TypeOK /\ HandleKept /\ [Next]_vars => HandleKept'
<1> SUFFICES ASSUME TypeOK, HandleKept, [Next]_vars PROVE HandleKept'
    OBVIOUS
<1> USE RunsAssumption DEF HandleKept, TypeOK, Alive, Threads, NoTid
<1>1. CASE RunCreate BY <1>1 DEF RunCreate, MayRun
<1>2. CASE RunFail BY <1>2 DEF RunFail, MayRun
<1>3. CASE RunReturn \/ QuitStatus \/ QuitId \/ QuitRequested \/ JoinCall
    BY <1>3 DEF RunReturn, QuitStatus, QuitId, QuitRequested, JoinCall
<1>4. CASE JoinReturn BY <1>4 DEF JoinReturn
<1>5. ASSUME NEW t \in Threads, Worker(t) PROVE HandleKept'
    <2>1. tid' = tid /\ opc' = opc
        BY <1>5 DEF Worker, InitThread, SetRunning, TestStopped, Body, SetFinishing,
                    SetReady, ClearId
    <2>2. Alive(t) /\ \A u \in Threads \ {t} : wpc'[u] = wpc[u]
        BY <1>5 DEF Worker, InitThread, SetRunning, TestStopped, Body, SetFinishing,
                    SetReady, ClearId
    <2> QED BY <2>1, <2>2
<1>6. CASE UNCHANGED vars BY <1>6 DEF vars
<1> QED BY <1>1, <1>2, <1>3, <1>4, <1>5, <1>6 DEF Next, Owner, InCall

\* The thread that lives is the one join() waits for, also after a run() that
\* failed, and when none is left isAlive() answers false, for any number of runs.
THEOREM SeesItsThreadTheorem == Spec => []SeesItsThread
<1>1. Init => HandleKept
    BY DEF Init, HandleKept, Alive
<1>2. Inv /\ HandleKept => SeesItsThread
    BY DEF Inv, ThreadInv, HandleKept, SeesItsThread, Alive, Ended
<1> QED BY <1>1, <1>2, HandleStep, TypeCorrect, InvTheorem, PTL DEF Spec
=============================================================================
