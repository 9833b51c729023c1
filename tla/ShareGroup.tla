----------------------------- MODULE ShareGroup -----------------------------
(***************************************************************************)
(* A share group: contexts on threads of their own, the objects they       *)
(* share, the threads that compile for them and the GPU.                   *)
(***************************************************************************)
EXTENDS SharedBuffers, SharedPrograms, SharedSyncs

vars == <<client, alive, lock, bufs, progs, syncs>>

Init ==
    /\ EntryInit /\ ProgramsInit
    /\ bufs = NewBuffers /\ syncs = NewSyncs

\* Context::onDestroy.  The managers are destroyed with the last context.
DestroyContext(c) ==
    LET call == Call("DestroyContext", c, 0, 0)
        last == alive = {c}
        p == ReleasePrograms(progs, c, last) IN
    /\ c \in alive /\ (lock = NoCall \/ Holds(call))
    /\ IF Finished(p)
       THEN /\ progs' = DropPools([p EXCEPT !.waits = {}])
            /\ bufs' = ReleaseBuffers(bufs, c, last)
            /\ syncs' = ReleaseSyncs(syncs, c, last)
            /\ alive' = alive \ {c} /\ lock' = NoCall
       ELSE /\ lock = NoCall /\ lock' = call
            /\ UNCHANGED <<alive, bufs, progs, syncs>>
    /\ UNCHANGED client

\* The process ends.
Ended ==
    /\ alive = {} /\ syncs.gpu = <<>> /\ syncs.listeners = {}
    /\ \A i \in Tasks : progs.workers.tasks[i].state = "none"
    /\ UNCHANGED vars

ContextStep(c) ==
    \/ BufferCall(c) /\ UNCHANGED <<progs, syncs>>
    \/ ProgramCall(c) /\ UNCHANGED <<bufs, syncs>>
    \/ (SyncCall(c) \/ Finish(c)) /\ UNCHANGED <<bufs, progs>>
    \/ DestroyContext(c)

Workers == WorkerStep /\ UNCHANGED <<bufs, syncs>>
Gpu == (GpuStep \/ Listeners) /\ UNCHANGED <<bufs, progs>>
WaitingThread == ThreadStep /\ UNCHANGED <<bufs, progs>>

Next ==
    \/ \E c \in alive : ContextStep(c)
    \/ Workers \/ Gpu \/ WaitingThread \/ Ended

Spec == Init /\ [][Next]_vars

\* When compilations and the GPU have finished, the call that waits for them
\* with the mutex goes on and returns.
Quiet == syncs.gpu = <<>> /\ \A i \in Tasks : progs.workers.tasks[i].state \in {"none", "done"}
Resume == lock # NoCall /\ ~Waiting /\ Quiet /\ lock' = NoCall

\* Threads that can run do, and the GPU executes what is committed.
Fairness ==
    /\ WF_vars(Workers) /\ WF_vars(WaitingThread) /\ WF_lock(Resume)
    /\ WF_vars(GpuStep /\ UNCHANGED <<bufs, progs>>)
    /\ WF_vars(Listeners /\ UNCHANGED <<bufs, progs>>)

FairSpec == Spec /\ Fairness
-----------------------------------------------------------------------------
TypeOK ==
    /\ alive \subseteq Contexts /\ lock.op \in client.calls \cup {"none", "DestroyContext"}
    /\ \A n \in Names : bufs.map[n] \in BufferIds \cup {Absent, Reserved}
    /\ \A k \in Pools : progs.workers.pools[k].running \in Nat
    /\ \A c \in Contexts : progs.poolOf[c] \in Pools \cup {0}
    /\ progs.waits = {}
    /\ syncs.pc \in {"running", "armed", "checked", "asleep"}
    /\ Waiting <=> syncs.pc # "running"

\* A shader is kept exactly as long as its name or a program needs it, and a
\* program as long as its name or a context does, in whatever order shared
\* contexts attach, detach, use and delete (ShaderProgramManager, Program and
\* Shader::release).
RefCountsExact ==
    /\ \A n \in {m \in Names : IsShader(progs, m)} :
         LET s == progs.shader[n]
             users == {m \in Names : IsProgram(progs, m) /\ progs.program[m].shaders[s.type] = n}
         IN  s.refs = Cardinality(users) /\ (s.flagged => s.refs > 0)
    /\ \A n \in {m \in Names : IsProgram(progs, m)} :
         LET p == progs.program[n]
         IN  /\ p.refs = Cardinality({c \in Contexts : progs.current[c] = n})
             /\ p.flagged => p.refs > 0
             /\ \A t \in Types : p.shaders[t] = 0 \/ IsShader(progs, p.shaders[t])
    /\ \A c \in Contexts : progs.current[c] = 0 \/ IsProgram(progs, progs.current[c])

\* A shader whose compilation is not pending shows the result for the source
\* it had at its last glCompileShader: translators are lent to one shader at a
\* time, although worker threads write to them without a mutex (Shader.cpp,
\* Compiler::getInstance, TranslateTask).
ResultIsOfItsSource ==
    \A n \in {m \in Names : IsShader(progs, m)} :
        progs.shader[n].status # "pending" => progs.shader[n].translated = progs.shader[n].asked

\* A translator that exists is lent to one pending shader or rests in the pool
\* of the compiler that made it, which still exists; a task that has not
\* finished belongs to a pending shader, whose event keeps its thread pool and
\* whose translator is the one the task uses (Compiler::putInstance,
\* TranslateTask, WaitableCompileEvent).
TranslatorsOwned ==
    /\ \A i \in Translators : progs.translator[i].maker # 0 =>
         LET k == progs.translator[i].maker
             borrowers == {n \in Names : CompilePending(progs, n) /\ progs.shader[n].translator = i}
         IN  /\ k \in CompilersInUse(progs)
             /\ Cardinality(borrowers)
                  + Cardinality({t \in Types : i \in Range(progs.idle[k][t])}) = 1
             /\ \A n \in borrowers : progs.shader[n].compiler = k
    /\ \A i \in Tasks : progs.workers.tasks[i].state # "none" =>
         CompilePending(progs, i) /\ progs.job[i].translator = progs.shader[i].translator

\* No compilation waits in a pool that has a thread to spare, whatever limits
\* glMaxShaderCompilerThreadsKHR sets meanwhile, and the count that says so is
\* right (AsyncWorkerPool).
NoIdleWorker == \A k \in Pools : NoIdleThread(progs.workers, k) /\ RunningExact(progs.workers, k)

\* The program a context uses has its link resolved, so that draws and other
\* contexts never meet a pending link (Context::useProgram, onProgramLink).
InUseIsResolved ==
    \A n \in {m \in Names : IsProgram(progs, m)} :
        progs.program[n].refs > 0 => progs.program[n].resolved

\* When the last context is destroyed nothing is left: the loops of
\* ShaderProgramManager::reset end, which run until their maps are empty, and
\* translators, tasks, buffers and fences are gone.
NothingLeft ==
    alive = {} =>
        /\ \A n \in Names : ~IsShader(progs, n) /\ ~IsProgram(progs, n) /\ bufs.map[n] = Absent
        /\ \A i \in Translators : progs.translator[i] = NoTranslator
        /\ \A i \in Tasks : progs.workers.tasks[i].state = "none"
        /\ \A o \in BufferIds : bufs.refs[o] = 0
        /\ \A s \in Syncs : ~syncs.sync[s].exists

\* A call that waits with the mutex of the share group returns, be it for a
\* compilation, the GPU or a fence; no thread it waits for needs the mutex.
CallsReturn == lock # NoCall ~> lock = NoCall
=============================================================================
