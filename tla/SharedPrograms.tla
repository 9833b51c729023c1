--------------------------- MODULE SharedPrograms ---------------------------
(***************************************************************************)
(* Shaders and programs of a share group (Shader.cpp, Program.cpp,         *)
(* ShaderProgramManager), the translators that contexts lend to shaders    *)
(* (Compiler.cpp) and the worker threads that compile (ShaderImpl.cpp).    *)
(*                                                                         *)
(* A call first waits, holding the global mutex, for the compilations that *)
(* it resolves.  The operators below compute what a call does to the state *)
(* p as if they were finished, and collect their tasks in p.waits.         *)
(* Linking is that of ProgramMtl, whose result is known when link returns  *)
(* but is looked at later, by resolveLink.                                 *)
(***************************************************************************)
EXTENDS EntryPoints, HandleAllocator, WorkerPool

CONSTANTS
    Sources,        \* shader sources
    Correct,        \* those that compile
    MaxTranslators, \* bound: translators that exist at a time
    MaxPoolSize,    \* kMaxPoolSize of Compiler::putInstance
    LinkOutcomes    \* subset of {"mismatch", "backend", "ok"}

VARIABLE progs

Types == {"vertex", "fragment", "compute"}

ASSUME ProgramAssumption ==
    /\ Correct \subseteq Sources /\ MaxPoolSize \in Nat
    /\ MaxName <= MaxTasks /\ Cardinality(Contexts) <= MaxPools   \* a context has a pool
    /\ \A k \in Clients :
         k.types \subseteq Types /\ k.counts \subseteq Nat \cup {AllThreads} /\ k.async \in BOOLEAN

Translators == 1..MaxTranslators
Compilers == 1..(Cardinality(Contexts) + MaxName)

NoShader  == [exists |-> FALSE]
NoProgram == [exists |-> FALSE]
NoJob == [translator |-> 0, source |-> "nothing"]
NoTranslator == [maker |-> 0, holds |-> "nothing"]

NewShader(type, source) ==
    [exists |-> TRUE, type |-> type, source |-> source, refs |-> 0, flagged |-> FALSE,
     status |-> "not compiled", translator |-> 0, compiler |-> 0,
     asked |-> "nothing", translated |-> "nothing"]

NewProgram ==
    [exists |-> TRUE, shaders |-> [t \in Types |-> 0], refs |-> 0, flagged |-> FALSE,
     linked |-> FALSE, resolved |-> TRUE, outcome |-> "ok"]

NoneIdle == [t \in Types |-> <<>>]

NewPrograms ==
    [alloc |-> NewAllocator,
     shader  |-> [n \in Names |-> NoShader],
     program |-> [n \in Names |-> NoProgram],
     current |-> [c \in Contexts |-> 0],
     compilerOf |-> [c \in Contexts |-> 0],
     idle |-> [k \in Compilers |-> NoneIdle],   \* mPools: translators not in use
     translator |-> [i \in Translators |-> NoTranslator],
     workers |-> NewWorkers,
     job |-> [i \in Tasks |-> NoJob],      \* what the TranslateTask of a shader was given
     poolOf |-> [c \in Contexts |-> 0],
     waits |-> {}]

IsShader(p, n)  == n \in Names /\ p.shader[n].exists
IsProgram(p, n) == n \in Names /\ p.program[n].exists
CompilePending(p, n) == IsShader(p, n) /\ p.shader[n].status = "pending"
Unused(S, used) == Lowest(S \ used)

-----------------------------------------------------------------------------
(* Translators.                                                             *)

CompilersInUse(p) ==
    {p.compilerOf[c] : c \in Contexts} \cup {p.shader[n].compiler : n \in {m \in Names : IsShader(p, m)}}

\* Compilers nobody refers to are destroyed, with their idle translators.
DropCompilers(p) ==
    LET dead == {k \in Compilers : k \notin CompilersInUse(p)}
        gone == {i \in Translators : \E k \in dead, t \in Types : i \in Range(p.idle[k][t])} IN
    [p EXCEPT !.idle = [k \in Compilers |-> IF k \in dead THEN NoneIdle ELSE @[k]],
              !.translator = [i \in Translators |-> IF i \in gone THEN NoTranslator ELSE @[i]]]

\* Context::getCompiler and mBoundCompiler.set
BindCompiler(p, c, n) ==
    LET k == IF p.compilerOf[c] # 0 THEN p.compilerOf[c] ELSE Unused(Compilers, CompilersInUse(p))
    IN  DropCompilers([p EXCEPT !.compilerOf[c] = k, !.shader[n].compiler = k])

FreeTranslators(p) == {i \in Translators : p.translator[i].maker = 0}

\* Compiler::getInstance: the translator the shader n gets, and its removal.
InstanceFor(p, n) ==
    LET idle == p.idle[p.shader[n].compiler][p.shader[n].type]
    IN  IF idle = <<>> THEN Lowest(FreeTranslators(p)) ELSE Last(idle)

GetInstance(p, n) ==
    LET k == p.shader[n].compiler IN
    [p EXCEPT !.shader[n].translator = InstanceFor(p, n),
              !.translator[InstanceFor(p, n)].maker = IF @ = 0 THEN k ELSE @,
              !.idle[k][p.shader[n].type] = IF @ = <<>> THEN @ ELSE Front(@)]

\* Compiler::putInstance.  The results have been read; the next compilation
\* clears them.
PutInstance(p, n) ==
    LET k == p.shader[n].compiler
        t == p.shader[n].type
        i == p.shader[n].translator IN
    IF Len(p.idle[k][t]) < MaxPoolSize
    THEN [p EXCEPT !.idle[k][t] = Append(@, i), !.translator[i].holds = "nothing",
                   !.shader[n].translator = 0]
    ELSE [p EXCEPT !.translator[i] = NoTranslator, !.shader[n].translator = 0]

-----------------------------------------------------------------------------
(* Shaders.                                                                 *)

\* Mutant: the compilation is not waited for.
ResolveAtOnce(p, n) ==
    IF ~CompilePending(p, n) THEN p
    ELSE LET out == p.translator[p.shader[n].translator].holds IN
         [PutInstance(p, n) EXCEPT
            !.workers.tasks[n] = NoTask, !.job[n] = NoJob,
            !.shader[n].translated = out,
            !.shader[n].status = IF out \in Correct THEN "compiled" ELSE "not compiled"]

\* resolveCompile: wait for the task, read the translator and give it back.
ResolveCompile(p, n) ==
    IF ~CompilePending(p, n) THEN p
    ELSE LET out == p.translator[p.shader[n].translator].holds IN
         [PutInstance(p, n) EXCEPT
            !.waits = @ \cup {n},
            !.workers.tasks[n] = NoTask, !.job[n] = NoJob,
            !.shader[n].translated = out,
            !.shader[n].status = IF out \in Correct THEN "compiled" ELSE "not compiled"]

\* TranslateTask: sh::Compile with the translator and the source it was given
RunTranslation(p, i) == [p EXCEPT !.translator[p.job[i].translator].holds = p.job[i].source]

\* ShaderImpl::compileImpl: the translation is posted, or done at once.
PostTranslation(p, c, n) ==
    LET q == [p EXCEPT !.job[n] = [translator |-> p.shader[n].translator,
                                   source |-> p.shader[n].source],
                       !.workers = PostWorkerTask(@, p.poolOf[c], n)]
    IN  IF p.workers.pools[p.poolOf[c]].async THEN q ELSE RunTranslation(q, n)

Ask(p, n) == [p EXCEPT !.shader[n].status = "pending", !.shader[n].asked = p.shader[n].source,
                       !.shader[n].translated = "nothing"]

\* Mutant: the compiler is bound before the former compilation is resolved.
CompileRebinding(p, c, n) ==
    LET q == ResolveCompile(BindCompiler(p, c, n), n) IN
    PostTranslation(GetInstance(Ask(q, n), n), c, n)

\* Shader::compile
Compile(p, c, n) ==
    LET q == ResolveCompile(p, n) IN
    PostTranslation(GetInstance(BindCompiler(Ask(q, n), c, n), n), c, n)

\* Shader::onDestroy and the erasure of the name
DestroyShader(p, n) ==
    DropCompilers([ResolveCompile(p, n) EXCEPT !.shader[n] = NoShader,
                                               !.alloc = ReleaseName(@, n)])

\* ShaderProgramManager::deleteShader
DeleteShaderObject(p, n) ==
    IF p.shader[n].refs = 0 THEN DestroyShader(p, n) ELSE [p EXCEPT !.shader[n].flagged = TRUE]

\* Mutant: a flagged shader is not deleted when it is detached.
DropShaderRef(p, n) == [p EXCEPT !.shader[n].refs = @ - 1]

\* Shader::release
ReleaseShader(p, n) ==
    IF p.shader[n].refs = 1 /\ p.shader[n].flagged
    THEN DestroyShader([p EXCEPT !.shader[n].refs = 0], n)
    ELSE [p EXCEPT !.shader[n].refs = @ - 1]

-----------------------------------------------------------------------------
(* Programs.                                                                *)

\* resolveLink; the link event of ProgramMtl is done.
ResolveLink(p, n) ==
    IF p.program[n].resolved THEN p
    ELSE [p EXCEPT !.program[n].resolved = TRUE,
                   !.program[n].linked = p.program[n].outcome = "ok"]

\* linkValidateShaders: a compute shader alone, or a fragment and a vertex
\* shader, which are waited for in this order until one is not compiled.
ShadersToLink(p, n) ==
    LET s == p.program[n].shaders
    IN  IF s["compute"] # 0 THEN <<s["compute"]>> ELSE <<s["fragment"], s["vertex"]>>

Mixed(p, n) ==
    LET s == p.program[n].shaders
    IN  s["compute"] # 0 /\ (s["vertex"] # 0 \/ s["fragment"] # 0)

IsCompiled(p, s) == IsShader(p, s) /\ p.shader[s].status = "compiled"

ResolveShaders(p, n) ==
    LET s == ShadersToLink(p, n)
        q == ResolveCompile(p, s[1])
    IN  IF IsCompiled(q, s[1]) THEN ResolveCompile(q, Last(s)) ELSE q

\* Program::link, the outcome being that of the linker and the back end.
LinkProgramObject(p, n, outcome) ==
    LET start == [ResolveLink(p, n) EXCEPT !.program[n].linked = FALSE]
        q == ResolveShaders(start, n)
        s == ShadersToLink(q, n) IN
    IF Mixed(p, n) THEN start
    ELSE IF outcome # "mismatch" /\ \A i \in DOMAIN s : IsCompiled(q, s[i])
    THEN [q EXCEPT !.program[n].resolved = FALSE, !.program[n].outcome = outcome]
    ELSE q

\* Mutant: a link is left for later even if the program is in use.
LinkInParallel(p, n, outcome) == LinkProgramObject(p, n, outcome)

\* Context::linkProgram with onProgramLink
Link(p, n, outcome) ==
    LET q == LinkProgramObject(p, n, outcome) IN
    IF q.program[n].refs > 0 THEN ResolveLink(q, n) ELSE q

\* Program::onDestroy and the erasure of the name
ReleaseAttached(p, n, type) ==
    IF p.program[n].shaders[type] = 0 THEN p ELSE ReleaseShader(p, p.program[n].shaders[type])

DestroyProgram(p, n) ==
    [ReleaseAttached(
       ReleaseAttached(ReleaseAttached(ResolveLink(p, n), n, "vertex"), n, "fragment"), n, "compute")
       EXCEPT !.program[n] = NoProgram, !.alloc = ReleaseName(@, n)]

\* ShaderProgramManager::deleteProgram
DeleteProgramObject(p, n) ==
    IF p.program[n].refs = 0 THEN DestroyProgram(p, n)
    ELSE [ResolveLink(p, n) EXCEPT !.program[n].flagged = TRUE]

\* Program::release
ReleaseProgram(p, n) ==
    IF p.program[n].refs = 1 /\ p.program[n].flagged
    THEN DestroyProgram([p EXCEPT !.program[n].refs = 0], n)
    ELSE [p EXCEPT !.program[n].refs = @ - 1]

LeaveProgram(p, c) ==
    IF p.current[c] = 0 THEN p ELSE ReleaseProgram([p EXCEPT !.current[c] = 0], p.current[c])

\* State::setProgram
SetProgram(p, c, n) ==
    IF p.current[c] = n THEN p
    ELSE LET q == LeaveProgram(p, c) IN
         IF n = 0 THEN q ELSE [q EXCEPT !.current[c] = n, !.program[n].refs = @ + 1]

\* ShaderProgramManager::reset, from the lowest name on.  Objects that are
\* still referenced are only flagged; then a loop that runs until its map is
\* empty does not end.
ClearPrograms(p) ==
    LET cleared[n \in 0..MaxName] ==
          IF n = 0 THEN p
          ELSE LET r == cleared[n - 1] IN IF IsProgram(r, n) THEN DeleteProgramObject(r, n) ELSE r
    IN  cleared[MaxName]

ClearShaders(p) ==
    LET cleared[n \in 0..MaxName] ==
          IF n = 0 THEN p
          ELSE LET r == cleared[n - 1] IN IF IsShader(r, n) THEN DeleteShaderObject(r, n) ELSE r
    IN  cleared[MaxName]

\* Mutant: the shaders are deleted before the programs.
ShadersFirst(p) ==
    LET q == ClearShaders(p) IN IF \E n \in Names : IsShader(q, n) THEN q ELSE ClearPrograms(q)

ResetPrograms(p) ==
    LET q == ClearPrograms(p) IN IF \E n \in Names : IsProgram(q, n) THEN q ELSE ClearShaders(q)

\* The part of Context::onDestroy; last: the managers are destroyed too.
ReleasePrograms(p, c, last) ==
    LET q == LeaveProgram(DropCompilers([p EXCEPT !.compilerOf[c] = 0]), c)
        r == IF last THEN ResetPrograms(q) ELSE q
    IN  [r EXCEPT !.poolOf[c] = 0]

-----------------------------------------------------------------------------
(* The entry points.                                                        *)

ProgramsInit ==
    LET pool == CHOOSE f \in [Contexts -> Pools] : \A c, d \in Contexts : c # d => f[c] # f[d]
    IN  progs = [NewPrograms EXCEPT
                   !.poolOf = [c \in Contexts |-> IF c \in alive THEN pool[c] ELSE 0],
                   !.workers.pools = [k \in Pools |-> NewPool(client.async /\ \E c \in alive : pool[c] = k)]]

\* Pools that a context, or the event of a task, refers to.  The others are gone.
PoolsHeld(p) ==
    {p.poolOf[c] : c \in Contexts} \cup {p.workers.tasks[n].pool : n \in {m \in Names : CompilePending(p, m)}}

DropPools(p) ==
    [p EXCEPT !.workers.pools =
       [k \in Pools |-> IF k \in PoolsHeld(p) THEN @[k] ELSE NewPool(FALSE)]]

Finished(p) == \A i \in p.waits : IsReady(progs.workers, i)

\* The call has the result r, once the compilations it resolves are finished.
\* Until then it waits with the global mutex held.
Perform(call, r) ==
    /\ MayCall(call) \/ Holds(call)
    /\ IF Finished(r)
       THEN progs' = DropPools([r EXCEPT !.waits = {}]) /\ lock' = NoCall
       ELSE MayCall(call) /\ progs' = progs /\ lock' = call
    /\ UNCHANGED <<client, alive>>

Objects == Cardinality({n \in Names : IsShader(progs, n) \/ IsProgram(progs, n)})

\* A call that resolves no compilation.
Returns(call, r) == CallReturns(call) /\ progs' = DropPools(r)

CreateShader(c, type, source) ==
    /\ HasName(progs.alloc) /\ Objects < client.objects
    /\ Returns(Call("CreateShader", c, type, source),
               [progs EXCEPT !.alloc = TakeName(@),
                             !.shader[NextName(progs.alloc)] = NewShader(type, source)])

CreateProgram(c) ==
    /\ HasName(progs.alloc) /\ Objects < client.objects
    /\ Returns(Call("CreateProgram", c, 0, 0),
               [progs EXCEPT !.alloc = TakeName(@), !.program[NextName(progs.alloc)] = NewProgram])

\* glShaderSource does not disturb a compilation of the former source.
ShaderSource(c, n, source) ==
    /\ IsShader(progs, n)
    /\ Returns(Call("ShaderSource", c, n, source), [progs EXCEPT !.shader[n].source = source])

CompileShader(c, n) ==
    /\ IsShader(progs, n)
    /\ Cardinality(FreeTranslators(progs)) > 0
    /\ Perform(Call("CompileShader", c, n, 0), Compile(progs, c, n))

\* glGetShaderiv and all the calls that want to know
GetShader(c, n) ==
    /\ IsShader(progs, n)
    /\ Perform(Call("GetShaderiv", c, n, 0), ResolveCompile(progs, n))

DeleteShader(c, n) ==
    /\ IsShader(progs, n)
    /\ Perform(Call("DeleteShader", c, n, 0), DeleteShaderObject(progs, n))

DeleteProgram(c, n) ==
    /\ IsProgram(progs, n)
    /\ Perform(Call("DeleteProgram", c, n, 0), DeleteProgramObject(progs, n))

\* The validation of these calls resolves a link.
AttachShader(c, n, s) ==
    /\ IsProgram(progs, n) /\ IsShader(progs, s)
    /\ progs.program[n].shaders[progs.shader[s].type] = 0
    /\ Returns(Call("AttachShader", c, n, s),
               [ResolveLink(progs, n) EXCEPT !.program[n].shaders[progs.shader[s].type] = s,
                                             !.shader[s].refs = @ + 1])

DetachShader(c, n, s) ==
    /\ IsProgram(progs, n) /\ IsShader(progs, s)
    /\ progs.program[n].shaders[progs.shader[s].type] = s
    /\ Perform(Call("DetachShader", c, n, s),
               [ReleaseShader(ResolveLink(progs, n), s)
                  EXCEPT !.program[n].shaders[progs.shader[s].type] = 0])

LinkProgram(c, n) ==
    /\ IsProgram(progs, n)
    /\ \E outcome \in LinkOutcomes :
         Perform(Call("LinkProgram", c, n, outcome), Link(progs, n, outcome))

UseProgram(c, n) ==
    /\ n = 0 \/ IsProgram(progs, n)
    /\ LET p == IF n = 0 THEN progs ELSE ResolveLink(progs, n) IN
         /\ n # 0 => p.program[n].linked
         /\ Perform(Call("UseProgram", c, n, 0), SetProgram(p, c, n))

ReleaseShaderCompiler(c) ==
    Returns(Call("ReleaseShaderCompiler", c, 0, 0), DropCompilers([progs EXCEPT !.compilerOf[c] = 0]))

\* Context::maxShaderCompilerThreads
MaxShaderCompilerThreads(c, count) ==
    LET k == progs.poolOf[c]
        new == Unused(Pools, PoolsHeld(progs)) IN
    IF progs.workers.pools[k].async = (count # 0)
    THEN Returns(Call("MaxShaderCompilerThreads", c, count, 0),
                 [progs EXCEPT !.workers = SetMaxThreads(@, k, count)])
    ELSE /\ Pools \ PoolsHeld(progs) # {}
         /\ Returns(Call("MaxShaderCompilerThreads", c, count, 0),
                    [progs EXCEPT !.poolOf[c] = new,
                                  !.workers = SetMaxThreads([@ EXCEPT !.pools[new] = NewPool(count # 0)],
                                                            new, count)])

ProgramCall(c) ==
    \/ \E type \in client.types, source \in client.sources : CreateShader(c, type, source)
    \/ CreateProgram(c) \/ ReleaseShaderCompiler(c)
    \/ \E n \in Names :
         \/ CompileShader(c, n) \/ GetShader(c, n) \/ DeleteShader(c, n) \/ DeleteProgram(c, n)
         \/ LinkProgram(c, n)
         \/ \E source \in client.sources : ShaderSource(c, n, source)
         \/ \E s \in Names : AttachShader(c, n, s) \/ DetachShader(c, n, s)
    \/ \E n \in Names \cup {0} : UseProgram(c, n)
    \/ \E count \in client.counts : MaxShaderCompilerThreads(c, count)

-----------------------------------------------------------------------------
(* The worker threads.                                                      *)

RunTask(i) ==
    /\ progs.workers.tasks[i].state = "running"
    /\ progs' = [RunTranslation(progs, i) EXCEPT !.workers = Left(@, i)]

FinishTask(i) ==
    /\ progs.workers.tasks[i].state = "left"
    /\ progs' = [progs EXCEPT !.workers = Done(@, i)]

WorkerStep ==
    /\ \E i \in Tasks : RunTask(i) \/ FinishTask(i)
    /\ UNCHANGED entryVars
=============================================================================
