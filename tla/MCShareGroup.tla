---------------------------- MODULE MCShareGroup ----------------------------
(* Instances of ShareGroup: what its clients do. *)
EXTENDS ShareGroup

Client(contexts, calls, objects, types, sources, counts, async) ==
    [contexts |-> contexts, calls |-> calls, objects |-> objects, types |-> types,
     sources |-> sources, counts |-> counts, async |-> async]

\* Shaders whose sources change while they are compiled.
Compiling ==
    Client({"c1"}, {"CreateShader", "ShaderSource", "CompileShader", "GetShaderiv",
                    "ReleaseShaderCompiler"}, 2, {"vertex"}, Sources, {}, TRUE)

\* Shaders that two contexts compile.
Sharing ==
    Client(Contexts, {"CreateShader", "CompileShader", "GetShaderiv", "DeleteShader"},
           2, {"vertex"}, {"good"}, {}, TRUE)

\* Thread pools of any limit.
Threading ==
    Client({"c1"}, {"CreateShader", "CompileShader", "GetShaderiv", "MaxShaderCompilerThreads"},
           2, {"vertex"}, {"good"}, {0, 1, AllThreads}, TRUE)

\* Programs that two contexts link and use.
Linking ==
    Client(Contexts, {"CreateShader", "CompileShader", "CreateProgram", "AttachShader",
                      "LinkProgram", "UseProgram", "DeleteProgram"},
           3, {"vertex", "fragment"}, {"good"}, {}, FALSE)

\* Programs whose shaders are still compiled while they are linked, detached
\* and deleted.
Pending ==
    Client({"c1"}, Linking.calls \cup {"DetachShader", "DeleteShader"},
           2, {"compute"}, {"good"}, {}, TRUE)
Validating ==
    Client({"c1"}, {"CreateShader", "CompileShader", "CreateProgram", "AttachShader", "LinkProgram"},
           3, Types, {"good"}, {}, TRUE)

Naming == Client(Contexts, {"GenBuffers", "BindBuffer", "DeleteBuffers"}, 0, {}, {}, {}, FALSE)

\* Fences of the share group and of a context.
Syncing ==
    Client(Contexts, {"DrawArrays", "Flush", "FenceSync", "DeleteSync", "WaitSync", "ClientWaitSync"},
           0, {}, {}, {}, FALSE)
Fencing ==
    Client(Contexts, {"DrawArrays", "Flush", "Finish", "SetFenceNV", "FinishFenceNV"},
           0, {}, {}, {}, FALSE)

AllClients == {Compiling, Sharing, Threading, Linking, Pending, Validating, Naming, Syncing, Fencing}
=============================================================================
