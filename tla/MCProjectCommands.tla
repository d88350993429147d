-------------------------- MODULE MCProjectCommands --------------------------
(* ProjectCommands with launches of one command that exclude each other in  *)
(* different ways: by workspace, by directory and by project.               *)
EXTENDS ProjectCommands

CONSTANTS build, local, checkout

LaunchOf(mode, w, cwd) == [command |-> build, source |-> local, workspace |-> w, cwd |-> cwd, mode |-> mode]

\* A workspace by its id, its directory without the id, and a launch that
\* excludes every other one of the project.
MCRequests ==
  {LaunchOf("workspace", checkout, "here"), LaunchOf("workspace", Null, "here"), LaunchOf("project", Null, "there")}

MCOneRequest == {LaunchOf("project", Null, "here")}
=============================================================================
