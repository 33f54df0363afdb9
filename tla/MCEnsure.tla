------------------------------ MODULE MCEnsure ------------------------------
(***************************************************************************)
(* Two projects with two versions, and the command lines in which the      *)
(* modes, the flags and the arguments meet.                                *)
(***************************************************************************)
EXTENDS Ensure

CONSTANTS a, b

Line(mode, noVendor, dryRun, args) ==
  [mode |-> mode, noVendor |-> noVendor, dryRun |-> dryRun, args |-> args]

Arg(project, pkg, con, source) == [path |-> <<project, pkg>>, con |-> con, source |-> source]

MCCommands ==
  {Line("default", FALSE, FALSE, {}), Line("default", TRUE, FALSE, {}),
   Line("default", TRUE, TRUE, {}), Line("default", FALSE, TRUE, {}),
   Line("vendor-only", FALSE, FALSE, {}), Line("vendor-only", TRUE, FALSE, {}),
   Line("update", FALSE, FALSE, {Arg(a, "root", 0, "")}),
   Line("add", FALSE, FALSE, {}),
   Line("add", TRUE, FALSE, {Arg(a, "root", 1, "fork"), Arg(a, "sub", 0, "")}),
   Line("add", FALSE, FALSE, {Arg(a, "sub", 1, ""), Arg(a, "root", 0, "fork")})}

MCEdits == {{<<a, "root">>}, {<<a, "sub">>, <<b, "root">>}}
=============================================================================
