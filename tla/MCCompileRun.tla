---------------------------- MODULE MCCompileRun ----------------------------
(***************************************************************************)
(* Commands for model checking CompileRun.                                  *)
(***************************************************************************)
EXTENDS CompileRun

Base == [run |-> "compile", from |-> "local", media |-> "markdown",
         gate |-> TRUE, adapter |-> FALSE, safe |-> FALSE, json |-> FALSE,
         profile |-> "none"]

Plain == [Base EXCEPT !.gate = FALSE]

Gated ==
  {Base, [Base EXCEPT !.json = TRUE, !.profile = "unmet"],
   [Base EXCEPT !.run = "package", !.profile = "met"],
   [Base EXCEPT !.media = "html"], [Base EXCEPT !.from = "remote"]}

Ungated ==
  {Plain, [Plain EXCEPT !.from = "unknown"],
   [Plain EXCEPT !.media = "binary", !.adapter = TRUE],
   [Plain EXCEPT !.from = "remote", !.adapter = TRUE],
   [Plain EXCEPT !.run = "validate", !.from = "remote", !.safe = TRUE]}

\* "v2" is "v1" with another layout, "v3" says something else.
MCWording == [c \in Contents |-> IF c = "v3" THEN "other" ELSE "same"]

\* The first process may fail to delete what it has made.
First == CHOOSE p \in Procs : TRUE

MCUndeletable == {First} \X {"fetch", "adapter"}

\* The first process gets any command; the others compile into the same output,
\* with the gate, or without it beside the plainest gated command.
MCCommands ==
  {c \in [Procs -> Gated \cup Ungated] :
     \/ \A p \in Procs \ {First} : c[p] = Base
     \/ c[First] = Base /\ \A p \in Procs \ {First} : c[p] = Plain}
=============================================================================
