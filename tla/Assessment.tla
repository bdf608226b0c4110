----------------------------- MODULE Assessment -----------------------------
(***************************************************************************)
(* The deterministic assessment of a saved candidate against its source    *)
(* (assessment/service.py, text_preservation.py, models.py) as a function   *)
(* of what its checks observe.  An observation is a record:                 *)
(*                                                                         *)
(*   source      a source artifact was supplied                            *)
(*   sourceText  the source's media type is text-like                      *)
(*   candText    the candidate's media type is text-like                   *)
(*   comparable  both are UTF-8 text/plain or text/markdown                *)
(*   literals    every critical literal of the source is in the candidate  *)
(*   match       one of the textual comparisons of the policy succeeds     *)
(*   truncated   the parser declared a partial output                      *)
(*   origin      original_source_hash: "none", "same" as the source's or   *)
(*               "other"                                                   *)
(*   openFences  fences CommonMark leaves open;  oddFences: an odd count   *)
(*               of three-backtick runs (the v1 rule)                      *)
(*   replaced    the candidate holds U+FFFD                                *)
(*   blanked     a source that is not blank has a blank candidate          *)
(*   profile     the task profile: "none", "met" or "unmet"                *)
(***************************************************************************)

Policies == {"general-ingestion-v1", "general-ingestion-v2",
             "source-text-preservation-v1"}

DefaultPolicy == "general-ingestion-v2"

Observations ==
  [source : BOOLEAN, sourceText : BOOLEAN, candText : BOOLEAN,
   comparable : BOOLEAN, literals : BOOLEAN, match : BOOLEAN,
   truncated : BOOLEAN, origin : {"none", "same", "other"},
   openFences : BOOLEAN, oddFences : BOOLEAN, replaced : BOOLEAN,
   blanked : BOOLEAN, profile : {"none", "met", "unmet"}]

-----------------------------------------------------------------------------
(* A dimension is an evidence status and a verdict. *)

Passed       == [status |-> "observed", verdict |-> "pass"]
Failed       == [status |-> "observed", verdict |-> "fail"]
Undetermined == [status |-> "unknown", verdict |-> "undetermined"]
NotRequested == [status |-> "not_requested", verdict |-> "undetermined"]
Mismatched   == [status |-> "failed", verdict |-> "fail"]

Dimensions == {Passed, Failed, Undetermined, NotRequested, Mismatched}

Verdict(supported, flawed) ==
  IF ~supported THEN Undetermined ELSE IF flawed THEN Failed ELSE Passed

\* Assessor._fidelity: the critical literals of the source.
LiteralCoverage(o) ==
  Verdict(o.source /\ o.sourceText /\ o.candText, o.truncated \/ ~o.literals)

\* Mutant of TextPreservation: a text that matches nothing counts as evidence of
\* a difference only, and the dimension keeps what the literals said.
LiteralsSuffice(policy, o, d) == d

\* apply_text_preservation: without a match a passing dimension is not proven; a
\* failing one stays failing.
TextPreservation(policy, o, d) ==
  IF /\ policy # "general-ingestion-v1"
     /\ ~(o.source /\ o.comparable /\ o.match)
     /\ d.verdict # "fail"
  THEN Undetermined
  ELSE d

\* Assessor.assess: a declared truncation under the default policy, then the
\* identity of the source, override what the checks found.
Fidelity(policy, o) ==
  IF o.source /\ o.origin = "other" THEN Mismatched
  ELSE IF policy = DefaultPolicy /\ o.truncated THEN Failed
  ELSE TextPreservation(policy, o, LiteralCoverage(o))

\* Assessor._structure.
Structure(policy, o) ==
  Verdict(o.candText,
          IF policy = DefaultPolicy THEN o.openFences ELSE o.oddFences)

\* Assessor._integrity.
Integrity(o) ==
  Verdict(o.candText, o.replaced \/ (o.sourceText /\ o.blanked))

\* Assessor._task_suitability.
TaskSuitability(o) ==
  IF o.profile = "none" THEN NotRequested
                        ELSE Verdict(o.candText, o.profile = "unmet")

\* Assessor._decide: REJECT is never chosen.
Decide(dims) ==
  IF \E d \in dims : d.verdict = "fail" THEN "HOLD"
  ELSE IF \E d \in dims : d.status \in {"unknown", "failed"} THEN "ABSTAIN"
  ELSE "ACCEPT"

Assess(policy, o) ==
  Decide({Fidelity(policy, o), Structure(policy, o), Integrity(o),
          TaskSuitability(o)})
=============================================================================
