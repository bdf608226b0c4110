------------------------------ MODULE Packaging ------------------------------
(* Document packaging (`compile --package`, compiler.compile_package): the    *)
(* plan (packaging/planner.py with policy.route_element), the artifacts       *)
(* (packaging/writer.py), the payload (packaging/payload_builder.py), and the *)
(* command `build-payload` that builds the payload of a package again.        *)
(*                                                                            *)
(* A block is [kind, page, text, ambiguous, table, bytes, small, captioned]:  *)
(* page 0 is None, text says that its content is not blank, bytes that an     *)
(* image's own asset holds its bytes, small and captioned that the metadata   *)
(* of an image give a side below 50 pixels, a caption or an alt_text; table   *)
(* is NoTable, or what the serializations of a structured table cost and      *)
(* whether it is risky and has a bounding box.                                *)
(* Blocks, elements and items are named by their positions.                   *)
EXTENDS Integers, Sequences, FiniteSets, SequencesExt, FiniteSetsExt

CONSTANTS Inputs,       \* [blocks, expected, handed]: expected is the set of [page,
                        \* bbox] where a table was expected and not extracted, bbox
                        \* what the first issue of the page says; handed: the
                        \* validation report is the caller's own
          Profiles,     \* [mode, strategy, refs, warns, uncertain]: mode, how tables
                        \* are serialized, whether they may be referred to, whether
                        \* warnings are items, image_fallback_for_uncertain
          MaxInline,    \* max_inline_table_tokens
          NoTable,
          MaxFaults     \* bound: writes that fail

Kinds == {"marker", "text", "heading", "caption", "table", "image", "math", "group"}
Inline == {"markdown", "tsv", "records"}
Formats == Inline \cup {"preview", "reference"}
\* Records cannot be written for every table.
Costs == [Formats -> Nat] \cup [Formats \ {"records"} -> Nat]
Table == [cost : Costs, omitted : Nat, risky : BOOLEAN, bbox : BOOLEAN]
Block == [kind : Kinds, page : Nat, text : BOOLEAN, ambiguous : BOOLEAN,
          table : Table \cup {NoTable}, bytes : BOOLEAN, small : BOOLEAN,
          captioned : BOOLEAN]
Modes == {"text_first", "adaptive", "fidelity_first"}
Strategies == {"auto", "full_inline", "preview_reference", "reference_only", "json_reference"}

Profile == [mode : Modes, strategy : Strategies, refs : BOOLEAN, warns : BOOLEAN,
            uncertain : BOOLEAN]

ASSUME InputsAssumption ==
  \A d \in Inputs : /\ d.blocks \in Seq(Block) /\ d.handed \in BOOLEAN
                   /\ IsFiniteSet(d.expected) /\ d.expected \subseteq [page : Nat, bbox : BOOLEAN]
ASSUME ProfilesAssumption == Profiles \subseteq Profile
ASSUME FaultsAssumption == MaxFaults \in Nat

VARIABLES document, profile, stage,
          plan,         \* the elements of the DocumentPackagePlan
          todo,         \* the next element PackageWriter.write looks at
          files,        \* what the package holds: <<kind, position>> -> "whole" | "torn"
          refs,         \* asset references: element -> file, first one wins
          visual,       \* elements_with_visual
          failures,     \* asset_failures
          fidelity,     \* PackageFidelityReport: what the writer left without a picture,
                        \* and what it could not write
          payload       \* LLMPayload: items and what it reports
packageVars == <<document, profile, stage, plan, todo, files, refs, visual, failures, fidelity, payload>>

(* The sequences s[1], s[2], ... one after the other.                        *)
Concat(s) ==
  LET upTo[n \in 0..Len(s)] == IF n = 0 THEN <<>> ELSE upTo[n - 1] \o s[n]
  IN upTo[Len(s)]
(* The members of s that are in S, in their order; a set of naturals in      *)
(* order.                                                                    *)
Filtered(s, S) ==
  LET upTo[n \in 0..Len(s)] ==
        IF n = 0 THEN <<>>
        ELSE IF s[n] \in S THEN Append(upTo[n - 1], s[n]) ELSE upTo[n - 1]
  IN upTo[Len(s)]
Ascending(S) == Filtered([n \in 1..Max(S \cup {0}) |-> n], S)

Blocks == document.blocks
Positions == DOMAIN document.blocks

----------------------------------------------------------------------------
(* policy.route_element.  Structural markers and blank blocks are left out;  *)
(* a table is routed by how it was extracted, an image by the mode and its   *)
(* size, a text by how sure its extraction was.                              *)
TextKinds == {"text", "heading", "caption"}
Structured(b) == b.kind = "table" /\ b.table # NoTable
Risky(b) == Structured(b) /\ b.table.risky
Illustrated == profile.mode \in {"fidelity_first", "adaptive"}

Route(b) ==
  CASE b.kind = "marker" -> "omit"
    [] b.kind \in TextKinds /\ ~b.text -> "omit"
    [] b.kind = "table" -> IF Structured(b) THEN "structured_table" ELSE "markdown"
    [] b.kind = "image" -> IF Illustrated /\ ~b.small THEN "image" ELSE "reference_only"
    [] b.kind = "math" -> "markdown"
    [] b.kind = "group" -> "key_value_group"
    [] b.kind \in TextKinds /\ b.text ->
         IF b.ambiguous /\ Illustrated THEN "image_and_text" ELSE "markdown"

NeedsVisualFallback(b) == Risky(b) /\ Illustrated /\ b.table.bbox

(* The caption an image is given: the block after it, else the one before.   *)
Captions == {i \in Positions : Blocks[i].kind = "caption"}
CaptionFor(i) == IF i + 1 \in Captions THEN i + 1
                 ELSE IF i - 1 \in Captions THEN i - 1 ELSE 0
CaptionOf(i) == {j \in Positions : Blocks[j].kind = "image" /\ CaptionFor(j) = i}
(* What its item shows of it: an image's own caption comes first.            *)
GivenTo(i) == IF Blocks[i].captioned THEN 0 ELSE CaptionFor(i)

----------------------------------------------------------------------------
(* plan_document: an element for every block, the crop of a risky table      *)
(* behind its table, and at the end a fallback for every page that was to    *)
(* have a table and has none, in the order of the pages.                     *)
Selected(rep) == rep \notin {"omit", "reference_only"}

BlockElement(i) == [source |-> "block", block |-> i, page |-> Blocks[i].page,
                    rep |-> Route(Blocks[i]), include |-> Selected(Route(Blocks[i])),
                    why |-> "block"]
Crop(i) == [source |-> "page_region", block |-> 0, page |-> Blocks[i].page,
            rep |-> "image", include |-> TRUE, why |-> "visual_fallback"]
ElementsOf(i) == IF NeedsVisualFallback(Blocks[i]) /\ Blocks[i].page # 0
                 THEN <<BlockElement(i), Crop(i)>> ELSE <<BlockElement(i)>>

TablePages == {Blocks[i].page : i \in {j \in Positions : Blocks[j].kind = "table"}}
(* TableExpectationValidator names the page in the message only: the issue   *)
(* of a compile has no page.  A report that a caller of plan_document made   *)
(* has one.                                                                  *)
Missed == IF document.handed THEN document.expected
          ELSE {[page |-> 0, bbox |-> FALSE] : m \in document.expected}
MissedPages == {m.page : m \in Missed} \ (TablePages \cup {0})
PageElement(p) == [source |-> IF [page |-> p, bbox |-> TRUE] \in Missed THEN "page_region" ELSE "page",
                   block |-> 0, page |-> p, rep |-> "image",
                   include |-> profile.mode # "text_first" /\ profile.uncertain,
                   why |-> "expected_not_extracted"]
PageElements == [k \in DOMAIN Ascending(MissedPages) |-> PageElement(Ascending(MissedPages)[k])]

BlockElements == Concat([i \in Positions |-> ElementsOf(i)])

Plan ==
  /\ stage = "plan" /\ stage' = "write"
  /\ plan' = BlockElements \o PageElements
  /\ todo' = 1
  /\ UNCHANGED <<document, profile, files, refs, visual, failures, fidelity, payload>>

----------------------------------------------------------------------------
(* PackageWriter.write, an element at a time.  A write that fails leaves     *)
(* nothing, or a part of the file.                                           *)
Writing == stage = "write" /\ todo <= Len(plan)
Elem == plan[todo]
Step == /\ todo' = todo + 1
        /\ UNCHANGED <<document, profile, stage, plan, fidelity, payload>>

With(f, key, value) == [k \in DOMAIN f \cup {key} |-> IF k = key THEN value ELSE f[k]]
Without(f, key) == [k \in DOMAIN f \ {key} |-> f[k]]
FirstRef(e, file) == IF e \in DOMAIN refs THEN refs ELSE With(refs, e, file)

(* The asset of a block: its own, else the first one of its page that has    *)
(* bytes.                                                                    *)
Assets == {i \in Positions : Blocks[i].kind = "image" /\ Blocks[i].bytes}
AssetOf(i) ==
  LET onPage == {j \in Assets : Blocks[i].page # 0 /\ Blocks[j].page = Blocks[i].page}
  IN CASE i \in Assets -> i
       [] i \notin Assets /\ onPage # {} -> Min(onPage)
       [] OTHER -> 0

Fails(key) == /\ failures < MaxFaults /\ failures' = failures + 1
              /\ files' \in {Without(files, key), With(files, key, "torn")}
Writes(key) == files' = With(files, key, "whole") /\ UNCHANGED failures

WriteTable ==
  /\ Writing /\ Step
  /\ Elem.rep = "structured_table"
  /\ Writes(<<"tables", Elem.block>>) \/ Fails(<<"tables", Elem.block>>)
  /\ refs' = FirstRef(todo, <<"tables", Elem.block>>)
  /\ UNCHANGED visual

(* The file of a key-value group: no reference names it.                     *)
WriteGroup ==
  /\ Writing /\ Step
  /\ Elem.rep = "key_value_group"
  /\ Writes(<<"key_values", Elem.block>>) \/ Fails(<<"key_values", Elem.block>>)
  /\ UNCHANGED <<refs, visual>>

Pictured == Elem.rep \in {"image", "image_and_text", "reference_only"} /\ Elem.block # 0

WriteImage ==
  /\ Writing /\ Step /\ Pictured /\ AssetOf(Elem.block) # 0
  /\ LET file == <<"images", AssetOf(Elem.block)>> IN
     \/ Writes(file) /\ refs' = FirstRef(todo, file) /\ visual' = visual \cup {todo}
     \/ Fails(file) /\ UNCHANGED <<refs, visual>>

(* A page or a region is rendered when PyMuPDF and the source are there; the *)
(* reference of what cannot be rendered names a file that is not written.    *)
WriteRegion ==
  /\ Writing /\ Step
  /\ Elem.rep = "image" /\ Elem.source \in {"page", "page_region"}
  /\ LET file == <<"regions", todo>> IN
     \/ Writes(file) /\ refs' = FirstRef(todo, file) /\ visual' = visual \cup {todo}
     \/ Fails(file) /\ UNCHANGED <<refs, visual>>
     \/ refs' = FirstRef(todo, file) /\ UNCHANGED <<files, visual, failures>>

WriteNothing ==
  /\ Writing /\ Step
  /\ \/ Elem.rep \in {"markdown", "omit"}
     \/ Pictured /\ AssetOf(Elem.block) = 0
  /\ UNCHANGED <<files, refs, visual, failures>>

(* _build_fidelity: the regions and pages without a picture, and the writes  *)
(* that failed.                                                              *)
Fidelity == [unpictured |-> {e \in DOMAIN plan : plan[e].source \in {"page_region", "page"}} \ visual,
             failures |-> failures]

(* package_plan.json is written unguarded: when that fails, the exception    *)
(* leaves compile_package.                                                   *)
WritePlan ==
  /\ stage = "write" /\ todo > Len(plan)
  /\ \/ /\ stage' = "payload" /\ files' = With(files, <<"plan", 0>>, "whole")
        /\ fidelity' = Fidelity /\ UNCHANGED failures
     \/ stage' = "raised" /\ Fails(<<"plan", 0>>) /\ UNCHANGED fidelity
  /\ UNCHANGED <<document, profile, plan, todo, refs, visual, payload>>

----------------------------------------------------------------------------
(* select_table_serialization over build_table_candidates: what is inline    *)
(* whole and cheap enough, else the preview, else the reference; the forms   *)
(* that refer to an artifact only when there is one.                         *)
Candidates(t, prof, artifact) ==
  {[format |-> f, tokens |-> t.cost[f], whole |-> TRUE] : f \in Inline \cap DOMAIN t.cost}
  \cup (IF artifact /\ prof.refs
        THEN {[format |-> "preview", tokens |-> t.cost["preview"], whole |-> t.omitted = 0],
              [format |-> "reference", tokens |-> t.cost["reference"], whole |-> FALSE]}
        ELSE {})

Cheapest(cs) == CHOOSE c \in cs : \A d \in cs : c.tokens <= d.tokens
InFormat(cs, format) == {c \in cs : c.format = format}
(* The preview, the reference, or the cheapest inline form, in that order.   *)
Fallback(cs) == CASE InFormat(cs, "preview") # {} -> Cheapest(InFormat(cs, "preview"))
                  [] InFormat(cs, "preview") = {} -> Cheapest({c \in cs : c.whole})

Eligible(t, mode, c) ==
  /\ c.whole
  /\ IF mode = "fidelity_first" THEN c.tokens <= 3 * t.cost["markdown"]
     ELSE 100 * c.tokens <= 105 * t.cost["markdown"] /\ c.tokens <= MaxInline

Serialized(t, prof, artifact) ==
  LET cs == Candidates(t, prof, artifact)
      whole == {c \in cs : c.whole}
      eligible == {c \in cs : Eligible(t, prof.mode, c)}
      byReference == InFormat(cs, "reference")
  IN CASE prof.strategy \in {"reference_only", "json_reference"} /\ byReference # {} ->
            Cheapest(byReference)
       [] prof.strategy = "reference_only" /\ byReference = {} -> Cheapest(whole)
       [] prof.strategy = "preview_reference" -> Fallback(cs)
       [] prof.strategy = "full_inline" -> Cheapest(whole)
       [] OTHER -> IF eligible # {} THEN Cheapest(eligible) ELSE Fallback(cs)

----------------------------------------------------------------------------
(* build_llm_payload.  Page fallbacks go behind the last element of the last *)
(* page not after theirs, taken from the last fallback to the first; without *)
(* such an element they go to the end.                                       *)
PageFallback(e) == e.source # "block" /\ e.why # "visual_fallback"
Ordinary == Ascending({e \in DOMAIN plan : ~PageFallback(plan[e])})
Fallbacks == Ascending({e \in DOMAIN plan : PageFallback(plan[e])})

InsertAfter(p) ==
  LET pages == {plan[Ordinary[k]].page : k \in DOMAIN Ordinary} \cap 1..p
  IN IF pages = {} THEN 0
     ELSE Max({k \in DOMAIN Ordinary : plan[Ordinary[k]].page = Max(pages)})
Placed(seq, e) == IF InsertAfter(plan[e].page) = 0 THEN Append(seq, e)
                  ELSE InsertAt(seq, InsertAfter(plan[e].page) + 1, e)
\* Mutant: the fallbacks taken from the first to the last.
OrderedForwards ==
  LET after[n \in 0..Len(Fallbacks)] ==
        IF n = 0 THEN Ordinary ELSE Placed(after[n - 1], Fallbacks[n])
  IN after[Len(Fallbacks)]
Ordered ==
  LET after[n \in 0..Len(Fallbacks)] ==
        IF n = 0 THEN Ordinary ELSE Placed(after[n - 1], Fallbacks[Len(Fallbacks) + 1 - n])
  IN after[Len(Fallbacks)]

(* A caption beside an image, whether or not the image was given it.         *)
ConsumedBeside(e) == /\ plan[e].block \in Captions
                     /\ \E i \in Positions \cap {plan[e].block - 1, plan[e].block + 1} :
                          Blocks[i].kind = "image"
(* A caption that belongs to an image goes with the image and is no item of  *)
(* its own.                                                                  *)
Consumed(e) == plan[e].block # 0 /\ CaptionOf(plan[e].block) # {}
Emitted(e) == plan[e].include /\ Selected(plan[e].rep) /\ ~Consumed(e)

FileOf(e, known) == IF e \in DOMAIN known /\ known[e] \in DOMAIN files THEN known[e] ELSE <<>>
(* The table's file as the writer names it, without a look at the package.   *)
TableFileNamed(e) == <<"tables", plan[e].block>>
GroupFile(e) == IF <<"key_values", plan[e].block>> \in DOMAIN files
                THEN <<"key_values", plan[e].block>> ELSE <<>>
TableFile(e) == IF <<"tables", plan[e].block>> \in DOMAIN files
                THEN <<"tables", plan[e].block>> ELSE <<>>

(* A page that was to have a table and of which there is no picture gets a   *)
(* warning, if the profile wants warnings.                                   *)
Unpictured(e, known) == PageFallback(plan[e]) /\ FileOf(e, known) = <<>>

Item(e, prof, known) ==
  LET b == plan[e].block IN
  CASE plan[e].rep = "markdown" ->
         [elem |-> e, type |-> "text", file |-> <<>>, caption |-> 0, whole |-> TRUE]
    [] plan[e].rep = "key_value_group" ->
         [elem |-> e, type |-> "group", file |-> GroupFile(e), caption |-> 0, whole |-> TRUE]
    [] plan[e].rep = "structured_table" ->
         LET s == Serialized(Blocks[b].table, prof, TableFile(e) # <<>>)
         IN [elem |-> e, type |-> "table", file |-> TableFile(e), caption |-> 0, whole |-> s.whole]
    [] plan[e].rep = "image" /\ ~Unpictured(e, known) ->
         [elem |-> e, type |-> "image", file |-> FileOf(e, known),
          caption |-> IF b = 0 THEN 0 ELSE GivenTo(b), whole |-> TRUE]
    [] plan[e].rep = "image" /\ Unpictured(e, known) ->
         [elem |-> e, type |-> "warning", file |-> <<>>, caption |-> 0, whole |-> TRUE]
    [] plan[e].rep = "image_and_text" ->
         [elem |-> e, type |-> "text", file |-> FileOf(e, known), caption |-> 0, whole |-> TRUE]

(* What the payload reports: elements without what they should have, and     *)
(* files that a reference names and that are not there.                      *)
Dangling(e, known) == e \in DOMAIN known /\ FileOf(e, known) = <<>>
Unresolved(e, known) ==
  \/ plan[e].rep = "image" /\ plan[e].source = "block" /\ Dangling(e, known)
  \/ Unpictured(e, known)
  \/ plan[e].rep = "image_and_text" /\ FileOf(e, known) = <<>>

Payload(prof, known) ==
  LET emitted == {e \in DOMAIN plan : Emitted(e)}
      kept == {e \in emitted : prof.warns \/ ~Unpictured(e, known)}
      shown == Filtered(Ordered, kept)
  IN [items |-> [k \in DOMAIN shown |-> Item(shown[k], prof, known)],
      unresolved |-> {e \in emitted : Unresolved(e, known)},
      missing |-> {known[e] : e \in {x \in emitted : plan[x].rep = "image" /\ Dangling(x, known)}},
      mismatches |-> emitted \ kept]

BuildPayload ==
  /\ stage = "payload" /\ stage' = "packaged"
  /\ payload' = Payload(profile, refs)
  /\ UNCHANGED <<document, profile, plan, todo, files, refs, visual, failures, fidelity>>

Defaults(m) == [mode |-> m, strategy |-> "auto", refs |-> TRUE, warns |-> TRUE,
                uncertain |-> TRUE]

(* `aksharamd build-payload --mode m`: the plan and the document are read    *)
(* back, the asset references are not; the other settings are the defaults.  *)
Rebuild(m) ==
  /\ stage = "packaged" /\ stage' = "rebuilt"
  /\ payload' = Payload(Defaults(m), <<>>)
  /\ UNCHANGED <<document, profile, plan, todo, files, refs, visual, failures, fidelity>>

Stopped == stage \in {"raised", "rebuilt"} /\ UNCHANGED packageVars

PackageInit ==
  /\ document \in Inputs /\ profile \in Profiles
  /\ stage = "plan" /\ plan = <<>> /\ todo = 0
  /\ files = <<>> /\ refs = <<>> /\ visual = {} /\ failures = 0
  /\ fidelity = [unpictured |-> {}, failures |-> 0]
  /\ payload = [items |-> <<>>, unresolved |-> {}, missing |-> {}, mismatches |-> {}]

PackageNext == \/ Plan \/ WriteTable \/ WriteGroup \/ WriteImage \/ WriteRegion \/ WriteNothing \/ WritePlan
        \/ BuildPayload \/ (\E m \in Modes : Rebuild(m)) \/ Stopped
PackageSpec == PackageInit /\ [][PackageNext]_packageVars

----------------------------------------------------------------------------
Built == stage \in {"packaged", "rebuilt"}
Items == payload.items
ItemsOf(e) == {k \in DOMAIN Items : Items[k].elem = e}

(* Every selected element is in the payload once: as an item, or, the        *)
(* caption of an image, as the caption of that image's item; and if not, the *)
(* payload reports it, and so does the fidelity report of the package.  A    *)
(* caption may be missing only if it stands beside images none of which      *)
(* shows it: each is left out of the payload or has a caption of its own.    *)
Hidden(i) == /\ CaptionOf(i) # {}
             /\ \A j \in CaptionOf(i) : Route(Blocks[j]) = "reference_only" \/ Blocks[j].captioned
EverySelectedAccounted ==
  Built => \A e \in DOMAIN plan : plan[e].include =>
    \/ Cardinality(ItemsOf(e)) = 1
    \/ /\ ItemsOf(e) = {}
       /\ \/ e \in payload.unresolved \cap payload.mismatches \cap fidelity.unpictured
          \/ \E k \in DOMAIN Items : Items[k].caption # 0 /\ Items[k].caption = plan[e].block
          \/ Hidden(plan[e].block)
(* No caption is lost at all: does not hold.                                 *)
CaptionsShown ==
  Built => \A e \in DOMAIN plan : plan[e].include /\ plan[e].block \in Captions =>
    \/ ItemsOf(e) # {}
    \/ \E k \in DOMAIN Items : Items[k].caption = plan[e].block

(* What a table does not say in its item is in a file that its item names    *)
(* and that exists; and if that file is not whole, the fidelity report       *)
(* counts a failure.                                                         *)
RowsReachable ==
  Built => \A k \in DOMAIN Items : Items[k].type = "table" =>
    \/ Items[k].whole
    \/ /\ Items[k].file \in DOMAIN files
       /\ files[Items[k].file] = "torn" => fidelity.failures > 0

(* The payload reads in the order of the document; the fallback of a page    *)
(* stands behind what there is of the pages up to it and before what there   *)
(* is of later ones, unless nothing of the document is that early.           *)
Early(e) == PageFallback(e) /\ InsertAfter(e.page) # 0
InReadingOrder ==
  Built => \A k, l \in DOMAIN Items : k < l =>
    LET a == plan[Items[k].elem] b == plan[Items[l].elem] IN
    /\ a.block # 0 /\ b.block # 0 => a.block < b.block
    /\ Early(a) /\ Early(b) => a.page < b.page
    /\ Early(b) /\ ~PageFallback(a) => a.page <= b.page
    /\ Early(a) /\ ~PageFallback(b) /\ b.page # 0 => a.page <= b.page

(* Where pictures are wanted, a page that was to have a table and has none   *)
(* is in the plan as a page or a region to render (tests/test_packaging.py). *)
ExpectedTablesPictured ==
  Built /\ profile.mode # "text_first" /\ profile.uncertain =>
    \A m \in document.expected : m.page \notin TablePages =>
      \E e \in DOMAIN plan : PageFallback(plan[e]) /\ plan[e].page = m.page

=============================================================================
