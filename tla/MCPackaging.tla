---------------------------- MODULE MCPackaging ----------------------------
(* Documents of up to three blocks on one or two pages, the warnings on the  *)
(* pages 1 to 3, and the profiles the command line and the API give.         *)
EXTENDS Packaging

B(kind) == [kind |-> kind, page |-> 1, text |-> TRUE, ambiguous |-> FALSE,
            table |-> NoTable, bytes |-> FALSE, small |-> FALSE, captioned |-> FALSE]
Cost(md, tsv, preview) ==
  [f \in {"markdown", "tsv", "preview", "reference"} |->
     CASE f = "markdown" -> md [] f = "tsv" -> tsv [] f = "preview" -> preview
       [] f = "reference" -> 1]
Small == [cost |-> Cost(4, 3, 5), omitted |-> 0, risky |-> TRUE, bbox |-> TRUE]
Large == [cost |-> Cost(40, 30, 9), omitted |-> 20, risky |-> FALSE, bbox |-> FALSE]
Stock == {B("text"), [B("text") EXCEPT !.ambiguous = TRUE], B("caption"), B("marker"), B("group"),
          B("image"), [B("image") EXCEPT !.bytes = TRUE],
          [B("table") EXCEPT !.table = Small], [B("table") EXCEPT !.table = Large]}
Prose == {B("text"), B("caption"), [B("image") EXCEPT !.bytes = TRUE]}
(* Captions among images that show them and images that do not.              *)
Pictures == {B("caption"), B("image"), [B("image") EXCEPT !.small = TRUE],
             [B("image") EXCEPT !.captioned = TRUE]}
(* The first block is on the page given, every later one on it or the next.  *)
OnPages(bs, from, turn) == [i \in DOMAIN bs |-> [bs[i] EXCEPT !.page = IF i < turn THEN from ELSE from + 1]]
Texts == {OnPages(bs, from, turn) :
            bs \in (UNION {[1..n -> Stock] : n \in 0..2}) \cup [1..3 -> Prose],
            from \in {1, 2}, turn \in {2, 3}}
Warned(pages) == {[page |-> p, bbox |-> p = 1] : p \in pages}
(* A compile expects tables only on pages with blocks and without a table.   *)
Bare(bs) == {bs[i].page : i \in DOMAIN bs} \
            {bs[i].page : i \in {j \in DOMAIN bs : bs[j].kind = "table"}}
Compiled == {OnPages(bs, 1, turn) : bs \in [1..2 -> Prose], turn \in {2, 3}}
Illustrations == {OnPages(bs, 1, 3) : bs \in [1..3 -> Pictures]}
MCInputs ==
  {[blocks |-> bs, expected |-> Warned(m), handed |-> TRUE] : bs \in Texts, m \in {{}, {1, 3}, {2, 3}}}
  \cup {[blocks |-> bs, expected |-> Warned(Bare(bs)), handed |-> FALSE] : bs \in Compiled}
  \cup {[blocks |-> bs, expected |-> {}, handed |-> FALSE] : bs \in Illustrations}
Cli == {Defaults(m) : m \in Modes}
MCProfiles == Cli \cup {[Defaults("adaptive") EXCEPT !.strategy = "preview_reference", !.warns = FALSE],
                       [Defaults("adaptive") EXCEPT !.strategy = "json_reference", !.uncertain = FALSE],
                       [Defaults("adaptive") EXCEPT !.strategy = "reference_only"],
                       [Defaults("text_first") EXCEPT !.strategy = "full_inline", !.refs = FALSE]}
=============================================================================
