--------------------------- MODULE MCBlockStages ---------------------------
(* Documents of up to three blocks out of a small stock, of five blocks of   *)
(* prose, of four tables, and of five blocks with tables that are stitched   *)
(* twice, under three settings of the chunker: with and without overlap, and *)
(* with a minimum above the maximum (a --chunk-size below the fixed 50).     *)
EXTENDS BlockStages, TLC

B(kind, level, page, size) ==
  [kind |-> kind, level |-> level, page |-> page, size |-> size, white |-> FALSE]
TableOf(page, heads, rows, head, foot, top) ==
  B("table", 0, page, 9) @@ [heads |-> heads, rows |-> rows, head |-> head, cols |-> 2,
                             foot |-> foot, top |-> top, origin |-> <<>>]
Stock == {B("heading", 1, 1, 1), B("heading", 2, 1, 2),
          B("paragraph", 0, 0, 1), B("paragraph", 0, 1, 1), B("paragraph", 0, 1, 3),
          [B("paragraph", 0, 1, 0) EXCEPT !.white = TRUE],
          [B("list", 0, 1, 1) EXCEPT !.white = TRUE],
          B("image", 0, 0, 0),
          B("group", 0, 1, 2),
          TableOf(1, 1, <<1, 1, 1, 5>>, "a", FALSE, FALSE),
          TableOf(1, 1, <<1>>, "b", FALSE, FALSE)}
Numbered(s) ==
  [i \in DOMAIN s |-> s[i] @@ [facts |->
     IF s[i].kind = "table" THEN [r \in DOMAIN s[i].rows |-> <<i, r>>] ELSE <<<<i, 0>>>>]]
Prose == {B("heading", 1, 1, 1), B("paragraph", 0, 0, 1), B("paragraph", 0, 1, 1),
          B("paragraph", 0, 1, 2), B("paragraph", 0, 1, 3)}
(* Tables on the pages 1 to 3, with the same header or another, at the edge  *)
(* of the page or not, and what may stand between them.                      *)
TableStock == {TableOf(1, 1, <<1, 1>>, "a", TRUE, FALSE), TableOf(1, 1, <<1>>, "b", FALSE, FALSE),
           TableOf(2, 1, <<1, 1, 2>>, "a", FALSE, FALSE), TableOf(2, 1, <<1>>, "a", FALSE, FALSE),
           TableOf(2, 1, <<1, 1>>, "b", TRUE, TRUE), TableOf(3, 1, <<1, 1>>, "b", FALSE, TRUE),
           B("heading", 1, 2, 1), B("paragraph", 0, 1, 1)}
(* Two rounds of stitching: four tables over the pages 1, 2, 2, 3 with the   *)
(* same header, of which the first round joins the first to the second and   *)
(* the third to the fourth.                                                  *)
Restitched == {TableOf(1, 1, <<1, 1>>, "a", FALSE, FALSE), TableOf(2, 1, <<1>>, "a", FALSE, FALSE),
               TableOf(3, 1, <<1, 1>>, "a", FALSE, FALSE), B("paragraph", 0, 1, 1)}
MaxBlocks == 3
MaxProse == 5
MCSources == {Numbered(s) : s \in UNION {[1..n -> Stock] : n \in 0..MaxBlocks}
                                 \cup [1..MaxProse -> Prose]
                                 \cup [1..4 -> TableStock]
                                 \cup [1..5 -> Restitched]}
MCLimits == {[max |-> 4, min |-> 2, overlap |-> 2], [max |-> 3, min |-> 1, overlap |-> 0],
             [max |-> 2, min |-> 3, overlap |-> 1]}
=============================================================================
