----------------------------- MODULE MCOptical -----------------------------
(* An empty file, a small one, one for two codewords a symbol, a huge one. *)
EXTENDS Optical

MCFiles == {"empty", "small", "big", "huge"}
MCBlocks ==
    [f \in MCFiles |-> CASE f = "empty" -> 0 [] f = "small" -> 2 [] f = "big" -> 5 [] f = "huge" -> 8]
MCMinK == [f \in MCFiles |-> IF f \in {"big", "huge"} THEN 2 ELSE 1]

Shape(kind, w, h) == [kind |-> kind, w |-> w, h |-> h]
MCShapes ==
    {Shape("Square", 0, 0), Shape("WidthHeight", 3, 2), Shape("WidthHeight", 4, 2),
     Shape("WidthHeight", 9, 1), Shape("WidthHeight", 0, 4), Shape("Aspect", 2, 4),
     Shape("Aspect", 3, 2), Shape("Aspect", 9, 1), Shape("Aspect", 6, 6),
     Shape("Aspect", 0, 0), Shape("malformed", 0, 0),
     \* Sides past a u32; a size past an isize, and past a u64, with more and
     \* with less left of it than the streams have.
     Shape("Aspect", 8, 1), Shape("WidthHeight", 15, 5), Shape("WidthHeight", 14, 7),
     Shape("WidthHeight", 15, 6), Shape("WidthHeight", 15, 9), Shape("Aspect", 13, 7)}

MCHeader(flags, k, total, reserved, len) ==
    [flags |-> flags, k_global |-> k, total_symbols |-> total, reserved |-> reserved,
     payload_len |-> len]
\* Other flags, other ways to cut the payload, and each field that is refused.
MCHeaders ==
    {MCHeader(1, 1, 2, 0, 6), MCHeader(1, 2, 1, 0, 6), MCHeader(0, 1, 1, 0, 3),
     MCHeader(0, 2, 2, 0, 12), MCHeader(0, 2, 4, 0, 24), MCHeader(0, 1, 2, 1, 6),
     MCHeader(0, 0, 2, 0, 0), MCHeader(0, 1, 0, 0, 0), MCHeader(0, 1, 2, 0, 5)}
=============================================================================
