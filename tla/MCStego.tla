------------------------------ MODULE MCStego ------------------------------
(* An empty file, one that fits any photo, one for two codewords a symbol. *)
EXTENDS Stego, TLC

CONSTANTS p, q
PassphrasesSymmetry == Permutations({p, q})

MCFiles == {"empty", "small", "big"}
MCBlocks == [f \in MCFiles |-> IF f = "empty" THEN 0 ELSE IF f = "small" THEN 2 ELSE 3]
MCMinK == [f \in MCFiles |-> IF f = "big" THEN 2 ELSE 1]

\* Photos of twelve and of nine channels, and one with sixteen bits a channel.
MCPngs == {[color |-> "Rgba", depth |-> 8, pixels |-> 4],
           [color |-> "Grayscale", depth |-> 8, pixels |-> 3],
           [color |-> "Rgb", depth |-> 16, pixels |-> 4]}

\* A generator that tells seeds apart by the symbol and the file.
MCWord(seed, n) == seed[3] + 2 * seed[4] + 3 * n
=============================================================================
