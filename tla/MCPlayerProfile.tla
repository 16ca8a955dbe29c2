--------------------------- MODULE MCPlayerProfile ---------------------------
(* Images of every kind the checks of an upload tell apart. *)
EXTENDS PlayerProfile, TLC

CONSTANTS f1, f2, f3, ana, bob, q1, q2

Image(declared, format, chunks) ==
    [tooLarge |-> FALSE, declared |-> declared, format |-> format, chunks |-> chunks]

SentImages ==
    {Image("png", "png", <<"IHDR", "IEND", "acTL">>),
     Image("png", "png", <<"IHDR", "acTL", "IEND">>),
     Image("webp", "webp", <<"VP8X animated">>),
     Image("png", "webp", <<"VP8X">>),
     Image("gif", "gif", <<>>),
     [Image("jpeg", "jpeg", <<>>) EXCEPT !.tooLarge = TRUE]}

Symmetry == Permutations({f1, f2, f3}) \cup Permutations({q1, q2}) \cup Permutations({ana, bob})

=============================================================================
