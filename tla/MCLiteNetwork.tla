--------------------------- MODULE MCLiteNetwork ---------------------------
(* Small instances of LiteExtern for TLC: networks that need little memory *)
(* or more, one of them with a second device model that needs the most;    *)
(* two of them with external operators, and with the same library.         *)
EXTENDS LiteExtern, TLC

Small == [memory |-> <<1>>, input |-> <<TRUE>>]
Larger == [memory |-> <<2>>, input |-> <<FALSE>>]
TwoModels == [memory |-> <<1, 3>>, input |-> <<TRUE, TRUE>>]
MCFiles == {Small, Larger, TwoModels}
MCOperators == [f \in MCFiles |-> IF f = Small THEN <<>> ELSE IF f = Larger THEN <<"x">> ELSE <<"y", "x">>]
MCLibrary == [f \in MCFiles |-> IF f = Small THEN <<>> ELSE <<"x", "y">>]
Symmetric == Permutations(Networks)
=============================================================================
