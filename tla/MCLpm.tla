-------------------------------- MODULE MCLpm --------------------------------
(* An instance of LpmTrie for TLC: 2-bit v4 addresses, v6 of two bytes of   *)
(* two bits; nested prefixes with host bits set, and texts that are refused.*)
EXTENDS LpmTrie, Sequences

T(colon, bits, mask) ==
  [colon |-> colon, bits |-> [i \in 0 .. Len(bits) - 1 |-> bits[i + 1]],
   empty |-> FALSE, slash |-> TRUE, number |-> mask]
SampleTexts ==
  { T(FALSE, <<1, 1>>, {0}), T(FALSE, <<1, 1>>, {1}), T(FALSE, <<1, 0>>, {1}),
    [T(FALSE, <<1, 0>>, {}) EXCEPT !.slash = FALSE],      \* a host route
    [T(FALSE, <<>>, {0}) EXCEPT !.empty = TRUE],           \* "/0"
    T(TRUE, <<1, 0, 1, 1>>, {0}), T(TRUE, <<1, 0, 1, 1>>, {2}),
    T(TRUE, <<1, 0, 1, 1>>, {3}), T(TRUE, <<1, 0, 1, 0>>, {3}),
    T(FALSE, <<1, 1>>, {3}), T(FALSE, <<1, 1>>, {-1}), T(FALSE, <<1, 1>>, {}),
    T(TRUE, <<1, 1>>, {1}) }
AllAddr == Addr
==============================================================================
