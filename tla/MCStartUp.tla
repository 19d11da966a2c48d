------------------------------ MODULE MCStartUp ------------------------------
(* Dumps of up to MaxLines lines over two rates and a few panel sizes, with *)
(* ids that are distinct, as SurfaceFlinger's are, where nothing else       *)
(* happens; and usual dumps where threads interleave.                       *)
EXTENDS StartUp

CONSTANTS MaxLines, panel

Sizes == {<<1, 2>>, <<2, 4>>, <<4, 3>>}

LineSet(format, k) ==
    {[prefix |-> p, indented |-> ind, id |-> k, width |-> size[1],
      height |-> size[2], rate |-> r, peak |-> 3] :
        p \in {format, "other"}, size \in Sizes, r \in {0, 2}, ind \in BOOLEAN}

LineSeqs(format) ==
    UNION {{s \in [1..n -> UNION {LineSet(format, k) : k \in 1..n}] :
              \A k \in 1..n : s[k].id = k} : n \in 0..MaxLines}

MCDumps ==
    UNION {{[format |-> f, lines |-> s] : s \in LineSeqs(f)}
             : f \in {"mSfDisplayModes", "mSupportedModes"}}
    \cup {[format |-> "none", lines |-> <<>>]}

Usual ==
    [format |-> "mSfDisplayModes",
     lines |-> <<[prefix |-> "mSfDisplayModes", indented |-> TRUE, id |-> 1, width |-> 1,
                  height |-> 2, rate |-> 2, peak |-> 3]>>]

Good(n) == [policies |-> TRUE, idleDelay |-> TRUE, version |-> n]

\* A start with some texts and a bound on the key events and the moves.
With(texts, keys, moves) ==
    {[dump |-> Usual, texts |-> texts, screen |-> s, keys |-> keys, moves |-> moves] :
        s \in {"on", "off"}}

MCStarts ==
    {[dump |-> d, texts |-> <<Good(1)>>, screen |-> "on", keys |-> 0, moves |-> 0] : d \in MCDumps}
    \cup With(<<Good(1)>>, 2, 1)
    \cup With(<<Good(1), Good(2)>>, 1, 0)
    \cup With(<<Good(1), Broken, Good(2)>>, 0, 0)
    \cup With(<<Good(1), Good(2), Good(3)>>, 0, 0)
    \cup UNION {With(t, 0, 1) : t \in
            {<<Broken>>, <<Empty>>, <<Good(1), Empty>>,
             <<Good(1), [Good(2) EXCEPT !.idleDelay = FALSE]>>}}
==============================================================================
