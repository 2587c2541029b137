---------------------------- MODULE MCMediaPath ----------------------------
(* Small instances of MediaReports for TLC. *)
EXTENDS MediaReports

NalOf(t, n) == [nri |-> 3, type |-> t, body |-> [i \in 1..n |-> 10 * t + i]]

\* Exactly the payload limit; two full fragments; a last fragment of one byte.
Nals == {NalOf(1, 5), NalOf(5, 6), NalOf(5, 7)}
BigNal == {NalOf(5, 6)}

\* One that fits into a packet, one that does not.
AacFrames == {<<201>>, <<201, 202, 203>>}
BlockOf(n) == [ssrc |-> n, fraction |-> 1, lost |-> <<n, 2, 3>>, highest |-> 4,
             jitter |-> 5, lsr |-> 6, dlsr |-> 7]

\* None, one, as many as the counter holds, and one more than that.
SomeBlocks == {<<>>, <<BlockOf(9)>>, <<BlockOf(1), BlockOf(2), BlockOf(3)>>,
               <<BlockOf(1), BlockOf(2), BlockOf(3), BlockOf(4)>>}

\* The names on both sides of a word boundary.
NameSizes == {5, 6}
NoBlocks == {<<>>}

OneAac == {<<201, 202, 203>>}
=============================================================================
