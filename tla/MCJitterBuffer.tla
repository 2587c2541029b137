--------------------------- MODULE MCJitterBuffer ---------------------------
(* Small instances of JitterBuffer for TLC. *)
EXTENDS JitterBuffer

\* Packets of one burst, or one period apart: audio at 44100 Hz in frames of
\* 882 samples, video at 90000 Hz and 25 frames a second.
AudioGaps == {0, 20}
VideoGaps == {0, 40}
=============================================================================
