-------------------------------- MODULE MCRetry --------------------------------
(* The default policy in units of a quarter of a second, but for a MaxDelay *)
(* that its backoff reaches, with durations of 21 bits: Half is 2^20, so    *)
(* 262144 seconds overflow where 2^63 ns would.                             *)
EXTENDS Retry

\* No header, a negative one, ones around MaxDelay, the largest that fits.
MCHeaders == {-1, 0, 1, 2, 3, 30, 262143}

\* No header, less than a unit of the clock, about the first delay, beyond MaxDelay.
MCMillis == {NoMillis, 0, 1, 5, 400}

NoMillisOnly == {NoMillis}

\* One second more than fits.
OverflowHeaders == {0, 262144}
=============================================================================
