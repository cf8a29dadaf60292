----------------------------- MODULE MCMetrics -----------------------------
\* Three buckets, with values on and on both sides of every bound.
EXTENDS Metrics

MCBounds == <<2, 4>>

MCLatency == 0..5

MCPercentile == {<<1, 2>>, <<99, 100>>, <<1, 1>>}
=============================================================================
