---------------------------- MODULE MCRateLimiter ----------------------------
EXTENDS RateLimiterHistory

\* Every product that may come out too low does, so that the limiter forgets as much
\* of the previous window as it can.
AllDown == MayRoundDown

=============================================================================
