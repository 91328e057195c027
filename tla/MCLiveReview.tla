---------------------------- MODULE MCLiveReview ----------------------------
EXTENDS LiveReview

\* The manager connects first; then it connects again, or somebody joins it.
MCOpens == <<{Manager}, Members>>
===============================================================================
