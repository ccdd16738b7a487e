---------------------------- MODULE MCSourceFeed ----------------------------
EXTENDS SourceFeed
=============================================================================
