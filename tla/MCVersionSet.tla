---------------------------- MODULE MCVersionSet ----------------------------
\* The ranges a client compacts by hand, for the runs of VersionSet.
EXTENDS VersionSet

NoRange == {}
SingleKeys == {<<k, k>> : k \in 1 .. MaxKey}
=============================================================================
