---------------------------- MODULE MCThreadTurns ----------------------------
EXTENDS ThreadTurns

One == {{1}}
Long == {1..3}
=============================================================================
