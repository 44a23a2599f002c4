------------------------------ MODULE MCLogFilter ------------------------------
(* Two bytes of modules, one byte of tags and of levels, as in the code for *)
(* levels.  The numbers are the ends of the bytes and what lies outside.    *)
EXTENDS LogFilter

MCModIds == {-1, 0, 15, 16}
MCTagIds == {4, 300}
MCLevelIds == {-1, 3, 8}

\* Level 3 and 7 alone, with a facility (bits 3-9), with NENG_LOG_FLAG_SYNC.
MCWords == {3, 7, 3 + 8, 7 + 65536}
=============================================================================
