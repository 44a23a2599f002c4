------------------------------ MODULE MCLogSyslog ------------------------------
(* Facilities are multiples of 8, severities 3 (error) and 5 (notice). *)
EXTENDS LogSyslog

MCFacilities == {0, 8}

\* A filter without a facility, and two that overlap.
MCFilters == {[facility |-> 0, levels |-> {3}], [facility |-> 16, levels |-> {3, 5}],
              [facility |-> 24, levels |-> {3}]}

\* Severities alone, with a facility, with NENG_LOG_FLAG_SYNC as well.
MCWords == {3, 5 + 32, 5 + 65536, 3 + 32 + 65536}
=============================================================================
