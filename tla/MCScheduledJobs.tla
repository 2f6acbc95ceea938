--------------------------- MODULE MCScheduledJobs ---------------------------
(***************************************************************************)
(* Values for the runs of ScheduledJobs.                                   *)
(***************************************************************************)
EXTENDS ScheduledJobs

CONSTANTS u1, u2, o1, w1, w2, none

Ids == [u \in {u1, u2} |-> IF u = u1 THEN 1 ELSE 2]

On(kind, day) == [kind |-> kind, day |-> day, startup |-> kind = "NOTIFY"]
TheSchedules ==
    {{On("EXPIRE", 2)}, {On("BIRTHDAY", 1)}, {On("ANNUAL", 1)}, {On("NOTIFY", 1)}}
OneNotification == {{On("NOTIFY", 1)}}

\* Points that renew an expiry and count for the year, and dates of birth.
Changes ==
    {[op |-> "ADMIN", user |-> u, amount |-> 2] : u \in {u1, u2}}
      \cup {[op |-> "DOB", user |-> u, day |-> 1] : u \in {u1, u2}}
=============================================================================
