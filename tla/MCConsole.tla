------------------------------ MODULE MCConsole ------------------------------
\* The query keys that the run follows: the one whose rows stand in for another page, one
\* whose rows stay on screen after a failed read, one that goes on being counted, and one
\* that is read under /auth.
EXTENDS Console

FollowedKeys == {"bookings", "credentials", "lapsed", "invites"}
=============================================================================
