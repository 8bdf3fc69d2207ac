------------------------------- MODULE Users -------------------------------
\* The people who ask, submit, review and approve.
CONSTANTS User, NoUser

ASSUME UsersAssumption == NoUser \notin User
=============================================================================
