--------------------------- MODULE MCUserSessions ---------------------------
EXTENDS UserSessions, TLC

\* Threads are alike, and so are users, tenants and sessions.
Alike == Permutations(Thread) \cup Permutations(User)
           \cup Permutations(Tenant) \cup Permutations(Session)
=============================================================================
