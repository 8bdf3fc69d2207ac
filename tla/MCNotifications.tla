-------------------------- MODULE MCNotifications --------------------------
(* Model values of Notifications for TLC. *)
EXTENDS Notifications, TLC

\* Every subscription listens to every event.
MCListens == Subscription \X Event

\* The first subscription files its mails.
MCRecorded == {CHOOSE s \in Subscription : TRUE}

WorkersAndReports == Permutations(Worker) \cup Permutations(ReportId)
=============================================================================
